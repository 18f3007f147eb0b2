--------------------------- MODULE SubmissionsProofs ---------------------------
(***************************************************************************)
(* The properties of Submissions for any users, requests, readers, limit,  *)
(* window and page size.                                                   *)
(***************************************************************************)
EXTENDS Submissions, TLAPS, FiniteSetTheorems, SequenceTheorems,
        WellFoundedInduction

-----------------------------------------------------------------------------
(* Induction.  A set of counterexamples that is not empty has a smallest.  *)

LEMMA Smallest ==
    ASSUME NEW B, B \subseteq Nat, B # {}
    PROVE  \E m \in B : \A n \in B : m <= n
  <1>1. IsWellFoundedOn(OpToRel(<, Nat), Nat)
    BY NatLessThanWellFounded
  <1>2. PICK m \in B : \A n \in B : ~ (<<n, m>> \in OpToRel(<, Nat))
    BY <1>1, WFMin
  <1>3. \A n \in B : ~ (n < m)
    BY <1>2 DEF OpToRel
  <1>. QED  BY <1>3

LEMMA SmallestSet ==
    ASSUME NEW S, IsFiniteSet(S), NEW B \in SUBSET (SUBSET S), B # {}
    PROVE  \E T \in B : \A x \in T : T \ {x} \notin B
  <1> DEFINE sizes == {Cardinality(T) : T \in B}
  <1>1. \A T \in SUBSET S : IsFiniteSet(T) /\ Cardinality(T) \in Nat
    BY FS_Subset, FS_CardinalityType
  <1>2. sizes \subseteq Nat /\ sizes # {}
    BY <1>1
  <1>3. PICK m \in sizes : \A n \in sizes : m <= n
    <2>. HIDE DEF sizes
    <2>. QED  BY <1>2, Smallest
  <1>4. PICK T \in B : Cardinality(T) = m
    OBVIOUS
  <1>5. ASSUME NEW x \in T, T \ {x} \in B
        PROVE  FALSE
    <2>1. Cardinality(T \ {x}) = Cardinality(T) - 1
      BY <1>1, FS_RemoveElement
    <2>2. Cardinality(T) <= Cardinality(T \ {x})
      BY <1>3, <1>4, <1>5
    <2>. QED  BY <1>1, <2>1, <2>2
  <1>. QED  BY <1>5

-----------------------------------------------------------------------------
(* The sum over a finite set, and how it loses an element.                 *)

SetSum(f, S) == MapThenSumSet(LAMBDA a : f[a], S)

Some(T) == CHOOSE x \in T : TRUE

\* h[T] is the sum over T, for the sets T in D.
Sums(h, f, D) ==
    h = [T \in D |-> IF T = {} THEN 0 ELSE f[Some(T)] + h[T \ {Some(T)}]]

LEMMA SumsExist ==
    ASSUME NEW f, NEW S, IsFiniteSet(S)
    PROVE  \E h : Sums(h, f, SUBSET S)
  <1> DEFINE D(k) == {T \in SUBSET S : Cardinality(T) <= k}
             Bad == {k \in Nat : ~ \E h : Sums(h, f, D(k))}
  <1>1. \A T \in SUBSET S : /\ IsFiniteSet(T) /\ Cardinality(T) \in Nat
                            /\ Cardinality(T) <= Cardinality(S)
                            /\ \A x \in T : Cardinality(T \ {x}) = Cardinality(T) - 1
    BY FS_Subset, FS_CardinalityType, FS_RemoveElement
  <1>2. Cardinality(S) \in Nat /\ SUBSET S = D(Cardinality(S))
    BY <1>1
  <1>3. SUFFICES ASSUME Bad # {} PROVE FALSE
    BY <1>2
  <1>4. PICK k \in Nat : k \in Bad /\ \A n \in Nat : n < k => n \notin Bad
    <2>1. Bad \subseteq Nat
      OBVIOUS
    <2>. HIDE DEF Bad
    <2>2. PICK k \in Bad : \A n \in Bad : k <= n
      BY <1>3, <2>1, Smallest
    <2>. QED  BY <2>1, <2>2
  <1>5. CASE k = 0
    <2> DEFINE h == [T \in D(0) |-> 0]
    <2>1. \A T \in D(0) : T = {}
      BY <1>1, FS_EmptySet
    <2>2. Sums(h, f, D(0))
      BY <2>1 DEF Sums
    <2>. QED  BY <1>4, <1>5, <2>2
  <1>6. CASE k # 0
    <2>1. k - 1 \in Nat /\ k - 1 \notin Bad
      <3>. HIDE DEF Bad
      <3>. QED  BY <1>4, <1>6
    <2>2. PICK h : Sums(h, f, D(k - 1))
      BY <2>1
    <2> DEFINE next(T) == IF T = {} THEN 0 ELSE f[Some(T)] + h[T \ {Some(T)}]
               g == [T \in D(k) |-> next(T)]
    <2>3. \A T \in D(k - 1) : h[T] = next(T)
      <3>1. h = [T \in D(k - 1) |-> next(T)]
        BY <2>2 DEF Sums
      <3>. HIDE DEF next, D
      <3>. QED  BY <3>1
    <2>4. D(k - 1) \subseteq D(k)
      BY <1>1, <1>4
    <2>5. \A T \in D(k) : T # {} => T \ {Some(T)} \in D(k - 1)
      <3>. SUFFICES ASSUME NEW T \in D(k), T # {} PROVE T \ {Some(T)} \in D(k - 1)
        OBVIOUS
      <3>1. Some(T) \in T
        BY DEF Some
      <3>. QED  BY <1>1, <1>4, <3>1
    <2>6. \A T \in D(k) : T # {} => g[T \ {Some(T)}] = h[T \ {Some(T)}]
      <3>. HIDE DEF next, D
      <3>. QED  BY <2>3, <2>4, <2>5
    <2>7. Sums(g, f, D(k))
      <3>. HIDE DEF D
      <3>. QED  BY <2>6 DEF Sums
    <2>. QED  BY <1>4, <2>7
  <1>. QED  BY <1>5, <1>6

LEMMA SetSumIs ==
    ASSUME NEW f, NEW S, IsFiniteSet(S)
    PROVE  \E h : Sums(h, f, SUBSET S) /\ SetSum(f, S) = h[S]
  <1> DEFINE h == CHOOSE h : Sums(h, f, SUBSET S)
  <1>1. Sums(h, f, SUBSET S)
    BY SumsExist
  <1>2. SetSum(f, S) = h[S]
    BY DEF SetSum, MapThenSumSet, MapThenFoldSet, Sums, Some
  <1>. QED  BY <1>1, <1>2

\* How the function adds up does not depend on the order in which it is evaluated.
LEMMA SumsFacts ==
    ASSUME NEW f, NEW S, IsFiniteSet(S), \A x \in S : f[x] \in Nat,
           NEW h, Sums(h, f, SUBSET S), NEW T \in SUBSET S
    PROVE  h[T] \in Nat /\ \A x \in T : h[T] = f[x] + h[T \ {x}]
  <1>1. \A U \in SUBSET S : h[U] = IF U = {} THEN 0 ELSE f[Some(U)] + h[U \ {Some(U)}]
    BY DEF Sums
  <1>2. \A U \in SUBSET S : U # {} => Some(U) \in U
    BY DEF Some
  <1>3. \A U \in SUBSET S : h[U] \in Nat
    <2> DEFINE Bad == {U \in SUBSET S : h[U] \notin Nat}
    <2>1. SUFFICES ASSUME Bad # {} PROVE FALSE
      OBVIOUS
    <2>2. PICK U \in Bad : \A x \in U : U \ {x} \notin Bad
      BY <2>1, SmallestSet
    <2>3. CASE U = {}
      BY <1>1, <2>2, <2>3
    <2>4. CASE U # {}
      <3>1. Some(U) \in U /\ h[U] = f[Some(U)] + h[U \ {Some(U)}] /\ f[Some(U)] \in Nat
        BY <1>1, <1>2, <2>4
      <3>2. h[U \ {Some(U)}] \in Nat
        BY <2>2, <3>1
      <3>. QED  BY <2>2, <3>1, <3>2
    <2>. QED  BY <2>3, <2>4
  <1>4. \A U \in SUBSET S : \A x \in U : h[U] = f[x] + h[U \ {x}]
    <2> DEFINE Loses(U) == \A x \in U : h[U] = f[x] + h[U \ {x}]
               Bad == {U \in SUBSET S : ~ Loses(U)}
    <2>1. SUFFICES ASSUME Bad # {} PROVE FALSE
      OBVIOUS
    <2>2. PICK U \in Bad : \A x \in U : U \ {x} \notin Bad
      BY <2>1, SmallestSet
    <2>3. PICK x \in U : h[U] # f[x] + h[U \ {x}]
      OBVIOUS
    <2> DEFINE c == Some(U)
    <2>4. c \in U /\ h[U] = f[c] + h[U \ {c}] /\ c # x
      BY <1>1, <1>2, <2>3
    <2>5. h[U \ {c}] = f[x] + h[(U \ {c}) \ {x}]
      BY <2>2, <2>4
    <2>6. h[U \ {x}] = f[c] + h[(U \ {x}) \ {c}]
      BY <2>2, <2>3, <2>4
    <2> DEFINE rest == h[(U \ {c}) \ {x}]
    <2>7. rest = h[(U \ {x}) \ {c}]
      <3>1. (U \ {c}) \ {x} = (U \ {x}) \ {c}
        OBVIOUS
      <3>. QED  BY <3>1
    <2>8. f[x] \in Nat /\ f[c] \in Nat /\ rest \in Nat
      BY <1>3, <2>4
    <2>9. h[U] = f[c] + (f[x] + rest) /\ h[U \ {x}] = f[c] + rest
      BY <2>4, <2>5, <2>6, <2>7
    <2>. HIDE DEF c, rest, Bad, Loses
    <2>. QED  BY <2>3, <2>8, <2>9
  <1>. QED  BY <1>3, <1>4

Agree(f, e, S) == \A x \in S : e[x] = f[x]

\* Functions that are the same on a set have the same sum there.
LEMMA SumsAgree ==
    ASSUME NEW f, NEW e, NEW S, NEW U, NEW h, NEW g,
           IsFiniteSet(S), U \subseteq S, Agree(f, e, U),
           Sums(h, f, SUBSET S), Sums(g, e, SUBSET U)
    PROVE  g[U] = h[U]
  <1> DEFINE Bad == {T \in SUBSET U : g[T] # h[T]}
  <1>0. IsFiniteSet(U)
    BY FS_Subset
  <1>1. SUFFICES ASSUME Bad # {} PROVE FALSE
    OBVIOUS
  <1>2. PICK T \in Bad : \A x \in T : T \ {x} \notin Bad
    BY <1>0, <1>1, SmallestSet
  <1>3. /\ h[T] = IF T = {} THEN 0 ELSE f[Some(T)] + h[T \ {Some(T)}]
        /\ g[T] = IF T = {} THEN 0 ELSE e[Some(T)] + g[T \ {Some(T)}]
    BY <1>2 DEF Sums
  <1>4. T # {} => Some(T) \in T
    BY DEF Some
  <1>5. T # {} => g[T \ {Some(T)}] = h[T \ {Some(T)}]
    BY <1>2, <1>4
  <1>. QED  BY <1>2, <1>3, <1>4, <1>5 DEF Agree

LEMMA SetSumLoses ==
    ASSUME NEW f, NEW S, IsFiniteSet(S), \A x \in S : f[x] \in Nat, NEW x \in S
    PROVE  SetSum(f, S) = f[x] + SetSum(f, S \ {x})
  <1> DEFINE U == S \ {x}
  <1>1. PICK h : Sums(h, f, SUBSET S) /\ SetSum(f, S) = h[S]
    BY SetSumIs
  <1>2. U \subseteq S /\ IsFiniteSet(U) /\ Agree(f, f, U)
    BY FS_Subset DEF Agree
  <1>3. h[S] = f[x] + h[U]
    BY <1>1, SumsFacts
  <1>. HIDE DEF U
  <1>4. PICK g : Sums(g, f, SUBSET U) /\ SetSum(f, U) = g[U]
    BY <1>2, SetSumIs
  <1>5. g[U] = h[U]
    BY <1>1, <1>2, <1>4, SumsAgree
  <1>6. SetSum(f, S) = f[x] + SetSum(f, U)
    BY <1>1, <1>3, <1>4, <1>5
  <1>. QED  BY <1>6 DEF U

LEMMA SetSumType ==
    ASSUME NEW f, NEW S, IsFiniteSet(S), \A x \in S : f[x] \in Nat
    PROVE  SetSum(f, S) \in Nat
  <1>1. PICK h : Sums(h, f, SUBSET S) /\ SetSum(f, S) = h[S]
    BY SetSumIs
  <1>2. h[S] \in Nat
    BY <1>1, SumsFacts
  <1>. QED  BY <1>1, <1>2

LEMMA SetSumSame ==
    ASSUME NEW f, NEW e, NEW S, IsFiniteSet(S),
           \A x \in S : f[x] \in Nat /\ e[x] = f[x]
    PROVE  SetSum(e, S) = SetSum(f, S)
  <1>1. PICK h : Sums(h, f, SUBSET S) /\ SetSum(f, S) = h[S]
    BY SetSumIs
  <1>2. PICK g : Sums(g, e, SUBSET S) /\ SetSum(e, S) = g[S]
    BY SetSumIs
  <1>3. g[S] = h[S]
    <2>1. S \subseteq S /\ Agree(f, e, S)
      BY DEF Agree
    <2>. QED  BY <1>1, <1>2, <2>1, SumsAgree
  <1>. QED  BY <1>1, <1>2, <1>3

LEMMA SetSumEmpty ==
    ASSUME NEW f
    PROVE  SetSum(f, {}) = 0
  <1>1. PICK h : Sums(h, f, SUBSET {}) /\ SetSum(f, {}) = h[{}]
    BY FS_EmptySet, SetSumIs
  <1>. QED  BY <1>1 DEF Sums

-----------------------------------------------------------------------------
(* What was let in up to n units ago.                                      *)

Counts == [0..Window -> 0..Limit]

Since(f, n) == SetSum(f, 0..n)

LEMMA SinceNext ==
    ASSUME NEW f, NEW n \in Nat, \A a \in 0..n : f[a] \in Nat
    PROVE  /\ Since(f, n) \in Nat
           /\ n = 0 => Since(f, n) = f[0]
           /\ n # 0 => Since(f, n) = Since(f, n - 1) + f[n] /\ Since(f, n - 1) \in Nat
  <1>1. IsFiniteSet(0..n) /\ n \in 0..n /\ 0 \in 0..n /\ IsFiniteSet(0..(n - 1))
    BY FS_Interval
  <1>2. Since(f, n) \in Nat
    BY <1>1, SetSumType DEF Since
  <1>3. Since(f, n) = f[n] + SetSum(f, (0..n) \ {n})
    BY <1>1, SetSumLoses DEF Since
  <1>4. CASE n = 0
    <2>1. (0..n) \ {n} = {}
      BY <1>4
    <2>2. f[n] \in Nat
      BY <1>1
    <2>. QED  BY <1>2, <1>3, <1>4, <2>1, <2>2, SetSumEmpty
  <1>5. CASE n # 0
    <2>1. (0..n) \ {n} = 0..(n - 1)
      BY <1>5
    <2>2. \A a \in 0..(n - 1) : f[a] \in Nat
      OBVIOUS
    <2>3. SetSum(f, 0..(n - 1)) \in Nat
      BY <1>1, <2>2, SetSumType
    <2>4. f[n] \in Nat
      BY <1>1
    <2>5. Since(f, n) = f[n] + Since(f, n - 1) /\ Since(f, n - 1) \in Nat
      BY <1>3, <2>1, <2>3 DEF Since
    <2>. QED  BY <1>2, <1>5, <2>4, <2>5
  <1>. QED  BY <1>4, <1>5

LEMMA SinceFacts ==
    ASSUME NEW f \in [0..Window -> Nat]
    PROVE  \A n \in 0..Window :
             /\ Since(f, n) \in Nat /\ f[n] \in Nat
             /\ n = 0 => Since(f, n) = f[0]
             /\ n # 0 => n - 1 \in 0..Window /\ Since(f, n) = Since(f, n - 1) + f[n]
  <1> SUFFICES ASSUME NEW n \in 0..Window
               PROVE  /\ Since(f, n) \in Nat /\ f[n] \in Nat
                      /\ n = 0 => Since(f, n) = f[0]
                      /\ n # 0 => n - 1 \in 0..Window /\ Since(f, n) = Since(f, n - 1) + f[n]
    OBVIOUS
  <1>1. n \in Nat /\ Window \in Nat
    BY BoundsAssumption
  <1>2. (\A a \in 0..n : f[a] \in Nat) /\ n \in 0..n /\ (n # 0 => n - 1 \in 0..Window)
    BY <1>1
  <1>3. /\ Since(f, n) \in Nat
        /\ n = 0 => Since(f, n) = f[0]
        /\ n # 0 => Since(f, n) = Since(f, n - 1) + f[n]
    BY <1>1, <1>2, SinceNext
  <1>. QED  BY <1>2, <1>3

\* Of the times that are no exception, the first one is 0 or follows one that is.
LEMMA FirstTime ==
    ASSUME NEW B \in SUBSET (0..Window), B # {}
    PROVE  \E k \in B : k # 0 => k - 1 \in 0..Window /\ k - 1 \notin B
  <1>1. B \subseteq Nat /\ Window \in Nat
    BY BoundsAssumption
  <1>2. PICK k \in B : \A j \in B : k <= j
    BY <1>1, Smallest
  <1>. QED  BY <1>1, <1>2

\* A longer time counts no less.
LEMMA SinceGrows ==
    ASSUME NEW f \in [0..Window -> Nat], NEW m \in 0..Window, NEW n \in 0..Window, m <= n
    PROVE  Since(f, m) <= Since(f, n)
  <1> DEFINE Bad == {k \in 0..Window : m <= k /\ ~ (Since(f, m) <= Since(f, k))}
  <1>1. SUFFICES ASSUME Bad # {} PROVE FALSE
    OBVIOUS
  <1>2. PICK k \in Bad : k # 0 => k - 1 \in 0..Window /\ k - 1 \notin Bad
    BY <1>1, FirstTime
  <1>3. \A j \in 0..Window : Since(f, j) \in Nat
    BY SinceFacts
  <1>4. k # m /\ k # 0 /\ m <= k - 1 /\ k - 1 \in 0..Window
    BY <1>2, <1>3, BoundsAssumption
  <1>5. Since(f, k) = Since(f, k - 1) + f[k] /\ f[k] \in Nat
    BY <1>2, <1>4, SinceFacts
  <1>6. Since(f, m) <= Since(f, k - 1)
    BY <1>2, <1>4
  <1>. QED  BY <1>2, <1>3, <1>4, <1>5, <1>6

\* One more at this moment is one more in any time up to it.
LEMMA SinceAdmit ==
    ASSUME NEW f \in [0..Window -> Nat], NEW n \in 0..Window
    PROVE  Since([f EXCEPT ![0] = @ + 1], n) = Since(f, n) + 1
  <1> DEFINE e == [f EXCEPT ![0] = @ + 1]
             Bad == {k \in 0..Window : Since(e, k) # Since(f, k) + 1}
  <1>1. SUFFICES ASSUME Bad # {} PROVE FALSE
    OBVIOUS
  <1>2. PICK k \in Bad : k # 0 => k - 1 \in 0..Window /\ k - 1 \notin Bad
    BY <1>1, FirstTime
  <1>3. /\ e \in [0..Window -> Nat] /\ e[0] = f[0] + 1
        /\ \A a \in 0..Window : a # 0 => e[a] = f[a]
    BY BoundsAssumption
  <1>4. k # 0 => Since(e, k - 1) = Since(f, k - 1) + 1
    BY <1>2
  <1>5. k \in 0..Window /\ Since(e, k) # Since(f, k) + 1
    BY <1>2
  <1>. HIDE DEF e, Bad
  <1>6. /\ k = 0 => Since(e, k) = e[0] /\ Since(f, k) = f[0]
        /\ k # 0 => Since(e, k) = Since(e, k - 1) + e[k] /\ Since(f, k) = Since(f, k - 1) + f[k]
        /\ f[k] \in Nat
    BY <1>3, <1>5, SinceFacts
  <1>7. k # 0 => Since(f, k - 1) \in Nat
    BY <1>2, SinceFacts
  <1>. QED  BY <1>3, <1>4, <1>5, <1>6, <1>7

\* A unit later everything is one unit older.
Aged(f) == [a \in 0..Window |-> IF a = 0 THEN 0 ELSE f[a - 1]]

LEMMA AgedFacts ==
    ASSUME NEW f \in [0..Window -> Nat]
    PROVE  /\ Aged(f) \in [0..Window -> Nat] /\ Aged(f)[0] = 0
           /\ \A a \in 0..Window : a # 0 => Aged(f)[a] = f[a - 1]
    BY BoundsAssumption DEF Aged

LEMMA SinceAged ==
    ASSUME NEW f \in [0..Window -> Nat], NEW n \in 0..Window
    PROVE  Since(Aged(f), n) = IF n = 0 THEN 0 ELSE Since(f, n - 1)
  <1> DEFINE older(k) == IF k = 0 THEN 0 ELSE Since(f, k - 1)
             e == Aged(f)
             Bad == {k \in 0..Window : Since(e, k) # older(k)}
  <1>1. SUFFICES ASSUME Bad # {} PROVE FALSE
    OBVIOUS
  <1>2. PICK k \in Bad : k # 0 => k - 1 \in 0..Window /\ k - 1 \notin Bad
    BY <1>1, FirstTime
  <1>3. k \in 0..Window /\ Since(e, k) # older(k)
    BY <1>2
  <1>4. k # 0 => Since(e, k - 1) = older(k - 1)
    BY <1>2
  <1>5. /\ k = 0 => Since(e, k) = 0
        /\ k # 0 => Since(e, k) = Since(e, k - 1) + f[k - 1]
    <2>1. e \in [0..Window -> Nat] /\ e[0] = 0 /\ (k # 0 => e[k] = f[k - 1])
      BY <1>3, AgedFacts
    <2>. HIDE DEF e, Bad
    <2>. QED  BY <1>3, <2>1, SinceFacts
  <1>6. k # 0
    BY <1>3, <1>5
  <1> DEFINE j == k - 1
  <1>7. j \in 0..Window
    BY <1>2, <1>6
  <1>8. Since(e, k) = older(j) + f[j]
    BY <1>4, <1>5, <1>6
  <1>9. older(j) + f[j] = Since(f, j)
    <2>1. /\ Since(f, j) \in Nat /\ f[j] \in Nat
          /\ j = 0 => Since(f, j) = f[0]
          /\ j # 0 => j - 1 \in 0..Window /\ Since(f, j) = Since(f, j - 1) + f[j]
      <3>. HIDE DEF j, e, Bad
      <3>. QED  BY <1>7, SinceFacts
    <2>. HIDE DEF j, e, Bad
    <2>. QED  BY <2>1
  <1>. QED  BY <1>3, <1>6, <1>8, <1>9

-----------------------------------------------------------------------------
(* The streamers a query selects, one loop iteration after another.        *)

AddMatch(m, s, names, i) == IF s[i].username \in names THEN Append(m, s[i]) ELSE m

UpTo(f, s, names, n) ==
    f = [i \in 0..n |-> IF i = 0 THEN <<>>
                       ELSE IF s[i].username \in names THEN Append(f[i - 1], s[i])
                       ELSE f[i - 1]]

LEMMA UpToIs ==
    ASSUME NEW f, NEW s, NEW names, NEW n \in Nat
    PROVE  UpTo(f, s, names, n) <=>
             /\ f = [i \in 0..n |-> f[i]] /\ f[0] = <<>>
             /\ \A i \in 1..n : f[i] = AddMatch(f[i - 1], s, names, i)
  <1>1. ASSUME UpTo(f, s, names, n)
        PROVE  /\ f = [i \in 0..n |-> f[i]] /\ f[0] = <<>>
               /\ \A i \in 1..n : f[i] = AddMatch(f[i - 1], s, names, i)
    <2> DEFINE next(i) == IF i = 0 THEN <<>> ELSE AddMatch(f[i - 1], s, names, i)
    <2>1. f = [i \in 0..n |-> next(i)]
      BY <1>1, Zenon DEF UpTo, AddMatch
    <2>2. f = [i \in 0..n |-> f[i]] /\ \A i \in 0..n : f[i] = next(i)
      <3>. HIDE DEF next
      <3>. QED  BY <2>1
    <2>3. 0 \in 0..n /\ \A i \in 1..n : i \in 0..n /\ i # 0
      OBVIOUS
    <2>. QED  BY <2>2, <2>3, Zenon
  <1>2. ASSUME f = [i \in 0..n |-> f[i]], f[0] = <<>>,
               \A i \in 1..n : f[i] = AddMatch(f[i - 1], s, names, i)
        PROVE  UpTo(f, s, names, n)
    <2> DEFINE next(i) == IF i = 0 THEN <<>> ELSE AddMatch(f[i - 1], s, names, i)
    <2>1. \A i \in 0..n : i # 0 => i \in 1..n
      OBVIOUS
    <2>2. \A i \in 0..n : f[i] = next(i)
      BY <1>2, <2>1, Zenon
    <2>3. f = [i \in 0..n |-> next(i)]
      <3>. HIDE DEF next
      <3>. QED  BY <1>2, <2>2, Zenon
    <2>. QED  BY <2>3, Zenon DEF UpTo, AddMatch
  <1>. QED  BY <1>1, <1>2

LEMMA UpToExists ==
    ASSUME NEW s, NEW names, NEW n \in Nat
    PROVE  \E f : UpTo(f, s, names, n)
  <1> DEFINE Bad == {k \in Nat : ~ \E f : UpTo(f, s, names, k)}
  <1>1. SUFFICES ASSUME Bad # {} PROVE FALSE
    OBVIOUS
  <1>2. PICK k \in Bad : \A j \in Bad : k <= j
    <2>1. Bad \subseteq Nat
      OBVIOUS
    <2>. HIDE DEF Bad
    <2>. QED  BY <1>1, <2>1, Smallest
  <1>3. CASE k = 0
    <2> DEFINE f == [i \in 0..0 |-> <<>>]
    <2>1. UpTo(f, s, names, 0)
      BY DEF UpTo
    <2>. QED  BY <1>2, <1>3, <2>1
  <1>4. CASE k # 0
    <2>1. k - 1 \in Nat /\ k - 1 \notin Bad
      BY <1>2, <1>4
    <2>2. PICK f : UpTo(f, s, names, k - 1)
      BY <2>1
    <2> DEFINE g == [i \in 0..k |-> IF i = k THEN AddMatch(f[k - 1], s, names, k) ELSE f[i]]
    <2>3. g = [i \in 0..k |-> g[i]] /\ g[k] = AddMatch(f[k - 1], s, names, k)
      BY <1>2
    <2>4. \A i \in 0..(k - 1) : g[i] = f[i]
      BY <2>1
    <2>5. g[0] = <<>> /\ \A i \in 1..(k - 1) : g[i] = AddMatch(g[i - 1], s, names, i)
      <3>1. f[0] = <<>> /\ \A i \in 1..(k - 1) : f[i] = AddMatch(f[i - 1], s, names, i)
        BY <2>1, <2>2, UpToIs
      <3>2. 0 \in 0..(k - 1) /\ \A i \in 1..(k - 1) : i \in 0..(k - 1) /\ i - 1 \in 0..(k - 1)
        BY <2>1
      <3>. HIDE DEF g
      <3>. QED  BY <2>4, <3>1, <3>2
    <2>6. \A i \in 1..k : g[i] = AddMatch(g[i - 1], s, names, i)
      <3>1. k - 1 \in 0..(k - 1) /\ \A i \in 1..k : i = k \/ i \in 1..(k - 1)
        BY <2>1
      <3>2. g[k] = AddMatch(g[k - 1], s, names, k)
        <4>. HIDE DEF g
        <4>. QED  BY <2>3, <2>4, <3>1
      <3>. HIDE DEF g
      <3>. QED  BY <2>5, <3>1, <3>2
    <2>7. UpTo(g, s, names, k)
      <3>. HIDE DEF g
      <3>. QED  BY <1>2, <2>3, <2>5, <2>6, UpToIs
    <2>. QED  BY <1>2, <2>7
  <1>. QED  BY <1>3, <1>4

Loop(f, s, names) ==
    /\ f[0] = <<>>
    /\ \A i \in 1..Len(s) : f[i] = AddMatch(f[i - 1], s, names, i)
    /\ Matching(s, names) = f[Len(s)]

LEMMA MatchingIs ==
    ASSUME NEW s, NEW names, Len(s) \in Nat
    PROVE  \E f : Loop(f, s, names)
  <1> DEFINE f == CHOOSE f : UpTo(f, s, names, Len(s))
  <1>1. UpTo(f, s, names, Len(s))
    BY UpToExists
  <1>2. Matching(s, names) = f[Len(s)]
    BY DEF Matching, UpTo
  <1>3. f[0] = <<>> /\ \A i \in 1..Len(s) : f[i] = AddMatch(f[i - 1], s, names, i)
    <2>. HIDE DEF f
    <2>. QED  BY <1>1, UpToIs
  <1>. QED  BY <1>2, <1>3 DEF Loop

\* m holds the streamers among the first n of s that the query selects, in the
\* order in which they were listed.
Selected(m, s, names, n) ==
    /\ m \in Seq(Streamers)
    /\ \A k \in 1..Len(m) : m[k].nth \in 1..n
    /\ \A k, l \in 1..Len(m) : k < l => m[k].nth < m[l].nth
    /\ \A i \in 1..n : s[i].username \in names => \E k \in 1..Len(m) : m[k] = s[i]

InOrder(s) == s \in Seq(Streamers) /\ \A i \in 1..Len(s) : s[i].nth = i

LEMMA AddMatchSelects ==
    ASSUME NEW s, InOrder(s), NEW names, NEW n \in 1..Len(s),
           NEW m, Selected(m, s, names, n - 1)
    PROVE  Selected(AddMatch(m, s, names, n), s, names, n)
  <1>1. /\ s[n] \in Streamers /\ s[n].nth = n /\ n \in Nat /\ n >= 1
        /\ m \in Seq(Streamers) /\ Len(m) \in Nat
        /\ \A k \in 1..Len(m) : m[k].nth \in 1..(n - 1)
        /\ \A k, l \in 1..Len(m) : k < l => m[k].nth < m[l].nth
    BY DEF Selected, InOrder
  <1>2. \A i \in 1..n : i # n => i \in 1..(n - 1)
    BY <1>1
  <1>3. CASE s[n].username \notin names
    <2>1. \A k \in 1..Len(m) : m[k].nth \in 1..n
      BY <1>1
    <2>2. \A i \in 1..n : s[i].username \in names => \E k \in 1..Len(m) : m[k] = s[i]
      BY <1>2, <1>3 DEF Selected
    <2>. QED  BY <1>1, <1>3, <2>1, <2>2 DEF Selected, AddMatch
  <1>4. CASE s[n].username \in names
    <2> DEFINE e == Append(m, s[n])
    <2>1. /\ e \in Seq(Streamers) /\ Len(e) = Len(m) + 1 /\ e[Len(m) + 1] = s[n]
          /\ \A k \in 1..Len(m) : e[k] = m[k] /\ k \in 1..Len(e)
          /\ \A k \in 1..Len(e) : k \in 1..Len(m) \/ k = Len(m) + 1
      BY <1>1
    <2>. HIDE DEF e
    <2>2. \A k \in 1..Len(e) : e[k].nth \in 1..n
      BY <1>1, <2>1
    <2>3. \A k, l \in 1..Len(e) : k < l => e[k].nth < e[l].nth
      <3>. SUFFICES ASSUME NEW k \in 1..Len(e), NEW l \in 1..Len(e), k < l
                    PROVE  e[k].nth < e[l].nth
        OBVIOUS
      <3>1. k \in 1..Len(m)
        BY <1>1, <2>1
      <3>2. CASE l \in 1..Len(m)
        BY <1>1, <2>1, <3>1, <3>2
      <3>3. CASE l = Len(m) + 1
        BY <1>1, <2>1, <3>1, <3>3
      <3>. QED  BY <2>1, <3>2, <3>3
    <2>4. \A i \in 1..n : s[i].username \in names => \E k \in 1..Len(e) : e[k] = s[i]
      <3>. SUFFICES ASSUME NEW i \in 1..n, s[i].username \in names
                    PROVE  \E k \in 1..Len(e) : e[k] = s[i]
        OBVIOUS
      <3>1. CASE i = n
        BY <1>1, <2>1, <3>1
      <3>2. CASE i # n
        <4>1. PICK k \in 1..Len(m) : m[k] = s[i]
          BY <1>2, <3>2 DEF Selected
        <4>. QED  BY <2>1, <4>1
      <3>. QED  BY <3>1, <3>2
    <2>5. AddMatch(m, s, names, n) = e
      BY <1>4 DEF AddMatch, e
    <2>. QED  BY <2>1, <2>2, <2>3, <2>4, <2>5 DEF Selected
  <1>. QED  BY <1>3, <1>4

LEMMA MatchingSelects ==
    ASSUME NEW s, InOrder(s), NEW names
    PROVE  Selected(Matching(s, names), s, names, Len(s))
  <1>1. Len(s) \in Nat
    BY DEF InOrder
  <1>2. PICK f : Loop(f, s, names)
    BY <1>1, MatchingIs
  <1> DEFINE Bad == {k \in 0..Len(s) : ~ Selected(f[k], s, names, k)}
  <1>3. SUFFICES ASSUME Bad # {} PROVE FALSE
    BY <1>1, <1>2 DEF Loop
  <1>4. PICK k \in Bad : \A j \in Bad : k <= j
    <2>1. Bad \subseteq Nat
      BY <1>1
    <2>. HIDE DEF Bad
    <2>. QED  BY <1>3, <2>1, Smallest
  <1>5. CASE k = 0
    <2>1. Selected(<<>>, s, names, 0)
      BY DEF Selected
    <2>. QED  BY <1>2, <1>4, <1>5, <2>1 DEF Loop
  <1>6. CASE k # 0
    <2>1. k \in 1..Len(s) /\ k - 1 \in 0..Len(s) /\ k - 1 \notin Bad
      BY <1>1, <1>4, <1>6
    <2>2. Selected(f[k - 1], s, names, k - 1)
      BY <2>1
    <2>3. Selected(f[k], s, names, k)
      BY <1>2, <2>1, <2>2, AddMatchSelects DEF Loop
    <2>. QED  BY <1>4, <2>3
  <1>. QED  BY <1>5, <1>6

\* A streamer that is listed last comes last among those the query selects.
LEMMA MatchingAppend ==
    ASSUME NEW s \in Seq(Streamers), NEW x \in Streamers, NEW names
    PROVE  Matching(Append(s, x), names) =
             IF x.username \in names THEN Append(Matching(s, names), x) ELSE Matching(s, names)
  <1> DEFINE e == Append(s, x)
             n == Len(s)
  <1>1. /\ n \in Nat /\ Len(e) \in Nat /\ Len(e) = n + 1 /\ e[n + 1] = x
        /\ \A i \in 1..n : e[i] = s[i]
    OBVIOUS
  <1>. HIDE DEF e
  <1>2. PICK f : Loop(f, s, names)
    BY <1>1, MatchingIs
  <1>3. PICK g : Loop(g, e, names)
    BY <1>1, MatchingIs
  <1>. HIDE DEF n
  <1> DEFINE Bad == {k \in 0..n : g[k] # f[k]}
  <1>4. Bad = {}
    <2>1. SUFFICES ASSUME Bad # {} PROVE FALSE
      OBVIOUS
    <2>2. PICK k \in Bad : \A j \in Bad : k <= j
      <3>1. Bad \subseteq Nat
        BY <1>1
      <3>. HIDE DEF Bad
      <3>. QED  BY <2>1, <3>1, Smallest
    <2>3. k # 0
      BY <1>2, <1>3 DEF Loop
    <2>4. k \in 1..n /\ k \in 1..(n + 1) /\ k - 1 \in 0..n /\ k - 1 \notin Bad
      BY <1>1, <2>2, <2>3
    <2>5. g[k - 1] = f[k - 1] /\ e[k] = s[k]
      BY <1>1, <2>4
    <2>6. g[k] = AddMatch(f[k - 1], e, names, k) /\ f[k] = AddMatch(f[k - 1], s, names, k)
      BY <1>1, <1>2, <1>3, <2>4, <2>5 DEF Loop, n
    <2>. QED  BY <2>2, <2>5, <2>6 DEF AddMatch
  <1>5. g[n] = f[n] /\ n + 1 \in 1..(n + 1) /\ (n + 1) - 1 = n
    BY <1>1, <1>4
  <1>6. g[n + 1] = AddMatch(f[n], e, names, n + 1)
    BY <1>1, <1>3, <1>5 DEF Loop
  <1>7. Matching(s, names) = f[n] /\ Matching(e, names) = g[n + 1] /\ e[n + 1] = x
    BY <1>1, <1>2, <1>3 DEF Loop, n
  <1>. QED  BY <1>6, <1>7, Zenon DEF AddMatch, e

-----------------------------------------------------------------------------
(* The inductive invariant.                                                *)

\* While a window is open, its count is what was let in since it was opened,
\* and no more than Limit of what was let in before that are still recent;
\* when none is open, no more than Limit are recent.
WindowOK(c, f) ==
    IF c.left = Over
    THEN Since(f, Window) <= Limit /\ f[0] = 0
    ELSE /\ Since(f, Window - c.left) = c.count
         /\ Since(f, Window) <= c.count + Limit

\* Every submission in progress has its room.
InFlight == {p \in Requests : req[p] # NoRequest}

RoomOK == Len(items) + Cardinality(InFlight) <= MaxItems

\* The streamers that come before a client's next page.
Past(c) == (c.page - 1) * PageSize

Rising(s) == \A i, j \in 1..Len(s) : i < j => s[i].nth < s[j].nth

Listed(seen, m, past) ==
    \A i \in 1..Len(seen) : \E k \in 1..Len(m) : k <= past /\ seen[i] = m[k]

Found(x, m, seen, past) ==
    \E k \in 1..Len(m) :
        /\ m[k].nth = x
        /\ k <= past => \E i \in 1..Len(seen) : seen[i].nth = x

\* Among the streamers m that its query selects now, a client has seen some of
\* those of the pages it has read, in their order, and every one of those that
\* were there when it started.
ReaderOK(c, m) ==
    /\ c.page = 0 => c.seen = <<>>
    /\ c.page > 0 =>
        /\ Rising(c.seen) /\ Listed(c.seen, m, Past(c))
        /\ \A x \in c.present : Found(x, m, c.seen, Past(c))

Inv ==
    /\ TypeOK
    /\ \A u \in Users : WindowOK(rateLimit[u], admitted[u])
    /\ RoomOK
    /\ InOrder(items)
    /\ \A r \in Readers : ReaderOK(reader[r], Matching(items, reader[r].names))

-----------------------------------------------------------------------------
(* The limiter.                                                            *)

LEMMA Opened ==
    ASSUME Inv, NEW u \in Users
    PROVE  /\ rateLimit[u] \in [count: 0..Limit, left: Over..Window]
           /\ Current(u) \in [count: 0..Limit, left: 0..Window]
           /\ admitted[u] \in [0..Window -> 0..Limit] /\ admitted[u] \in [0..Window -> Nat]
           /\ \A n \in 0..Window : Since(admitted[u], n) \in Nat
           /\ 0 \in 0..Window /\ Window \in 0..Window
           /\ rateLimit[u].left # Over => Current(u) = rateLimit[u]
           /\ rateLimit[u].left = Over => Current(u).count = 0 /\ Current(u).left = Window /\ Allowed(u)
  <1>1. /\ rateLimit[u] \in [count: 0..Limit, left: Over..Window]
        /\ admitted[u] \in [0..Window -> 0..Limit]
    BY DEF Inv, TypeOK
  <1>2. Limit \in Nat \ {0} /\ Window \in Nat \ {0}
    BY BoundsAssumption
  <1>3. admitted[u] \in [0..Window -> Nat]
    BY <1>1, <1>2
  <1>4. \A n \in 0..Window : Since(admitted[u], n) \in Nat
    BY <1>3, SinceFacts
  <1>5. Current(u) \in [count: 0..Limit, left: 0..Window]
    BY <1>1, <1>2 DEF Current, Over
  <1>. QED  BY <1>1, <1>2, <1>3, <1>4, <1>5 DEF Current, Allowed, Over

\* Letting a request in keeps the window of its user.
LEMMA AdmitWindow ==
    ASSUME Inv, NEW u \in Users, Allowed(u),
           NEW c, c = [Current(u) EXCEPT !.count = @ + 1],
           NEW f, f = [admitted[u] EXCEPT ![0] = @ + 1]
    PROVE  WindowOK(c, f) /\ c \in [count: 0..Limit, left: Over..Window] /\ f \in [0..Window -> 0..Limit]
  <1> DEFINE e == admitted[u]
             l == Current(u).left
  <1>0. Limit \in Nat \ {0} /\ Window \in Nat \ {0}
    BY BoundsAssumption
  <1>1. /\ Current(u) \in [count: 0..Limit, left: 0..Window] /\ Current(u).count < Limit
        /\ e \in [0..Window -> 0..Limit] /\ e \in [0..Window -> Nat]
        /\ l \in 0..Window /\ Window - l \in 0..Window
    BY <1>0, Opened DEF Allowed
  <1>2. c.count = Current(u).count + 1 /\ c.left = l
        /\ c \in [count: 0..Limit, left: 0..Window]
    <2> DEFINE b == Current(u)
    <2>1. c = [b EXCEPT !.count = b.count + 1]
      OBVIOUS
    <2>2. b.count + 1 \in 0..Limit
      BY <1>0, <1>1
    <2>3. b \in [count: 0..Limit, left: 0..Window] /\ l = b.left
      BY <1>1
    <2>. HIDE DEF b, l
    <2>. QED  BY <2>1, <2>2, <2>3
  <1>3. /\ Since(e, Window - l) = Current(u).count
        /\ Since(e, Window) <= Current(u).count + Limit
        /\ e[0] <= Current(u).count
    <2>1. CASE rateLimit[u].left = Over
      <3>1. l = Window /\ Current(u).count = 0 /\ e[0] = 0 /\ Since(e, Window) <= Limit
        BY <2>1, Opened DEF Inv, WindowOK
      <3>2. Since(e, 0) = 0
        <4>1. 0 \in 0..Window
          BY <1>0
        <4>2. Since(e, 0) = e[0]
          <5>. HIDE DEF e, l
          <5>. QED  BY <1>1, <4>1, SinceFacts
        <4>. QED  BY <3>1, <4>2
      <3>. QED  BY <1>0, <3>1, <3>2
    <2>2. CASE rateLimit[u].left # Over
      <3>1. Current(u) = rateLimit[u]
        BY <2>2, Opened
      <3>2. /\ Since(e, Window - l) = Current(u).count
            /\ Since(e, Window) <= Current(u).count + Limit
        BY <2>2, <3>1 DEF Inv, WindowOK
      <3>3. Since(e, 0) = e[0] /\ Since(e, 0) <= Since(e, Window - l)
        <4>1. 0 \in 0..Window /\ 0 <= Window - l
          BY <1>0, <1>1
        <4>2. Since(e, 0) <= Since(e, Window - l)
          <5>. HIDE DEF e, l
          <5>. QED  BY <1>1, <4>1, SinceGrows
        <4>3. Since(e, 0) = e[0]
          BY <1>1, <4>1, SinceFacts
        <4>. QED  BY <4>2, <4>3
      <3>. QED  BY <3>2, <3>3
    <2>. QED  BY <2>1, <2>2
  <1>4. \A n \in 0..Window : Since(f, n) = Since(e, n) + 1 /\ Since(e, n) \in Nat
    <2>. HIDE DEF e
    <2>. QED  BY <1>1, SinceAdmit, SinceFacts DEF e
  <1>5. f \in [0..Window -> 0..Limit]
    BY <1>0, <1>1, <1>3
  <1>6. WindowOK(c, f)
    <2>1. Window \in 0..Window /\ c.left # Over
      BY <1>0, <1>1, <1>2 DEF Over
    <2>2. /\ Since(f, Window - c.left) = Since(e, Window - l) + 1
          /\ Since(f, Window) = Since(e, Window) + 1
          /\ Since(e, Window) \in Nat /\ Since(e, Window - l) \in Nat
      <3>. HIDE DEF e, l
      <3>. QED  BY <1>1, <1>2, <1>4, <2>1
    <2>3. /\ Since(f, Window - c.left) = c.count
          /\ Since(f, Window) <= c.count + Limit
      <3>1. Current(u).count \in Nat
        BY <1>1
      <3>. HIDE DEF e, l
      <3>. QED  BY <1>0, <1>2, <1>3, <2>2, <3>1
    <2>. QED  BY <2>1, <2>3 DEF WindowOK
  <1>. QED  BY <1>0, <1>2, <1>5, <1>6 DEF Over

\* So does the passing of time.
LEMMA TickWindow ==
    ASSUME Inv, NEW u \in Users,
           NEW c, c = [rateLimit[u] EXCEPT !.left = IF @ = Over THEN Over ELSE @ - 1]
    PROVE  /\ WindowOK(c, Aged(admitted[u]))
           /\ c \in [count: 0..Limit, left: Over..Window]
           /\ Aged(admitted[u]) \in [0..Window -> 0..Limit]
  <1> DEFINE e == admitted[u]
             b == rateLimit[u]
             f == Aged(e)
  <1>0. Limit \in Nat \ {0} /\ Window \in Nat \ {0}
    BY BoundsAssumption
  <1>1. /\ b \in [count: 0..Limit, left: Over..Window]
        /\ e \in [0..Window -> 0..Limit] /\ e \in [0..Window -> Nat]
        /\ WindowOK(b, e)
    BY Opened DEF Inv
  <1>2. /\ c.count = b.count /\ c \in [count: 0..Limit, left: Over..Window]
        /\ c.left = IF b.left = Over THEN Over ELSE b.left - 1
    BY <1>0, <1>1 DEF Over
  <1>3. f \in [0..Window -> 0..Limit] /\ f[0] = 0
    BY <1>0, <1>1 DEF Aged
  <1>. HIDE DEF e, b
  <1>4. \A n \in 0..Window : /\ Since(f, n) = IF n = 0 THEN 0 ELSE Since(e, n - 1)
                             /\ Since(e, n) \in Nat
    BY <1>1, SinceAged, SinceFacts
  <1>5. /\ Since(f, Window) = Since(e, Window - 1) /\ Since(e, Window - 1) <= Since(e, Window)
        /\ Since(e, Window - 1) \in Nat /\ Since(e, Window) \in Nat
    <2>1. Window \in 0..Window /\ Window - 1 \in 0..Window /\ Window # 0 /\ Window - 1 <= Window
      BY <1>0
    <2>. QED  BY <1>1, <1>4, <2>1, SinceGrows
  <1>. HIDE DEF f
  <1>6. WindowOK(c, f)
    <2>0. b.left \in Over..Window /\ b.count \in 0..Limit
      BY <1>1
    <2>1. CASE b.left = Over
      BY <1>0, <1>1, <1>2, <1>3, <1>5, <2>1 DEF WindowOK
    <2>2. CASE b.left # Over /\ b.left # 0
      <3>1. /\ b.left \in 1..Window /\ c.left = b.left - 1 /\ c.left # Over
            /\ Window - c.left \in 0..Window /\ Window - c.left # 0
            /\ (Window - c.left) - 1 = Window - b.left
        BY <1>0, <1>2, <2>0, <2>2 DEF Over
      <3>2. Since(f, Window - c.left) = Since(e, Window - b.left)
        BY <1>4, <3>1
      <3>3. Since(e, Window - b.left) = b.count /\ Since(e, Window) <= b.count + Limit
        BY <1>1, <2>2 DEF WindowOK
      <3>4. Since(f, Window) <= c.count + Limit
        BY <1>0, <1>2, <1>5, <2>0, <3>3
      <3>. QED  BY <1>2, <3>1, <3>2, <3>3, <3>4 DEF WindowOK
    <2>3. CASE b.left = 0
      <3>1. c.left = Over /\ Window - b.left = Window /\ b.left # Over
        BY <1>0, <1>2, <2>3 DEF Over
      <3>. QED  BY <1>0, <1>1, <1>2, <1>3, <1>5, <2>0, <3>1 DEF WindowOK
    <2>. QED  BY <2>1, <2>2, <2>3
  <1>. QED  BY <1>2, <1>3, <1>6 DEF f, e

-----------------------------------------------------------------------------
(* The room of the submissions in progress.                                *)

LEMMA InFlightFinite ==
    ASSUME NEW S, S \subseteq Requests
    PROVE  IsFiniteSet(S) /\ Cardinality(S) \in Nat
    BY BoundsAssumption, FS_Subset, FS_CardinalityType

LEMMA RoomTaken ==
    ASSUME TypeOK, NEW p \in Requests, req[p] = NoRequest, RoomLeft,
           NEW x, x # NoRequest, req' = [req EXCEPT ![p] = x], items' = items
    PROVE  RoomOK'
  <1>1. InFlight' = InFlight \union {p} /\ p \notin InFlight
    BY DEF InFlight, TypeOK
  <1>2. Cardinality(InFlight') = Cardinality(InFlight) + 1 /\ Cardinality(InFlight) \in Nat
    BY <1>1, InFlightFinite, FS_AddElement DEF InFlight
  <1>3. Len(items) + Cardinality(InFlight) < MaxItems /\ Len(items) \in Nat /\ MaxItems \in Nat
    BY BoundsAssumption DEF RoomLeft, InFlight, TypeOK
  <1>. QED  BY <1>2, <1>3 DEF RoomOK

LEMMA RoomFreed ==
    ASSUME TypeOK, NEW p \in Requests, req[p] # NoRequest,
           req' = [req EXCEPT ![p] = NoRequest]
    PROVE  /\ Cardinality(InFlight') = Cardinality(InFlight) - 1
           /\ Cardinality(InFlight) \in Nat /\ Cardinality(InFlight') \in Nat
  <1>1. InFlight' = InFlight \ {p} /\ p \in InFlight
    BY DEF InFlight, TypeOK
  <1>2. IsFiniteSet(InFlight) /\ Cardinality(InFlight) \in Nat
    BY InFlightFinite DEF InFlight
  <1>3. Cardinality(InFlight \ {p}) = Cardinality(InFlight) - 1
    BY <1>1, <1>2, FS_RemoveElement
  <1>4. Cardinality(InFlight \ {p}) \in Nat
    BY InFlightFinite DEF InFlight
  <1>. QED  BY <1>1, <1>2, <1>3, <1>4

-----------------------------------------------------------------------------
(* The readers.                                                            *)

LEMMA ReaderAppend ==
    ASSUME NEW c, NEW m \in Seq(Streamers), ReaderOK(c, m), NEW x \in Streamers
    PROVE  ReaderOK(c, Append(m, x))
  <1> DEFINE e == Append(m, x)
  <1>1. \A k \in 1..Len(m) : k \in 1..Len(e) /\ e[k] = m[k]
    OBVIOUS
  <1>. HIDE DEF e
  <1>2. SUFFICES ReaderOK(c, e)
    BY DEF e
  <1>. QED  BY <1>1 DEF ReaderOK, Found, Listed

LEMMA PageFacts ==
    ASSUME NEW page \in Nat, page > 0
    PROVE  /\ (page - 1) * PageSize \in Nat
           /\ page * PageSize = (page - 1) * PageSize + PageSize
           /\ ((page + 1) - 1) * PageSize = (page - 1) * PageSize + PageSize
           /\ PageSize \in Nat
    BY BoundsAssumption

\* A page is what comes after the pages before it.
PageOf(page, m, past, size) ==
    /\ page \in Seq(Streamers)
    /\ \A j \in 1..Len(page) :
         /\ past + j \in 1..Len(m) /\ past + j <= past + size
         /\ page[j] = m[past + j]
    /\ \A k \in 1..Len(m) :
         past < k /\ k <= past + size => k - past \in 1..Len(page)

LEMMA ListIs ==
    ASSUME NEW m \in Seq(Streamers), NEW past \in Nat, NEW size \in Nat
    PROVE  PageOf(SubSeq(m, past + 1, Least(Len(m), past + size)), m, past, size)
  <1> DEFINE last == Least(Len(m), past + size)
             page == SubSeq(m, past + 1, last)
  <1>1. last \in Nat /\ last <= Len(m) /\ last <= past + size /\ Len(m) \in Nat
        /\ \A k \in 1..Len(m) : k <= past + size => k <= last
    BY DEF Least
  <1>. HIDE DEF last
  <1>2. \A i \in (past + 1)..last : m[i] \in Streamers
    BY <1>1
  <1>3. /\ page \in Seq(Streamers)
        /\ Len(page) = IF past + 1 <= last THEN last - (past + 1) + 1 ELSE 0
        /\ \A j \in 1..(last - (past + 1) + 1) : page[j] = m[(past + 1) + j - 1]
    <2> DEFINE first == past + 1
    <2>1. first \in Int /\ last \in Int /\ \A i \in first..last : m[i] \in Streamers
      BY <1>1, <1>2
    <2>. HIDE DEF first
    <2>2. /\ SubSeq(m, first, last) \in Seq(Streamers)
          /\ Len(SubSeq(m, first, last)) = IF first <= last THEN last - first + 1 ELSE 0
          /\ \A j \in 1..(last - first + 1) : SubSeq(m, first, last)[j] = m[first + j - 1]
      BY <2>1, SubSeqProperties
    <2>. QED  BY <2>2 DEF first
  <1>. HIDE DEF page
  <1>4. \A j \in 1..Len(page) : /\ past + j \in 1..Len(m) /\ past + j <= past + size
                                /\ page[j] = m[past + j]
    <2>. SUFFICES ASSUME NEW j \in 1..Len(page)
                  PROVE  /\ past + j \in 1..Len(m) /\ past + j <= past + size
                         /\ page[j] = m[past + j]
      OBVIOUS
    <2>1. j \in 1..(last - (past + 1) + 1) /\ (past + 1) + j - 1 = past + j /\ past + j <= last
      BY <1>1, <1>3
    <2>. QED  BY <1>1, <1>3, <2>1
  <1>5. \A k \in 1..Len(m) : past < k /\ k <= past + size => k - past \in 1..Len(page)
    BY <1>1, <1>3
  <1>6. PageOf(page, m, past, size)
    BY <1>3, <1>4, <1>5 DEF PageOf
  <1>. QED  BY <1>6 DEF page, last

Join(c, a, b) ==
    /\ c \in Seq(Streamers) /\ Len(a) \in Nat /\ Len(b) \in Nat /\ Len(c) = Len(a) + Len(b)
    /\ \A i \in 1..Len(a) : i \in 1..Len(c) /\ c[i] = a[i]
    /\ \A j \in 1..Len(b) : Len(a) + j \in 1..Len(c) /\ c[Len(a) + j] = b[j]
    /\ \A i \in 1..Len(c) : i \in 1..Len(a) \/ \E j \in 1..Len(b) : i = Len(a) + j

LEMMA Joined ==
    ASSUME NEW a \in Seq(Streamers), NEW b \in Seq(Streamers), NEW c, c = a \o b
    PROVE  Join(c, a, b)
  <1>1. /\ c \in Seq(Streamers) /\ Len(c) = Len(a) + Len(b)
        /\ \A i \in 1..(Len(a) + Len(b)) : c[i] = IF i <= Len(a) THEN a[i] ELSE b[i - Len(a)]
    BY ConcatProperties
  <1>2. Len(a) \in Nat /\ Len(b) \in Nat
    OBVIOUS
  <1>3. \A i \in 1..Len(c) : i \in 1..Len(a) \/ \E j \in 1..Len(b) : i = Len(a) + j
    <2>. SUFFICES ASSUME NEW i \in 1..Len(c), i \notin 1..Len(a)
                  PROVE  \E j \in 1..Len(b) : i = Len(a) + j
      OBVIOUS
    <2> DEFINE j == i - Len(a)
    <2>1. j \in 1..Len(b) /\ i = Len(a) + j
      BY <1>1, <1>2
    <2>. QED  BY <2>1
  <1>4. \A j \in 1..Len(b) : Len(a) + j \in 1..Len(c) /\ c[Len(a) + j] = b[j]
    BY <1>1, <1>2
  <1>. QED  BY <1>1, <1>2, <1>3, <1>4 DEF Join

LEMMA ReadingOn ==
    ASSUME NEW m \in Seq(Streamers), Rising(m), NEW past \in Nat, NEW size \in Nat,
           NEW seen \in Seq(Streamers), Rising(seen),
           Listed(seen, m, past),
           NEW page, PageOf(page, m, past, size),
           NEW now, now = seen \o page
    PROVE  Rising(now) /\ Listed(now, m, past + size)
  <1>1. /\ now \in Seq(Streamers) /\ Len(seen) \in Nat /\ Len(page) \in Nat
        /\ Len(now) = Len(seen) + Len(page)
        /\ \A i \in 1..Len(seen) : i \in 1..Len(now) /\ now[i] = seen[i]
        /\ \A j \in 1..Len(page) : Len(seen) + j \in 1..Len(now) /\ now[Len(seen) + j] = page[j]
        /\ \A i \in 1..Len(now) :
             i \in 1..Len(seen) \/ \E j \in 1..Len(page) : i = Len(seen) + j
    <2>1. page \in Seq(Streamers)
      BY DEF PageOf
    <2>2. Join(now, seen, page)
      BY <2>1, Joined
    <2>. QED  BY <2>2 DEF Join
  <1>2. \A j \in 1..Len(page) : /\ past + j \in 1..Len(m) /\ past + j <= past + size
                                /\ page[j] = m[past + j]
    BY DEF PageOf
  <1>3. ASSUME NEW i \in 1..Len(seen), NEW j \in 1..Len(page)
        PROVE  seen[i].nth < page[j].nth
    <2>1. PICK k \in 1..Len(m) : k <= past /\ seen[i] = m[k]
      BY DEF Listed
    <2>2. past + j \in 1..Len(m) /\ k < past + j /\ page[j] = m[past + j]
      BY <1>1, <1>2, <2>1
    <2>. QED  BY <2>1, <2>2 DEF Rising
  <1>4. ASSUME NEW i \in 1..Len(page), NEW j \in 1..Len(page), i < j
        PROVE  page[i].nth < page[j].nth
    <2>1. past + i \in 1..Len(m) /\ past + j \in 1..Len(m) /\ past + i < past + j
      BY <1>1, <1>2, <1>4
    <2>. QED  BY <1>2, <2>1 DEF Rising
  <1>5. ASSUME NEW i \in 1..Len(now), NEW j \in 1..Len(now), i < j
        PROVE  now[i].nth < now[j].nth
    <2>1. CASE j \in 1..Len(seen)
      <3>1. i \in 1..Len(seen)
        BY <1>1, <1>5, <2>1
      <3>. QED  BY <1>1, <1>5, <2>1, <3>1 DEF Rising
    <2>2. CASE j \notin 1..Len(seen)
      <3>1. PICK b \in 1..Len(page) : j = Len(seen) + b
        BY <1>1, <2>2
      <3>2. now[j] = page[b]
        BY <1>1, <3>1
      <3>3. CASE i \in 1..Len(seen)
        BY <1>1, <1>3, <3>2, <3>3
      <3>4. CASE i \notin 1..Len(seen)
        <4>1. PICK a \in 1..Len(page) : i = Len(seen) + a
          BY <1>1, <3>4
        <4>2. now[i] = page[a] /\ a < b
          BY <1>1, <1>5, <3>1, <4>1
        <4>. QED  BY <1>4, <3>2, <4>2
      <3>. QED  BY <3>3, <3>4
    <2>. QED  BY <2>1, <2>2
  <1>6. ASSUME NEW i \in 1..Len(now)
        PROVE  \E k \in 1..Len(m) : k <= past + size /\ now[i] = m[k]
    <2>1. CASE i \in 1..Len(seen)
      <3>1. PICK k \in 1..Len(m) : k <= past /\ seen[i] = m[k]
        BY <2>1 DEF Listed
      <3>. QED  BY <1>1, <2>1, <3>1
    <2>2. CASE i \notin 1..Len(seen)
      <3>1. PICK j \in 1..Len(page) : i = Len(seen) + j
        BY <1>1, <2>2
      <3>. QED  BY <1>1, <1>2, <3>1
    <2>. QED  BY <2>1, <2>2
  <1>. QED  BY <1>5, <1>6 DEF Rising, Listed

LEMMA FindingOn ==
    ASSUME NEW m \in Seq(Streamers), NEW past \in Nat, NEW size \in Nat,
           NEW seen \in Seq(Streamers), NEW x, Found(x, m, seen, past),
           NEW page, PageOf(page, m, past, size)
    PROVE  Found(x, m, seen \o page, past + size)
  <1> DEFINE now == seen \o page
  <1>1. /\ \A i \in 1..Len(seen) : i \in 1..Len(now) /\ now[i] = seen[i]
        /\ \A j \in 1..Len(page) : Len(seen) + j \in 1..Len(now) /\ now[Len(seen) + j] = page[j]
    <2>1. page \in Seq(Streamers)
      BY DEF PageOf
    <2>2. Join(now, seen, page)
      BY <2>1, Joined
    <2>. QED  BY <2>2 DEF Join
  <1>. HIDE DEF now
  <1>2. PICK k \in 1..Len(m) :
          m[k].nth = x /\ (k <= past => \E i \in 1..Len(seen) : seen[i].nth = x)
    BY DEF Found
  <1>3. k <= past + size => \E i \in 1..Len(now) : now[i].nth = x
    <2>1. CASE k <= past
      BY <1>1, <1>2, <2>1
    <2>2. CASE past < k /\ k <= past + size
      <3>1. k - past \in 1..Len(page)
        BY <2>2 DEF PageOf
      <3>2. PICK j \in 1..Len(page) : j = k - past
        BY <3>1
      <3>3. past + j = k /\ page[j] = m[past + j]
        BY <3>2 DEF PageOf
      <3>. QED  BY <1>1, <1>2, <3>3
    <2>. QED  BY <2>1, <2>2
  <1>4. Found(x, m, now, past + size)
    BY <1>2, <1>3 DEF Found
  <1>. QED  BY <1>4 DEF now

Turned(c, page) == [c EXCEPT !.page = @ + 1, !.seen = @ \o page]

LEMMA ReaderReads ==
    ASSUME NEW m \in Seq(Streamers), Rising(m), NEW c \in Clients, c.page > 0, ReaderOK(c, m),
           NEW page, page = SubSeq(m, Past(c) + 1, Least(Len(m), c.page * PageSize))
    PROVE  /\ Turned(c, page) \in Clients /\ Turned(c, page).names = c.names
           /\ ReaderOK(Turned(c, page), m)
  <1> DEFINE past == Past(c)
             seen == c.seen
             now == seen \o page
             d == [c EXCEPT !.page = c.page + 1, !.seen = now]
  <1>1. d.page = c.page + 1 /\ d.seen = now /\ d.present = c.present /\ d.names = c.names
    BY DEF Clients
  <1>2. /\ past \in Nat /\ PageSize \in Nat /\ Past(d) = past + PageSize
        /\ c.page * PageSize = past + PageSize /\ d.page > 0 /\ d.page \in Nat
    <2>1. c.page \in Nat
      BY DEF Clients
    <2>2. d.page = c.page + 1
      BY <1>1
    <2>. HIDE DEF d, now
    <2>3. /\ past = (c.page - 1) * PageSize
          /\ Past(d) = ((c.page + 1) - 1) * PageSize
      BY <2>2 DEF Past
    <2>4. d.page > 0 /\ d.page \in Nat
      BY <2>1, <2>2
    <2>. HIDE DEF past
    <2>. QED  BY <2>1, <2>3, <2>4, PageFacts
  <1>3. /\ seen \in Seq(Streamers) /\ Rising(seen)
        /\ Listed(seen, m, past)
        /\ \A x \in c.present : Found(x, m, seen, past)
    BY DEF ReaderOK, Clients
  <1>. HIDE DEF past, seen
  <1>4. PageOf(page, m, past, PageSize)
    <2>1. page = SubSeq(m, past + 1, Least(Len(m), past + PageSize))
      BY <1>2 DEF past
    <2>. QED  BY <1>2, <2>1, ListIs
  <1>5. page \in Seq(Streamers) /\ now \in Seq(Streamers)
    BY <1>3, <1>4 DEF PageOf
  <1>6. Rising(now) /\ Listed(now, m, past + PageSize)
    <2>. HIDE DEF now, d
    <2>. QED  BY <1>2, <1>3, <1>4, ReadingOn DEF now
  <1>7. \A x \in c.present : Found(x, m, now, past + PageSize)
    BY <1>2, <1>3, <1>4, FindingOn
  <1>8. d \in Clients
    BY <1>2, <1>5 DEF Clients, seen
  <1>9. ReaderOK(d, m)
    <2>. HIDE DEF now, d
    <2>. QED  BY <1>1, <1>2, <1>6, <1>7 DEF ReaderOK
  <1>. QED  BY <1>1, <1>8, <1>9 DEF seen, Turned

-----------------------------------------------------------------------------
(* Every step keeps the invariant.                                         *)

LEMMA InitInv == Init => Inv
  <1> SUFFICES ASSUME Init PROVE Inv
    OBVIOUS
  <1>0. Limit \in Nat \ {0} /\ Window \in Nat \ {0} /\ MaxItems \in Nat
    BY BoundsAssumption
  <1>1. TypeOK
    <2>1. NoQuery \in Clients
      BY DEF NoQuery, Clients
    <2>. QED  BY <1>0, <2>1 DEF Init, TypeOK, Over
  <1>2. ASSUME NEW u \in Users
        PROVE  WindowOK(rateLimit[u], admitted[u])
    <2> DEFINE zero == [a \in 0..Window |-> 0]
               Bad == {k \in 0..Window : Since(zero, k) # 0}
    <2>1. zero \in [0..Window -> Nat] /\ \A a \in 0..Window : zero[a] = 0
      OBVIOUS
    <2>. HIDE DEF zero
    <2>2. ASSUME Bad # {} PROVE FALSE
      <3>1. PICK k \in Bad : k # 0 => k - 1 \in 0..Window /\ k - 1 \notin Bad
        BY <2>2, FirstTime
      <3>2. k # 0 => Since(zero, k - 1) = 0
        BY <3>1
      <3>3. k \in 0..Window /\ Since(zero, k) # 0 /\ zero[k] = 0
        BY <2>1, <3>1
      <3>. HIDE DEF Bad
      <3>4. /\ k = 0 => Since(zero, k) = zero[0]
            /\ k # 0 => Since(zero, k) = Since(zero, k - 1) + zero[k]
        BY <2>1, <3>3, SinceFacts
      <3>. QED  BY <3>2, <3>3, <3>4
    <2>3. Since(zero, Window) = 0 /\ zero[0] = 0
      <3>1. 0 \in 0..Window /\ Window \in 0..Window
        BY <1>0
      <3>. QED  BY <2>1, <2>2, <3>1
    <2>4. rateLimit[u].left = Over /\ admitted[u] = zero
      BY DEF Init, zero
    <2>. QED  BY <1>0, <2>3, <2>4 DEF WindowOK
  <1>3. RoomOK
    <2>1. InFlight = {}
      BY DEF Init, InFlight
    <2>2. Len(items) = 0
      BY DEF Init
    <2>. QED  BY <1>0, <2>1, <2>2, FS_EmptySet DEF RoomOK
  <1>4. InOrder(items)
    BY DEF Init, InOrder
  <1>5. \A r \in Readers : ReaderOK(reader[r], Matching(items, reader[r].names))
    BY DEF Init, NoQuery, ReaderOK
  <1>. QED  BY <1>1, <1>2, <1>3, <1>4, <1>5 DEF Inv

\* The users' windows change on their own.
LEMMA KeepsReaders ==
    ASSUME Inv, UNCHANGED <<items, reader>>
    PROVE  /\ items' \in Seq(Streamers) /\ Len(items') <= MaxItems
           /\ reader' \in [Readers -> Clients]
           /\ InOrder(items)'
           /\ (\A r \in Readers : ReaderOK(reader[r], Matching(items, reader[r].names)))'
    BY DEF Inv, TypeOK

LEMMA KeepsWindows ==
    ASSUME Inv, UNCHANGED <<rateLimit, admitted>>
    PROVE  /\ rateLimit' \in [Users -> [count: 0..Limit, left: Over..Window]]
           /\ admitted' \in [Users -> [0..Window -> 0..Limit]]
           /\ (\A u \in Users : WindowOK(rateLimit[u], admitted[u]))'
    BY DEF Inv, TypeOK

LEMMA AdmitStep ==
    ASSUME Inv, NEW p \in Requests, NEW u \in Users, NEW n \in Names, Admit(p, u, n)
    PROVE  Inv'
  <1> DEFINE c == [Current(u) EXCEPT !.count = @ + 1]
             f == [admitted[u] EXCEPT ![0] = @ + 1]
             x == [at |-> "validate", user |-> u, name |-> n]
  <1>1. /\ req[p] = NoRequest /\ RoomLeft /\ Allowed(u) /\ TypeOK
        /\ rateLimit' = [rateLimit EXCEPT ![u] = c] /\ req' = [req EXCEPT ![p] = x]
        /\ admitted' = [admitted EXCEPT ![u] = f]
        /\ items' = items /\ reader' = reader
    BY DEF Admit, Inv
  <1>2. /\ WindowOK(c, f) /\ c \in [count: 0..Limit, left: Over..Window]
        /\ f \in [0..Window -> 0..Limit]
    BY <1>1, AdmitWindow
  <1>3. x # NoRequest /\ x \in [at: {"validate", "append"}, user: Users, name: Names]
    BY DEF NoRequest
  <1>. HIDE DEF c, f, x
  <1>4. /\ rateLimit' \in [Users -> [count: 0..Limit, left: Over..Window]]
        /\ admitted' \in [Users -> [0..Window -> 0..Limit]]
        /\ req' \in [Requests -> [at: {"validate", "append"}, user: Users, name: Names]
                                    \union {NoRequest}]
    BY <1>1, <1>2, <1>3 DEF TypeOK
  <1>5. (\A v \in Users : WindowOK(rateLimit[v], admitted[v]))'
    <2>. SUFFICES ASSUME NEW v \in Users PROVE WindowOK(rateLimit'[v], admitted'[v])
      OBVIOUS
    <2>1. rateLimit'[v] = (IF v = u THEN c ELSE rateLimit[v]) /\ admitted'[v] = (IF v = u THEN f ELSE admitted[v])
      BY <1>1 DEF TypeOK
    <2>. QED  BY <1>2, <2>1 DEF Inv
  <1>6. RoomOK'
    BY <1>1, <1>3, RoomTaken
  <1>. QED  BY <1>1, <1>4, <1>5, <1>6, KeepsReaders DEF Inv, TypeOK

\* A window is open whenever a request is refused, so that nothing changes.
LEMMA RefuseStep ==
    ASSUME Inv, NEW u \in Users, Refuse(u)
    PROVE  UNCHANGED vars
  <1>1. rateLimit[u].left # Over
    BY Opened DEF Refuse
  <1>2. Current(u) = rateLimit[u] /\ rateLimit' = [rateLimit EXCEPT ![u] = rateLimit[u]]
    BY <1>1, Opened DEF Refuse
  <1>3. rateLimit' = rateLimit
    BY <1>2 DEF Inv, TypeOK
  <1>. QED  BY <1>3 DEF Refuse, vars

LEMMA ValidateStep ==
    ASSUME Inv, NEW p \in Requests, Validate(p)
    PROVE  Inv'
  <1>1. /\ req[p].at = "validate" /\ TypeOK /\ RoomOK
        /\ UNCHANGED <<rateLimit, items, reader, admitted>>
    BY DEF Validate, Inv
  <1>2. req[p] # NoRequest /\ req[p] \in [at: {"validate", "append"}, user: Users, name: Names]
    BY <1>1 DEF TypeOK, NoRequest
  <1>3. /\ RoomOK'
        /\ req' \in [Requests -> [at: {"validate", "append"}, user: Users, name: Names]
                                    \union {NoRequest}]
    <2>1. CASE req' = [req EXCEPT ![p].at = "append"]
      <3>1. InFlight' = InFlight
        BY <1>1, <1>2, <2>1 DEF InFlight, TypeOK, NoRequest
      <3>2. req' \in [Requests -> [at: {"validate", "append"}, user: Users, name: Names]
                                    \union {NoRequest}]
        BY <1>1, <1>2, <2>1 DEF TypeOK
      <3>. QED  BY <1>1, <3>1, <3>2 DEF RoomOK
    <2>2. CASE req' = [req EXCEPT ![p] = NoRequest]
      <3>1. req' \in [Requests -> [at: {"validate", "append"}, user: Users, name: Names]
                                    \union {NoRequest}]
        BY <1>1, <2>2 DEF TypeOK
      <3>2. /\ Cardinality(InFlight') = Cardinality(InFlight) - 1
            /\ Cardinality(InFlight) \in Nat /\ Cardinality(InFlight') \in Nat
        BY <1>1, <1>2, <2>2, RoomFreed
      <3>3. Len(items) \in Nat /\ MaxItems \in Nat /\ items' = items
        BY <1>1, BoundsAssumption DEF TypeOK
      <3>. QED  BY <1>1, <3>1, <3>2, <3>3 DEF RoomOK
    <2>. QED  BY <2>1, <2>2 DEF Validate
  <1>. QED  BY <1>1, <1>3, KeepsReaders, KeepsWindows DEF Inv, TypeOK

LEMMA AppendItemStep ==
    ASSUME Inv, NEW p \in Requests, AppendItem(p)
    PROVE  Inv'
  <1> DEFINE x == Item(p)
             n == Len(items)
  <1>1. /\ req[p].at = "append" /\ TypeOK /\ RoomOK /\ InOrder(items)
        /\ items' = Append(items, x) /\ req' = [req EXCEPT ![p] = NoRequest]
        /\ UNCHANGED <<rateLimit, reader, admitted>>
    BY DEF AppendItem, Inv
  <1>2. req[p] # NoRequest /\ req[p] \in [at: {"validate", "append"}, user: Users, name: Names]
    BY <1>1 DEF TypeOK, NoRequest
  <1>3. /\ Cardinality(InFlight') = Cardinality(InFlight) - 1
        /\ Cardinality(InFlight) \in Nat /\ Cardinality(InFlight') \in Nat
    BY <1>1, <1>2, RoomFreed
  <1>4. n \in Nat /\ MaxItems \in Nat /\ n + 1 <= MaxItems /\ items \in Seq(Streamers)
    BY <1>1, <1>3, BoundsAssumption DEF TypeOK, RoomOK
  <1>5. x \in Streamers /\ x.nth = n + 1
    BY <1>2, <1>4 DEF Item, Streamers
  <1>. HIDE DEF x
  <1>6. /\ items' \in Seq(Streamers) /\ Len(items') = n + 1 /\ items'[n + 1] = x
        /\ \A i \in 1..n : items'[i] = items[i]
    BY <1>1, <1>4, <1>5
  <1>7. RoomOK'
    BY <1>1, <1>3, <1>4, <1>6 DEF RoomOK
  <1>8. InOrder(items)'
    <2>1. \A i \in 1..(n + 1) : i \in 1..n \/ i = n + 1
      BY <1>4
    <2>. QED  BY <1>1, <1>5, <1>6, <2>1 DEF InOrder
  <1>9. ASSUME NEW r \in Readers
        PROVE  ReaderOK(reader[r], Matching(items', reader[r].names))
    <2> DEFINE m == Matching(items, reader[r].names)
    <2>1. m \in Seq(Streamers) /\ ReaderOK(reader[r], m)
      BY <1>1, MatchingSelects DEF Selected, Inv
    <2>2. \/ Matching(items', reader[r].names) = m
          \/ Matching(items', reader[r].names) = Append(m, x)
      BY <1>1, <1>4, <1>5, MatchingAppend
    <2>. HIDE DEF m
    <2>. QED  BY <1>5, <2>1, <2>2, ReaderAppend
  <1>10. (\A r \in Readers : ReaderOK(reader[r], Matching(items, reader[r].names)))'
    BY <1>1, <1>9
  <1>11. TypeOK'
    <2>1. req' \in [Requests -> [at: {"validate", "append"}, user: Users, name: Names]
                                    \union {NoRequest}]
      BY <1>1 DEF TypeOK
    <2>2. Len(items') <= MaxItems
      BY <1>4, <1>6
    <2>. QED  BY <1>1, <1>6, <2>1, <2>2 DEF TypeOK
  <1>. QED  BY <1>7, <1>8, <1>10, <1>11, KeepsWindows, <1>1 DEF Inv

\* What a client's step does to the others.
LEMMA KeepsOthers ==
    ASSUME Inv, NEW r \in Readers, NEW d \in Clients,
           ReaderOK(d, Matching(items, d.names)),
           reader' = [reader EXCEPT ![r] = d],
           UNCHANGED <<rateLimit, req, items, admitted>>
    PROVE  Inv'
  <1>1. TypeOK'
    BY DEF Inv, TypeOK
  <1>2. (\A q \in Readers : ReaderOK(reader[q], Matching(items, reader[q].names)))'
    <2>. SUFFICES ASSUME NEW q \in Readers
                  PROVE  ReaderOK(reader'[q], Matching(items, reader'[q].names))
      OBVIOUS
    <2>1. reader'[q] = IF q = r THEN d ELSE reader[q]
      BY DEF Inv, TypeOK
    <2>. QED  BY <2>1 DEF Inv
  <1>. QED  BY <1>1, <1>2, KeepsWindows DEF Inv, RoomOK, InFlight

LEMMA StartReadingStep ==
    ASSUME Inv, NEW r \in Readers, NEW names \in SUBSET Names, StartReading(r, names)
    PROVE  Inv'
  <1> DEFINE there == {x.nth : x \in {items[i] : i \in
                         {j \in DOMAIN items : items[j].username \in names}}}
             d == [names |-> names, page |-> 1, seen |-> <<>>, present |-> there]
             m == Matching(items, names)
  <1>1. /\ reader' = [reader EXCEPT ![r] = d] /\ UNCHANGED <<rateLimit, req, items, admitted>>
        /\ InOrder(items) /\ items \in Seq(Streamers)
    BY DEF StartReading, Inv, TypeOK
  <1>2. \A x \in there : \E i \in 1..Len(items) : items[i].username \in names /\ items[i].nth = x
    BY <1>1
  <1>3. there \subseteq 1..MaxItems
    <2>. SUFFICES ASSUME NEW x \in there PROVE x \in 1..MaxItems
      OBVIOUS
    <2>1. PICK i \in 1..Len(items) : items[i].nth = x
      BY <1>2
    <2>2. items[i] \in Streamers
      BY <1>1
    <2>. HIDE DEF there
    <2>. QED  BY <2>1, <2>2 DEF Streamers
  <1>. HIDE DEF there
  <1>4. d \in Clients
    BY <1>3 DEF Clients
  <1>5. Selected(m, items, names, Len(items)) /\ m \in Seq(Streamers)
    BY <1>1, MatchingSelects DEF Selected
  <1>6. Past(d) = 0
    BY BoundsAssumption DEF Past
  <1>. HIDE DEF m
  <1>7. \A x \in there : Found(x, m, <<>>, 0)
    <2>. SUFFICES ASSUME NEW x \in there PROVE Found(x, m, <<>>, 0)
      OBVIOUS
    <2>1. PICK i \in 1..Len(items) : items[i].username \in names /\ items[i].nth = x
      BY <1>2
    <2>2. PICK k \in 1..Len(m) : m[k] = items[i]
      BY <1>5, <2>1 DEF Selected
    <2>3. ~ (k <= 0)
      BY <1>5
    <2>. QED  BY <2>1, <2>2, <2>3 DEF Found
  <1>8. ReaderOK(d, m)
    <2>1. Rising(<<>>) /\ Listed(<<>>, m, 0)
      BY DEF Rising, Listed
    <2>2. d.page > 0 /\ d.page # 0 /\ d.seen = <<>> /\ d.present = there
      OBVIOUS
    <2>. HIDE DEF d
    <2>. QED  BY <1>6, <1>7, <2>1, <2>2 DEF ReaderOK
  <1>9. d.names = names
    OBVIOUS
  <1>. HIDE DEF d
  <1>. QED  BY <1>1, <1>4, <1>8, <1>9, KeepsOthers DEF m

\* What a client's query selects now.
LEMMA QueryFacts ==
    ASSUME Inv, NEW r \in Readers
    PROVE  /\ reader[r] \in Clients
           /\ Matching(items, reader[r].names) \in Seq(Streamers)
           /\ Rising(Matching(items, reader[r].names))
           /\ ReaderOK(reader[r], Matching(items, reader[r].names))
  <1>1. Selected(Matching(items, reader[r].names), items, reader[r].names, Len(items))
    BY MatchingSelects DEF Inv
  <1>. QED  BY <1>1 DEF Inv, TypeOK, Selected, Rising

LEMMA ReadPageStep ==
    ASSUME Inv, NEW r \in Readers, ReadPage(r)
    PROVE  Inv'
  <1> DEFINE c == reader[r]
             m == Matching(items, c.names)
             page == List(c.names, c.page)
             d == Turned(c, page)
  <1>1. c.page > 0 /\ UNCHANGED <<rateLimit, req, items, admitted>>
    BY DEF ReadPage
  <1>2. CASE page = <<>>
    <2>1. reader' = [reader EXCEPT ![r] = NoQuery]
      BY <1>2 DEF ReadPage
    <2>2. NoQuery \in Clients /\ ReaderOK(NoQuery, Matching(items, NoQuery.names))
      BY DEF NoQuery, Clients, ReaderOK
    <2>. QED  BY <1>1, <2>1, <2>2, KeepsOthers
  <1>3. CASE page # <<>>
    <2>1. reader' = [reader EXCEPT ![r] = d]
      BY <1>3 DEF ReadPage, Turned
    <2>2. page = SubSeq(m, Past(c) + 1, Least(Len(m), c.page * PageSize))
      BY DEF List, Past
    <2>3. c \in Clients /\ m \in Seq(Streamers) /\ Rising(m) /\ ReaderOK(c, m)
      BY QueryFacts
    <2>. HIDE DEF c, page
    <2>4. d \in Clients /\ d.names = c.names /\ ReaderOK(d, m)
      <3>. HIDE DEF m
      <3>. QED  BY <1>1, <2>2, <2>3, ReaderReads
    <2>. HIDE DEF d
    <2>. QED  BY <1>1, <2>1, <2>4, KeepsOthers
  <1>. QED  BY <1>2, <1>3

LEMMA TickStep ==
    ASSUME Inv, Tick
    PROVE  Inv'
  <1> DEFINE c(u) == [rateLimit[u] EXCEPT !.left = IF @ = Over THEN Over ELSE @ - 1]
  <1>1. /\ rateLimit' = [u \in Users |-> c(u)]
        /\ admitted' = [u \in Users |-> Aged(admitted[u])]
        /\ UNCHANGED <<req, items, reader>>
    BY DEF Tick, Aged
  <1>2. \A u \in Users : /\ WindowOK(c(u), Aged(admitted[u]))
                         /\ c(u) \in [count: 0..Limit, left: Over..Window]
                         /\ Aged(admitted[u]) \in [0..Window -> 0..Limit]
    BY TickWindow
  <1>. HIDE DEF c
  <1>3. /\ rateLimit' \in [Users -> [count: 0..Limit, left: Over..Window]]
        /\ admitted' \in [Users -> [0..Window -> 0..Limit]]
        /\ (\A u \in Users : WindowOK(rateLimit[u], admitted[u]))'
    BY <1>1, <1>2
  <1>4. TypeOK'
    BY <1>1, <1>3 DEF Inv, TypeOK
  <1>. QED  BY <1>1, <1>3, <1>4, KeepsReaders DEF Inv, RoomOK, InFlight

LEMMA NextInv == Inv /\ [Next]_vars => Inv'
  <1> SUFFICES ASSUME Inv, [Next]_vars PROVE Inv'
    OBVIOUS
  <1>1. ASSUME UNCHANGED vars PROVE Inv'
    BY <1>1 DEF vars, Inv, TypeOK, RoomOK, InFlight
  <1>2. ASSUME NEW p \in Requests, NEW u \in Users, NEW n \in Names, Admit(p, u, n) PROVE Inv'
    BY <1>2, AdmitStep
  <1>3. ASSUME NEW p \in Requests, Validate(p) PROVE Inv'
    BY <1>3, ValidateStep
  <1>4. ASSUME NEW p \in Requests, AppendItem(p) PROVE Inv'
    BY <1>4, AppendItemStep
  <1>5. ASSUME NEW u \in Users, Refuse(u) PROVE Inv'
    BY <1>1, <1>5, RefuseStep
  <1>6. ASSUME NEW r \in Readers, NEW N \in (SUBSET Names) \ {{}}, StartReading(r, N) PROVE Inv'
    BY <1>6, StartReadingStep
  <1>7. ASSUME NEW r \in Readers, ReadPage(r) PROVE Inv'
    BY <1>7, ReadPageStep
  <1>8. ASSUME Tick PROVE Inv'
    BY <1>8, TickStep
  <1>. QED  BY <1>1, <1>2, <1>3, <1>4, <1>5, <1>6, <1>7, <1>8 DEF Next

-----------------------------------------------------------------------------
(* What follows from it.                                                   *)

LEMMA RecentIs == \A u \in Users : Recent(u) = Since(admitted[u], Window)
  BY DEF Recent, Since, SetSum

LEMMA InvGives ==
    ASSUME Inv
    PROVE  RateBound /\ NoFalseRefusal /\ PagesAreStable
  <1>0. Limit \in Nat \ {0} /\ Window \in Nat \ {0}
    BY BoundsAssumption
  <1>1. RateBound
    <2>. SUFFICES ASSUME NEW u \in Users PROVE Since(admitted[u], Window) <= 2 * Limit
      BY RecentIs DEF RateBound
    <2>1. /\ WindowOK(rateLimit[u], admitted[u])
          /\ rateLimit[u].count \in 0..Limit /\ Since(admitted[u], Window) \in Nat
      BY Opened DEF Inv
    <2>. QED  BY <1>0, <2>1 DEF WindowOK
  <1>2. NoFalseRefusal
    <2>. SUFFICES ASSUME NEW u \in Users, ~ Allowed(u)
                  PROVE  Since(admitted[u], Window) >= Limit
      BY RecentIs DEF NoFalseRefusal
    <2> DEFINE f == admitted[u]
               n == Window - rateLimit[u].left
    <2>1. /\ rateLimit[u].left \in 0..Window /\ rateLimit[u].left # Over
          /\ rateLimit[u].count = Limit
      <3>1. rateLimit[u] \in [count: 0..Limit, left: Over..Window] /\ rateLimit[u].left # Over
        BY Opened
      <3>2. rateLimit[u].count >= Limit
        BY <1>0, <3>1, Opened DEF Allowed
      <3>. QED  BY <1>0, <3>1, <3>2 DEF Over
    <2>2. Since(f, n) = Limit
      BY <2>1 DEF Inv, WindowOK
    <2>3. n \in 0..Window /\ Window \in 0..Window /\ n <= Window
      BY <1>0, <2>1
    <2>4. Since(f, n) <= Since(f, Window) /\ Since(f, Window) \in Nat
      <3>1. f \in [0..Window -> Nat] /\ Since(f, Window) \in Nat
        BY Opened
      <3>. HIDE DEF f, n
      <3>. QED  BY <2>3, <3>1, SinceGrows
    <2>. QED  BY <1>0, <2>2, <2>4
  <1>3. PagesAreStable
    <2>. SUFFICES ASSUME NEW r \in Readers
                  PROVE  LET c == reader[r]
                         IN  /\ \A i, j \in DOMAIN c.seen : c.seen[i].nth = c.seen[j].nth => i = j
                             /\ c.page > 0 /\ List(c.names, c.page) = <<>> =>
                                    c.present \subseteq {c.seen[i].nth : i \in DOMAIN c.seen}
      BY DEF PagesAreStable
    <2> DEFINE c == reader[r]
               m == Matching(items, c.names)
               seen == c.seen
    <2>1. c \in Clients /\ m \in Seq(Streamers) /\ ReaderOK(c, m)
      BY QueryFacts
    <2>2. seen \in Seq(Streamers) /\ c.page \in Nat
      BY <2>1 DEF Clients
    <2>3. \A i, j \in DOMAIN seen : seen[i].nth = seen[j].nth => i = j
      <3>1. CASE c.page = 0
        <4>1. seen = <<>>
          BY <2>1, <3>1 DEF ReaderOK
        <4>. QED  BY <4>1
      <3>2. CASE c.page > 0
        <4>1. Rising(seen)
          BY <2>1, <3>2 DEF ReaderOK
        <4>. SUFFICES ASSUME NEW i \in 1..Len(seen), NEW j \in 1..Len(seen),
                             seen[i].nth = seen[j].nth
                      PROVE  i = j
          BY <2>2
        <4>2. seen[i] \in Streamers /\ seen[j] \in Streamers
          BY <2>2
        <4>3. seen[i].nth \in Int /\ seen[j].nth \in Int
          BY <4>2, BoundsAssumption DEF Streamers
        <4>4. ~ (i < j) /\ ~ (j < i)
          BY <4>1, <4>3 DEF Rising
        <4>. HIDE DEF seen
        <4>. QED  BY <2>2, <4>4
      <3>. HIDE DEF c
      <3>. QED  BY <2>2, <3>1, <3>2
    <2>4. ASSUME c.page > 0, List(c.names, c.page) = <<>>
          PROVE  c.present \subseteq {seen[i].nth : i \in DOMAIN seen}
      <3> DEFINE page == SubSeq(m, Past(c) + 1, Least(Len(m), Past(c) + PageSize))
      <3>1. /\ Past(c) \in Nat /\ PageSize \in Nat /\ PageSize > 0
            /\ c.page * PageSize = Past(c) + PageSize
        <4>1. (c.page - 1) * PageSize \in Nat /\ c.page * PageSize = (c.page - 1) * PageSize + PageSize
          BY <2>2, <2>4, PageFacts
        <4>. QED  BY <4>1, BoundsAssumption DEF Past
      <3>2. page = <<>>
        BY <2>4, <3>1 DEF List, Past
      <3>3. PageOf(page, m, Past(c), PageSize)
        <4>. HIDE DEF m, c
        <4>. QED  BY <2>1, <3>1, ListIs
      <3>. HIDE DEF page, m, c, seen
      <3>4. \A k \in 1..Len(m) : k <= Past(c)
        <4>. SUFFICES ASSUME NEW k \in 1..Len(m), ~ (k <= Past(c)) PROVE FALSE
          OBVIOUS
        <4>1. Len(m) \in Nat /\ Len(page) = 0
          BY <2>1, <3>2
        <4>2. Past(c) + 1 \in 1..Len(m)
          BY <3>1, <4>1
        <4>3. (Past(c) + 1) - Past(c) \in 1..Len(page)
          BY <3>1, <3>3, <4>2 DEF PageOf
        <4>. QED  BY <4>1, <4>3
      <3>5. ASSUME NEW x \in c.present
            PROVE  \E i \in DOMAIN seen : seen[i].nth = x
        <4>1. Found(x, m, seen, Past(c))
          BY <2>1, <2>4 DEF ReaderOK, seen
        <4>2. PICK k \in 1..Len(m) : k <= Past(c) => \E i \in 1..Len(seen) : seen[i].nth = x
          BY <4>1 DEF Found
        <4>. QED  BY <2>2, <3>4, <4>2
      <3>. QED  BY <3>5
    <2>. QED  BY <2>3, <2>4
  <1>. QED  BY <1>1, <1>2, <1>3

LEMMA InvHolds == Spec => []Inv
  BY InitInv, NextInv, PTL DEF Spec

\* The limiter, the slice and the clients keep their types: no more streamers
\* are listed than there is room for, and no user's count passes the limit.
THEOREM TypeCorrect == Spec => []TypeOK
  <1>1. Inv => TypeOK
    BY DEF Inv
  <1>. QED  BY <1>1, InvHolds, PTL

\* allowSubmission: in any stretch of time as long as a window no user gets more
\* than twice the limit of submissions in.
THEOREM RateStaysBounded == Spec => []RateBound
  BY InvGives, InvHolds, PTL

\* allowSubmission: who is refused had Limit submissions let in during the last
\* window.
THEOREM NobodyIsRefusedFalsely == Spec => []NoFalseRefusal
  BY InvGives, InvHolds, PTL

\* List: whoever submits meanwhile, a client that reads page after page sees no
\* streamer twice and misses none that was there when it started.
THEOREM PagesStayStable == Spec => []PagesAreStable
  BY InvGives, InvHolds, PTL

\* What may become of the window of a user who is refused: time passes.
RunsOut(u) ==
    \/ rateLimit'[u] = rateLimit[u]
    \/ Tick /\ rateLimit'[u] = [rateLimit[u] EXCEPT !.left = @ - 1]

\* allowSubmission: a refusal lasts for what is left of a window that is open, and
\* neither the attempts that are refused nor other users put its end off.
THEOREM RefusalsRunOut ==
    Spec => [][\A u \in Users : ~Allowed(u) => rateLimit[u].left \in 0..Window /\ RunsOut(u)]_vars
  <1>1. ASSUME Inv, [Next]_vars, NEW u \in Users, ~Allowed(u)
        PROVE  rateLimit[u].left \in 0..Window /\ RunsOut(u)
    <2>0. Limit \in Nat \ {0} /\ Window \in Nat \ {0}
      BY BoundsAssumption
    <2>1. /\ rateLimit \in [Users -> [count: 0..Limit, left: Over..Window]]
          /\ rateLimit[u].left \in Over..Window
      BY <1>1 DEF Inv, TypeOK
    <2>2. rateLimit[u].left # Over /\ Current(u) = rateLimit[u]
      BY <1>1, <2>0 DEF Allowed, Current
    <2>3. rateLimit[u].left \in 0..Window
      BY <2>0, <2>1, <2>2 DEF Over
    <2>4. ASSUME NEW p \in Requests, NEW v \in Users, NEW n \in Names, Admit(p, v, n)
          PROVE  RunsOut(u)
      BY <1>1, <2>1, <2>4 DEF Admit, RunsOut
    <2>5. ASSUME NEW v \in Users, Refuse(v)
          PROVE  RunsOut(u)
      BY <2>1, <2>2, <2>5 DEF Refuse, RunsOut
    <2>6. ASSUME Tick
          PROVE  RunsOut(u)
      BY <2>2, <2>6 DEF Tick, RunsOut
    <2>7. ASSUME rateLimit' = rateLimit
          PROVE  RunsOut(u)
      BY <2>7 DEF RunsOut
    <2>. QED
      BY <1>1, <2>3, <2>4, <2>5, <2>6, <2>7
         DEF Next, Validate, AppendItem, StartReading, ReadPage, vars
  <1>2. Inv /\ [Next]_vars =>
           [\A u \in Users : ~Allowed(u) => rateLimit[u].left \in 0..Window /\ RunsOut(u)]_vars
    BY <1>1
  <1>. QED  BY <1>2, InvHolds, PTL DEF Spec

=============================================================================
