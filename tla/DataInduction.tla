---------------------------- MODULE DataInduction ----------------------------
(***************************************************************************)
(* Induction over the natural numbers and recursion over data of a size,   *)
(* as facts about sets and functions: the proof modules cite them for      *)
(* loops and recursive functions.  And powers of two, which prefixes and   *)
(* masks are made of.                                                      *)
(***************************************************************************)
EXTENDS Integers, FiniteSetTheorems, WellFoundedInduction, TLAPS

\* A set of numbers that is not empty has a least one.
LEMMA Least ==
  ASSUME NEW T, T \subseteq Nat, T # {}
  PROVE  \E m \in T : \A n \in T : m <= n
  <1> DEFINE R == OpToRel(<, Nat)
  <1>1. IsWellFoundedOn(R, Nat)
    BY NatLessThanWellFounded
  <1>2. \A m, n \in Nat : ~(<<n, m>> \in R) => m <= n
    BY DEF OpToRel
  <1> HIDE DEF R
  <1>3. PICK m \in T : \A n \in T : ~(<<n, m>> \in R)
    BY <1>1, WFMin
  <1>4. \A n \in T : m <= n
    BY <1>2, <1>3
  <1> QED BY <1>4

\* Induction: a set of numbers that has 0, and with n has n + 1, is Nat.
LEMMA Induction ==
  ASSUME NEW S, 0 \in S, \A n \in Nat : n \in S => n + 1 \in S
  PROVE  \A n \in Nat : n \in S
  <1> SUFFICES ASSUME Nat \ S # {} PROVE FALSE
    OBVIOUS
  <1>1. PICK m \in Nat \ S : \A n \in Nat \ S : m <= n
    BY Least
  <1>2. m - 1 \in Nat /\ m - 1 \notin Nat \ S
    BY <1>1
  <1> QED BY <1>1, <1>2

(***************************************************************************)
(* Recursion: on the elements of D for which it goes on, a function is     *)
(* step[x] of its value at next[x], which is smaller; elsewhere it is      *)
(* base[x].                                                                *)
(***************************************************************************)
Smaller(D, size, next, on) ==
  size \in [D -> Nat] /\ \A x \in on : next[x] \in D /\ size[next[x]] < size[x]

Rule(base, step, next, on, f, x) == IF x \in on THEN step[x][f[next[x]]] ELSE base[x]

Below(D, size, n) == {x \in D : size[x] < n}

Recursive(E, V, base, step, next, on, f) ==
  f \in [E -> V] /\ \A x \in E : f[x] = Rule(base, step, next, on, f, x)

\* There is such a function for the elements below any size.
LEMMA RecursionBelow ==
  ASSUME NEW D, NEW V, NEW size, NEW next, NEW on, NEW base, NEW step,
         Smaller(D, size, next, on), on \subseteq D,
         base \in [D -> V], step \in [D -> [V -> V]]
  PROVE  \A n \in Nat : \E f : Recursive(Below(D, size, n), V, base, step, next, on, f)
  <1> DEFINE B(n) == Below(D, size, n)
             Good(n, f) == Recursive(B(n), V, base, step, next, on, f)
             T == {n \in Nat : \E f : Good(n, f)}
  <1>1. 0 \in T
    <2>1. B(0) = {}
      BY DEF Below, Smaller
    <2>2. Good(0, [x \in {} |-> x])
      BY <2>1 DEF Recursive
    <2> QED BY <2>2
  <1>2. ASSUME NEW n \in Nat, n \in T PROVE n + 1 \in T
    <2>1. PICK f : Good(n, f)
      BY <1>2
    <2> DEFINE g == [x \in B(n + 1) |-> Rule(base, step, next, on, f, x)]
    <2>2. \A x \in B(n + 1) : x \in on => next[x] \in B(n)
      BY DEF Below, Smaller
    <2>3. B(n) \subseteq B(n + 1) /\ B(n + 1) \subseteq D
      BY DEF Below, Smaller
    <2>4. f \in [B(n) -> V] /\ \A x \in B(n) : f[x] = Rule(base, step, next, on, f, x)
      BY <2>1 DEF Recursive
    <2> HIDE DEF B
    <2>5. \A x \in B(n + 1) : Rule(base, step, next, on, f, x) \in V
      BY <2>2, <2>3, <2>4 DEF Rule
    <2>6. g \in [B(n + 1) -> V]
      BY <2>5
    <2>7. \A x \in B(n) : g[x] = f[x]
      BY <2>3, <2>4
    <2>8. \A x \in B(n + 1) : g[x] = Rule(base, step, next, on, f, x)
      OBVIOUS
    <2> HIDE DEF g
    <2>9. \A x \in B(n + 1) : g[x] = Rule(base, step, next, on, g, x)
      BY <2>2, <2>7, <2>8 DEF Rule
    <2>10. Good(n + 1, g)
      BY <2>6, <2>9 DEF Recursive
    <2> QED BY <2>10
  <1> HIDE DEF Good
  <1>3. \A n \in Nat : n \in T
    <2>1. \A n \in Nat : n \in T => n + 1 \in T
      BY <1>2
    <2> HIDE DEF T
    <2> QED BY <1>1, <2>1, Induction
  <1> QED BY <1>3 DEF Good

\* Two of them agree where both are defined.
Agree(D, V, size, next, on, base, step) ==
  \A n, m \in Nat : \A f, g :
    /\ Recursive(Below(D, size, n), V, base, step, next, on, f)
    /\ Recursive(Below(D, size, m), V, base, step, next, on, g)
    => \A x \in D : size[x] < n /\ size[x] < m => f[x] = g[x]

\* They do.
LEMMA RecursionUnique ==
  ASSUME NEW D, NEW V, NEW size, NEW next, NEW on, NEW base, NEW step,
         Smaller(D, size, next, on), on \subseteq D,
         base \in [D -> V], step \in [D -> [V -> V]]
  PROVE  Agree(D, V, size, next, on, base, step)
  <1> SUFFICES ASSUME NEW n \in Nat, NEW m \in Nat, NEW f, NEW g,
                      Recursive(Below(D, size, n), V, base, step, next, on, f),
                      Recursive(Below(D, size, m), V, base, step, next, on, g)
               PROVE  \A x \in D : size[x] < n /\ size[x] < m => f[x] = g[x]
    BY DEF Agree
  <1> DEFINE Same(x) == size[x] < n /\ size[x] < m => f[x] = g[x]
             T == {k \in Nat : \A x \in Below(D, size, k) : Same(x)}
  <1>0. /\ \A x \in D : size[x] < n => f[x] = Rule(base, step, next, on, f, x)
        /\ \A x \in D : size[x] < m => g[x] = Rule(base, step, next, on, g, x)
    BY DEF Recursive, Below
  <1>1. 0 \in T
    BY DEF Below, Smaller
  <1>2. ASSUME NEW k \in Nat, k \in T PROVE k + 1 \in T
    <2>1. ASSUME NEW x \in Below(D, size, k + 1), size[x] < n, size[x] < m
          PROVE  f[x] = g[x]
      <3>1. x \in D /\ size[x] \in Nat /\ size[x] < k + 1
        BY DEF Below, Smaller
      <3>2. CASE x \in on
        <4>1. next[x] \in D /\ size[next[x]] \in Nat /\ size[next[x]] < size[x]
          BY <3>2 DEF Smaller
        <4>2. next[x] \in Below(D, size, k) /\ size[next[x]] < n /\ size[next[x]] < m
          BY <2>1, <3>1, <4>1 DEF Below
        <4>3. f[next[x]] = g[next[x]]
          BY <1>2, <4>2
        <4> QED BY <1>0, <2>1, <3>1, <3>2, <4>3 DEF Rule
      <3>3. CASE x \notin on
        BY <1>0, <2>1, <3>1, <3>3 DEF Rule
      <3> QED BY <3>2, <3>3
    <2> QED BY <2>1
  <1>3. \A k \in Nat : k \in T
    <2>1. \A k \in Nat : k \in T => k + 1 \in T
      BY <1>2
    <2> HIDE DEF T
    <2> QED BY <1>1, <2>1, Induction
  <1>4. ASSUME NEW x \in D PROVE Same(x)
    <2>1. size[x] + 1 \in Nat /\ x \in Below(D, size, size[x] + 1)
      BY DEF Below, Smaller
    <2>2. size[x] + 1 \in T
      BY <1>3, <2>1
    <2> QED BY <2>1, <2>2
  <1> QED BY <1>4

\* There is such a function on all of D.
LEMMA Recursion ==
  ASSUME NEW D, NEW V, NEW size, NEW next, NEW on, NEW base, NEW step,
         Smaller(D, size, next, on), on \subseteq D,
         base \in [D -> V], step \in [D -> [V -> V]]
  PROVE  \E f : Recursive(D, V, base, step, next, on, f)
  <1> DEFINE Good(n, f) == Recursive(Below(D, size, n), V, base, step, next, on, f)
             part == [n \in Nat |-> CHOOSE f : Good(n, f)]
             all == [x \in D |-> part[size[x] + 1][x]]
  <1>1. \A n \in Nat : Good(n, part[n])
    <2> TAKE n \in Nat
    <2>1. \E f : Good(n, f)
      BY RecursionBelow
    <2> HIDE DEF Good
    <2> QED BY <2>1
  <1>2. \A n, m \in Nat : \A f, g :
          Good(n, f) /\ Good(m, g) => \A x \in D : size[x] < n /\ size[x] < m => f[x] = g[x]
    <2>1. Agree(D, V, size, next, on, base, step)
      BY RecursionUnique
    <2> QED BY <2>1 DEF Agree
  <1> HIDE DEF part, Good
  <1>3. \A x \in D : size[x] \in Nat /\ size[x] + 1 \in Nat /\ size[x] < size[x] + 1
    BY DEF Smaller
  <1>4. ASSUME NEW x \in D PROVE all[x] \in V /\ all[x] = Rule(base, step, next, on, all, x)
    <2> DEFINE f == part[size[x] + 1]
    <2>1. Good(size[x] + 1, f) /\ x \in Below(D, size, size[x] + 1)
      BY <1>1, <1>3 DEF Below
    <2>2. f[x] \in V /\ f[x] = Rule(base, step, next, on, f, x)
      BY <2>1 DEF Recursive, Good
    <2>3. all[x] = f[x]
      OBVIOUS
    <2>4. CASE x \notin on
      BY <2>2, <2>3, <2>4 DEF Rule
    <2>5. CASE x \in on
      <3> DEFINE y == next[x]
                 h == part[size[y] + 1]
      <3>1. y \in D /\ size[y] < size[x] /\ size[y] \in Nat /\ size[x] \in Nat
        BY <2>5 DEF Smaller
      <3>2. Good(size[y] + 1, h)
        BY <1>1, <3>1
      <3>3. all[y] = h[y]
        BY <3>1
      <3>4. size[y] < size[x] + 1 /\ size[y] < size[y] + 1
        BY <3>1
      <3> HIDE DEF f, h, y
      <3>5. f[y] = h[y]
        <4>1. size[x] + 1 \in Nat /\ size[y] + 1 \in Nat
          BY <3>1
        <4> QED BY <1>2, <2>1, <3>1, <3>2, <3>4, <4>1
      <3> QED BY <2>2, <2>3, <2>5, <3>3, <3>5 DEF Rule, y
    <2> QED BY <2>4, <2>5
  <1>5. all \in [D -> V]
    BY <1>4
  <1> HIDE DEF all
  <1>6. Recursive(D, V, base, step, next, on, all)
    BY <1>4, <1>5 DEF Recursive
  <1> QED BY <1>6

\* A loop of n turns, each of which makes the next value of the last one.
Iterates(n, V, init, step, f) ==
  f \in [0 .. n -> V] /\ f[0] = init /\ \A i \in 1 .. n : f[i] = step[i][f[i - 1]]

\* There is such a loop.
LEMMA Iteration ==
  ASSUME NEW n \in Nat, NEW V, NEW init \in V, NEW step \in [1 .. n -> [V -> V]]
  PROVE  \E f : Iterates(n, V, init, step, f)
  <1> DEFINE D == 0 .. n
             size == [i \in D |-> i]
             next == [i \in 1 .. n |-> i - 1]
             base == [i \in D |-> init]
             turn == [i \in D |-> IF i \in 1 .. n THEN step[i] ELSE [v \in V |-> v]]
  <1>1. Smaller(D, size, next, 1 .. n)
    BY DEF Smaller
  <1>2. 1 .. n \subseteq D /\ base \in [D -> V]
    OBVIOUS
  <1>3. turn \in [D -> [V -> V]]
    <2>1. \A i \in D : turn[i] \in [V -> V]
      OBVIOUS
    <2> QED BY <2>1
  <1>4. /\ \A i \in D : base[i] = init
        /\ \A i \in 1 .. n : next[i] = i - 1 /\ turn[i] = step[i]
    OBVIOUS
  <1> HIDE DEF size, next, base, turn
  <1>5. PICK f : Recursive(D, V, base, turn, next, 1 .. n, f)
    BY <1>1, <1>2, <1>3, Recursion
  <1>6. f \in [D -> V] /\ \A i \in D : f[i] = Rule(base, turn, next, 1 .. n, f, i)
    BY <1>5 DEF Recursive
  <1>7. f[0] = init
    BY <1>4, <1>6 DEF Rule
  <1>8. \A i \in 1 .. n : f[i] = step[i][f[i - 1]]
    BY <1>2, <1>4, <1>6 DEF Rule
  <1> QED BY <1>6, <1>7, <1>8 DEF Iterates

-----------------------------------------------------------------------------
(* Powers of two, which the provers know nothing of, and remainders. *)

\* A set of n elements has 2^n subsets, and with one more twice as many.
LEMMA Power ==
  ASSUME NEW n \in Nat
  PROVE 2^n \in Nat \ {0} /\ 2^(n + 1) = 2 * 2^n
  <1> DEFINE S == 1 .. n
             x == n + 1
             P == SUBSET S
             Q == {A \cup {x} : A \in P}
  <1>1. IsFiniteSet(S) /\ Cardinality(S) = n
    BY FS_Interval
  <1>2. IsFiniteSet(S \cup {x}) /\ Cardinality(S \cup {x}) = n + 1
    BY <1>1, FS_AddElement
  <1>3. IsFiniteSet(P) /\ Cardinality(P) = 2^n
    BY <1>1, FS_SUBSET
  <1>4. Cardinality(SUBSET (S \cup {x})) = 2^(n + 1)
    BY <1>2, FS_SUBSET
  <1>5. x \notin S
    OBVIOUS
  <1> HIDE DEF S, x
  <1> DEFINE f == [A \in P |-> A \cup {x}]
  <1>6. f \in Bijection(P, Q)
    <2>1. f \in [P -> Q] /\ \A q \in Q : \E A \in P : f[A] = q
      OBVIOUS
    <2>2. \A A, B \in P : f[A] = f[B] => A = B
      <3> SUFFICES ASSUME NEW A \in P, NEW B \in P, A \cup {x} = B \cup {x} PROVE A = B
        OBVIOUS
      <3> QED BY <1>5
    <2> QED BY <2>1, <2>2 DEF Bijection, Injection, Surjection, IsInjective
  <1>7. IsFiniteSet(Q) /\ Cardinality(Q) = 2^n
    <2> HIDE DEF f, P, Q
    <2>1. ExistsBijection(P, Q)
      BY <1>6 DEF ExistsBijection
    <2> QED BY <1>3, <2>1, FS_Bijection
  <1>8. SUBSET (S \cup {x}) = P \cup Q /\ P \cap Q = {}
    <2>1. ASSUME NEW A \in SUBSET (S \cup {x}) PROVE A \in P \cup Q
      <3>1. CASE x \in A
        <4>1. A = (A \ {x}) \cup {x} /\ A \ {x} \in P
          BY <3>1
        <4> QED BY <4>1
      <3>2. CASE x \notin A
        BY <3>2
      <3> QED BY <3>1, <3>2
    <2>2. \A A \in P \cup Q : A \in SUBSET (S \cup {x})
      OBVIOUS
    <2>3. \A A \in P : x \notin A
      BY <1>5
    <2>4. \A A \in Q : x \in A
      OBVIOUS
    <2> HIDE DEF P, Q
    <2>5. P \cap Q = {}
      BY <2>3, <2>4
    <2> QED BY <2>1, <2>2, <2>5
  <1>9. 2^(n + 1) = 2^n + 2^n /\ 2^n \in Nat
    <2>1. Cardinality(P \cap Q) = 0
      BY <1>8, FS_EmptySet
    <2> HIDE DEF P, Q
    <2>2. Cardinality(P \cup Q) = Cardinality(P) + Cardinality(Q) - Cardinality(P \cap Q)
      BY <1>3, <1>7, FS_Union
    <2>3. Cardinality(P) \in Nat
      BY <1>3, FS_CardinalityType
    <2>4. Cardinality(P \cup Q) = 2^(n + 1)
      BY <1>4, <1>8
    <2> QED BY <1>3, <1>7, <2>1, <2>2, <2>3, <2>4
  <1>10. 2^n # 0
    <2>1. {} \in P
      OBVIOUS
    <2> QED BY <1>3, <2>1, FS_EmptySet
  <1> QED BY <1>9, <1>10

\* Only one remainder of a quotient is small enough.
LEMMA Remainder ==
  ASSUME NEW d \in Nat \ {0}, NEW y \in Int, NEW z \in 0 .. d - 1
  PROVE  (d * y + z) % d = z
  <1> DEFINE x == d * y + z
             q == x \div d
             r == x % d
  <1>1. x \in Int /\ q \in Int /\ x = d * q + r /\ r \in 0 .. d - 1
    OBVIOUS
  <1> HIDE DEF q, r
  <1>2. d * (y - q) = r - z
    BY <1>1
  <1>3. CASE y = q
    BY <1>1, <1>2, <1>3 DEF r
  <1>4. CASE y - q >= 1
    <2>1. d * (y - q) >= d
      BY <1>1, <1>4
    <2> QED BY <1>1, <1>2, <2>1
  <1>5. CASE q - y >= 1
    <2>1. d * (q - y) >= d
      BY <1>1, <1>5
    <2> QED BY <1>1, <1>2, <2>1
  <1> QED BY <1>1, <1>3, <1>4, <1>5

\* A smaller power of two divides a larger one.
LEMMA PowerDivides ==
  ASSUME NEW k \in Nat, NEW m \in Nat
  PROVE  \E c \in Nat \ {0} : 2^(k + m) = 2^k * c
  <1> DEFINE T == {j \in Nat : \E c \in Nat \ {0} : 2^(k + j) = 2^k * c}
  <1>0. 2^k \in Nat \ {0}
    BY Power
  <1>1. 0 \in T
    <2>1. 2^(k + 0) = 2^k * 1
      BY <1>0
    <2> QED BY <2>1
  <1>2. ASSUME NEW j \in Nat, j \in T PROVE j + 1 \in T
    <2>1. PICK c \in Nat \ {0} : 2^(k + j) = 2^k * c
      BY <1>2
    <2>2. 2^(k + j + 1) = 2 * 2^(k + j)
      BY Power
    <2>3. k + (j + 1) = k + j + 1
      OBVIOUS
    <2> DEFINE b == 2 * c
    <2>4. 2^(k + (j + 1)) = 2^k * b /\ b \in Nat \ {0} /\ j + 1 \in Nat
      BY <1>0, <2>1, <2>2, <2>3
    <2> HIDE DEF b
    <2> QED BY <2>4
  <1>3. \A j \in Nat : j \in T
    <2>1. \A j \in Nat : j \in T => j + 1 \in T
      BY <1>2
    <2> HIDE DEF T
    <2> QED BY <1>1, <2>1, Induction
  <1> QED BY <1>3

\* Blocks of a size lie in those of a multiple of it.
LEMMA BlocksNest ==
  ASSUME NEW d \in Nat \ {0}, NEW c \in Nat \ {0}, NEW a \in Int
  PROVE  LET b == a - (a % d) IN b - (b % (d * c)) = a - (a % (d * c))
  <1> DEFINE D == d * c
             q == a \div D
             r == a % D
             p == r \div d
             s == r % d
  <1>1. D \in Nat \ {0} /\ q \in Int /\ r \in 0 .. D - 1 /\ a = D * q + r
    OBVIOUS
  <1> HIDE DEF q, r
  <1>2. p \in Int /\ s \in 0 .. d - 1 /\ r = d * p + s
    BY <1>1
  <1> HIDE DEF p, s
  <1>3. c * q + p \in Int /\ a = d * (c * q + p) + s
    BY <1>1, <1>2
  <1>4. a % d = s
    BY <1>2, <1>3, Remainder
  <1>5. p >= 0
    <2> SUFFICES ASSUME p <= -1 PROVE FALSE
      BY <1>2
    <2>1. d * p <= -d
      BY <1>2
    <2> QED BY <1>1, <1>2, <2>1
  <1>6. r - s \in 0 .. D - 1 /\ a - s = D * q + (r - s)
    <2>1. d * p >= 0
      BY <1>2, <1>5
    <2> HIDE DEF D
    <2> QED BY <1>1, <1>2, <2>1
  <1> HIDE DEF D
  <1>7. (a - s) % D = r - s
    BY <1>1, <1>6, Remainder
  <1>8. (a - s) - ((a - s) % D) = a - r
    BY <1>1, <1>2, <1>7
  <1>9. s \in Int /\ r = a % D
    BY <1>2 DEF r
  <1> QED BY <1>4, <1>8, <1>9 DEF D
=============================================================================
