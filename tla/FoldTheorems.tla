------------------------------ MODULE FoldTheorems ------------------------------
(***************************************************************************)
(* Facts about natural numbers, prefixes and folds that the proofs about   *)
(* the command lines rest on.  Induction is stated for a set, not for a    *)
(* predicate, so that a fact can be handed to it as it is.                 *)
(***************************************************************************)
EXTENDS SequencesExt, FiniteSetTheorems, TLAPS

LEMMA Least ==
    ASSUME NEW T, T \subseteq Nat, T # {}
    PROVE  \E m \in T : \A k \in T : m <= k
<1> DEFINE F == {0 .. k : k \in T}
           R == StrictSubsetOrdering(Nat)
<1>1. F \subseteq FiniteSubsetsOf(Nat)
    <2> SUFFICES ASSUME NEW k \in T PROVE 0 .. k \in FiniteSubsetsOf(Nat)
        OBVIOUS
    <2>1. IsFiniteSet(0 .. k)
        BY FS_Interval
    <2> QED
        BY <2>1 DEF FiniteSubsetsOf
<1>2. IsWellFoundedOn(R, FiniteSubsetsOf(Nat))
    BY FS_StrictSubsetOrderingWellFounded
<1>3. F # {}
    OBVIOUS
<1>4. PICK s \in F : \A t \in F : <<t, s>> \notin R
    <2> HIDE DEF F, R
    <2> QED
        BY <1>1, <1>2, <1>3, WFMin
<1>5. PICK m \in T : s = 0 .. m
    OBVIOUS
<1>6. ASSUME NEW k \in T, k < m PROVE FALSE
    <2>1. 0 .. k \in F /\ 0 .. k \subseteq 0 .. m /\ m \in 0 .. m /\ m \notin 0 .. k
        BY <1>6
    <2>2. <<0 .. k, s>> \in R
        BY <1>1, <1>5, <2>1 DEF StrictSubsetOrdering
    <2> QED
        BY <1>4, <2>1, <2>2
<1> QED
    BY <1>6

LEMMA Induct ==
    ASSUME NEW T, 0 \in T, \A n \in Nat : n \in T => n + 1 \in T
    PROVE  Nat \subseteq T
<1> SUFFICES ASSUME NEW x \in Nat, x \notin T PROVE FALSE
    OBVIOUS
<1>1. PICK m \in Nat \ T : \A k \in Nat \ T : m <= k
    <2>1. Nat \ T \subseteq Nat /\ Nat \ T # {}
        OBVIOUS
    <2> QED
        BY <2>1, Least
<1>2. m # 0 /\ m - 1 \in Nat
    BY <1>1
<1>3. m - 1 \in T
    BY <1>1, <1>2
<1> QED
    BY <1>1, <1>2, <1>3

\* The places before the first that is in W: how the model measures a prefix.
Before(n, W) == {k \in 1 .. n : \A j \in 1 .. k : j \notin W}

LEMMA PrefixLength ==
    ASSUME NEW n \in Nat, NEW W
    PROVE  \E m \in 0 .. n : /\ Before(n, W) = 1 .. m /\ Cardinality(Before(n, W)) = m
                             /\ \A j \in 1 .. m : j \notin W
                             /\ m < n => m + 1 \in W
<1> DEFINE T == {k \in 0 .. n : k = n \/ k + 1 \in W}
<1>1. T \subseteq Nat /\ n \in T
    OBVIOUS
<1>2. PICK m \in T : \A k \in T : m <= k
    <2> HIDE DEF T
    <2> QED
        BY <1>1, Least
<1>3. ASSUME NEW j \in 1 .. m PROVE j \notin W
    <2>1. j - 1 \in 0 .. n /\ j - 1 # n /\ ~(m <= j - 1)
        BY <1>2, <1>3
    <2>2. (j - 1) + 1 = j
        OBVIOUS
    <2> QED
        BY <1>2, <2>1, <2>2
<1>4. Before(n, W) = 1 .. m
    BY <1>2, <1>3 DEF Before
<1>5. Cardinality(1 .. m) = m
    <2>1. m \in Nat
        OBVIOUS
    <2> QED
        BY <2>1, FS_Interval
<1>6. m \in 0 .. n /\ (m < n => m + 1 \in W)
    OBVIOUS
<1> HIDE DEF T
<1> QED
    BY <1>3, <1>4, <1>5, <1>6

\* The last place of a part of a sequence.
LEMMA LastPlace ==
    ASSUME NEW n \in Nat, NEW ss \in SUBSET (1 .. n), ss # {}
    PROVE  Max(ss) \in ss /\ \A y \in ss : Max(ss) >= y
<1> DEFINE T == {n - y : y \in ss}
<1>1. T \subseteq Nat /\ T # {}
    <2>1. \A y \in ss : n - y \in Nat
        OBVIOUS
    <2> QED
        BY <2>1
<1>2. PICK m \in T : \A k \in T : m <= k
    <2> HIDE DEF T
    <2> QED
        BY <1>1, Least
<1>3. PICK x \in ss : m = n - x
    OBVIOUS
<1>4. ASSUME NEW y \in ss PROVE x >= y
    <2>1. n - y \in T /\ x \in Int /\ y \in Int
        OBVIOUS
    <2>2. m <= n - y
        <3> HIDE DEF T
        <3> QED
            BY <1>2, <2>1
    <2> HIDE DEF T
    <2> QED
        BY <1>3, <2>1, <2>2
<1> QED
    BY <1>4 DEF Max

\* Without it the part is one of a shorter sequence.
LEMMA WithoutLast ==
    ASSUME NEW n \in Nat, NEW k \in Nat, NEW ss \in SUBSET (1 .. n), ss # {}, ss \subseteq 1 .. k + 1
    PROVE  ss \ {Max(ss)} \in SUBSET (1 .. n) /\ ss \ {Max(ss)} \subseteq 1 .. k
<1>1. PICK m : m = Max(ss)
    OBVIOUS
<1>2. m \in ss /\ \A y \in ss : m >= y
    BY <1>1, LastPlace
<1>3. ss \ {m} \in SUBSET (1 .. n) /\ ss \ {m} \subseteq 1 .. k
    BY <1>2
<1> QED
    BY <1>1, <1>3

LEMMA LastIs ==
    ASSUME NEW n \in Nat, NEW ss \in SUBSET (1 .. n), n \in ss
    PROVE  Max(ss) = n
<1>1. PICK m : m = Max(ss)
    OBVIOUS
<1>2. m \in ss /\ m >= n
    BY <1>1, LastPlace
<1>3. m = n
    BY <1>2
<1> QED
    BY <1>1, <1>3

\* A fold by a function is there, and its values are among those of the function.
\* h gives, for each part of the first n elements of s, the fold of that part.
Folds(h, n, F, b, s) ==
    \A ss \in SUBSET (1 .. n) :
       h[ss] = IF ss = {} THEN b ELSE F[<<h[ss \ {Max(ss)}], s[Max(ss)]>>]
FoldThere(A, n, F, b, s) == \E h \in [SUBSET (1 .. n) -> A] : Folds(h, n, F, b, s)

LEMMA FoldFurther ==
    ASSUME NEW A, NEW X, NEW F \in [A \X X -> A], NEW b \in A, NEW n \in Nat, NEW s, s[n + 1] \in X,
           FoldThere(A, n, F, b, s)
    PROVE  FoldThere(A, n + 1, F, b, s)
<1> PICK h \in [SUBSET (1 .. n) -> A] : Folds(h, n, F, b, s)
    BY DEF FoldThere
<1> DEFINE N == n + 1
           g == [ss \in SUBSET (1 .. N) |-> IF N \in ss THEN F[<<h[ss \ {N}], s[N]>>] ELSE h[ss]]
<1>1. N \in Nat /\ N # 0 /\ s[N] \in X /\ N \notin 1 .. n /\ 1 .. N = 1 .. n \cup {N}
    OBVIOUS
<1> HIDE DEF N
<1>2. ASSUME NEW ss \in SUBSET (1 .. N), N \in ss
      PROVE  /\ ss \ {N} \in SUBSET (1 .. n) /\ N \notin ss \ {N} /\ ss \ {N} \in SUBSET (1 .. N)
             /\ Max(ss) = N
    <2>1. Max(ss) = N
        BY <1>1, <1>2, LastIs
    <2> QED
        BY <1>1, <2>1
<1>3. ASSUME NEW ss \in SUBSET (1 .. N), N \notin ss
      PROVE  /\ ss \in SUBSET (1 .. n)
             /\ \A x : ss \ {x} \in SUBSET (1 .. n) /\ N \notin ss \ {x} /\ ss \ {x} \in SUBSET (1 .. N)
    BY <1>1, <1>3
<1>4. ASSUME NEW ss \in SUBSET (1 .. N) PROVE g[ss] \in A
    <2>1. CASE N \in ss
        <3>1. h[ss \ {N}] \in A
            BY <1>2, <2>1
        <3> QED
            BY <1>1, <2>1, <3>1
    <2>2. CASE N \notin ss
        BY <1>3, <2>2
    <2> QED
        BY <2>1, <2>2
<1>5. ASSUME NEW ss \in SUBSET (1 .. N)
      PROVE  g[ss] = IF ss = {} THEN b ELSE F[<<g[ss \ {Max(ss)}], s[Max(ss)]>>]
    <2>1. CASE N \in ss
        <3>1. g[ss] = F[<<h[ss \ {N}], s[N]>>] /\ ss # {}
            BY <2>1
        <3>2. g[ss \ {N}] = h[ss \ {N}]
            BY <1>2, <2>1
        <3>3. Max(ss) = N
            BY <1>2, <2>1
        <3> HIDE DEF g
        <3> QED
            BY <3>1, <3>2, <3>3
    <2>2. CASE N \notin ss
        <3>1. PICK x : x = Max(ss)
            OBVIOUS
        <3>2. ss \in SUBSET (1 .. n) /\ N \notin ss \ {x} /\ ss \ {x} \in SUBSET (1 .. N)
            BY <1>3, <2>2
        <3>3. g[ss] = h[ss] /\ g[ss \ {x}] = h[ss \ {x}]
            BY <2>2, <3>2
        <3>4. h[ss] = IF ss = {} THEN b ELSE F[<<h[ss \ {x}], s[x]>>]
            BY <3>1, <3>2 DEF Folds
        <3> HIDE DEF g
        <3> QED
            BY <3>1, <3>3, <3>4
    <2> QED
        BY <2>1, <2>2
<1>6. g \in [SUBSET (1 .. N) -> A]
    BY <1>4
<1> HIDE DEF g
<1>7. Folds(g, N, F, b, s)
    BY <1>5 DEF Folds
<1>8. FoldThere(A, N, F, b, s)
    BY <1>6, <1>7 DEF FoldThere
<1> QED
    BY <1>8 DEF N

LEMMA FoldExists ==
    ASSUME NEW A, NEW X, NEW F \in [A \X X -> A], NEW b \in A, NEW s \in Seq(X)
    PROVE  FoldThere(A, Len(s), F, b, s)
<1> DEFINE T == {n \in Nat : n <= Len(s) => FoldThere(A, n, F, b, s)}
<1>1. FoldThere(A, 0, F, b, s)
    <2> DEFINE h == [ss \in SUBSET (1 .. 0) |-> b]
    <2>1. h \in [SUBSET (1 .. 0) -> A] /\ \A ss \in SUBSET (1 .. 0) : ss = {} /\ h[ss] = b
        OBVIOUS
    <2> HIDE DEF h
    <2> QED
        BY <2>1 DEF FoldThere, Folds
<1>2. ASSUME NEW n \in Nat, n + 1 <= Len(s), FoldThere(A, n, F, b, s)
      PROVE  FoldThere(A, n + 1, F, b, s)
    <2>1. s[n + 1] \in X
        BY <1>2
    <2> QED
        BY <1>2, <2>1, FoldFurther
<1>3. 0 \in T /\ \A n \in Nat : n \in T => n + 1 \in T
    BY <1>1, <1>2
<1>4. Len(s) \in Nat
    OBVIOUS
<1>5. Nat \subseteq T
    <2> HIDE DEF T
    <2> QED
        BY <1>3, Induct
<1> QED
    BY <1>4, <1>5

\* As the folds by an operator need it: h is their function, if the operator does
\* what F does.
Parts(h, A, X, F, b, s) ==
    /\ h = [ss \in SUBSET (DOMAIN s) |-> h[ss]] /\ h[{}] = b
    /\ \A ss \in SUBSET (DOMAIN s) : ss # {} => /\ h[ss \ {Max(ss)}] \in A /\ s[Max(ss)] \in X
                                               /\ h[ss] = F[<<h[ss \ {Max(ss)}], s[Max(ss)]>>]

LEMMA FoldParts ==
    ASSUME NEW A, NEW X, NEW F \in [A \X X -> A], NEW b \in A, NEW s \in Seq(X)
    PROVE  \E h : Parts(h, A, X, F, b, s)
<1>1. PICK h \in [SUBSET (1 .. Len(s)) -> A] : Folds(h, Len(s), F, b, s)
    BY FoldExists DEF FoldThere
<1>2. Len(s) \in Nat /\ DOMAIN s = 1 .. Len(s)
    OBVIOUS
<1>3. ASSUME NEW ss \in SUBSET (1 .. Len(s)), ss # {}
      PROVE  h[ss \ {Max(ss)}] \in A /\ s[Max(ss)] \in X
    <2>1. PICK m : m = Max(ss)
        OBVIOUS
    <2>2. m \in 1 .. Len(s)
        BY <1>2, <1>3, <2>1, LastPlace
    <2>3. ss \ {m} \in SUBSET (1 .. Len(s)) /\ s[m] \in X
        BY <1>2, <2>2
    <2> QED
        BY <2>1, <2>3
<1>4. h[{}] = b /\ h = [ss \in SUBSET (1 .. Len(s)) |-> h[ss]]
    BY <1>1 DEF Folds
<1> QED
    BY <1>1, <1>2, <1>3, <1>4 DEF Folds, Parts

LEMMA LastIn ==
    ASSUME NEW X, NEW s \in Seq(X), NEW ss \in SUBSET (DOMAIN s), ss # {}
    PROVE  s[Max(ss)] \in X
<1>1. Len(s) \in Nat /\ DOMAIN s = 1 .. Len(s)
    OBVIOUS
<1>2. PICK m : m = Max(ss)
    OBVIOUS
<1>3. m \in 1 .. Len(s)
    BY <1>1, <1>2, LastPlace
<1> QED
    BY <1>2, <1>3

\* What a step of a fold preserves, all of it has.
LEMMA FoldTyped ==
    ASSUME NEW A, NEW X, NEW s \in Seq(X), NEW g, g[{}] \in A,
           \A ss \in SUBSET (DOMAIN s) : ss # {} /\ g[ss \ {Max(ss)}] \in A => g[ss] \in A
    PROVE  g[DOMAIN s] \in A
<1> PICK n : n = Len(s)
    OBVIOUS
<1>0. n \in Nat /\ DOMAIN s = 1 .. n
    OBVIOUS
<1> DEFINE T == {k \in Nat : \A ss \in SUBSET (1 .. n) : ss \subseteq 1 .. k => g[ss] \in A}
<1>1. 0 \in T
    <2> SUFFICES ASSUME NEW ss \in SUBSET (1 .. n), ss \subseteq 1 .. 0 PROVE g[ss] \in A
        OBVIOUS
    <2>1. ss = {}
        OBVIOUS
    <2> QED
        BY <2>1
<1>2. ASSUME NEW k \in Nat, k \in T PROVE k + 1 \in T
    <2> SUFFICES ASSUME NEW ss \in SUBSET (1 .. n), ss \subseteq 1 .. k + 1 PROVE g[ss] \in A
        OBVIOUS
    <2>1. CASE ss = {}
        BY <2>1
    <2>2. CASE ss # {}
        <3>1. PICK r : r = ss \ {Max(ss)}
            OBVIOUS
        <3>2. r \in SUBSET (1 .. n) /\ r \subseteq 1 .. k
            BY <1>0, <2>2, <3>1, WithoutLast
        <3>3. g[r] \in A
            BY <1>2, <3>2
        <3> QED
            BY <1>0, <2>2, <3>1, <3>3
    <2> QED
        BY <2>1, <2>2
<1>3. n \in T
    <2> HIDE DEF T
    <2>1. Nat \subseteq T
        BY <1>1, <1>2, Induct
    <2> QED
        BY <1>0, <2>1
<1> QED
    BY <1>0, <1>3
=============================================================================
