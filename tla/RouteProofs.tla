----------------------------- MODULE RouteProofs -----------------------------
(***************************************************************************)
(* The pure part of the AI configuration, for lists of providers of any    *)
(* length: what ordering, selecting and keying do, and that the route the  *)
(* settings page shows of a valid configuration is the one a question      *)
(* takes.                                                                  *)
(***************************************************************************)
EXTENDS ProviderRoute, SequenceTheorems, FiniteSetTheorems, WellFoundedInduction, TLAPS

-----------------------------------------------------------------------------
(* Numbers and sequences *)

LEMMA LeastExists ==
  ASSUME NEW T, T \subseteq Nat, T # {}
  PROVE  \E n \in T : \A m \in T : n <= m
<1> DEFINE R == OpToRel(<, Nat)
<1>1. \E n \in T : \A m \in T : ~ (<<m, n>> \in R)
  <2> HIDE DEF R
  <2> QED BY NatLessThanWellFounded, WFMin DEF R
<1>2. \A m, n \in Nat : m < n => <<m, n>> \in R
  BY DEF OpToRel
<1> HIDE DEF R
<1>3. PICK n \in T : \A m \in T : ~ (<<m, n>> \in R)
  BY <1>1
<1>4. \A m \in T : ~(m < n)
  BY <1>2, <1>3
<1> QED BY <1>4

\* A set of naturals up to n has a greatest element.
LEMMA GreatestExists ==
  ASSUME NEW n \in Nat, NEW T, T \subseteq 0..n, T # {}
  PROVE  Max(T) \in T
<1> DEFINE U == {n - t : t \in T}
<1>1. U \subseteq Nat /\ U # {}
  <2>1. \A t \in T : n - t \in Nat
    OBVIOUS
  <2>2. PICK t \in T : TRUE
    OBVIOUS
  <2>3. n - t \in U
    BY <2>2
  <2> QED BY <2>1, <2>3
<1>2. PICK u \in U : \A w \in U : u <= w
  <2> HIDE DEF U
  <2> QED BY <1>1, LeastExists
<1>3. PICK x \in T : u = n - x
  OBVIOUS
<1>4. \A y \in T : x >= y
  <2> TAKE y \in T
  <2>1. n - x <= n - y
    BY <1>2, <1>3
  <2> QED BY <2>1
<1> QED BY <1>3, <1>4 DEF Max

LEMMA MaxOfOne ==
  ASSUME NEW n \in Nat
  PROVE  Max({n}) = n
BY DEF Max

\* A function on 1..n is a sequence of its values.
LEMMA FunctionIsSequence ==
  ASSUME NEW n \in Nat, NEW f, f = [i \in 1..n |-> f[i]]
  PROVE  f \in Seq(Range(f)) /\ Len(f) = n /\ DOMAIN f = 1..n /\ (f = <<>> <=> n = 0)
<1>1. f \in [1..n -> Range(f)] /\ DOMAIN f = 1..n
  BY DEF Range
<1>2. f \in Seq(Range(f))
  BY <1>1, SeqDef
<1>3. Len(f) = n
  BY <1>1, <1>2, LenProperties
<1>4. f = <<>> <=> n = 0
  BY <1>2, <1>3, EmptySeq
<1> QED BY <1>1, <1>2, <1>3, <1>4

LEMMA SequenceDomain ==
  ASSUME NEW seq, seq \in Seq(Range(seq))
  PROVE  /\ Len(seq) \in Nat /\ DOMAIN seq = 1..Len(seq)
         /\ seq = [i \in 1..Len(seq) |-> seq[i]]
         /\ IsFiniteSet(DOMAIN seq) /\ Cardinality(DOMAIN seq) = Len(seq)
<1>1. Len(seq) \in Nat /\ DOMAIN seq = 1..Len(seq) /\ seq \in [1..Len(seq) -> Range(seq)]
  BY LenProperties
<1>2. IsFiniteSet(1..Len(seq)) /\ Cardinality(1..Len(seq)) = Len(seq)
  BY <1>1, FS_Interval
<1> QED BY <1>1, <1>2

LEMMA RangeIsFinite ==
  ASSUME NEW seq, seq \in Seq(Range(seq))
  PROVE  IsFiniteSet(Range(seq))
<1>1. IsFiniteSet(DOMAIN seq)
  BY SequenceDomain
<1>2. seq \in Surjection(DOMAIN seq, Range(seq))
  BY SequenceDomain DEF Surjection, Range
<1> QED BY <1>1, <1>2, FS_Surjection

-----------------------------------------------------------------------------
(* Ordering and selecting *)

\* R orders S, strictly and totally.
Orders(R, S) ==
    /\ \A x \in S : <<x, x>> \notin R
    /\ \A x, y \in S : x # y => <<x, y>> \in R \/ <<y, x>> \in R
    /\ \A x, y, z \in S : <<x, y>> \in R /\ <<y, z>> \in R => <<x, z>> \in R

\* Every member has a place of its own.
LEMMA InOrderListsAll ==
  ASSUME NEW S, IsFiniteSet(S), NEW R, Orders(R, S)
  PROVE  LET s == InOrder(S, R)
         IN /\ Cardinality(S) \in Nat
            /\ s = [k \in 1..Cardinality(S) |-> s[k]]
            /\ \A k \in 1..Cardinality(S) :
                 /\ s[k] \in S
                 /\ Cardinality({y \in S : <<y, s[k]>> \in R}) = k - 1
            /\ \A k, m \in 1..Cardinality(S) : k # m => s[k] # s[m]
            /\ \A x \in S : \E k \in 1..Cardinality(S) : s[k] = x
<1> DEFINE n == Cardinality(S)
           Below(x) == {y \in S : <<y, x>> \in R}
           f == [x \in S |-> Cardinality(Below(x))]
           s == InOrder(S, R)
<1>1. n \in Nat
  BY FS_CardinalityType
<1>2. ASSUME NEW x \in S
      PROVE  IsFiniteSet(Below(x)) /\ Cardinality(Below(x)) \in 0..(n - 1)
  <2>1. Below(x) \subseteq S \ {x}
    BY DEF Orders
  <2>2. IsFiniteSet(S \ {x}) /\ Cardinality(S \ {x}) = n - 1
    BY FS_RemoveElement
  <2> HIDE DEF n, Below
  <2>3. IsFiniteSet(Below(x)) /\ Cardinality(Below(x)) <= n - 1
    BY <2>1, <2>2, FS_Subset
  <2>4. Cardinality(Below(x)) \in Nat
    BY <2>3, FS_CardinalityType
  <2> QED BY <1>1, <2>3, <2>4
<1>3. ASSUME NEW x \in S, NEW y \in S, <<x, y>> \in R
      PROVE  f[x] < f[y]
  <2>1. Below(x) \subseteq Below(y) /\ x \in Below(y) /\ x \notin Below(x)
    BY <1>3 DEF Orders
  <2>2. Cardinality(Below(x)) <= Cardinality(Below(y)) /\ Cardinality(Below(x)) # Cardinality(Below(y))
    BY <1>2, <2>1, FS_Subset
  <2> HIDE DEF Below, n
  <2>3. Cardinality(Below(x)) \in Int /\ Cardinality(Below(y)) \in Int
    BY <1>1, <1>2
  <2> QED BY <2>2, <2>3
<1>4. f \in [S -> 0..(n - 1)]
  BY <1>2
<1>5. \A x, y \in S : f[x] = f[y] => x = y
  <2> SUFFICES ASSUME NEW x \in S, NEW y \in S, x # y PROVE f[x] # f[y]
    OBVIOUS
  <2>1. f[x] < f[y] \/ f[y] < f[x]
    <3> HIDE DEF f
    <3> QED BY <1>3 DEF Orders
  <2>2. f[x] \in Int /\ f[y] \in Int
    <3> HIDE DEF f
    <3> QED BY <1>1, <1>4
  <2> HIDE DEF f
  <2> QED BY <2>1, <2>2
<1>6. \A i \in 0..(n - 1) : \E x \in S : f[x] = i
  <2>1. f \in Injection(S, 0..(n - 1))
    <3> HIDE DEF f
    <3> QED BY <1>4, <1>5 DEF Injection, IsInjective
  <2>2. IsFiniteSet(0..(n - 1)) /\ Cardinality(0..(n - 1)) = n
    <3> HIDE DEF n
    <3> QED BY <1>1, FS_Interval
  <2>3. f \in Surjection(S, 0..(n - 1))
    <3> HIDE DEF f
    <3> QED BY <2>1, <2>2, FS_Injection
  <2> QED BY <2>3 DEF Surjection
<1>7. DOMAIN s = 1..n /\ s = [k \in 1..n |-> s[k]]
  <2> DEFINE g(k) == CHOOSE x \in S : Cardinality({y \in S : <<y, x>> \in R}) = k - 1
  <2>1. s = [k \in 1..n |-> g(k)]
    BY DEF InOrder
  <2> HIDE DEF s, g
  <2> QED BY <2>1
<1>8. ASSUME NEW k \in 1..n PROVE s[k] \in S /\ f[s[k]] = k - 1
  <2>1. PICK x \in S : f[x] = k - 1
    <3> HIDE DEF f, n
    <3> QED BY <1>1, <1>6
  <2>2. s[k] = CHOOSE y \in S : Cardinality(Below(y)) = k - 1
    BY DEF InOrder
  <2>3. Cardinality(Below(x)) = k - 1
    BY <2>1
  <2>4. s[k] \in S /\ Cardinality(Below(s[k])) = k - 1
    <3> HIDE DEF s, f, n, Below
    <3> QED BY <2>2, <2>3
  <2> QED BY <2>4
<1>9. \A k, m \in 1..n : k # m => s[k] # s[m]
  <2> HIDE DEF s, f
  <2> QED BY <1>1, <1>8
<1>10. ASSUME NEW x \in S PROVE \E k \in 1..n : s[k] = x
  <2>1. f[x] + 1 \in 1..n
    <3> HIDE DEF f, n
    <3> QED BY <1>1, <1>4
  <2>2. s[f[x] + 1] = x
    <3> HIDE DEF s
    <3>1. f[x] \in Int
      <4> HIDE DEF f
      <4> QED BY <1>1, <1>4
    <3> HIDE DEF f
    <3> QED BY <1>5, <1>8, <2>1, <3>1
  <2> HIDE DEF s, f
  <2> QED BY <2>1, <2>2
<1>11. \A k \in 1..n : Cardinality({y \in S : <<y, s[k]>> \in R}) = k - 1
  <2> SUFFICES ASSUME NEW k \in 1..n PROVE Cardinality(Below(s[k])) = k - 1
    OBVIOUS
  <2>1. s[k] \in S /\ f[s[k]] = k - 1
    BY <1>8
  <2> HIDE DEF s, Below
  <2> QED BY <2>1
<1> HIDE DEF s, f
<1> QED BY <1>1, <1>7, <1>8, <1>9, <1>10, <1>11 DEF s

Ascending(I) == {e \in I \X I : e[1] < e[2]}

LEMMA AscendingOrders ==
  ASSUME NEW I, I \subseteq Int
  PROVE  Orders(Ascending(I), I)
BY DEF Orders, Ascending

LEMMA AtSelects ==
  ASSUME NEW seq, seq \in Seq(Range(seq)), NEW I, I \subseteq DOMAIN seq
  PROVE  LET s == At(seq, I)
         IN /\ s \in Seq(Range(s)) /\ Len(s) \in Nat /\ DOMAIN s = 1..Len(s)
            /\ Len(s) = Cardinality(I)
            /\ \A k \in DOMAIN s : \E i \in I : s[k] = seq[i]
            /\ \A i \in I : \E k \in DOMAIN s : s[k] = seq[i]
            /\ s = <<>> <=> I = {}
            /\ (\A i, j \in I : i # j => seq[i] # seq[j]) =>
                 \A k, m \in DOMAIN s : k # m => s[k] # s[m]
<1> DEFINE at == InOrder(I, Ascending(I))
           s == At(seq, I)
           n == Cardinality(I)
<1>1. IsFiniteSet(I) /\ I \subseteq Int
  BY SequenceDomain, FS_Subset
<1>2. /\ n \in Nat
      /\ at = [k \in 1..n |-> at[k]]
      /\ \A k \in 1..n : at[k] \in I
      /\ \A k, m \in 1..n : k # m => at[k] # at[m]
      /\ \A x \in I : \E k \in 1..n : at[k] = x
  <2> DEFINE R == Ascending(I)
  <2>1. Orders(R, I)
    BY <1>1, AscendingOrders
  <2> HIDE DEF R
  <2> QED BY <1>1, <2>1, InOrderListsAll DEF R
<1>3. s = [k \in DOMAIN at |-> seq[at[k]]]
  BY DEF At, Ascending
<1> HIDE DEF at
<1>4. DOMAIN at = 1..n
  BY <1>2
<1>5. s = [k \in 1..n |-> s[k]] /\ \A k \in 1..n : s[k] = seq[at[k]]
  BY <1>3, <1>4
<1> HIDE DEF s, n
<1>6. s \in Seq(Range(s)) /\ Len(s) = n /\ DOMAIN s = 1..n /\ (s = <<>> <=> n = 0)
  BY <1>2, <1>5, FunctionIsSequence
<1>7. n = 0 <=> I = {}
  BY <1>1, FS_EmptySet DEF n
<1>8. \A k \in DOMAIN s : \E i \in I : s[k] = seq[i]
  BY <1>2, <1>5, <1>6
<1>9. \A i \in I : \E k \in DOMAIN s : s[k] = seq[i]
  BY <1>2, <1>5, <1>6
<1>10. (\A i, j \in I : i # j => seq[i] # seq[j]) =>
          \A k, m \in DOMAIN s : k # m => s[k] # s[m]
  BY <1>2, <1>5, <1>6
<1> QED BY <1>2, <1>6, <1>7, <1>8, <1>9, <1>10 DEF s, n

\* At all its positions a sequence is itself.
LEMMA AtAll ==
  ASSUME NEW seq, seq \in Seq(Range(seq))
  PROVE  At(seq, DOMAIN seq) = seq
<1> DEFINE n == Len(seq)
           I == DOMAIN seq
           at == InOrder(I, Ascending(I))
<1>1. /\ n \in Nat /\ I = 1..n /\ seq = [i \in 1..n |-> seq[i]]
      /\ IsFiniteSet(I) /\ Cardinality(I) = n
  BY SequenceDomain
<1>2. I \subseteq Int
  BY <1>1
<1> HIDE DEF I, n
<1>3. /\ at = [k \in 1..n |-> at[k]]
      /\ \A k \in 1..n : /\ at[k] \in I
                         /\ Cardinality({j \in I : <<j, at[k]>> \in Ascending(I)}) = k - 1
  <2> DEFINE R == Ascending(I)
           s == InOrder(I, R)
  <2>1. Orders(R, I)
    BY <1>2, AscendingOrders
  <2> HIDE DEF R
  <2>2. /\ s = [k \in 1..Cardinality(I) |-> s[k]]
        /\ \A k \in 1..Cardinality(I) :
             /\ s[k] \in I
             /\ Cardinality({y \in I : <<y, s[k]>> \in R}) = k - 1
    <3>1. IsFiniteSet(I)
      BY <1>1
    <3> QED BY <2>1, <3>1, InOrderListsAll
  <2> HIDE DEF s
  <2>3. /\ s = [k \in 1..n |-> s[k]]
        /\ \A k \in 1..n :
             s[k] \in I /\ Cardinality({y \in I : <<y, s[k]>> \in R}) = k - 1
    BY <1>1, <2>2
  <2> QED BY <2>3 DEF s, R
<1>4. At(seq, I) = [k \in DOMAIN at |-> seq[at[k]]]
  BY DEF At, Ascending
<1> HIDE DEF at
<1>5. ASSUME NEW k \in 1..n PROVE at[k] = k
  <2>1. at[k] \in 1..n
    BY <1>1, <1>3
  <2>2. {j \in I : <<j, at[k]>> \in Ascending(I)} = 1..(at[k] - 1)
    BY <1>1, <2>1 DEF Ascending
  <2>3. Cardinality(1..(at[k] - 1)) = at[k] - 1
    <3>2. at[k] - 1 \in Int /\ at[k] - 1 - 1 + 1 = at[k] - 1 /\ (1 > at[k] - 1 => at[k] - 1 = 0)
      BY <1>1, <2>1
    <3> DEFINE m == at[k] - 1
    <3>4. m \in Int
      BY <3>2
    <3>3. Cardinality(1..m) = IF 1 > m THEN 0 ELSE m - 1 + 1
      <4> HIDE DEF m
      <4> QED BY <3>4, FS_Interval
    <3> QED BY <3>2, <3>3
  <2> QED BY <1>1, <1>3, <2>1, <2>2, <2>3
<1>6. At(seq, I) = [k \in 1..n |-> seq[k]]
  BY <1>3, <1>4, <1>5
<1> QED BY <1>1, <1>6 DEF I

LEMMA FirstOfEachListsAll ==
  ASSUME NEW seq, seq \in Seq(Range(seq))
  PROVE  /\ Range(FirstOfEach(seq)) = Range(seq)
         /\ FirstOfEach(seq) = <<>> <=> seq = <<>>
<1> DEFINE I == {i \in DOMAIN seq : \A j \in 1..(i - 1) : seq[j] # seq[i]}
           s == FirstOfEach(seq)
<1>1. /\ \A k \in DOMAIN s : \E i \in I : s[k] = seq[i]
      /\ \A i \in I : \E k \in DOMAIN s : s[k] = seq[i]
      /\ s = <<>> <=> I = {}
  BY AtSelects DEF FirstOfEach
<1>2. DOMAIN seq \subseteq Nat \ {0} /\ DOMAIN seq = 1..Len(seq) /\ Len(seq) \in Nat
  BY SequenceDomain
<1>3. ASSUME NEW i \in DOMAIN seq PROVE \E j \in I : seq[j] = seq[i]
  <2> DEFINE T == {j \in DOMAIN seq : seq[j] = seq[i]}
  <2>1. PICK j \in T : \A m \in T : j <= m
    <3>1. T \subseteq Nat /\ i \in T
      BY <1>2
    <3> HIDE DEF T
    <3> QED BY <3>1, LeastExists
  <2>2. \A m \in 1..(j - 1) : m \in DOMAIN seq /\ ~(j <= m)
    BY <1>2
  <2> QED BY <2>1, <2>2
<1>4. Range(s) = Range(seq)
  <2>1. Range(s) \subseteq Range(seq)
    <3> HIDE DEF s
    <3> QED BY <1>1 DEF Range
  <2>2. Range(seq) \subseteq Range(s)
    <3> SUFFICES ASSUME NEW i \in DOMAIN seq PROVE \E k \in DOMAIN s : s[k] = seq[i]
      <4> HIDE DEF s
      <4> QED BY DEF Range
    <3>1. PICK j \in I : seq[j] = seq[i]
      BY <1>3
    <3>2. PICK k \in DOMAIN s : s[k] = seq[j]
      BY <1>1
    <3> QED BY <3>1, <3>2
  <2> QED BY <2>1, <2>2
<1>5. I = {} <=> DOMAIN seq = {}
  BY <1>3
<1>6. seq = <<>> <=> DOMAIN seq = {}
  BY <1>2, EmptySeq
<1> HIDE DEF s
<1> QED BY <1>1, <1>4, <1>5, <1>6 DEF s

LEMMA FirstOfEachKeeps ==
  ASSUME NEW seq, seq \in Seq(Range(seq)),
         \A i, j \in DOMAIN seq : i # j => seq[i] # seq[j]
  PROVE  FirstOfEach(seq) = seq
<1>1. {i \in DOMAIN seq : \A j \in 1..(i - 1) : seq[j] # seq[i]} = DOMAIN seq
  <2> SUFFICES ASSUME NEW i \in DOMAIN seq, NEW j \in 1..(i - 1) PROVE seq[j] # seq[i]
    OBVIOUS
  <2>1. j \in DOMAIN seq /\ j # i
    BY SequenceDomain
  <2> QED BY <2>1
<1> QED BY <1>1, AtAll DEF FirstOfEach
-----------------------------------------------------------------------------
(* Keys *)

\* A list of providers as it is kept: each has a key of its own, and any name.
Keyed(ps) ==
    /\ ps \in Seq(Range(ps))
    /\ \A i \in DOMAIN ps : IsProvider(ps[i]) /\ ps[i].key # NoKey
    /\ \A i, j \in DOMAIN ps : i # j => ps[i].key # ps[j].key

Own(cfg) == IsConfig(cfg) /\ Keyed(cfg.providers)

\* One of the first n + 1 keys of a name is free when n are in use.
LEMMA FreshKey ==
  ASSUME NEW n \in Nat, NEW taken, IsFiniteSet(taken)
  PROVE  /\ GenerateKey(n, taken) \in Nat /\ GenerateKey(n, taken) # NoKey
         /\ GenerateKey(n, taken) \notin taken
<1> DEFINE c == Cardinality(taken)
           U == {10 * n + i : i \in 1..(c + 1)}
           f == [i \in 1..(c + 1) |-> 10 * n + i]
<1>1. c \in Nat
  BY FS_CardinalityType
<1>2. IsFiniteSet(U) /\ Cardinality(U) = c + 1
  <2>1. f \in Surjection(1..(c + 1), U) /\ f \in Injection(1..(c + 1), U)
    <3> DEFINE I == 1..(c + 1)
    <3>1. I \subseteq Nat
      OBVIOUS
    <3> HIDE DEF I
    <3>2. U = {10 * n + i : i \in I} /\ f = [i \in I |-> 10 * n + i]
      BY DEF I
    <3> HIDE DEF U, f
    <3>3. DOMAIN f = I /\ (\A i \in I : f[i] = 10 * n + i /\ f[i] \in U) /\ f \in [I -> U]
      BY <3>2
    <3>4. \A i, j \in I : f[i] = f[j] => i = j
      BY <3>1, <3>3
    <3>5. \A u \in U : \E i \in I : f[i] = u
      BY <3>2, <3>3
    <3>6. f \in Surjection(I, U) /\ f \in Injection(I, U)
      BY <3>3, <3>4, <3>5 DEF Surjection, Injection, IsInjective
    <3> QED BY <3>6 DEF I
  <2>2. f \in Bijection(1..(c + 1), U)
    BY <2>1 DEF Bijection
  <2>3. IsFiniteSet(1..(c + 1)) /\ Cardinality(1..(c + 1)) = c + 1
    <3> HIDE DEF c
    <3> QED BY <1>1, FS_Interval
  <2> HIDE DEF U, f, c
  <2> QED BY <2>2, <2>3, FS_Bijection DEF ExistsBijection
<1>3. U \subseteq Nat \ {0}
  <2> HIDE DEF c
  <2> QED BY <1>1
<1>4. U \ taken # {}
  <2> SUFFICES ASSUME U \subseteq taken PROVE FALSE
    OBVIOUS
  <2> HIDE DEF U
  <2>1. Cardinality(U) <= c
    BY FS_Subset
  <2> HIDE DEF c
  <2> QED BY <1>1, <1>2, <2>1
<1> DEFINE T == U \ taken
<1>5. GenerateKey(n, taken) = Min(T)
  BY DEF GenerateKey
<1> HIDE DEF T, U, c
<1>6. T \subseteq Nat \ {0} /\ T # {} /\ \A x \in T : x \notin taken
  BY <1>3, <1>4 DEF T
<1>7. PICK x \in T : \A y \in T : x <= y
  BY <1>6, LeastExists
<1>8. Min(T) \in T
  BY <1>7 DEF Min
<1> QED BY <1>5, <1>6, <1>8 DEF NoKey

LEMMA KeyForIsNew ==
  ASSUME NEW p, IsProvider(p), NEW taken, IsFiniteSet(taken)
  PROVE  /\ KeyFor(p, taken) \in Nat /\ KeyFor(p, taken) # NoKey /\ KeyFor(p, taken) \notin taken
         /\ p.key # NoKey /\ p.key \notin taken => KeyFor(p, taken) = p.key
<1>1. p.name \in Nat /\ p.key \in Nat
  BY DEF IsProvider
<1>2. p.key \div 10 \in Nat
  BY <1>1
<1>3. CASE p.key = NoKey
  BY <1>1, <1>3, FreshKey DEF KeyFor
<1>4. CASE p.key # NoKey /\ p.key \in taken
  BY <1>2, <1>4, FreshKey DEF KeyFor
<1>5. CASE p.key # NoKey /\ p.key \notin taken
  BY <1>1, <1>5 DEF KeyFor
<1> QED BY <1>3, <1>4, <1>5

\* The keys of the entries before i, and what entry i becomes after them.
KeysBefore(g, i) == {g[j].key : j \in 1..(i - 1)}
KeyedEntry(ps, g, i) == [ps[i] EXCEPT !.key = KeyFor(ps[i], KeysBefore(g, i))]

LEMMA KeyedEntryDepends ==
  ASSUME NEW ps, NEW g, NEW h, NEW i, \A j \in 1..(i - 1) : g[j] = h[j]
  PROVE  KeyedEntry(ps, g, i) = KeyedEntry(ps, h, i)
<1>1. KeysBefore(g, i) = KeysBefore(h, i)
  BY DEF KeysBefore
<1> QED BY <1>1 DEF KeyedEntry

\* The list that generateProviderKey makes step by step.
LEMMA UniqueKeysEquation ==
  ASSUME NEW ps, ps \in Seq(Range(ps))
  PROVE  WithUniqueKeys(ps) = [i \in DOMAIN ps |-> KeyedEntry(ps, WithUniqueKeys(ps), i)]
<1> DEFINE n == Len(ps)
           w == WithUniqueKeys(ps)
           Makes(g, m) == DOMAIN g = 1..m /\ \A i \in 1..m : g[i] = KeyedEntry(ps, g, i)
           T == {m \in 0..n : ~\E g : Makes(g, m)}
           Eq(g) == g = [i \in DOMAIN ps |-> KeyedEntry(ps, g, i)]
<1>1. n \in Nat /\ DOMAIN ps = 1..n
  BY SequenceDomain
<1> HIDE DEF n
<1>2. ASSUME NEW m \in 1..n, NEW g, Makes(g, m - 1) PROVE \E h : Makes(h, m)
  <2> DEFINE h == [i \in 1..m |-> IF i < m THEN g[i] ELSE KeyedEntry(ps, g, m)]
  <2>1. DOMAIN h = 1..m /\ \A i \in 1..m : i < m => h[i] = g[i]
    OBVIOUS
  <2>2. h[m] = KeyedEntry(ps, g, m)
    BY <1>1
  <2> HIDE DEF h
  <2>3. ASSUME NEW i \in 1..m PROVE h[i] = KeyedEntry(ps, h, i)
    <3>1. \A j \in 1..(i - 1) : g[j] = h[j]
      <4>1. \A j \in 1..(i - 1) : j \in 1..m /\ j < m
        BY <1>1
      <4> QED BY <2>1, <4>1
    <3>2. KeyedEntry(ps, g, i) = KeyedEntry(ps, h, i)
      BY <3>1, KeyedEntryDepends
    <3>3. CASE i = m
      BY <2>2, <3>2, <3>3
    <3>4. CASE i # m
      <4>1. i \in 1..(m - 1) /\ i < m
        BY <1>1, <3>4
      <4>2. g[i] = KeyedEntry(ps, g, i)
        BY <1>2, <4>1
      <4> QED BY <2>1, <3>2, <4>1, <4>2
    <3> QED BY <3>3, <3>4
  <2> QED BY <2>1, <2>3
<1>3. \E g : Makes(g, 0)
  <2> DEFINE g == [i \in 1..0 |-> NoKey]
  <2>1. DOMAIN g = 1..0 /\ 1..0 = {}
    OBVIOUS
  <2> HIDE DEF g
  <2> QED BY <2>1
<1>4. \E g : Makes(g, n)
  <2> SUFFICES ASSUME ~\E g : Makes(g, n) PROVE FALSE
    OBVIOUS
  <2> HIDE DEF Makes
  <2>1. n \in T /\ T \subseteq Nat
    BY <1>1
  <2>2. PICK m \in T : \A k \in T : m <= k
    <3> HIDE DEF T
    <3> QED BY <2>1, LeastExists
  <2>3. m # 0
    BY <1>3, <2>2
  <2>4. m - 1 \in 0..n /\ m \in 1..n /\ ~(m <= m - 1)
    BY <1>1, <2>2, <2>3
  <2>5. \E g : Makes(g, m - 1)
    BY <2>2, <2>4
  <2>6. \E h : Makes(h, m)
    BY <1>2, <2>4, <2>5
  <2> QED BY <2>2, <2>6
<1>5. PICK g : Makes(g, n)
  BY <1>4
<1>6. Eq([i \in DOMAIN ps |-> g[i]])
  <2> DEFINE h == [i \in DOMAIN ps |-> g[i]]
             e(i) == KeyedEntry(ps, h, i)
  <2>1. ASSUME NEW i \in DOMAIN ps PROVE h[i] = e(i)
    <3>1. \A j \in 1..(i - 1) : g[j] = h[j]
      BY <1>1
    <3>2. KeyedEntry(ps, g, i) = KeyedEntry(ps, h, i)
      <4> HIDE DEF h
      <4> QED BY <3>1, KeyedEntryDepends
    <3>3. g[i] = KeyedEntry(ps, g, i) /\ h[i] = g[i]
      BY <1>1, <1>5
    <3> HIDE DEF h
    <3> QED BY <3>2, <3>3
  <2>2. h = [i \in DOMAIN ps |-> h[i]]
    OBVIOUS
  <2> HIDE DEF h, e
  <2>3. h = [i \in DOMAIN ps |-> e(i)]
    BY <2>1, <2>2
  <2> QED BY <2>3 DEF h, e
<1>7. w = CHOOSE x : Eq(x)
  BY DEF WithUniqueKeys, KeyedEntry, KeysBefore
<1>8. \E x : Eq(x)
  <2> HIDE DEF Eq
  <2> QED BY <1>6
<1>9. Eq(w)
  <2> HIDE DEF w, Eq
  <2> QED BY <1>7, <1>8
<1> QED BY <1>9

LEMMA UniqueKeysEntries ==
  ASSUME NEW ps, ps \in Seq(Range(ps))
  PROVE  LET w == WithUniqueKeys(ps)
         IN /\ DOMAIN w = DOMAIN ps /\ w = [i \in DOMAIN ps |-> w[i]]
            /\ \A i \in DOMAIN ps : w[i] = KeyedEntry(ps, w, i)
<1> DEFINE w == WithUniqueKeys(ps)
           e(i) == KeyedEntry(ps, w, i)
<1>1. w = [i \in DOMAIN ps |-> e(i)]
  BY UniqueKeysEquation
<1> HIDE DEF w, e
<1>2. DOMAIN w = DOMAIN ps /\ w = [i \in DOMAIN ps |-> w[i]] /\ \A i \in DOMAIN ps : w[i] = e(i)
  BY <1>1
<1> QED BY <1>2 DEF w, e

LEMMA KeysBeforeFinite ==
  ASSUME NEW g, NEW i \in Nat
  PROVE  IsFiniteSet(KeysBefore(g, i))
<1> DEFINE f == [j \in 1..(i - 1) |-> g[j].key]
<1>1. IsFiniteSet(1..(i - 1))
  BY FS_Interval
<1>2. f \in Surjection(1..(i - 1), KeysBefore(g, i))
  BY DEF Surjection, KeysBefore
<1> HIDE DEF f
<1> QED BY <1>1, <1>2, FS_Surjection

\* Every provider gets a key of its own, and is otherwise as it was.
LEMMA UniqueKeysKeyed ==
  ASSUME NEW ps, ps \in Seq(Range(ps)), \A i \in DOMAIN ps : IsProvider(ps[i])
  PROVE  LET w == WithUniqueKeys(ps)
         IN /\ Keyed(w) /\ DOMAIN w = DOMAIN ps
            /\ \A i \in DOMAIN ps : /\ w[i].name = ps[i].name /\ w[i].model = ps[i].model
                                    /\ w[i].secret = ps[i].secret /\ w[i].prio = ps[i].prio
<1> DEFINE w == WithUniqueKeys(ps)
<1>1. /\ DOMAIN w = DOMAIN ps /\ w = [i \in DOMAIN ps |-> w[i]]
      /\ \A i \in DOMAIN ps : w[i] = KeyedEntry(ps, w, i)
  BY UniqueKeysEntries
<1>2. DOMAIN ps = 1..Len(ps) /\ Len(ps) \in Nat
  BY SequenceDomain
<1> HIDE DEF w
<1>3. ASSUME NEW i \in DOMAIN ps
      PROVE  /\ IsProvider(w[i]) /\ w[i].key # NoKey /\ w[i].key \notin KeysBefore(w, i)
             /\ w[i].name = ps[i].name /\ w[i].model = ps[i].model
             /\ w[i].secret = ps[i].secret /\ w[i].prio = ps[i].prio
  <2> DEFINE k == KeyFor(ps[i], KeysBefore(w, i))
  <2>1. IsFiniteSet(KeysBefore(w, i))
    BY <1>2, KeysBeforeFinite
  <2>2. k \in Nat /\ k # NoKey /\ k \notin KeysBefore(w, i)
    BY <2>1, KeyForIsNew
  <2>3. w[i] = [ps[i] EXCEPT !.key = k]
    BY <1>1 DEF KeyedEntry
  <2> HIDE DEF k
  <2> QED BY <2>2, <2>3 DEF IsProvider
<1>4. ASSUME NEW i \in DOMAIN w, NEW j \in DOMAIN w, i # j PROVE w[i].key # w[j].key
  <2>1. i \in Nat /\ j \in Nat /\ i \in DOMAIN ps /\ j \in DOMAIN ps
    BY <1>1, <1>2
  <2>2. CASE i < j
    <3>1. i \in 1..(j - 1)
      BY <1>1, <1>2, <2>1, <2>2
    <3> QED BY <1>3, <2>1, <3>1 DEF KeysBefore
  <2>3. CASE j < i
    <3>1. j \in 1..(i - 1)
      BY <1>1, <1>2, <2>1, <2>3
    <3> QED BY <1>3, <2>1, <3>1 DEF KeysBefore
  <2> QED BY <1>4, <2>1, <2>2, <2>3
<1>5. w \in Seq(Range(w))
  BY <1>1, <1>2, FunctionIsSequence
<1>6. Keyed(w)
  BY <1>1, <1>3, <1>4, <1>5 DEF Keyed
<1> QED BY <1>1, <1>3, <1>6 DEF w

LEMMA UniqueKeysKeep ==
  ASSUME NEW ps, Keyed(ps)
  PROVE  WithUniqueKeys(ps) = ps
<1> DEFINE w == WithUniqueKeys(ps)
           T == {i \in DOMAIN ps : w[i] # ps[i]}
<1>1. /\ DOMAIN w = DOMAIN ps /\ w = [i \in DOMAIN ps |-> w[i]]
      /\ \A i \in DOMAIN ps : w[i] = KeyedEntry(ps, w, i)
  BY UniqueKeysEntries DEF Keyed
<1>2. DOMAIN ps = 1..Len(ps) /\ Len(ps) \in Nat /\ ps = [i \in DOMAIN ps |-> ps[i]]
  BY SequenceDomain DEF Keyed
<1> HIDE DEF w
<1>3. ASSUME NEW i \in DOMAIN ps, \A j \in 1..(i - 1) : w[j] = ps[j] PROVE w[i] = ps[i]
  <2>1. KeyedEntry(ps, w, i) = KeyedEntry(ps, ps, i)
    BY <1>3, KeyedEntryDepends
  <2>2. ps[i].key \notin KeysBefore(ps, i)
    <3>1. \A j \in 1..(i - 1) : j \in DOMAIN ps /\ j # i
      BY <1>2
    <3> QED BY <3>1 DEF KeysBefore, Keyed
  <2>3. IsFiniteSet(KeysBefore(ps, i)) /\ IsProvider(ps[i]) /\ ps[i].key # NoKey
    BY <1>2, KeysBeforeFinite DEF Keyed
  <2>4. KeyFor(ps[i], KeysBefore(ps, i)) = ps[i].key
    BY <2>2, <2>3, KeyForIsNew
  <2>5. KeyedEntry(ps, ps, i) = ps[i]
    BY <2>3, <2>4 DEF KeyedEntry, IsProvider
  <2> QED BY <1>1, <2>1, <2>5
<1>4. T = {}
  <2> SUFFICES ASSUME T # {} PROVE FALSE
    OBVIOUS
  <2>1. T \subseteq Nat
    BY <1>2
  <2>2. PICK i \in T : \A j \in T : i <= j
    <3> HIDE DEF T
    <3> QED BY <2>1, LeastExists
  <2>3. \A j \in 1..(i - 1) : j \in DOMAIN ps /\ ~(i <= j)
    BY <1>2
  <2>4. \A j \in 1..(i - 1) : w[j] = ps[j]
    BY <2>2, <2>3
  <2> QED BY <1>3, <2>2, <2>4
<1>5. \A i \in DOMAIN ps : w[i] = ps[i]
  BY <1>4
<1> QED BY <1>1, <1>2, <1>5 DEF w

\* A key is in one place, and names that provider; no other when names are apart.
LEMMA NamedByKey ==
  ASSUME NEW ps, Keyed(ps), NEW i \in DOMAIN ps
  PROVE  /\ i \in Named(ps, ps[i].key) /\ IndexOf(ps, ps[i].key) = i
         /\ NamesApart(ps) => Named(ps, ps[i].key) = {i} /\ Max(Named(ps, ps[i].key)) = i
<1>1. \A j \in DOMAIN ps : j # i => ps[j].key # ps[i].key
  BY DEF Keyed
<1>2. NamesApart(ps) => Named(ps, ps[i].key) = {i}
  BY <1>1 DEF Named, NamesApart
<1>3. i \in Nat
  BY SequenceDomain DEF Keyed
<1> QED BY <1>1, <1>2, <1>3, MaxOfOne DEF IndexOf, Named

\* What an entry of a route names, if anything, is a provider of the list.
LEMMA NamedIsProvider ==
  ASSUME NEW ps, Keyed(ps), NEW entry, Named(ps, entry) # {}
  PROVE  Max(Named(ps, entry)) \in DOMAIN ps /\ ps[Max(Named(ps, entry))] \in Range(ps)
<1> DEFINE T == Named(ps, entry)
<1>1. DOMAIN ps = 1..Len(ps) /\ Len(ps) \in Nat
  BY SequenceDomain DEF Keyed
<1>2. T \subseteq 0..Len(ps) /\ T \subseteq DOMAIN ps
  BY <1>1 DEF Named
<1> HIDE DEF T
<1>3. Max(T) \in T
  BY <1>1, <1>2, GreatestExists DEF T
<1>4. Max(T) \in DOMAIN ps
  BY <1>2, <1>3
<1> QED BY <1>4 DEF T, Range

-----------------------------------------------------------------------------
(* Normalisation and validity *)

ValidRoute(cfg) == \A i \in DOMAIN cfg.route : cfg.route[i] \in KeysOf(cfg.providers)

\* Normalising gives keys, and may redirect a route; a route of keys stays one.
LEMMA NormalizeProviders ==
  ASSUME NEW cfg, IsConfig(cfg)
  PROVE  /\ Own(Normalize(cfg))
         /\ Normalize(cfg).enabled = cfg.enabled
         /\ Normalize(cfg).providers = WithUniqueKeys(cfg.providers)
         /\ Own(cfg) => Normalize(cfg).providers = cfg.providers
         /\ Own(cfg) /\ ValidRoute(cfg) => ValidRoute(Normalize(cfg))
         /\ Own(cfg) /\ ValidRoute(cfg) /\ NamesApart(cfg.providers) => Normalize(cfg) = cfg
<1> DEFINE ps == WithUniqueKeys(cfg.providers)
           e(i) == IF Named(ps, cfg.route[i]) = {} THEN cfg.route[i]
                   ELSE ps[Max(Named(ps, cfg.route[i]))].key
           route == [i \in DOMAIN cfg.route |-> e(i)]
           n == Normalize(cfg)
<1>1. /\ cfg.providers \in Seq(Range(cfg.providers)) /\ cfg.route \in Seq(Range(cfg.route))
      /\ cfg.enabled \in BOOLEAN
      /\ \A i \in DOMAIN cfg.providers : IsProvider(cfg.providers[i])
      /\ cfg = [enabled |-> cfg.enabled, providers |-> cfg.providers, route |-> cfg.route]
  BY DEF IsConfig
<1>2. Keyed(ps)
  BY <1>1, UniqueKeysKeyed
<1> HIDE DEF ps, e
<1>3. n = [cfg EXCEPT !.providers = ps, !.route = route]
  BY DEF Normalize, ps, e
<1>4. DOMAIN cfg.route = 1..Len(cfg.route) /\ Len(cfg.route) \in Nat
      /\ cfg.route = [i \in 1..Len(cfg.route) |-> cfg.route[i]]
  BY <1>1, SequenceDomain
<1>5. route \in Seq(Range(route))
  <2>1. route = [i \in 1..Len(cfg.route) |-> route[i]]
    BY <1>4
  <2> HIDE DEF route
  <2> QED BY <1>4, <2>1, FunctionIsSequence
<1>6. n = [enabled |-> cfg.enabled, providers |-> ps, route |-> route]
  <2> HIDE DEF n, route
  <2> QED BY <1>1, <1>3
<1>7. Own(n)
  <2> HIDE DEF route
  <2> QED BY <1>1, <1>2, <1>5, <1>6 DEF Own, IsConfig, Keyed
<1>8. Own(cfg) => ps = cfg.providers
  BY UniqueKeysKeep DEF Own, ps
<1>9. ASSUME Own(cfg), ValidRoute(cfg) PROVE ValidRoute(n)
  <2>1. ASSUME NEW i \in DOMAIN cfg.route PROVE e(i) \in KeysOf(ps)
    <3>1. PICK j \in DOMAIN ps : ps[j].key = cfg.route[i]
      BY <1>8, <1>9 DEF ValidRoute, KeysOf
    <3>2. Named(ps, cfg.route[i]) # {}
      BY <1>2, <3>1, NamedByKey
    <3>3. Max(Named(ps, cfg.route[i])) \in DOMAIN ps
      BY <1>2, <3>2, NamedIsProvider
    <3> QED BY <3>2, <3>3 DEF e, KeysOf
  <2> QED BY <1>6, <2>1 DEF ValidRoute
<1>10. ASSUME Own(cfg), ValidRoute(cfg), NamesApart(cfg.providers) PROVE n = cfg
  <2>1. ASSUME NEW i \in DOMAIN cfg.route PROVE e(i) = cfg.route[i]
    <3>1. PICK j \in DOMAIN ps : ps[j].key = cfg.route[i]
      BY <1>8, <1>10 DEF ValidRoute, KeysOf
    <3>2. Named(ps, cfg.route[i]) = {j} /\ Max(Named(ps, cfg.route[i])) = j
      BY <1>2, <1>8, <1>10, <3>1, NamedByKey
    <3> QED BY <3>1, <3>2 DEF e
  <2>2. route = cfg.route
    BY <1>4, <2>1
  <2> HIDE DEF n, route
  <2> QED BY <1>1, <1>6, <1>8, <1>10, <2>2
<1> HIDE DEF n, route
<1> QED BY <1>6, <1>7, <1>8, <1>9, <1>10 DEF n, ps

LEMMA ValidHasRoute ==
  ASSUME NEW cfg, IsConfig(cfg), NEW publishing, NEW secrets, Valid(cfg, publishing, secrets)
  PROVE  ValidRoute(cfg)
BY DEF Valid, ValidRoute, KeysOf, Range

\* A configuration of which every route entry is a key and every provider has a
\* model and no API key or one that exists.
Sound(cfg, secrets) ==
    /\ Own(cfg) /\ ValidRoute(cfg)
    /\ \A p \in Range(cfg.providers) : /\ p.model # NoModel
                                       /\ p.secret = 0 \/ p.secret \in secrets

HasKey(cfg) == \E p \in Range(cfg.providers) : p.secret > 0

LEMMA ValidIsSound ==
  ASSUME NEW cfg, Own(cfg), NEW secrets, Valid(cfg, TRUE, secrets)
  PROVE  Sound(cfg, secrets) /\ (cfg.enabled => HasKey(cfg))
<1>1. ValidRoute(cfg)
  BY ValidHasRoute DEF Own
<1> QED BY <1>1 DEF Sound, HasKey, Valid, Range

LEMMA SoundNormalized ==
  ASSUME NEW cfg, NEW secrets, Sound(cfg, secrets)
  PROVE  /\ Sound(Normalize(cfg), secrets) /\ Normalize(cfg).providers = cfg.providers
         /\ Normalize(cfg).enabled = cfg.enabled
         /\ NamesApart(cfg.providers) => Normalize(cfg) = cfg
BY NormalizeProviders DEF Sound, Own

LEMMA SoundGrows ==
  ASSUME NEW cfg, NEW old, NEW new, old \subseteq new, Sound(cfg, old)
  PROVE  Sound(cfg, new)
BY DEF Sound

\* Of a sound configuration what can be routed to can be used.
LEMMA RoutableIsUsable ==
  ASSUME NEW cfg, NEW secrets, Sound(cfg, secrets), NEW p \in Range(cfg.providers)
  PROVE  /\ Routable(p) <=> Usable(p, secrets)
         /\ Routable(p) <=> p.secret > 0
<1>1. p.secret > 0 => p.secret # 0
  OBVIOUS
<1> QED BY <1>1 DEF Sound, Routable, Usable

\* Secrets are only ever added.
LEMMA ValidGrows ==
  ASSUME NEW cfg, NEW publishing, NEW old, NEW new, old \subseteq new,
         Valid(cfg, publishing, old)
  PROVE  Valid(cfg, publishing, new)
BY DEF Valid

-----------------------------------------------------------------------------
(* Routes *)

ByRank(S) == {e \in S \X S : Before(e[1], e[2])}

LEMMA PriorityOrders ==
  ASSUME NEW ps, Keyed(ps), NEW S, S \subseteq Range(ps)
  PROVE  Orders(ByRank(S), S) /\ IsFiniteSet(S)
<1>1. \A p \in S : p.prio \in Int /\ p.key \in Nat
  BY DEF Keyed, IsProvider, Range
<1>2. ASSUME NEW p \in S, NEW q \in S, p # q PROVE p.key # q.key
  <2>1. PICK i, j \in DOMAIN ps : p = ps[i] /\ q = ps[j]
    BY DEF Range
  <2> QED BY <1>2, <2>1 DEF Keyed
<1>3. /\ \A p \in S : ~Before(p, p)
      /\ \A p, q \in S : p # q => Before(p, q) \/ Before(q, p)
      /\ \A p, q, r \in S : Before(p, q) /\ Before(q, r) => Before(p, r)
  BY <1>1, <1>2 DEF Before
<1>4. \A p, q \in S : <<p, q>> \in ByRank(S) <=> Before(p, q)
  BY DEF ByRank
<1>5. IsFiniteSet(S)
  BY RangeIsFinite, FS_Subset DEF Keyed
<1> QED BY <1>3, <1>4, <1>5 DEF Orders

\* The keys of S, each once.
LEMMA ByPriorityListsAll ==
  ASSUME NEW ps, Keyed(ps), NEW S, S \subseteq Range(ps)
  PROVE  /\ ByPriority(S) \in Seq(Range(ByPriority(S)))
         /\ Range(ByPriority(S)) = {p.key : p \in S}
         /\ \A i, j \in DOMAIN ByPriority(S) : i # j => ByPriority(S)[i] # ByPriority(S)[j]
         /\ ByPriority(S) = <<>> <=> S = {}
<1> DEFINE n == Cardinality(S)
           s == InOrder(S, ByRank(S))
           b == ByPriority(S)
<1>1. /\ n \in Nat /\ s = [k \in 1..n |-> s[k]]
      /\ \A k \in 1..n : s[k] \in S
      /\ \A k, m \in 1..n : k # m => s[k] # s[m]
      /\ \A x \in S : \E k \in 1..n : s[k] = x
      /\ n = 0 <=> S = {}
  <2> DEFINE R == ByRank(S)
  <2>1. Orders(R, S) /\ IsFiniteSet(S)
    BY PriorityOrders
  <2>2. n = 0 <=> S = {}
    BY <2>1, FS_EmptySet
  <2> HIDE DEF R
  <2>3. LET t == InOrder(S, R)
        IN /\ n \in Nat /\ t = [k \in 1..n |-> t[k]]
           /\ \A k \in 1..n : t[k] \in S
           /\ \A k, m \in 1..n : k # m => t[k] # t[m]
           /\ \A x \in S : \E k \in 1..n : t[k] = x
    BY <2>1, InOrderListsAll
  <2> QED BY <2>2, <2>3 DEF R
<1> HIDE DEF n, s
<1>2. DOMAIN s = 1..n
  BY <1>1
<1>3. b = [k \in 1..n |-> s[k].key]
  BY <1>2 DEF ByPriority, Keys, ByRank, s
<1> HIDE DEF b
<1>4. b = [k \in 1..n |-> b[k]] /\ \A k \in 1..n : b[k] = s[k].key
  BY <1>3
<1>5. b \in Seq(Range(b)) /\ DOMAIN b = 1..n /\ (b = <<>> <=> n = 0)
  BY <1>1, <1>4, FunctionIsSequence
<1>6. ASSUME NEW p \in S, NEW q \in S, p # q PROVE p.key # q.key
  <2>1. PICK i, j \in DOMAIN ps : p = ps[i] /\ q = ps[j]
    BY DEF Range
  <2> QED BY <1>6, <2>1 DEF Keyed
<1>7. \A i, j \in DOMAIN b : i # j => b[i] # b[j]
  BY <1>1, <1>4, <1>5, <1>6
<1>8. Range(b) = {p.key : p \in S}
  BY <1>1, <1>4, <1>5 DEF Range
<1> QED BY <1>1, <1>5, <1>7, <1>8 DEF b

LEMMA DefaultRouteListsUsable ==
  ASSUME NEW ps, Keyed(ps), NEW secrets
  PROVE  LET route == DefaultRoute(ps, secrets)
         IN /\ route \in Seq(Range(route))
            /\ Range(route) = {p.key : p \in {q \in Range(ps) : Usable(q, secrets)}}
            /\ route # <<>> => 1 \in DOMAIN route
<1>1. {q \in Range(ps) : Usable(q, secrets)} \subseteq Range(ps)
  OBVIOUS
<1> DEFINE route == DefaultRoute(ps, secrets)
<1>2. /\ route \in Seq(Range(route))
      /\ Range(route) = {p.key : p \in {q \in Range(ps) : Usable(q, secrets)}}
  BY <1>1, ByPriorityListsAll DEF DefaultRoute
<1> HIDE DEF route
<1>3. route # <<>> => 1 \in DOMAIN route
  BY <1>2, SequenceDomain, EmptySeq
<1> QED BY <1>2, <1>3 DEF route

LEMMA DefaultRouteOwn ==
  ASSUME NEW cfg, Own(cfg), NEW secrets
  PROVE  LET new == WithDefaultRoute(cfg, secrets)
         IN /\ Own(new) /\ new.providers = cfg.providers /\ new.enabled = cfg.enabled
            /\ new.route = DefaultRoute(cfg.providers, secrets)
<1> DEFINE route == DefaultRoute(cfg.providers, secrets)
           new == WithDefaultRoute(cfg, secrets)
<1>1. route \in Seq(Range(route))
  BY DefaultRouteListsUsable DEF Own
<1>2. new = [cfg EXCEPT !.route = route]
  BY DEF WithDefaultRoute
<1> HIDE DEF route, new
<1> QED BY <1>1, <1>2 DEF Own, IsConfig, route, new

\* The first place the default, the others after it: the list stays as it is
\* but for its priorities.
LEMMA MakeDefaultKeyed ==
  ASSUME NEW ps, Keyed(ps), NEW key
  PROVE  LET new == MakeDefault(ps, key)
         IN /\ Keyed(new) /\ DOMAIN new = DOMAIN ps
            /\ \A i \in DOMAIN ps : new[i].key = ps[i].key /\ new[i].name = ps[i].name
<1> DEFINE S == {p \in Range(ps) : p.key # key}
           b == ByPriority(S)
           order == <<key>> \o b
           place(k) == CHOOSE i \in DOMAIN order : order[i] = k
           new == MakeDefault(ps, key)
<1>1. b \in Seq(Range(b)) /\ Range(b) = {p.key : p \in S}
  BY ByPriorityListsAll
<1> HIDE DEF b
<1>2. /\ Len(order) \in Nat /\ DOMAIN order = 1..Len(order) /\ order[1] = key /\ 1 \in DOMAIN order
      /\ \A i \in DOMAIN b : i + 1 \in DOMAIN order /\ order[i + 1] = b[i]
  <2> DEFINE T == Range(b) \cup {key}
             one == <<key>>
  <2>1. b \in Seq(T) /\ DOMAIN b = 1..Len(b) /\ Len(b) \in Nat
    BY <1>1, SequenceDomain, SeqMonotonic
  <2>2. one \in Seq(T) /\ Len(one) = 1 /\ one[1] = key
    OBVIOUS
  <2> HIDE DEF one, T
  <2>3. /\ one \o b \in Seq(T) /\ Len(one \o b) = Len(one) + Len(b)
        /\ \A i \in 1..(Len(one) + Len(b)) :
             (one \o b)[i] = IF i <= Len(one) THEN one[i] ELSE b[i - Len(one)]
    BY <2>1, <2>2, ConcatProperties
  <2>4. DOMAIN (one \o b) = 1..Len(one \o b)
    BY <2>3, LenProperties
  <2>5. order = one \o b
    BY DEF one
  <2> HIDE DEF order
  <2> QED BY <2>1, <2>2, <2>3, <2>4, <2>5
<1> HIDE DEF order
<1>3. ASSUME NEW i \in DOMAIN ps PROVE place(ps[i].key) \in Nat
  <2>1. \E j \in DOMAIN order : order[j] = ps[i].key
    <3>1. CASE ps[i].key = key
      BY <1>2, <3>1
    <3>2. CASE ps[i].key # key
      <4>1. ps[i] \in S
        BY <3>2 DEF Range
      <4> HIDE DEF S
      <4>2. PICK j \in DOMAIN b : b[j] = ps[i].key
        BY <1>1, <4>1 DEF Range
      <4> QED BY <1>2, <4>2
    <3> QED BY <3>1, <3>2
  <2> QED BY <1>2, <2>1
<1>4. /\ new = [i \in DOMAIN ps |-> [ps[i] EXCEPT !.prio = 10 * place(ps[i].key)]]
      /\ DOMAIN new = DOMAIN ps
  BY DEF MakeDefault, order, b
<1> HIDE DEF place
<1>5. ASSUME NEW i \in DOMAIN ps
      PROVE  /\ IsProvider(new[i]) /\ new[i].key = ps[i].key /\ new[i].name = ps[i].name
  <2> DEFINE x == 10 * place(ps[i].key)
  <2>1. x \in Int
    BY <1>3
  <2>2. new[i] = [ps[i] EXCEPT !.prio = x] /\ IsProvider(ps[i])
    BY <1>4 DEF Keyed
  <2> HIDE DEF x, new
  <2> QED BY <2>1, <2>2 DEF IsProvider
<1>6. DOMAIN ps = 1..Len(ps) /\ Len(ps) \in Nat
  BY SequenceDomain DEF Keyed
<1>7. new = [i \in 1..Len(ps) |-> new[i]]
  <2> DEFINE g(i) == [ps[i] EXCEPT !.prio = 10 * place(ps[i].key)]
  <2>1. new = [i \in 1..Len(ps) |-> g(i)]
    BY <1>4, <1>6
  <2> HIDE DEF g, new
  <2> QED BY <2>1
<1> HIDE DEF new
<1>8. new \in Seq(Range(new))
  BY <1>6, <1>7, FunctionIsSequence
<1>9. \A i, j \in DOMAIN new : i # j => new[i].key # new[j].key
  <2> SUFFICES ASSUME NEW i \in DOMAIN new, NEW j \in DOMAIN new, i # j
               PROVE  new[i].key # new[j].key
    OBVIOUS
  <2>1. i \in DOMAIN ps /\ j \in DOMAIN ps
    BY <1>4 DEF new
  <2>2. ps[i].key # ps[j].key
    BY <2>1 DEF Keyed
  <2> QED BY <1>5, <2>1, <2>2
<1> QED BY <1>4, <1>5, <1>8, <1>9 DEF Keyed, new

\* Whatever the names are, a question tries only providers that can be routed
\* to, and tries one if there is one.
LEMMA AttemptsAreRoutable ==
  ASSUME NEW cfg, Own(cfg)
  PROVE  /\ \A k \in Range(Attempts(cfg)) : \E p \in Range(cfg.providers) : p.key = k /\ Routable(p)
         /\ (\E p \in Range(cfg.providers) : Routable(p)) => Attempts(cfg) # <<>>
<1> DEFINE ps == cfg.providers
           found(e) == ps[Max(Named(ps, e))]
           I == {i \in DOMAIN cfg.route : /\ Named(ps, cfg.route[i]) # {}
                                          /\ Routable(found(cfg.route[i]))}
           routed == At(cfg.route, I)
           keys == [i \in DOMAIN routed |-> found(routed[i]).key]
           routable == {p \in Range(ps) : Routable(p)}
           fallback == ByPriority(routable)
           tried == IF routed # <<>> THEN keys ELSE fallback
<1>0. Keyed(ps)
  BY DEF Own
<1>1. Attempts(cfg) = FirstOfEach(tried)
  BY DEF Attempts
<1>2. /\ routed \in Seq(Range(routed)) /\ DOMAIN routed = 1..Len(routed) /\ Len(routed) \in Nat
      /\ \A k \in DOMAIN routed : \E i \in I : routed[k] = cfg.route[i]
  <2>1. cfg.route \in Seq(Range(cfg.route)) /\ I \subseteq DOMAIN cfg.route
    BY DEF Own, IsConfig
  <2> HIDE DEF I
  <2> QED BY <2>1, AtSelects
<1>3. ASSUME NEW k \in DOMAIN routed
      PROVE  found(routed[k]) \in routable
  <2>1. PICK i \in I : routed[k] = cfg.route[i]
    BY <1>2
  <2>2. Named(ps, routed[k]) # {} /\ Routable(found(routed[k]))
    BY <2>1
  <2>3. found(routed[k]) \in Range(ps)
    BY <1>0, <2>2, NamedIsProvider
  <2> QED BY <2>2, <2>3
<1> HIDE DEF routed, found
<1>4. /\ keys \in Seq(Range(keys)) /\ DOMAIN keys = DOMAIN routed /\ (keys = <<>> <=> routed = <<>>)
      /\ \A k \in DOMAIN keys : \E p \in routable : p.key = keys[k]
  <2>1. keys = [i \in 1..Len(routed) |-> keys[i]]
    BY <1>2
  <2>2. \A k \in DOMAIN routed : keys[k] = found(routed[k]).key
    OBVIOUS
  <2>3. DOMAIN keys = DOMAIN routed
    OBVIOUS
  <2> HIDE DEF keys, routable
  <2>4. keys \in Seq(Range(keys)) /\ (keys = <<>> <=> Len(routed) = 0)
    BY <1>2, <2>1, FunctionIsSequence
  <2>5. routed = <<>> <=> Len(routed) = 0
    BY <1>2, EmptySeq
  <2> QED BY <1>3, <2>2, <2>3, <2>4, <2>5
<1>5. /\ fallback \in Seq(Range(fallback)) /\ Range(fallback) = {p.key : p \in routable}
      /\ fallback = <<>> <=> routable = {}
  <2>1. routable \subseteq Range(ps)
    OBVIOUS
  <2> HIDE DEF routable
  <2> QED BY <1>0, <2>1, ByPriorityListsAll
<1> HIDE DEF keys, fallback
<1>6. /\ tried \in Seq(Range(tried))
      /\ \A k \in Range(tried) : \E p \in routable : p.key = k
      /\ routable # {} => tried # <<>>
  <2> HIDE DEF routable
  <2>1. CASE routed # <<>>
    BY <1>4, <2>1 DEF Range
  <2>2. CASE routed = <<>>
    BY <1>5, <2>2
  <2> QED BY <2>1, <2>2
<1> HIDE DEF tried
<1>7. Range(FirstOfEach(tried)) = Range(tried) /\ (FirstOfEach(tried) = <<>> <=> tried = <<>>)
  BY <1>6, FirstOfEachListsAll
<1> QED BY <1>1, <1>6, <1>7

\* And the settings page shows one if there is one that can be used.
LEMMA ShownIsNotEmpty ==
  ASSUME NEW cfg, Own(cfg), NEW secrets, \E p \in Range(cfg.providers) : Usable(p, secrets)
  PROVE  ShownRoute(cfg, secrets) # <<>>
<1> DEFINE c == Normalize(cfg)
           usable == {p \in Range(c.providers) : Usable(p, secrets)}
           shown == At(c.route, {i \in DOMAIN c.route : \E p \in usable : p.key = c.route[i]})
<1>1. Own(c) /\ c.providers = cfg.providers
  BY NormalizeProviders DEF Own
<1>2. ShownRoute(cfg, secrets) = IF shown # <<>> THEN FirstOfEach(shown) ELSE ByPriority(usable)
  BY DEF ShownRoute
<1> HIDE DEF c
<1>3. ByPriority(usable) # <<>>
  <2>1. usable \subseteq Range(c.providers) /\ usable # {} /\ Keyed(c.providers)
    BY <1>1 DEF Own
  <2> HIDE DEF usable
  <2> QED BY <2>1, ByPriorityListsAll
<1>4. shown \in Seq(Range(shown))
  <2> DEFINE I == {i \in DOMAIN c.route : \E p \in usable : p.key = c.route[i]}
  <2>1. c.route \in Seq(Range(c.route)) /\ I \subseteq DOMAIN c.route
    BY <1>1 DEF Own, IsConfig
  <2> HIDE DEF I
  <2>2. At(c.route, I) \in Seq(Range(At(c.route, I)))
    BY <2>1, AtSelects
  <2> QED BY <2>2 DEF I
<1> HIDE DEF shown, usable
<1> QED BY <1>2, <1>3, <1>4, FirstOfEachListsAll

\* With names apart a question finds the route's entries by key.
LEMMA AttemptsRoute ==
  ASSUME NEW cfg, Own(cfg), ValidRoute(cfg), NamesApart(cfg.providers)
  PROVE  LET routed == At(cfg.route, {i \in DOMAIN cfg.route :
                                        \E p \in Range(cfg.providers) :
                                          p.key = cfg.route[i] /\ Routable(p)})
         IN Attempts(cfg) = FirstOfEach(IF routed # <<>> THEN routed
                                        ELSE ByPriority({p \in Range(cfg.providers) : Routable(p)}))
<1> DEFINE ps == cfg.providers
           found(e) == ps[Max(Named(ps, e))]
           I == {i \in DOMAIN cfg.route : /\ Named(ps, cfg.route[i]) # {}
                                          /\ Routable(found(cfg.route[i]))}
           J == {i \in DOMAIN cfg.route :
                   \E p \in Range(ps) : p.key = cfg.route[i] /\ Routable(p)}
           routed == At(cfg.route, I)
           fallback == ByPriority({p \in Range(ps) : Routable(p)})
<1>0. Keyed(ps) /\ NamesApart(ps)
  BY DEF Own
<1>1. ASSUME NEW i \in DOMAIN cfg.route
      PROVE  \E j \in DOMAIN ps : /\ ps[j].key = cfg.route[i] /\ Named(ps, cfg.route[i]) # {}
                                  /\ found(cfg.route[i]) = ps[j]
                                  /\ \A p \in Range(ps) : p.key = cfg.route[i] => p = ps[j]
  <2>1. PICK j \in DOMAIN ps : ps[j].key = cfg.route[i]
    BY DEF ValidRoute, KeysOf
  <2>2. Named(ps, cfg.route[i]) = {j} /\ Max(Named(ps, cfg.route[i])) = j
    <3>1. Named(ps, ps[j].key) = {j} /\ Max(Named(ps, ps[j].key)) = j
      <4> HIDE DEF ps
      <4> QED BY <1>0, NamedByKey
    <3> QED BY <2>1, <3>1
  <2>3. \A p \in Range(ps) : p.key = ps[j].key => p = ps[j]
    BY <1>0 DEF Keyed, Range
  <2> QED BY <2>1, <2>2, <2>3
<1>2. Attempts(cfg) = FirstOfEach(IF routed # <<>>
                                  THEN [i \in DOMAIN routed |-> found(routed[i]).key]
                                  ELSE fallback)
  BY DEF Attempts
<1> HIDE DEF found
<1>3. I = J
  <2> SUFFICES ASSUME NEW i \in DOMAIN cfg.route
               PROVE  Named(ps, cfg.route[i]) # {} /\ Routable(found(cfg.route[i]))
                        <=> \E p \in Range(ps) : p.key = cfg.route[i] /\ Routable(p)
    OBVIOUS
  <2>1. PICK j \in DOMAIN ps : /\ ps[j].key = cfg.route[i] /\ Named(ps, cfg.route[i]) # {}
                               /\ found(cfg.route[i]) = ps[j]
                               /\ \A p \in Range(ps) : p.key = cfg.route[i] => p = ps[j]
    BY <1>1
  <2>2. ps[j] \in Range(ps)
    BY DEF Range
  <2> QED BY <2>1, <2>2
<1>4. /\ routed = [k \in DOMAIN routed |-> routed[k]]
      /\ \A k \in DOMAIN routed : \E i \in DOMAIN cfg.route : routed[k] = cfg.route[i]
  <2>1. cfg.route \in Seq(Range(cfg.route)) /\ I \subseteq DOMAIN cfg.route
    BY DEF Own, IsConfig
  <2>2. /\ routed \in Seq(Range(routed))
        /\ \A k \in DOMAIN routed : \E i \in I : routed[k] = cfg.route[i]
    <3> HIDE DEF I
    <3> QED BY <2>1, AtSelects
  <2> HIDE DEF routed
  <2> QED BY <2>2, SequenceDomain
<1> HIDE DEF routed
<1>5. ASSUME NEW k \in DOMAIN routed PROVE found(routed[k]).key = routed[k]
  <2>1. PICK i \in DOMAIN cfg.route : routed[k] = cfg.route[i]
    BY <1>4
  <2>2. PICK j \in DOMAIN ps : /\ ps[j].key = cfg.route[i]
                               /\ found(cfg.route[i]) = ps[j]
    BY <1>1
  <2> QED BY <2>1, <2>2
<1>6. [k \in DOMAIN routed |-> found(routed[k]).key] = routed
  <2> DEFINE g(k) == found(routed[k]).key
  <2>1. \A k \in DOMAIN routed : g(k) = routed[k]
    BY <1>5
  <2> HIDE DEF g
  <2>2. [k \in DOMAIN routed |-> g(k)] = routed
    BY <1>4, <2>1
  <2> QED BY <2>2 DEF g
<1>7. Attempts(cfg) = FirstOfEach(IF routed # <<>> THEN routed ELSE fallback)
  BY <1>2, <1>6
<1>8. routed = At(cfg.route, J)
  BY <1>3 DEF routed
<1> QED BY <1>7, <1>8

\* A provider of the route that can be routed to is tried.
LEMMA RoutedIsAttempted ==
  ASSUME NEW cfg, Own(cfg), ValidRoute(cfg), NamesApart(cfg.providers),
         NEW p \in Range(cfg.providers), Routable(p), p.key \in Range(cfg.route)
  PROVE  p.key \in Range(Attempts(cfg))
<1> DEFINE J == {i \in DOMAIN cfg.route :
                   \E q \in Range(cfg.providers) : q.key = cfg.route[i] /\ Routable(q)}
           routed == At(cfg.route, J)
<1>1. PICK i \in J : cfg.route[i] = p.key
  BY DEF Range
<1>2. cfg.route \in Seq(Range(cfg.route)) /\ J \subseteq DOMAIN cfg.route
  BY DEF Own, IsConfig
<1>3. Attempts(cfg) = FirstOfEach(IF routed # <<>> THEN routed
                                  ELSE ByPriority({q \in Range(cfg.providers) : Routable(q)}))
  BY AttemptsRoute
<1> HIDE DEF J
<1>4. /\ routed \in Seq(Range(routed))
      /\ \E k \in DOMAIN routed : routed[k] = cfg.route[i]
      /\ routed # <<>>
  BY <1>1, <1>2, AtSelects
<1> HIDE DEF routed
<1>5. Range(Attempts(cfg)) = Range(routed)
  BY <1>3, <1>4, FirstOfEachListsAll
<1> QED BY <1>1, <1>4, <1>5 DEF Range

\* With names apart a sound configuration is shown as it is tried:
\* aiSettingsRouteProviderKeys filters by the secrets that exist,
\* aiProvidersForRoute does not.
LEMMA ShownIsTried ==
  ASSUME NEW cfg, NEW secrets, Sound(cfg, secrets), NamesApart(cfg.providers)
  PROVE  ShownRoute(cfg, secrets) = Attempts(cfg)
<1> DEFINE ps == cfg.providers
           J == {i \in DOMAIN cfg.route :
                   \E p \in Range(ps) : p.key = cfg.route[i] /\ Routable(p)}
           routed == At(cfg.route, J)
           usable == {p \in Range(ps) : Usable(p, secrets)}
           routable == {p \in Range(ps) : Routable(p)}
<1>1. ValidRoute(cfg) /\ Keyed(ps) /\ Own(cfg)
  BY DEF Sound, Own
<1>2. Attempts(cfg) = FirstOfEach(IF routed # <<>> THEN routed ELSE ByPriority(routable))
  BY <1>1, AttemptsRoute
<1>3. usable = routable
  BY RoutableIsUsable
<1>4. ShownRoute(cfg, secrets) = IF routed # <<>> THEN FirstOfEach(routed) ELSE ByPriority(routable)
  <2> DEFINE K == {i \in DOMAIN cfg.route : \E p \in usable : p.key = cfg.route[i]}
  <2>1. K = J
    BY <1>3
  <2>2. Normalize(cfg) = cfg
    BY SoundNormalized
  <2>3. ShownRoute(cfg, secrets) =
          IF At(cfg.route, K) # <<>> THEN FirstOfEach(At(cfg.route, K)) ELSE ByPriority(usable)
    BY <2>2 DEF ShownRoute
  <2> HIDE DEF K, J, usable, routable
  <2> QED BY <1>3, <2>1, <2>3
<1>5. FirstOfEach(ByPriority(routable)) = ByPriority(routable)
  <2>1. routable \subseteq Range(ps)
    OBVIOUS
  <2> HIDE DEF routable
  <2> QED BY <1>1, <2>1, ByPriorityListsAll, FirstOfEachKeeps
<1> HIDE DEF routed, routable, usable
<1> QED BY <1>2, <1>4, <1>5

\* A route that lists providers that can be routed to, by priority, is tried as
\* it is.
LEMMA RankedIsTried ==
  ASSUME NEW cfg, Own(cfg), ValidRoute(cfg), NamesApart(cfg.providers),
         NEW S, S \subseteq Range(cfg.providers), S # {}, \A p \in S : Routable(p),
         cfg.route = ByPriority(S)
  PROVE  Attempts(cfg) = ByPriority({p \in Range(cfg.providers) : p.key \in Range(Attempts(cfg))})
<1> DEFINE ps == cfg.providers
           J == {i \in DOMAIN cfg.route :
                   \E p \in Range(ps) : p.key = cfg.route[i] /\ Routable(p)}
           b == ByPriority(S)
<1>0. Keyed(ps)
  BY DEF Own
<1>1. /\ b \in Seq(Range(b)) /\ Range(b) = {p.key : p \in S}
      /\ \A i, j \in DOMAIN b : i # j => b[i] # b[j]
      /\ b # <<>>
  BY <1>0, ByPriorityListsAll
<1> HIDE DEF b
<1>2. J = DOMAIN b
  <2>1. cfg.route = b
    BY DEF b
  <2>2. ASSUME NEW i \in DOMAIN b PROVE \E p \in Range(ps) : p.key = b[i] /\ Routable(p)
    <3>1. b[i] \in {p.key : p \in S}
      BY <1>1 DEF Range
    <3> QED BY <3>1
  <2> QED BY <2>1, <2>2
<1>3. At(cfg.route, J) = b
  BY <1>1, <1>2, AtAll DEF b
<1>4. Attempts(cfg) = b
  <2>1. FirstOfEach(b) = b
    BY <1>1, FirstOfEachKeeps
  <2> HIDE DEF J
  <2>2. Attempts(cfg) = FirstOfEach(IF At(cfg.route, J) # <<>> THEN At(cfg.route, J)
                                    ELSE ByPriority({p \in Range(ps) : Routable(p)}))
    BY AttemptsRoute DEF J
  <2> QED BY <1>1, <1>3, <2>1, <2>2
<1>5. {p \in Range(ps) : p.key \in Range(b)} = S
  <2>1. ASSUME NEW p \in Range(ps), NEW q \in S, p.key = q.key PROVE p = q
    BY <1>0, <2>1 DEF Keyed, Range
  <2> QED BY <1>1, <2>1
<1> QED BY <1>4, <1>5 DEF b

(***************************************************************************)
(* A configuration that passes the validation of a publication, with       *)
(* providers of any name: when AI is enabled a question has a provider to  *)
(* try, and tries only such as have a model and an API key that exists;    *)
(* and if no provider is named like the key of another, the settings page  *)
(* shows the route that questions take.                                    *)
(***************************************************************************)
THEOREM ValidRouteIsShown ==
  ASSUME NEW cfg, Own(cfg), NEW secrets, Valid(cfg, TRUE, secrets)
  PROVE  /\ cfg.enabled => Attempts(cfg) # <<>> /\ ShownRoute(cfg, secrets) # <<>>
         /\ \A k \in Range(Attempts(cfg)) :
              \E p \in Range(cfg.providers) : p.key = k /\ Usable(p, secrets)
         /\ NamesApart(cfg.providers) => ShownRoute(cfg, secrets) = Attempts(cfg)
<1>1. Sound(cfg, secrets) /\ (cfg.enabled => HasKey(cfg))
  BY ValidIsSound
<1>2. cfg.enabled => \E p \in Range(cfg.providers) : Routable(p) /\ Usable(p, secrets)
  BY <1>1, RoutableIsUsable DEF HasKey
<1>3. \A k \in Range(Attempts(cfg)) :
         \E p \in Range(cfg.providers) : p.key = k /\ Usable(p, secrets)
  BY <1>1, AttemptsAreRoutable, RoutableIsUsable
<1>4. cfg.enabled => Attempts(cfg) # <<>> /\ ShownRoute(cfg, secrets) # <<>>
  BY <1>2, AttemptsAreRoutable, ShownIsNotEmpty
<1>5. NamesApart(cfg.providers) => ShownRoute(cfg, secrets) = Attempts(cfg)
  BY <1>1, ShownIsTried
<1> QED BY <1>3, <1>4, <1>5

==============================================================================
