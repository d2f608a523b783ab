------------------------ MODULE RetainedKotlinProofs ------------------------
(***************************************************************************)
(* Proofs about the edits of retained Kotlin.  SourceStripping, for every  *)
(* file: no run loses a line of the user's but those of the declarations   *)
(* that became Java, what a speculative round compiles is what the run     *)
(* leaves, every line a run blamed reads that run's reason above it, and   *)
(* the next run with the same verdicts changes nothing; the last two but   *)
(* where a stale diagnostic at a comment is not dropped, the last also but *)
(* for indented comments above annotations.                                *)
(* SmartCastRepair, at the end, for every file and every number of names:  *)
(* the locals it declares are apart, what a local replaces has its value,  *)
(* and what the planner accepts is repaired.  The text order of a tree's   *)
(* positions is there a prefix or an end before the other's begin.         *)
(***************************************************************************)
EXTENDS SourceStripping, SmartCastRepair, FiniteSetTheorems, SequenceTheorems, WellFoundedInduction, TLAPS

(* A set of natural numbers has a least element.                           *)
LEMMA Least ==
  ASSUME NEW T, T \subseteq Nat, T # {}
  PROVE  \E n \in T : \A m \in T : n <= m
<1> DEFINE R == OpToRel(<, Nat)
<1>1. PICK n \in T : \A m \in T : ~(<<m, n>> \in R)
  BY WFMin, NatLessThanWellFounded, Zenon
<1>2. \A m \in T : ~(m < n)
  BY <1>1, Zenon DEF OpToRel
<1>. HIDE DEF R
<1>. QED BY <1>2

LEMMA MinIs ==
  ASSUME NEW T, T \subseteq Nat, T # {}
  PROVE  Min(T) \in T /\ \A m \in T : Min(T) <= m
BY Least DEF Min

LEMMA MaxIs ==
  ASSUME NEW n \in Nat, NEW T, T \subseteq 0 .. n, T # {}
  PROVE  Max(T) \in T /\ \A m \in T : m <= Max(T)
<1> DEFINE D == {k \in 0 .. n : n - k \in T}
<1>1. D \subseteq Nat /\ D # {}
  <2>1. PICK t \in T : TRUE
    OBVIOUS
  <2>2. n - t \in 0 .. n /\ n - (n - t) = t
    BY <2>1
  <2>3. n - t \in D
    BY <2>1, <2>2
  <2> QED BY <2>3
<1>2. PICK k \in D : \A m \in D : k <= m
  <2> HIDE DEF D
  <2> QED BY <1>1, Least
<1>3. k \in 0 .. n /\ n - k \in T
  BY <1>2
<1> DEFINE t == n - k
<1>4. \A m \in T : t >= m
  <2> SUFFICES ASSUME NEW m \in T PROVE t >= m
    OBVIOUS
  <2>1. m \in 0 .. n /\ n - m \in 0 .. n /\ n - (n - m) = m
    OBVIOUS
  <2>2. n - m \in D
    BY <2>1
  <2>3. k <= n - m
    BY <1>2, <2>2
  <2> QED BY <1>3, <2>1, <2>3
<1>5. Max(T) \in T /\ \A m \in T : Max(T) >= m
  BY <1>3, <1>4 DEF Max
<1>6. \A m \in T : m \in Nat
  OBVIOUS
<1> QED BY <1>5, <1>6

-----------------------------------------------------------------------------
(* A recursion along the first n numbers, each step of which looks at one  *)
(* earlier value, has a solution.                                          *)
Recursion(X, a, n, q, h, g) ==
  /\ g \in [0 .. n -> X]
  /\ g[0] = a
  /\ \A i \in 1 .. n : g[i] = h[<<i, g[q[i]]>>]

LEMMA RecursionExists ==
  ASSUME NEW X, NEW a \in X, NEW n \in Nat,
         NEW q \in [1 .. n -> Nat], \A i \in 1 .. n : q[i] < i,
         NEW h \in [(1 .. n) \X X -> X]
  PROVE  \E g : Recursion(X, a, n, q, h, g)
<1> DEFINE T == {m \in 0 .. n : ~ \E g : Recursion(X, a, m, q, h, g)}
<1>1. SUFFICES ASSUME T # {} PROVE FALSE
  <2>1. n \in 0 .. n
    OBVIOUS
  <2>2. n \notin T => \E g : Recursion(X, a, n, q, h, g)
    BY <2>1
  <2> HIDE DEF T
  <2> QED BY <2>2
<1>2. PICK m \in T : \A j \in T : m <= j
  <2>1. T \subseteq Nat
    OBVIOUS
  <2> HIDE DEF T
  <2> QED BY <1>1, <2>1, Least
<1>3. m \in 0 .. n /\ ~ \E g : Recursion(X, a, m, q, h, g)
  OBVIOUS
<1>4. CASE m = 0
  <2> DEFINE g == [i \in 0 .. m |-> a]
  <2>1. g \in [0 .. m -> X] /\ g[0] = a /\ 1 .. m = {}
    BY <1>4
  <2>2. Recursion(X, a, m, q, h, g)
    BY <2>1 DEF Recursion
  <2> QED BY <1>3, <2>2
<1>5. CASE m # 0
  <2>1. m - 1 \in 0 .. n /\ m - 1 \notin T /\ m \in 1 .. n
    <3> HIDE DEF T
    <3>1. m \in 0 .. n /\ \A j \in T : m <= j
      BY <1>2, <1>3
    <3>2. m - 1 \in 0 .. n /\ ~ (m <= m - 1) /\ m \in 1 .. n
      BY <1>5, <3>1
    <3> QED BY <3>1, <3>2
  <2>2. PICK b : Recursion(X, a, m - 1, q, h, b)
    BY <2>1
  <2> HIDE DEF T
  <2> DEFINE new == h[<<m, b[q[m]]>>]
             g == [i \in 0 .. m |-> IF i = m THEN new ELSE b[i]]
  <2>3. q[m] \in 0 .. m - 1
    BY <2>1
  <2>4. b \in [0 .. m - 1 -> X] /\ b[0] = a
    BY <2>2 DEF Recursion
  <2>5. new \in X
    BY <2>1, <2>3, <2>4
  <2>6. \A i \in 0 .. m - 1 : g[i] = b[i]
    BY <1>3
  <2>7. g[m] = new /\ g \in [0 .. m -> X]
    BY <1>3, <2>4, <2>5
  <2> HIDE DEF g
  <2>8. g[0] = a
    BY <1>3, <1>5, <2>4, <2>6
  <2>9. ASSUME NEW i \in 1 .. m PROVE g[i] = h[<<i, g[q[i]]>>]
    <3>1. CASE i = m
      BY <3>1, <2>3, <2>6, <2>7
    <3>2. CASE i # m
      <4>1. i \in 1 .. m - 1 /\ q[i] \in 0 .. m - 1 /\ i \in 0 .. m - 1
        BY <2>1, <3>2
      <4>2. b[i] = h[<<i, b[q[i]]>>]
        BY <2>2, <4>1 DEF Recursion
      <4> QED BY <2>6, <4>1, <4>2
    <3> QED BY <3>1, <3>2
  <2> QED BY <1>3, <2>7, <2>8, <2>9 DEF Recursion
<1> QED BY <1>4, <1>5

-----------------------------------------------------------------------------
(* What Pick collects along the way.                                       *)
PickedBy(f, at, g) ==
  /\ g \in [0 .. Len(f) -> Seq(Items)]
  /\ g[0] = <<>>
  /\ \A i \in 1 .. Len(f) :
        g[i] = IF i \in at THEN Append(g[i - 1], f[i]) ELSE g[i - 1]

LEMMA PickSteps ==
  ASSUME NEW f \in Seq(Items), NEW at
  PROVE  \E g : PickedBy(f, at, g) /\ Pick(f, at) = g[Len(f)]
<1> DEFINE n == Len(f)
           X == Seq(Items)
           q == [i \in 1 .. n |-> i - 1]
           h == [p \in (1 .. n) \X X |->
                   IF p[1] \in at THEN Append(p[2], f[p[1]]) ELSE p[2]]
           Rec(g) == [i \in 0 .. n |->
                        IF i = 0 THEN <<>>
                        ELSE IF i \in at THEN Append(g[i - 1], f[i])
                        ELSE g[i - 1]]
<1>1. n \in Nat /\ \A i \in 1 .. n : f[i] \in Items
  OBVIOUS
<1> HIDE DEF n
<1>2. q \in [1 .. n -> Nat] /\ \A i \in 1 .. n : q[i] < i
  BY <1>1
<1>3. h \in [(1 .. n) \X X -> X]
  <2>1. ASSUME NEW p \in (1 .. n) \X X
        PROVE  (IF p[1] \in at THEN Append(p[2], f[p[1]]) ELSE p[2]) \in X
    <3>1. p[1] \in 1 .. n /\ p[2] \in Seq(Items)
      OBVIOUS
    <3>2. f[p[1]] \in Items
      BY <1>1, <3>1
    <3>3. Append(p[2], f[p[1]]) \in Seq(Items)
      BY <3>1, <3>2, AppendProperties
    <3> QED BY <3>1, <3>3
  <2> QED BY <2>1
<1>4. <<>> \in X
  OBVIOUS
<1> HIDE DEF X, q, h
<1>5. PICK g : Recursion(X, <<>>, n, q, h, g)
  BY <1>1, <1>2, <1>3, <1>4, RecursionExists
<1>6. g \in [0 .. n -> X] /\ g[0] = <<>>
  BY <1>5 DEF Recursion
<1>7. ASSUME NEW i \in 1 .. n
      PROVE  g[i] = IF i \in at THEN Append(g[i - 1], f[i]) ELSE g[i - 1]
  <2>1. q[i] = i - 1 /\ g[i] = h[<<i, g[q[i]]>>]
    BY <1>5 DEF Recursion, q
  <2>2. i - 1 \in 0 .. n
    BY <1>1
  <2>3. g[i - 1] \in X
    BY <1>6, <2>2
  <2>4. h[<<i, g[i - 1]>>] = IF i \in at THEN Append(g[i - 1], f[i]) ELSE g[i - 1]
    BY <2>3 DEF h
  <2> QED BY <2>1, <2>4
<1>8. g = Rec(g)
  <2>1. \A i \in 0 .. n : i # 0 => i \in 1 .. n
    BY <1>1
  <2> QED BY <1>6, <1>7, <2>1
<1> DEFINE c == CHOOSE r : r = Rec(r)
<1>9. Pick(f, at) = c[n]
  BY Zenon DEF Pick, n
<1>10. c = Rec(c)
  <2> HIDE DEF Rec
  <2> QED BY <1>8
<1> HIDE DEF c
<1>11. c[0] = <<>> /\ c = [i \in 0 .. n |-> c[i]]
  BY <1>1, <1>10
<1>12. ASSUME NEW i \in 1 .. n
       PROVE  c[i] = IF i \in at THEN Append(c[i - 1], f[i]) ELSE c[i - 1]
  <2>1. i \in 0 .. n /\ i # 0
    BY <1>1
  <2> QED BY <1>10, <2>1
<1>13. \A i \in 0 .. n : c[i] = g[i]
  <2> DEFINE T == {i \in 0 .. n : c[i] # g[i]}
  <2>1. SUFFICES ASSUME T # {} PROVE FALSE
    OBVIOUS
  <2>2. T \subseteq Nat
    BY <1>1
  <2>3. PICK i \in T : \A j \in T : i <= j
    <3> HIDE DEF T
    <3> QED BY <2>1, <2>2, Least
  <2>4. i \in 1 .. n /\ i - 1 \in 0 .. n /\ i - 1 \notin T
    BY <1>1, <1>6, <1>11, <2>3
  <2>5. c[i - 1] = g[i - 1] /\ c[i] # g[i]
    BY <2>3, <2>4
  <2> QED BY <1>7, <1>12, <2>4, <2>5
<1>14. PickedBy(f, at, g)
  BY <1>6, <1>7 DEF PickedBy, n, X
<1>15. c[n] = g[n]
  BY <1>1, <1>13
<1> QED BY <1>9, <1>14, <1>15 DEF n

LEMMA PickedPrefix ==
  ASSUME NEW f \in Seq(Items), NEW at, NEW g, PickedBy(f, at, g),
         NEW e \in Seq(Items), NEW bt, NEW h, PickedBy(e, bt, h),
         NEW n \in Nat, n <= Len(f), n <= Len(e),
         \A i \in 1 .. n : f[i] = e[i] /\ (i \in at <=> i \in bt)
  PROVE  g[n] = h[n]
<1> DEFINE T == {i \in 0 .. n : g[i] # h[i]}
<1>1. SUFFICES ASSUME T # {} PROVE FALSE
  OBVIOUS
<1>2. PICK m \in T : \A j \in T : m <= j
  <2>1. T \subseteq Nat
    OBVIOUS
  <2> HIDE DEF T
  <2> QED BY <1>1, <2>1, Least
<1>3. m \in 0 .. n /\ g[m] # h[m]
  OBVIOUS
<1>4. m # 0
  BY <1>3 DEF PickedBy
<1>5. m - 1 \in 0 .. n /\ m - 1 \notin T /\ m \in 1 .. n
  <2> HIDE DEF T
  <2>1. m - 1 \in 0 .. n /\ ~ (m <= m - 1) /\ m \in 1 .. n
    BY <1>3, <1>4
  <2> QED BY <1>2, <2>1
<1>6. g[m - 1] = h[m - 1]
  BY <1>5
<1>7. m \in 1 .. Len(f) /\ m \in 1 .. Len(e)
  BY <1>5
<1> QED BY <1>3, <1>5, <1>6, <1>7 DEF PickedBy

(* To know a pick it is enough to know it step by step.                    *)
LEMMA PickIs ==
  ASSUME NEW f \in Seq(Items), NEW at, NEW g, PickedBy(f, at, g)
  PROVE  Pick(f, at) = g[Len(f)] /\ Pick(f, at) \in Seq(Items)
<1>1. PICK h : PickedBy(f, at, h) /\ Pick(f, at) = h[Len(f)]
  BY PickSteps
<1>2. Len(f) \in Nat /\ Len(f) <= Len(f)
  OBVIOUS
<1>3. g[Len(f)] = h[Len(f)]
  BY <1>1, <1>2, PickedPrefix
<1> QED BY <1>1, <1>2, <1>3 DEF PickedBy

(* A pick lists the chosen positions in ascending order.                   *)
Ascends(f, at, n, s, e) ==
  /\ e \in [1 .. Len(s) -> 1 .. n]
  /\ \A j, k \in 1 .. Len(s) : j < k => e[j] < e[k]
  /\ \A k \in 1 .. Len(s) : e[k] \in at /\ s[k] = f[e[k]]
  /\ \A i \in at : i \in 1 .. n => \E k \in 1 .. Len(s) : e[k] = i

LEMMA PickAscends ==
  ASSUME NEW f \in Seq(Items), NEW at
  PROVE  /\ Pick(f, at) \in Seq(Items)
         /\ \E e : Ascends(f, at, Len(f), Pick(f, at), e)
<1>1. PICK g : PickedBy(f, at, g) /\ Pick(f, at) = g[Len(f)]
  BY PickSteps
<1>2. Len(f) \in Nat
  OBVIOUS
<1> DEFINE T == {i \in 0 .. Len(f) : ~ \E e : Ascends(f, at, i, g[i], e)}
<1>3. T = {}
  <2>1. SUFFICES ASSUME T # {} PROVE FALSE
    OBVIOUS
  <2>2. T \subseteq Nat
    BY <1>2
  <2>3. PICK m \in T : \A j \in T : m <= j
    <3> HIDE DEF T
    <3> QED BY <2>1, <2>2, Least
  <2>4. m \in 0 .. Len(f) /\ ~ \E e : Ascends(f, at, m, g[m], e)
    OBVIOUS
  <2>5. CASE m = 0
    <3>1. g[m] = <<>>
      BY <1>1, <2>5 DEF PickedBy
    <3>2. Len(<<>>) = 0 /\ 1 .. Len(<<>>) = {} /\ 1 .. m = {}
      BY <2>5
    <3>3. Ascends(f, at, m, <<>>, <<>>)
      BY <3>2 DEF Ascends
    <3> QED BY <2>4, <3>1, <3>3
  <2>6. CASE m # 0
    <3> HIDE DEF T
    <3>1. m - 1 \in 0 .. Len(f) /\ ~ (m <= m - 1) /\ m \in 1 .. Len(f) /\ m \in Nat
      BY <1>2, <2>4, <2>6
    <3>2. m - 1 \notin T
      BY <2>3, <3>1
    <3> DEFINE s == g[m - 1]
    <3>3. PICK e : Ascends(f, at, m - 1, s, e)
      BY <3>1, <3>2 DEF T
    <3>4. s \in Seq(Items) /\ Len(s) \in Nat
      BY <1>1, <3>1 DEF PickedBy
    <3>5. g[m] = IF m \in at THEN Append(s, f[m]) ELSE s
      BY <1>1, <3>1 DEF PickedBy
    <3> HIDE DEF s
    <3>6. CASE m \notin at
      <4>1. Ascends(f, at, m, s, e)
        <5>1. \A i \in at : i \in 1 .. m => i \in 1 .. m - 1
          BY <3>1, <3>6
        <5>2. e \in [1 .. Len(s) -> 1 .. m]
          BY <3>1, <3>3 DEF Ascends
        <5> QED BY <3>3, <5>1, <5>2 DEF Ascends
      <4> QED BY <2>4, <3>5, <3>6, <4>1
    <3>7. CASE m \in at
      <4> DEFINE n == Len(s)
                 d == [k \in 1 .. n + 1 |-> IF k = n + 1 THEN m ELSE e[k]]
                 t == Append(s, f[m])
      <4>1. f[m] \in Items
        BY <3>1
      <4>2. Len(t) = n + 1 /\ t[n + 1] = f[m] /\ \A k \in 1 .. n : t[k] = s[k]
        BY <3>4, <4>1, AppendProperties
      <4>3. n \in Nat /\ \A k \in 1 .. n + 1 : k = n + 1 \/ k \in 1 .. n
        BY <3>4
      <4>4. \A k \in 1 .. n : /\ d[k] = e[k] /\ e[k] \in 1 .. m - 1
                              /\ e[k] \in at /\ s[k] = f[e[k]]
        BY <3>3, <4>3 DEF Ascends
      <4>5. d[n + 1] = m
        BY <4>3
      <4>6. DOMAIN d = 1 .. n + 1
        OBVIOUS
      <4> HIDE DEF n, d, t
      <4>7. d \in [1 .. n + 1 -> 1 .. m]
        <5>1. \A k \in 1 .. n + 1 : d[k] \in 1 .. m
          BY <3>1, <4>3, <4>4, <4>5
        <5>2. d = [k \in 1 .. n + 1 |-> d[k]]
          BY DEF d
        <5> QED BY <5>1, <5>2
      <4>8. \A j, k \in 1 .. n + 1 : j < k => d[j] < d[k]
        <5> SUFFICES ASSUME NEW j \in 1 .. n + 1, NEW k \in 1 .. n + 1, j < k
                     PROVE  d[j] < d[k]
          OBVIOUS
        <5>1. j \in 1 .. n
          BY <4>3
        <5>2. CASE k \in 1 .. n
          <6>1. e[j] < e[k]
            BY <3>3, <5>1, <5>2 DEF Ascends, n
          <6> QED BY <4>4, <5>1, <5>2, <6>1
        <5>3. CASE k = n + 1
          BY <3>1, <4>4, <4>5, <5>1, <5>3
        <5> QED BY <4>3, <5>2, <5>3
      <4>9. \A k \in 1 .. n + 1 : d[k] \in at /\ t[k] = f[d[k]]
        BY <3>7, <4>2, <4>3, <4>4, <4>5
      <4>10. ASSUME NEW i \in at, i \in 1 .. m
             PROVE  \E k \in 1 .. n + 1 : d[k] = i
        <5>1. CASE i = m
          BY <4>3, <4>5, <5>1
        <5>2. CASE i # m
          <6>1. i \in 1 .. m - 1
            BY <3>1, <4>10, <5>2
          <6>2. PICK k \in 1 .. n : e[k] = i
            BY <3>3, <6>1 DEF Ascends, n
          <6> QED BY <4>3, <4>4, <6>2
        <5> QED BY <5>1, <5>2
      <4>11. Ascends(f, at, m, t, d)
        BY <4>2, <4>7, <4>8, <4>9, <4>10 DEF Ascends
      <4> QED BY <2>4, <3>5, <3>7, <4>11 DEF t
    <3> QED BY <3>6, <3>7
  <2> QED BY <2>5, <2>6
<1>4. Len(f) \in 0 .. Len(f)
  BY <1>2
<1>5. Pick(f, at) \in Seq(Items)
  BY <1>1, <1>4 DEF PickedBy
<1> QED BY <1>1, <1>3, <1>4, <1>5

-----------------------------------------------------------------------------
(* The user's lines of a file.                                             *)
OfUser(x) == x.kind \notin Generated \cup {"blank"}
UserAt(f) == {i \in DOMAIN f : OfUser(f[i])}

LEMMA UsersIs == ASSUME NEW f PROVE Users(f) = Pick(f, UserAt(f))
BY DEF Users, UserAt, OfUser

LEMMA UsersType ==
  ASSUME NEW f \in Seq(Items)
  PROVE  Users(f) \in Seq(Items)
BY UsersIs, PickAscends

LEMMA ConcatThree ==
  ASSUME NEW s \in Seq(Items), NEW t \in Seq(Items), NEW u \in Seq(Items)
  PROVE  (s \o t) \o u = s \o (t \o u)
OBVIOUS

LEMMA ConcatAppend ==
  ASSUME NEW s \in Seq(Items), NEW t \in Seq(Items), NEW x \in Items
  PROVE  s \o Append(t, x) = Append(s \o t, x)
<1>1. Append(t, x) = t \o <<x>> /\ <<x>> \in Seq(Items)
  BY AppendIsConcat
<1>2. s \o t \in Seq(Items)
  BY ConcatProperties
<1>3. Append(s \o t, x) = (s \o t) \o <<x>>
  BY <1>2, AppendIsConcat
<1> QED BY <1>1, <1>3, ConcatThree

LEMMA UsersConcat ==
  ASSUME NEW x \in Seq(Items), NEW y \in Seq(Items)
  PROVE  Users(x \o y) = Users(x) \o Users(y)
<1> DEFINE f == x \o y
           m == Len(x)
           n == Len(y)
<1>1. /\ f \in Seq(Items) /\ Len(f) = m + n /\ m \in Nat /\ n \in Nat
      /\ \A i \in 1 .. m + n : f[i] = IF i <= m THEN x[i] ELSE y[i - m]
  BY ConcatProperties
<1>2. PICK a : PickedBy(x, UserAt(x), a) /\ Pick(x, UserAt(x)) = a[m]
  BY PickSteps
<1>3. PICK b : PickedBy(y, UserAt(y), b) /\ Pick(y, UserAt(y)) = b[n]
  BY PickSteps
<1>4. /\ DOMAIN x = 1 .. m /\ DOMAIN y = 1 .. n /\ DOMAIN f = 1 .. m + n
  BY <1>1
<1>5. \A i \in 1 .. m : i \in UserAt(f) <=> i \in UserAt(x)
  BY <1>1, <1>4 DEF UserAt
<1>6. \A i \in 1 .. n : m + i \in UserAt(f) <=> i \in UserAt(y)
  <2> SUFFICES ASSUME NEW i \in 1 .. n
               PROVE  m + i \in UserAt(f) <=> i \in UserAt(y)
    OBVIOUS
  <2>1. m + i \in 1 .. m + n /\ ~ (m + i <= m) /\ (m + i) - m = i
    BY <1>1
  <2>2. f[m + i] = y[i]
    BY <1>1, <2>1
  <2> QED BY <1>4, <2>1, <2>2 DEF UserAt
<1> DEFINE g == [i \in 0 .. m + n |-> IF i <= m THEN a[i] ELSE a[m] \o b[i - m]]
<1>7. /\ a \in [0 .. m -> Seq(Items)] /\ a[0] = <<>>
      /\ b \in [0 .. n -> Seq(Items)] /\ b[0] = <<>>
  BY <1>2, <1>3 DEF PickedBy
<1> HIDE DEF f, m, n
<1>8. a[m] \in Seq(Items) /\ a[m] \o <<>> = a[m]
  BY <1>1, <1>7
<1>9. /\ \A i \in 0 .. m : g[i] = a[i]
      /\ \A i \in 0 .. n : g[m + i] = a[m] \o b[i]
  <2>1. \A i \in 0 .. m : g[i] = a[i]
    BY <1>1
  <2>2. ASSUME NEW i \in 0 .. n PROVE g[m + i] = a[m] \o b[i]
    <3>1. CASE i = 0
      BY <1>1, <1>7, <1>8, <3>1, SMTT(20)
    <3>2. CASE i # 0
      <4>1. m + i \in 0 .. m + n /\ ~ (m + i <= m) /\ (m + i) - m = i
        BY <1>1, <3>2
      <4> QED BY <4>1
    <3> QED BY <3>1, <3>2
  <2> QED BY <2>1, <2>2
<1>10. g \in [0 .. m + n -> Seq(Items)]
  <2> SUFFICES ASSUME NEW i \in 0 .. m + n PROVE g[i] \in Seq(Items)
    OBVIOUS
  <2>1. CASE i <= m
    BY <1>1, <1>7, <2>1
  <2>2. CASE ~ (i <= m)
    <3>1. i - m \in 0 .. n
      BY <1>1, <2>2
    <3>2. b[i - m] \in Seq(Items)
      BY <1>7, <3>1
    <3>3. a[m] \o b[i - m] \in Seq(Items)
      BY <1>8, <3>2, ConcatProperties
    <3> QED BY <2>2, <3>3
  <2> QED BY <2>1, <2>2
<1> HIDE DEF g
<1>11. ASSUME NEW i \in 1 .. m + n
       PROVE  g[i] = IF i \in UserAt(f) THEN Append(g[i - 1], f[i]) ELSE g[i - 1]
  <2>1. CASE i <= m
    <3>1. i \in 1 .. m /\ i \in 0 .. m /\ i - 1 \in 0 .. m
      BY <1>1, <2>1
    <3>2. a[i] = IF i \in UserAt(x) THEN Append(a[i - 1], x[i]) ELSE a[i - 1]
      BY <1>2, <3>1 DEF PickedBy, m
    <3>3. f[i] = x[i]
      BY <1>1, <2>1
    <3> QED BY <1>5, <1>9, <3>1, <3>2, <3>3
  <2>2. CASE ~ (i <= m)
    <3> DEFINE j == i - m
    <3>1. j \in 1 .. n /\ j \in 0 .. n /\ j - 1 \in 0 .. n /\ m + j = i /\ m + (j - 1) = i - 1
      BY <1>1, <2>2
    <3> HIDE DEF j
    <3>2. b[j] = IF j \in UserAt(y) THEN Append(b[j - 1], y[j]) ELSE b[j - 1]
      BY <1>3, <3>1 DEF PickedBy, n
    <3>3. f[i] = y[j]
      BY <1>1, <2>2 DEF j
    <3>4. g[i] = a[m] \o b[j] /\ g[i - 1] = a[m] \o b[j - 1]
      BY <1>9, <3>1
    <3>5. b[j - 1] \in Seq(Items) /\ y[j] \in Items
      BY <1>7, <3>1 DEF n
    <3>6. a[m] \o Append(b[j - 1], y[j]) = Append(a[m] \o b[j - 1], y[j])
      BY <1>8, <3>5, ConcatAppend
    <3>7. j \in UserAt(y) <=> i \in UserAt(f)
      BY <1>6, <3>1
    <3> QED BY <3>2, <3>3, <3>4, <3>6, <3>7
  <2> QED BY <2>1, <2>2
<1>12. g[0] = <<>>
  <2>1. 0 \in 0 .. m
    BY <1>1
  <2> QED BY <1>7, <1>9, <2>1
<1>13. PickedBy(f, UserAt(f), g)
  BY <1>1, <1>10, <1>11, <1>12 DEF PickedBy
<1>14. Users(f) = g[m + n]
  BY <1>1, <1>13, PickIs, UsersIs
<1>15. g[m + n] = a[m] \o b[n]
  <2>1. n \in 0 .. n
    BY <1>1
  <2> QED BY <1>9, <2>1
<1> QED BY <1>2, <1>3, <1>14, <1>15, UsersIs DEF f

LEMMA UsersEmpty == Users(<<>>) = <<>>
<1>1. <<>> \in Seq(Items) /\ Len(<<>>) = 0
  OBVIOUS
<1>2. PICK g : PickedBy(<<>>, UserAt(<<>>), g) /\ Pick(<<>>, UserAt(<<>>)) = g[0]
  BY <1>1, PickSteps
<1> QED BY <1>2, UsersIs DEF PickedBy

LEMMA UsersOne ==
  ASSUME NEW x \in Items
  PROVE  Users(<<x>>) = IF OfUser(x) THEN <<x>> ELSE <<>>
<1>1. <<x>> \in Seq(Items) /\ Len(<<x>>) = 1 /\ <<x>>[1] = x
  OBVIOUS
<1>2. PICK g : PickedBy(<<x>>, UserAt(<<x>>), g) /\ Pick(<<x>>, UserAt(<<x>>)) = g[1]
  BY <1>1, PickSteps
<1>3. 1 \in UserAt(<<x>>) <=> OfUser(x)
  BY <1>1 DEF UserAt
<1>4. g[0] = <<>> /\ g[1] = IF 1 \in UserAt(<<x>>) THEN Append(g[0], x) ELSE g[0]
  BY <1>1, <1>2 DEF PickedBy
<1> QED BY <1>2, <1>3, <1>4, UsersIs

LEMMA UsersAppend ==
  ASSUME NEW s \in Seq(Items), NEW x \in Items
  PROVE  Users(Append(s, x)) = IF OfUser(x) THEN Append(Users(s), x) ELSE Users(s)
<1>1. Append(s, x) = s \o <<x>> /\ <<x>> \in Seq(Items)
  BY AppendIsConcat
<1>2. Users(Append(s, x)) = Users(s) \o Users(<<x>>)
  BY <1>1, UsersConcat
<1>3. Users(s) \in Seq(Items)
  BY UsersType
<1>4. Users(s) \o <<x>> = Append(Users(s), x) /\ Users(s) \o <<>> = Users(s)
  BY <1>3, AppendIsConcat, ConcatEmptySeq
<1> QED BY <1>2, <1>4, UsersOne

(* Leaving out what is not the user's changes nothing for him.             *)
LEMMA UsersOfPick ==
  ASSUME NEW f \in Seq(Items), NEW at, UserAt(f) \subseteq at
  PROVE  Users(Pick(f, at)) = Users(f)
<1> DEFINE n == Len(f)
<1>1. PICK p : PickedBy(f, at, p) /\ Pick(f, at) = p[n]
  BY PickSteps
<1>2. n \in Nat /\ p \in [0 .. n -> Seq(Items)] /\ p[0] = <<>>
  BY <1>1 DEF PickedBy
<1> DEFINE g == [i \in 0 .. n |-> Users(p[i])]
<1>3. g \in [0 .. n -> Seq(Items)]
  BY <1>2, UsersType
<1>4. g[0] = <<>>
  BY <1>2, UsersEmpty
<1>5. ASSUME NEW i \in 1 .. n
      PROVE  g[i] = IF i \in UserAt(f) THEN Append(g[i - 1], f[i]) ELSE g[i - 1]
  <2>1. i \in 0 .. n /\ i - 1 \in 0 .. n /\ f[i] \in Items /\ i \in DOMAIN f
    BY <1>2
  <2>2. p[i] = IF i \in at THEN Append(p[i - 1], f[i]) ELSE p[i - 1]
    BY <1>1 DEF PickedBy
  <2>3. p[i - 1] \in Seq(Items)
    BY <1>2, <2>1
  <2>4. g[i] = Users(p[i]) /\ g[i - 1] = Users(p[i - 1])
    BY <2>1
  <2>5. i \in UserAt(f) <=> OfUser(f[i])
    BY <2>1 DEF UserAt
  <2>6. Users(Append(p[i - 1], f[i])) = IF OfUser(f[i]) THEN Append(Users(p[i - 1]), f[i])
                                        ELSE Users(p[i - 1])
    BY <2>1, <2>3, UsersAppend
  <2> QED BY <2>2, <2>4, <2>5, <2>6
<1> HIDE DEF g
<1>6. PickedBy(f, UserAt(f), g)
  BY <1>3, <1>4, <1>5 DEF PickedBy, n
<1>7. Users(f) = g[n]
  BY <1>6, PickIs, UsersIs
<1> QED BY <1>1, <1>2, <1>7 DEF g

(* What holds nothing of the user's.                                       *)
LEMMA UsersNone ==
  ASSUME NEW f \in Seq(Items), \A i \in 1 .. Len(f) : ~ OfUser(f[i])
  PROVE  Users(f) = <<>>
<1>1. PICK e : Ascends(f, UserAt(f), Len(f), Users(f), e)
  BY PickAscends, UsersIs
<1>2. Users(f) \in Seq(Items)
  BY UsersType
<1>3. UserAt(f) = {}
  BY DEF UserAt
<1>4. \A k \in 1 .. Len(Users(f)) : FALSE
  BY <1>1, <1>3 DEF Ascends
<1> QED BY <1>2, <1>4

-----------------------------------------------------------------------------
(* Copying a region of the file.                                           *)
Markers == {x \in Items : x.kind = "marker"}

Wanted(f, wanted) == \A i \in 1 .. Len(f) : wanted[i] \in Seq(Markers)

LEMMA SubSeqItems ==
  ASSUME NEW f \in Seq(Items), NEW i \in 1 .. Len(f) + 1, NEW j \in 0 .. Len(f)
  PROVE  /\ SubSeq(f, i, j) \in Seq(Items)
         /\ Len(SubSeq(f, i, j)) = IF i <= j THEN j - i + 1 ELSE 0
         /\ \A k \in 1 .. j - i + 1 : SubSeq(f, i, j)[k] = f[i + k - 1]
<1>1. i \in Int /\ j \in Int /\ \A k \in i .. j : f[k] \in Items
  OBVIOUS
<1>2. SubSeq(f, i, j) \in Seq(Items)
  BY <1>1, SubSeqProperties
<1>3. Len(SubSeq(f, i, j)) = IF i <= j THEN j - i + 1 ELSE 0
  BY <1>1, SubSeqProperties
<1>4. \A k \in 1 .. j - i + 1 : SubSeq(f, i, j)[k] = f[i + k - 1]
  BY <1>1, SubSeqProperties
<1> QED BY <1>2, <1>3, <1>4

(* The user's lines of two neighbouring stretches.                         *)
LEMMA UsersSplit ==
  ASSUME NEW f \in Seq(Items), NEW i \in 1 .. Len(f) + 1,
         NEW k \in i - 1 .. Len(f), NEW j \in k .. Len(f)
  PROVE  Users(SubSeq(f, i, j)) = Users(SubSeq(f, i, k)) \o Users(SubSeq(f, k + 1, j))
<1>1. k \in 0 .. Len(f) /\ j \in 0 .. Len(f) /\ k + 1 \in 1 .. Len(f) + 1
  OBVIOUS
<1>2. SubSeq(f, i, k) \in Seq(Items) /\ SubSeq(f, k + 1, j) \in Seq(Items)
  BY <1>1, SubSeqItems
<1>3. SubSeq(f, i, k) \o SubSeq(f, k + 1, j) = SubSeq(f, i, j)
  BY ConcatAdjacentSubSeq
<1> QED BY <1>2, <1>3, UsersConcat

LEMMA UsersNoneBetween ==
  ASSUME NEW f \in Seq(Items), NEW i \in 1 .. Len(f) + 1, NEW j \in 0 .. Len(f),
         \A k \in i .. j : ~ OfUser(f[k])
  PROVE  Users(SubSeq(f, i, j)) = <<>>
<1> DEFINE s == SubSeq(f, i, j)
<1>1. /\ s \in Seq(Items)
      /\ Len(s) = IF i <= j THEN j - i + 1 ELSE 0
      /\ \A k \in 1 .. j - i + 1 : s[k] = f[i + k - 1]
  BY SubSeqItems
<1> HIDE DEF s
<1>2. ASSUME NEW k \in 1 .. Len(s) PROVE ~ OfUser(s[k])
  <2>1. k \in 1 .. j - i + 1 /\ i + k - 1 \in i .. j
    BY <1>1, <1>2
  <2> QED BY <1>1, <2>1
<1>3. Users(s) = <<>>
  BY <1>1, <1>2, UsersNone
<1> QED BY <1>3 DEF s

LEMMA UsersOfMarkers ==
  ASSUME NEW b \in Seq(Markers)
  PROVE  b \in Seq(Items) /\ Users(b) = <<>>
<1>1. b \in Seq(Items)
  BY SeqMonotonic DEF Markers
<1>2. \A i \in 1 .. Len(b) : ~ OfUser(b[i])
  BY DEF Markers, OfUser, Generated
<1> QED BY <1>1, <1>2, UsersNone

(* What copy_kept absorbs is a comment notlin wrote.                       *)
LEMMA LastOfIs ==
  ASSUME NEW f \in Seq(Items), NEW from \in 1 .. Len(f) + 1, NEW to \in 0 .. Len(f), NEW kinds
  PROVE  \/ LastOf(f, from, to, kinds) = 0
         \/ /\ LastOf(f, from, to, kinds) \in from .. to
            /\ f[LastOf(f, from, to, kinds)].kind \in kinds
<1> DEFINE at == {i \in from .. to : f[i].kind \in kinds}
<1>1. LastOf(f, from, to, kinds) = IF at = {} THEN 0 ELSE Max(at)
  BY DEF LastOf
<1>2. Len(f) \in Nat /\ at \subseteq 0 .. Len(f)
  OBVIOUS
<1>3. at # {} => Max(at) \in at
  <2> HIDE DEF at
  <2> QED BY <1>2, MaxIs
<1> QED BY <1>1, <1>3

LEMMA AbsorbedGenerated ==
  ASSUME NEW f \in Seq(Items), NEW from \in 1 .. Len(f) + 1, NEW i \in from .. Len(f),
         NEW indent, Absorbed(f, from, i, indent)
  PROVE  ~ OfUser(f[i])
<1>1. i # 0 /\ i \in 0 .. Len(f)
  OBVIOUS
<1> DEFINE kdoc == LastOf(f, from, i, {"marker", "doc"})
           legacy == LastOf(f, from, i, {"legacy"})
<1>2. legacy = 0 \/ f[legacy].kind \in {"legacy"}
  BY <1>1, LastOfIs
<1>3. Opening(f, from, i) = IF kdoc # 0 /\ f[kdoc].kind = "marker" THEN kdoc ELSE legacy
  BY DEF Opening
<1> HIDE DEF kdoc, legacy
<1>4. f[i].kind = "note" \/ Opening(f, from, i) = i
  BY DEF Absorbed
<1>5. f[i].kind \in {"note", "marker", "legacy"}
  BY <1>1, <1>2, <1>3, <1>4
<1> QED BY <1>5 DEF OfUser, Generated

LEMMA BlockStartIs ==
  ASSUME NEW f \in Seq(Items), NEW from \in 1 .. Len(f), NEW line \in from .. Len(f)
  PROVE  /\ BlockStart(f, from, line) \in from .. line
         /\ \A i \in BlockStart(f, from, line) .. line - 1 : ~ OfUser(f[i])
<1> DEFINE T == {s \in from .. line :
                  \A i \in s .. line - 1 : Absorbed(f, from, i, Column(f[line]))}
<1>1. line \in T
  OBVIOUS
<1>2. T \subseteq Nat
  OBVIOUS
<1>3. Min(T) \in T
  <2> HIDE DEF T
  <2> QED BY <1>1, <1>2, MinIs
<1>4. BlockStart(f, from, line) = Min(T)
  BY DEF BlockStart
<1>5. /\ BlockStart(f, from, line) \in from .. line
      /\ \A i \in BlockStart(f, from, line) .. line - 1 :
            Absorbed(f, from, i, Column(f[line]))
  BY <1>3, <1>4
<1>6. ASSUME NEW i \in BlockStart(f, from, line) .. line - 1 PROVE ~ OfUser(f[i])
  <2>1. from \in 1 .. Len(f) + 1 /\ i \in from .. Len(f)
    BY <1>5
  <2>2. Absorbed(f, from, i, Column(f[line]))
    BY <1>5
  <2> QED BY <2>1, <2>2, AbsorbedGenerated
<1> QED BY <1>5, <1>6

(* A comment written behind an indentation is the same comment, shifted.   *)
LEMMA BehindIs ==
  ASSUME NEW y \in Items, NEW b \in Seq(Markers), b # <<>>
  PROVE  /\ Column(y) \in Nat
         /\ Behind(Column(y), b) \in Seq(Markers)
         /\ Len(Behind(Column(y), b)) = Len(b)
         /\ Behind(Column(y), b)[1] = [b[1] EXCEPT !.drift = Column(y)]
         /\ \A k \in 2 .. Len(b) : Behind(Column(y), b)[k] = b[k]
<1> DEFINE n == Column(y)
<1>1. n \in Nat
  BY DEF Column, Items
<1> HIDE DEF n
<1>2. Len(b) \in Nat /\ Len(b) # 0 /\ 1 \in 1 .. Len(b)
  OBVIOUS
<1> DEFINE x == [b[1] EXCEPT !.drift = n]
<1>3. x \in Markers
  <2>1. b[1] \in Markers
    BY <1>2
  <2> QED BY <1>1, <2>1 DEF Markers, Items
<1>4. Behind(n, b) = [b EXCEPT ![1] = x]
  BY DEF Behind
<1> HIDE DEF x
<1>5. [b EXCEPT ![1] = x] \in Seq(Markers)
  BY <1>2, <1>3
<1>6. Len([b EXCEPT ![1] = x]) = Len(b) /\ [b EXCEPT ![1] = x][1] = x
  BY <1>2, <1>3
<1>7. \A k \in 2 .. Len(b) : [b EXCEPT ![1] = x][k] = b[k]
  BY <1>2, <1>3
<1> QED BY <1>1, <1>4, <1>5, <1>6, <1>7 DEF n, x

(* How far a copy has come: all of the user's lines up to p are out.       *)
Copied(f, from, to, acc) ==
  /\ acc.out \in Seq(Items)
  /\ acc.p \in from .. to
  /\ Users(acc.out) = Users(SubSeq(f, from, acc.p - 1))

(* One comment put in place: what it replaces is generated.                *)
LEMMA InsertCopies ==
  ASSUME NEW f \in Seq(Items), NEW from \in 1 .. Len(f), NEW line \in from .. Len(f),
         NEW acc, Copied(f, from, line, acc),
         NEW wanted, wanted[line] \in Seq(Markers), wanted[line] # <<>>
  PROVE  Copied(f, from, line, InsertAbove(f, from, wanted, acc, line))
<1> DEFINE block == wanted[line]
           p == acc.p
           above == MarkerBeforeAnnotations(f, acc.p, line)
           start == Max({BlockStart(f, from, line), acc.p})
           behind == Behind(Column(f[above]), block)
           replaced == [out |-> acc.out \o SubSeq(f, acc.p, above - 1) \o behind
                                        \o SubSeq(f, above + 1, line - 1),
                        p |-> line]
           inserted == [out |-> acc.out \o SubSeq(f, acc.p, start - 1) \o block,
                        p |-> line]
<1>0. InsertAbove(f, from, wanted, acc, line) \in {acc, replaced, inserted}
      /\ (InsertAbove(f, from, wanted, acc, line) # acc =>
            \/ above # 0 /\ InsertAbove(f, from, wanted, acc, line) = replaced
            \/ InsertAbove(f, from, wanted, acc, line) = inserted)
  BY DEF InsertAbove
<1>1. /\ p \in from .. line /\ acc.out \in Seq(Items) /\ Len(f) \in Nat
      /\ Users(acc.out) = Users(SubSeq(f, from, p - 1))
  BY DEF Copied
<1>2. block \in Seq(Items) /\ Users(block) = <<>>
  BY UsersOfMarkers
<1>3. above = 0 \/ (above \in p .. line - 1 /\ f[above].kind = "marker")
  <2> DEFINE open == LastOf(f, p, line - 1, {"marker", "doc"})
  <2>1. p \in 1 .. Len(f) + 1 /\ line - 1 \in 0 .. Len(f)
    BY <1>1
  <2>2. open = 0 \/ open \in p .. line - 1
    BY <2>1, LastOfIs
  <2>3. above = 0 \/ (above = open /\ open # 0 /\ f[open].kind = "marker")
    BY DEF MarkerBeforeAnnotations
  <2> QED BY <2>2, <2>3
<1>31. above # 0 => behind \in Seq(Items) /\ Users(behind) = <<>>
  <2> SUFFICES ASSUME above # 0 PROVE behind \in Seq(Items) /\ Users(behind) = <<>>
    OBVIOUS
  <2> HIDE DEF block, above, p
  <2>1. above \in 1 .. Len(f)
    BY <1>1, <1>3
  <2>2. f[above] \in Items /\ block \in Seq(Markers) /\ block # <<>>
    BY <2>1 DEF block
  <2>3. behind \in Seq(Markers)
    BY <2>2, BehindIs
  <2> HIDE DEF behind
  <2> QED BY <2>3, UsersOfMarkers
<1>4. start \in p .. line /\ \A i \in start .. line - 1 : ~ OfUser(f[i])
  <2> DEFINE b == BlockStart(f, from, line)
  <2>1. b \in from .. line /\ \A i \in b .. line - 1 : ~ OfUser(f[i])
    BY BlockStartIs
  <2> HIDE DEF b
  <2> DEFINE T == {b, p}
  <2>2. T \subseteq 0 .. line /\ T # {} /\ line \in Nat
    BY <1>1, <2>1
  <2>3. Max(T) \in T /\ \A m \in T : m <= Max(T)
    <3> HIDE DEF T
    <3> QED BY <2>2, MaxIs
  <2>4. start = Max(T)
    BY DEF b
  <2>5. start \in {b, p} /\ b <= start /\ p <= start
    BY <2>3, <2>4
  <2> HIDE DEF start, p, T
  <2> QED BY <1>1, <2>1, <2>5
<1> HIDE DEF block, above, start, p, behind
<1>5. p \in 1 .. Len(f) + 1 /\ line - 1 \in 0 .. Len(f) /\ from \in 1 .. Len(f) + 1
  BY <1>1
<1>6. Users(SubSeq(f, from, line - 1))
        = Users(acc.out) \o Users(SubSeq(f, p, line - 1))
  <2>1. p - 1 \in from - 1 .. Len(f) /\ line - 1 \in p - 1 .. Len(f) /\ (p - 1) + 1 = p
    BY <1>1
  <2>2. Users(SubSeq(f, from, line - 1))
          = Users(SubSeq(f, from, p - 1)) \o Users(SubSeq(f, (p - 1) + 1, line - 1))
    BY <1>5, <2>1, UsersSplit
  <2> QED BY <1>1, <2>1, <2>2
<1>7. Users(acc.out) \in Seq(Items)
  BY <1>1, UsersType
<1>8. above # 0 => Copied(f, from, line, replaced)
  <2> SUFFICES ASSUME above # 0 PROVE Copied(f, from, line, replaced)
    OBVIOUS
  <2> DEFINE a == SubSeq(f, p, above - 1)
             b == SubSeq(f, above + 1, line - 1)
             m == SubSeq(f, above, line - 1)
  <2>1. /\ above \in p .. line - 1 /\ f[above].kind = "marker"
        /\ above - 1 \in 0 .. Len(f) /\ above + 1 \in 1 .. Len(f) + 1
        /\ above \in 1 .. Len(f) + 1
    BY <1>1, <1>3, SMTT(20)
  <2>2. a \in Seq(Items) /\ b \in Seq(Items) /\ m \in Seq(Items)
    BY <1>5, <2>1, SubSeqItems
  <2>3. Users(SubSeq(f, p, line - 1)) = Users(a) \o Users(m)
    <3>1. above - 1 \in p - 1 .. Len(f) /\ line - 1 \in above - 1 .. Len(f)
          /\ (above - 1) + 1 = above
      BY <1>1, <2>1
    <3>2. Users(SubSeq(f, p, line - 1))
            = Users(SubSeq(f, p, above - 1)) \o Users(SubSeq(f, (above - 1) + 1, line - 1))
      BY <1>5, <3>1, UsersSplit
    <3> QED BY <3>1, <3>2
  <2>4. Users(m) = Users(b)
    <3>1. above \in above - 1 .. Len(f) /\ line - 1 \in above .. Len(f)
      BY <1>1, <2>1
    <3>2. Users(m) = Users(SubSeq(f, above, above)) \o Users(b)
      BY <2>1, <3>1, UsersSplit
    <3>3. Users(SubSeq(f, above, above)) = <<>>
      <4>1. \A k \in above .. above : ~ OfUser(f[k])
        BY <2>1 DEF OfUser, Generated
      <4>2. above \in 0 .. Len(f)
        BY <2>1, <3>1
      <4> QED BY <2>1, <4>1, <4>2, UsersNoneBetween
    <3>4. Users(b) \in Seq(Items)
      BY <2>2, UsersType
    <3> QED BY <3>2, <3>3, <3>4, ConcatEmptySeq
  <2> DEFINE out == acc.out \o a \o behind \o b
  <2> HIDE DEF a, b, m
  <2>5. /\ acc.out \o a \in Seq(Items)
        /\ acc.out \o a \o behind \in Seq(Items)
        /\ out \in Seq(Items)
    BY <1>1, <1>31, <2>2, ConcatProperties
  <2>6. Users(out) = (Users(acc.out) \o Users(a)) \o Users(b)
    <3>1. Users(out) = Users(acc.out \o a \o behind) \o Users(b)
      BY <2>2, <2>5, UsersConcat
    <3>2. Users(acc.out \o a \o behind) = Users(acc.out \o a) \o Users(behind)
      BY <1>31, <2>5, UsersConcat
    <3>3. Users(acc.out \o a) \in Seq(Items)
      BY <2>5, UsersType
    <3>4. Users(acc.out \o a) \o <<>> = Users(acc.out \o a)
      BY <3>3, ConcatEmptySeq
    <3>5. Users(acc.out \o a) = Users(acc.out) \o Users(a)
      BY <1>1, <2>2, UsersConcat
    <3> QED BY <1>31, <3>1, <3>2, <3>4, <3>5
  <2>7. Users(a) \in Seq(Items) /\ Users(b) \in Seq(Items)
    BY <2>2, UsersType
  <2>8. Users(out) = Users(SubSeq(f, from, line - 1))
    <3>1. (Users(acc.out) \o Users(a)) \o Users(b) = Users(acc.out) \o (Users(a) \o Users(b))
      BY <1>7, <2>7, ConcatThree
    <3>2. Users(SubSeq(f, p, line - 1)) = Users(a) \o Users(b)
      BY <2>3, <2>4
    <3> QED BY <1>6, <2>6, <3>1, <3>2
  <2>9. replaced.out = out /\ replaced.p = line
    BY DEF a, b, p
  <2> HIDE DEF replaced, out
  <2>10. line \in from .. line
    BY <1>1
  <2> QED BY <2>5, <2>8, <2>9, <2>10 DEF Copied
<1>9. Copied(f, from, line, inserted)
  <2> DEFINE a == SubSeq(f, p, start - 1)
  <2>1. /\ start - 1 \in 0 .. Len(f) /\ start \in 1 .. Len(f) + 1
        /\ start - 1 \in p - 1 .. Len(f) /\ line - 1 \in start - 1 .. Len(f)
        /\ (start - 1) + 1 = start
    BY <1>1, <1>4
  <2>2. a \in Seq(Items)
    BY <1>5, <2>1, SubSeqItems
  <2>3. Users(SubSeq(f, p, line - 1)) = Users(a) \o Users(SubSeq(f, start, line - 1))
    <3>1. Users(SubSeq(f, p, line - 1))
            = Users(SubSeq(f, p, start - 1)) \o Users(SubSeq(f, (start - 1) + 1, line - 1))
      BY <1>5, <2>1, UsersSplit
    <3> QED BY <2>1, <3>1
  <2>4. Users(SubSeq(f, start, line - 1)) = <<>>
    BY <1>4, <1>5, <2>1, UsersNoneBetween
  <2> DEFINE out == acc.out \o a \o block
  <2> HIDE DEF a
  <2>5. acc.out \o a \in Seq(Items) /\ out \in Seq(Items)
    BY <1>1, <1>2, <2>2, ConcatProperties
  <2>6. Users(out) = Users(acc.out) \o Users(a)
    <3>1. Users(out) = Users(acc.out \o a) \o Users(block)
      BY <1>2, <2>5, UsersConcat
    <3>2. Users(acc.out \o a) = Users(acc.out) \o Users(a)
      BY <1>1, <2>2, UsersConcat
    <3>3. Users(acc.out \o a) \in Seq(Items)
      BY <2>5, UsersType
    <3> QED BY <1>2, <3>1, <3>2, <3>3, ConcatEmptySeq
  <2>7. Users(a) \in Seq(Items)
    BY <2>2, UsersType
  <2>8. Users(out) = Users(SubSeq(f, from, line - 1))
    <3>1. Users(a) \o <<>> = Users(a)
      BY <2>7, ConcatEmptySeq
    <3>2. Users(SubSeq(f, p, line - 1)) = Users(a)
      BY <2>3, <2>4, <3>1
    <3> QED BY <1>6, <2>6, <3>2
  <2>9. inserted.out = out /\ inserted.p = line
    BY DEF a, p
  <2> HIDE DEF inserted, out
  <2>10. line \in from .. line
    BY <1>1
  <2> QED BY <2>5, <2>8, <2>9, <2>10 DEF Copied
<1> HIDE DEF replaced, inserted
<1> QED BY <1>0, <1>8, <1>9

(* What CopyKept does along the way.                                       *)
Copying(f, from, to, wanted, g) ==
  \A i \in 0 .. to :
    g[i] = IF i < from THEN [out |-> <<>>, p |-> from]
           ELSE IF wanted[i] = <<>> THEN g[i - 1]
           ELSE InsertAbove(f, from, wanted, g[i - 1], i)

LEMMA CopyingCopies ==
  ASSUME NEW f \in Seq(Items), NEW from \in 1 .. Len(f), NEW to \in from .. Len(f),
         NEW wanted, Wanted(f, wanted), NEW n \in from - 1 .. to,
         NEW g, \A i \in 0 .. n :
           g[i] = IF i < from THEN [out |-> <<>>, p |-> from]
                  ELSE IF wanted[i] = <<>> THEN g[i - 1]
                  ELSE InsertAbove(f, from, wanted, g[i - 1], i)
  PROVE  n >= from => Copied(f, from, n, g[n])
<1> DEFINE Ok(i) == IF i < from THEN g[i] = [out |-> <<>>, p |-> from]
                    ELSE Copied(f, from, i, g[i])
           T == {i \in 0 .. n : ~ Ok(i)}
<1>0. n \in Nat /\ from \in Nat /\ Len(f) \in Nat
  OBVIOUS
<1>1. T = {}
  <2>1. SUFFICES ASSUME T # {} PROVE FALSE
    OBVIOUS
  <2>2. T \subseteq Nat
    BY <1>0
  <2>3. PICK i \in T : \A j \in T : i <= j
    <3> HIDE DEF T
    <3> QED BY <2>1, <2>2, Least
  <2>4. i \in 0 .. n /\ ~ Ok(i)
    OBVIOUS
  <2>5. ~ (i < from)
    BY <2>4
  <2>6. i \in from .. n /\ i - 1 \in 0 .. n /\ ~ (i <= i - 1) /\ i \in from .. Len(f)
    BY <1>0, <2>4, <2>5
  <2>7. Ok(i - 1)
    <3> HIDE DEF Ok
    <3> QED BY <2>3, <2>6
  <2> DEFINE acc == g[i - 1]
  <2>8. g[i] = IF wanted[i] = <<>> THEN acc ELSE InsertAbove(f, from, wanted, acc, i)
    BY <2>5, <2>6
  <2>9. Copied(f, from, i, acc)
    <3>1. CASE i - 1 < from
      <4>1. i = from /\ acc = [out |-> <<>>, p |-> from]
        BY <1>0, <2>6, <2>7, <3>1
      <4>2. acc.out = <<>> /\ acc.p = from /\ from \in from .. i
        BY <1>0, <4>1
      <4>3. SubSeq(f, from, from - 1) = <<>>
        BY <1>0, SubSeqEmpty
      <4>4. <<>> \in Seq(Items)
        OBVIOUS
      <4> HIDE DEF acc
      <4> QED BY <4>2, <4>3, <4>4 DEF Copied
    <3>2. CASE ~ (i - 1 < from)
      <4>1. Copied(f, from, i - 1, acc)
        BY <2>7, <3>2
      <4> HIDE DEF acc
      <4>2. acc.p \in from .. i - 1 => acc.p \in from .. i
        BY <1>0, <2>6
      <4> QED BY <4>1, <4>2 DEF Copied
    <3> QED BY <3>1, <3>2
  <2>10. wanted[i] \in Seq(Markers)
    BY <2>6 DEF Wanted
  <2> HIDE DEF acc
  <2>11. wanted[i] # <<>> => Copied(f, from, i, InsertAbove(f, from, wanted, acc, i))
    BY <2>6, <2>9, <2>10, InsertCopies
  <2>12. Copied(f, from, i, g[i])
    BY <2>8, <2>9, <2>11
  <2> QED BY <2>4, <2>5, <2>12
<1>2. n \in 0 .. n
  BY <1>0
<1>3. Ok(n)
  <2> HIDE DEF Ok
  <2> QED BY <1>1, <1>2
<1> QED BY <1>0, <1>3

LEMMA CopyingExists ==
  ASSUME NEW f \in Seq(Items), NEW from \in 1 .. Len(f), NEW to \in from .. Len(f),
         NEW wanted
  PROVE  \E g : /\ DOMAIN g = 0 .. to
                /\ Copying(f, from, to, wanted, g)
<1> DEFINE Upto(n, g) == \A i \in 0 .. n :
                           g[i] = IF i < from THEN [out |-> <<>>, p |-> from]
                                  ELSE IF wanted[i] = <<>> THEN g[i - 1]
                                  ELSE InsertAbove(f, from, wanted, g[i - 1], i)
           T == {n \in 0 .. to : ~ \E g : DOMAIN g = 0 .. n /\ Upto(n, g)}
<1>0. to \in Nat /\ from \in Nat /\ from > 0
  OBVIOUS
<1>1. T = {}
  <2>1. SUFFICES ASSUME T # {} PROVE FALSE
    OBVIOUS
  <2>2. T \subseteq Nat
    BY <1>0
  <2>3. PICK n \in T : \A j \in T : n <= j
    <3> HIDE DEF T
    <3> QED BY <2>1, <2>2, Least
  <2>4. n \in 0 .. to /\ ~ \E g : DOMAIN g = 0 .. n /\ Upto(n, g)
    <3> HIDE DEF Upto
    <3> QED OBVIOUS
  <2>5. CASE n = 0
    <3> DEFINE g == [i \in 0 .. n |-> [out |-> <<>>, p |-> from]]
    <3>1. DOMAIN g = 0 .. n /\ Upto(n, g)
      BY <1>0, <2>5
    <3> HIDE DEF g, Upto
    <3> QED BY <2>4, <3>1
  <2>6. CASE n # 0
    <3>1. n - 1 \in 0 .. to /\ ~ (n <= n - 1) /\ n \in Nat
      BY <1>0, <2>4, <2>6
    <3>2. PICK b : DOMAIN b = 0 .. n - 1 /\ Upto(n - 1, b)
      <4> HIDE DEF Upto
      <4>1. n - 1 \notin T
        <5> HIDE DEF T
        <5> QED BY <2>3, <3>1
      <4> QED BY <3>1, <4>1
    <3> DEFINE g == [i \in 0 .. n |->
                       IF i < n THEN b[i]
                       ELSE IF n < from THEN [out |-> <<>>, p |-> from]
                       ELSE IF wanted[n] = <<>> THEN b[n - 1]
                       ELSE InsertAbove(f, from, wanted, b[n - 1], n)]
    <3>3. DOMAIN g = 0 .. n /\ \A i \in 0 .. n - 1 : g[i] = b[i]
      BY <3>1
    <3>4. g[n] = IF n < from THEN [out |-> <<>>, p |-> from]
                 ELSE IF wanted[n] = <<>> THEN b[n - 1]
                 ELSE InsertAbove(f, from, wanted, b[n - 1], n)
      BY <3>1
    <3> HIDE DEF g
    <3>5. g[n - 1] = b[n - 1]
      BY <2>6, <3>1, <3>3
    <3>6. ASSUME NEW i \in 0 .. n
          PROVE  g[i] = IF i < from THEN [out |-> <<>>, p |-> from]
                        ELSE IF wanted[i] = <<>> THEN g[i - 1]
                        ELSE InsertAbove(f, from, wanted, g[i - 1], i)
      <4>1. CASE i = n
        BY <3>4, <3>5, <4>1
      <4>2. CASE i # n
        <5>1. i \in 0 .. n - 1 /\ (~ (i < from) => i - 1 \in 0 .. n - 1)
          BY <1>0, <3>1, <4>2
        <5>2. b[i] = IF i < from THEN [out |-> <<>>, p |-> from]
                     ELSE IF wanted[i] = <<>> THEN b[i - 1]
                     ELSE InsertAbove(f, from, wanted, b[i - 1], i)
          BY <3>2, <5>1
        <5>3. g[i] = b[i] /\ (~ (i < from) => g[i - 1] = b[i - 1])
          BY <3>3, <5>1
        <5> QED BY <5>2, <5>3
      <4> QED BY <4>1, <4>2
    <3>7. Upto(n, g)
      BY <3>6
    <3> HIDE DEF Upto
    <3> QED BY <2>4, <3>3, <3>7
  <2> QED BY <2>5, <2>6
<1>2. to \in 0 .. to
  BY <1>0
<1>3. PICK g : DOMAIN g = 0 .. to /\ Upto(to, g)
  <2> HIDE DEF Upto
  <2> QED BY <1>1, <1>2
<1>4. Copying(f, from, to, wanted, g)
  BY <1>3 DEF Copying
<1> QED BY <1>3, <1>4

LEMMA CopySteps ==
  ASSUME NEW f \in Seq(Items), NEW from \in 1 .. Len(f), NEW to \in from .. Len(f),
         NEW wanted
  PROVE  \E done : /\ Copying(f, from, to, wanted, done)
                   /\ CopyKept(f, from, to, wanted)
                        = done[to].out \o SubSeq(f, done[to].p, to)
<1> DEFINE Rec(g) == [i \in 0 .. to |->
                        IF i < from THEN [out |-> <<>>, p |-> from]
                        ELSE IF wanted[i] = <<>> THEN g[i - 1]
                        ELSE InsertAbove(f, from, wanted, g[i - 1], i)]
           done == CHOOSE g : g = Rec(g)
<1>0. to \in 0 .. to /\ from \in Nat
  OBVIOUS
<1>1. CopyKept(f, from, to, wanted) = done[to].out \o SubSeq(f, done[to].p, to)
  BY Zenon DEF CopyKept
<1>2. PICK g : g = Rec(g)
  <2>1. PICK g : DOMAIN g = 0 .. to /\ Copying(f, from, to, wanted, g)
    BY CopyingExists
  <2> DEFINE k == [i \in 0 .. to |-> g[i]]
  <2>2. \A i \in 0 .. to : k[i] = g[i] /\ (~ (i < from) => k[i - 1] = g[i - 1])
    <3>1. \A i \in 0 .. to : ~ (i < from) => i - 1 \in 0 .. to
      BY <1>0
    <3> QED BY <3>1
  <2>3. Rec(k) = [i \in 0 .. to |-> g[i]]
    <3> HIDE DEF k
    <3> QED BY <2>1, <2>2 DEF Copying
  <2>4. k = Rec(k)
    BY <2>3
  <2> HIDE DEF k, Rec
  <2> QED BY <2>4
<1>3. done = Rec(done)
  <2> HIDE DEF Rec
  <2> QED BY <1>2
<1> HIDE DEF done
<1>4. Copying(f, from, to, wanted, done)
  BY <1>3 DEF Copying
<1> HIDE DEF Rec
<1> QED BY <1>1, <1>4

(* A copied region holds the user's lines of the region.                   *)
LEMMA CopyKeepsUsers ==
  ASSUME NEW f \in Seq(Items), NEW from \in 1 .. Len(f), NEW to \in from .. Len(f),
         NEW wanted, Wanted(f, wanted)
  PROVE  /\ CopyKept(f, from, to, wanted) \in Seq(Items)
         /\ Users(CopyKept(f, from, to, wanted)) = Users(SubSeq(f, from, to))
<1>0. Len(f) \in Nat /\ to \in 0 .. to /\ to \in from - 1 .. to /\ from \in Nat
  OBVIOUS
<1>1. PICK done : /\ Copying(f, from, to, wanted, done)
                  /\ CopyKept(f, from, to, wanted)
                       = done[to].out \o SubSeq(f, done[to].p, to)
  BY CopySteps
<1>2. \A i \in 0 .. to :
        done[i] = IF i < from THEN [out |-> <<>>, p |-> from]
                  ELSE IF wanted[i] = <<>> THEN done[i - 1]
                  ELSE InsertAbove(f, from, wanted, done[i - 1], i)
  BY <1>1 DEF Copying
<1>3. Copied(f, from, to, done[to])
  <2>1. to >= from
    OBVIOUS
  <2> QED BY <1>0, <1>2, <2>1, CopyingCopies
<1> DEFINE acc == done[to]
<1>4. /\ acc.out \in Seq(Items) /\ acc.p \in from .. to
      /\ Users(acc.out) = Users(SubSeq(f, from, acc.p - 1))
  BY <1>3 DEF Copied
<1> HIDE DEF acc
<1>5. /\ acc.p \in 1 .. Len(f) + 1 /\ to \in 0 .. Len(f) /\ from \in 1 .. Len(f) + 1
      /\ acc.p - 1 \in from - 1 .. Len(f) /\ to \in acc.p - 1 .. Len(f)
      /\ (acc.p - 1) + 1 = acc.p
  BY <1>0, <1>4
<1>6. SubSeq(f, acc.p, to) \in Seq(Items)
  BY <1>5, SubSeqItems
<1>7. Users(SubSeq(f, from, to))
        = Users(SubSeq(f, from, acc.p - 1)) \o Users(SubSeq(f, (acc.p - 1) + 1, to))
  BY <1>5, UsersSplit
<1>8. Users(acc.out \o SubSeq(f, acc.p, to)) = Users(acc.out) \o Users(SubSeq(f, acc.p, to))
  BY <1>4, <1>6, UsersConcat
<1>9. acc.out \o SubSeq(f, acc.p, to) \in Seq(Items)
  BY <1>4, <1>6, ConcatProperties
<1>10. CopyKept(f, from, to, wanted) = acc.out \o SubSeq(f, acc.p, to)
  BY <1>1 DEF acc
<1> QED BY <1>4, <1>5, <1>7, <1>8, <1>9, <1>10

-----------------------------------------------------------------------------
(* The regions between the spans.                                          *)
Start(spans, i) == Min({j \in 1 .. i : (j .. i) \cap spans = {}})

LEMMA StartIs ==
  ASSUME NEW spans, NEW i \in Nat \ {0}, i \notin spans
  PROVE  /\ Start(spans, i) \in 1 .. i
         /\ \A j \in Start(spans, i) .. i : j \notin spans
         /\ i - 1 \in spans => Start(spans, i) = i
         /\ i = 1 => Start(spans, i) = i
         /\ i # 1 /\ i - 1 \notin spans =>
              Start(spans, i) = Start(spans, i - 1) /\ Start(spans, i) < i
<1> DEFINE T(k) == {j \in 1 .. k : (j .. k) \cap spans = {}}
<1>1. i \in T(i)
  OBVIOUS
<1>2. T(i) \subseteq Nat
  OBVIOUS
<1>3. Min(T(i)) \in T(i) /\ \A m \in T(i) : Min(T(i)) <= m
  <2> HIDE DEF T
  <2> QED BY <1>1, <1>2, MinIs
<1>4. Start(spans, i) = Min(T(i))
  BY DEF Start
<1> DEFINE s == Start(spans, i)
<1>5. s \in 1 .. i /\ (s .. i) \cap spans = {} /\ \A m \in T(i) : s <= m
  BY <1>3, <1>4
<1> HIDE DEF s
<1>6. \A j \in s .. i : j \notin spans
  BY <1>5
<1>7. i - 1 \in spans => s = i
  BY <1>5, <1>6
<1>8. ASSUME i # 1, i - 1 \notin spans PROVE s = Start(spans, i - 1) /\ s < i
  <2>1. T(i) = T(i - 1) \cup {i}
    <3>1. \A j \in 1 .. i - 1 : j .. i = (j .. i - 1) \cup {i}
      OBVIOUS
    <3> QED BY <3>1
  <2>2. i - 1 \in T(i - 1)
    BY <1>8
  <2>3. T(i - 1) \subseteq Nat
    OBVIOUS
  <2> DEFINE t == Min(T(i - 1))
  <2>4. t \in T(i - 1) /\ \A m \in T(i - 1) : t <= m
    <3> HIDE DEF T
    <3> QED BY <2>2, <2>3, MinIs
  <2>5. t = Start(spans, i - 1)
    BY DEF Start
  <2>6. t \in 1 .. i - 1
    BY <2>4
  <2>7. s \in T(i)
    BY <1>5
  <2> HIDE DEF T, t
  <2>8. s <= t
    BY <1>5, <2>1, <2>4
  <2>9. s # i
    BY <2>6, <2>8
  <2>10. t <= s
    BY <2>1, <2>4, <2>7, <2>9
  <2> QED BY <1>5, <2>5, <2>6, <2>8, <2>10
<1> QED BY <1>5, <1>6, <1>7, <1>8 DEF s

(* What StripTranslated does along the way.                                *)
StrippedBy(f, spans, wanted, c) ==
  /\ c \in [0 .. Len(f) -> Seq(Items)]
  /\ c[0] = <<>>
  /\ \A i \in 1 .. Len(f) :
        c[i] = IF i \in spans THEN c[i - 1]
               ELSE c[Start(spans, i) - 1] \o CopyKept(f, Start(spans, i), i, wanted)

LEMMA StripSteps ==
  ASSUME NEW f \in Seq(Items), NEW spans, NEW wanted, Wanted(f, wanted)
  PROVE  \E c : /\ StrippedBy(f, spans, wanted, c)
                /\ StripTranslated(f, spans, wanted) = c[Len(f)]
<1> DEFINE n == Len(f)
           X == Seq(Items)
           start(i) == Min({j \in 1 .. i : (j .. i) \cap spans = {}})
           q == [i \in 1 .. n |-> IF i \in spans THEN i - 1 ELSE start(i) - 1]
           h == [p \in (1 .. n) \X X |->
                   IF p[1] \in spans THEN p[2]
                   ELSE p[2] \o CopyKept(f, start(p[1]), p[1], wanted)]
           Rec(g) == [i \in 0 .. n |->
                        IF i = 0 THEN <<>>
                        ELSE IF i \in spans THEN g[i - 1]
                        ELSE g[start(i) - 1] \o CopyKept(f, start(i), i, wanted)]
<1>0. \A i : start(i) = Start(spans, i)
  BY DEF Start
<1>1. n \in Nat
  OBVIOUS
<1> HIDE DEF n, start
<1>2. \A i \in 1 .. n : i \notin spans => start(i) \in 1 .. i
  <2> SUFFICES ASSUME NEW i \in 1 .. n, i \notin spans PROVE start(i) \in 1 .. i
    OBVIOUS
  <2>1. i \in Nat \ {0}
    OBVIOUS
  <2> QED BY <1>0, <2>1, StartIs
<1>3. q \in [1 .. n -> Nat] /\ \A i \in 1 .. n : q[i] < i /\ q[i] \in 0 .. n
  <2>1. ASSUME NEW i \in 1 .. n PROVE q[i] \in Nat /\ q[i] < i /\ q[i] \in 0 .. n
    <3>1. CASE i \in spans
      BY <1>1, <3>1
    <3>2. CASE i \notin spans
      <4>1. start(i) \in 1 .. i
        BY <1>2, <3>2
      <4>2. q[i] = start(i) - 1
        BY <3>2
      <4> QED BY <1>1, <4>1, <4>2
    <3> QED BY <3>1, <3>2
  <2>2. q = [i \in 1 .. n |-> q[i]]
    OBVIOUS
  <2> HIDE DEF q
  <2> QED BY <2>1, <2>2
<1>4. \A i \in 1 .. n : i \notin spans => CopyKept(f, start(i), i, wanted) \in Seq(Items)
  <2> SUFFICES ASSUME NEW i \in 1 .. n, i \notin spans
               PROVE  CopyKept(f, start(i), i, wanted) \in Seq(Items)
    OBVIOUS
  <2>1. start(i) \in 1 .. Len(f) /\ i \in start(i) .. Len(f)
    BY <1>1, <1>2 DEF n
  <2> QED BY <2>1, CopyKeepsUsers
<1>5. h \in [(1 .. n) \X X -> X]
  <2>1. ASSUME NEW p \in (1 .. n) \X X
        PROVE  (IF p[1] \in spans THEN p[2]
                ELSE p[2] \o CopyKept(f, start(p[1]), p[1], wanted)) \in X
    <3>1. p[1] \in 1 .. n /\ p[2] \in Seq(Items)
      OBVIOUS
    <3>2. CASE p[1] \in spans
      BY <3>1, <3>2
    <3>3. CASE p[1] \notin spans
      <4>1. CopyKept(f, start(p[1]), p[1], wanted) \in Seq(Items)
        BY <1>4, <3>1, <3>3
      <4>2. p[2] \o CopyKept(f, start(p[1]), p[1], wanted) \in Seq(Items)
        BY <3>1, <4>1, ConcatProperties
      <4> QED BY <3>3, <4>2
    <3> QED BY <3>2, <3>3
  <2> QED BY <2>1
<1>6. <<>> \in X
  OBVIOUS
<1> HIDE DEF X, q, h
<1>7. PICK g : Recursion(X, <<>>, n, q, h, g)
  BY <1>1, <1>3, <1>5, <1>6, RecursionExists
<1>8. g \in [0 .. n -> X] /\ g[0] = <<>>
  BY <1>7 DEF Recursion
<1>9. ASSUME NEW i \in 1 .. n
      PROVE  g[i] = IF i \in spans THEN g[i - 1]
                    ELSE g[start(i) - 1] \o CopyKept(f, start(i), i, wanted)
  <2>1. q[i] = (IF i \in spans THEN i - 1 ELSE start(i) - 1) /\ q[i] \in 0 .. n
    BY <1>3 DEF q
  <2>2. g[i] = h[<<i, g[q[i]]>>] /\ g[q[i]] \in X
    BY <1>7, <1>8, <2>1 DEF Recursion
  <2>3. h[<<i, g[q[i]]>>] = IF i \in spans THEN g[q[i]]
                            ELSE g[q[i]] \o CopyKept(f, start(i), i, wanted)
    BY <2>2 DEF h
  <2> QED BY <2>1, <2>2, <2>3
<1>10. g = Rec(g)
  <2>1. \A i \in 0 .. n : i # 0 => i \in 1 .. n
    BY <1>1
  <2> QED BY <1>8, <1>9, <2>1
<1> DEFINE c == CHOOSE r : r = Rec(r)
<1>11. StripTranslated(f, spans, wanted) = c[n]
  BY Zenon DEF StripTranslated, n, start
<1>12. c = Rec(c)
  <2> HIDE DEF Rec
  <2> QED BY <1>10
<1> HIDE DEF c
<1>13. c[0] = <<>> /\ c = [i \in 0 .. n |-> c[i]]
  BY <1>1, <1>12
<1>14. ASSUME NEW i \in 1 .. n
       PROVE  c[i] = IF i \in spans THEN c[i - 1]
                     ELSE c[start(i) - 1] \o CopyKept(f, start(i), i, wanted)
  <2>1. i \in 0 .. n /\ i # 0
    BY <1>1
  <2> QED BY <1>12, <2>1
<1> HIDE DEF Rec
<1>15. \A i \in 0 .. n : c[i] = g[i]
  <2> DEFINE T == {i \in 0 .. n : c[i] # g[i]}
  <2>1. SUFFICES ASSUME T # {} PROVE FALSE
    OBVIOUS
  <2>2. T \subseteq Nat
    BY <1>1
  <2>3. PICK i \in T : \A j \in T : i <= j
    <3> HIDE DEF T
    <3> QED BY <2>1, <2>2, Least
  <2>4. i \in 1 .. n /\ c[i] # g[i]
    BY <1>8, <1>13, <2>3
  <2>5. \A j \in 0 .. n : j < i => c[j] = g[j]
    <3> SUFFICES ASSUME NEW j \in 0 .. n, j < i, c[j] # g[j] PROVE FALSE
      OBVIOUS
    <3>1. j \in T
      OBVIOUS
    <3>2. i <= j
      BY <2>3, <3>1
    <3> QED BY <1>1, <2>4, <3>2
  <2>6. CASE i \in spans
    <3>1. i - 1 \in 0 .. n /\ i - 1 < i
      BY <1>1, <2>4
    <3>2. c[i - 1] = g[i - 1]
      BY <2>5, <3>1
    <3> QED BY <1>9, <1>14, <2>4, <2>6, <3>2
  <2>7. CASE i \notin spans
    <3>1. start(i) - 1 \in 0 .. n /\ start(i) - 1 < i
      BY <1>1, <1>2, <2>4, <2>7
    <3>2. c[start(i) - 1] = g[start(i) - 1]
      BY <2>5, <3>1
    <3> QED BY <1>9, <1>14, <2>4, <2>7, <3>2
  <2> QED BY <2>6, <2>7
<1>16. c \in [0 .. n -> Seq(Items)]
  BY <1>8, <1>13, <1>15 DEF X
<1>17. ASSUME NEW i \in 1 .. n
       PROVE  c[i] = IF i \in spans THEN c[i - 1]
                     ELSE c[Start(spans, i) - 1] \o CopyKept(f, Start(spans, i), i, wanted)
  <2>1. start(i) = Start(spans, i)
    BY <1>0
  <2> QED BY <1>14, <2>1
<1>18. c[0] = <<>>
  BY <1>13
<1>19. StrippedBy(f, spans, wanted, c)
  BY <1>16, <1>17, <1>18 DEF StrippedBy, n
<1> QED BY <1>11, <1>19 DEF n

(* Stripping loses the user's lines of the spans and no other.             *)
LEMMA StripKeepsUsers ==
  ASSUME NEW f \in Seq(Items), NEW spans, NEW wanted, Wanted(f, wanted)
  PROVE  /\ StripTranslated(f, spans, wanted) \in Seq(Items)
         /\ Users(StripTranslated(f, spans, wanted)) = Pick(f, UserAt(f) \ spans)
<1> DEFINE n == Len(f)
<1>0. PICK c : /\ StrippedBy(f, spans, wanted, c)
               /\ StripTranslated(f, spans, wanted) = c[n]
  BY StripSteps
<1>1. /\ c \in [0 .. n -> Seq(Items)]
      /\ c[0] = <<>>
      /\ \A i \in 1 .. n :
            c[i] = IF i \in spans THEN c[i - 1]
                   ELSE c[Start(spans, i) - 1] \o CopyKept(f, Start(spans, i), i, wanted)
      /\ StripTranslated(f, spans, wanted) = c[n]
  BY <1>0 DEF StrippedBy
<1>2. n \in Nat /\ \A i \in 1 .. n : i \in DOMAIN f /\ f[i] \in Items
  OBVIOUS
<1> DEFINE u(i) == Users(c[i])
           g == [i \in 0 .. n |-> u(i)]
<1>3. \A i \in 0 .. n : u(i) \in Seq(Items)
  BY <1>1, UsersType
<1>4. ASSUME NEW i \in 1 .. n, i \notin spans
      PROVE  LET s == Start(spans, i)
             IN  /\ s \in 1 .. i
                 /\ u(i) = u(s - 1) \o Users(SubSeq(f, s, i))
  <2> DEFINE s == Start(spans, i)
  <2>1. s \in 1 .. i
    BY <1>2, <1>4, StartIs
  <2> HIDE DEF s
  <2>2. s \in 1 .. Len(f) /\ i \in s .. Len(f) /\ s - 1 \in 0 .. n
    BY <1>2, <2>1
  <2>3. c[i] = c[s - 1] \o CopyKept(f, s, i, wanted)
    BY <1>1, <1>4 DEF s
  <2>4. /\ CopyKept(f, s, i, wanted) \in Seq(Items)
        /\ Users(CopyKept(f, s, i, wanted)) = Users(SubSeq(f, s, i))
    BY <2>2, CopyKeepsUsers
  <2>5. c[s - 1] \in Seq(Items)
    BY <1>1, <2>2
  <2>6. Users(c[i]) = Users(c[s - 1]) \o Users(CopyKept(f, s, i, wanted))
    BY <2>3, <2>4, <2>5, UsersConcat
  <2> QED BY <2>1, <2>4, <2>6 DEF s
<1> HIDE DEF u
<1>5. ASSUME NEW i \in 1 .. n
      PROVE  u(i) = IF i \in UserAt(f) \ spans THEN Append(u(i - 1), f[i]) ELSE u(i - 1)
  <2>1. CASE i \in spans
    <3>1. c[i] = c[i - 1]
      BY <1>1, <2>1
    <3> QED BY <2>1, <3>1 DEF u
  <2>2. CASE i \notin spans
    <3> DEFINE s == Start(spans, i)
    <3>1. s \in 1 .. i /\ u(i) = u(s - 1) \o Users(SubSeq(f, s, i))
      BY <1>4, <2>2
    <3>2. u(i - 1) = u(s - 1) \o Users(SubSeq(f, s, i - 1))
      <4>1. CASE i # 1 /\ i - 1 \notin spans
        <5>1. s = Start(spans, i - 1) /\ i - 1 \in 1 .. n
          BY <1>2, <2>2, <4>1, StartIs
        <5>2. u(i - 1) = u(Start(spans, i - 1) - 1)
                           \o Users(SubSeq(f, Start(spans, i - 1), i - 1))
          BY <1>4, <4>1, <5>1
        <5> QED BY <5>1, <5>2
      <4>2. CASE ~ (i # 1 /\ i - 1 \notin spans)
        <5>1. s = i
          BY <1>2, <2>2, <4>2, StartIs
        <5> HIDE DEF s
        <5>2. SubSeq(f, s, i - 1) = <<>>
          BY <1>2, <5>1, SubSeqEmpty
        <5>3. u(i - 1) \in Seq(Items)
          <6>1. i - 1 \in 0 .. n
            BY <1>2
          <6> QED BY <1>3, <6>1
        <5>4. u(i - 1) \o <<>> = u(i - 1)
          BY <5>3, ConcatEmptySeq
        <5>5. u(s - 1) = u(i - 1)
          BY <5>1
        <5> QED BY <5>2, <5>4, <5>5, UsersEmpty
      <4> QED BY <4>1, <4>2
    <3> HIDE DEF s
    <3>3. /\ i - 1 \in 0 .. n /\ s - 1 \in 0 .. n /\ s \in 1 .. Len(f) + 1
          /\ i - 1 \in s - 1 .. Len(f) /\ i \in i - 1 .. Len(f) /\ (i - 1) + 1 = i
          /\ i \in 1 .. Len(f) + 1 /\ i \in 0 .. Len(f) /\ i - 1 \in 0 .. Len(f)
      BY <1>2, <3>1
    <3>4. Users(SubSeq(f, s, i)) = Users(SubSeq(f, s, i - 1)) \o Users(SubSeq(f, i, i))
      <4>1. Users(SubSeq(f, s, i))
              = Users(SubSeq(f, s, i - 1)) \o Users(SubSeq(f, (i - 1) + 1, i))
        BY <3>3, UsersSplit
      <4> QED BY <3>3, <4>1
    <3>5. SubSeq(f, i, i) = <<f[i]>>
      <4> DEFINE t == SubSeq(f, i, i)
      <4>1. /\ t \in Seq(Items)
            /\ Len(t) = IF i <= i THEN i - i + 1 ELSE 0
            /\ \A k \in 1 .. i - i + 1 : t[k] = f[i + k - 1]
        BY <3>3, SubSeqItems
      <4> HIDE DEF t
      <4>2. Len(t) = 1 /\ t[1] = f[i]
        BY <1>2, <4>1
      <4>3. t = <<f[i]>>
        BY <4>1, <4>2
      <4> QED BY <4>3 DEF t
    <3>6. /\ u(s - 1) \in Seq(Items) /\ Users(SubSeq(f, s, i - 1)) \in Seq(Items)
          /\ Users(<<f[i]>>) \in Seq(Items)
      <4>1. SubSeq(f, s, i - 1) \in Seq(Items) /\ <<f[i]>> \in Seq(Items)
        BY <1>2, <3>3, SubSeqItems
      <4> QED BY <1>3, <3>3, <4>1, UsersType
    <3>7. u(i) = u(i - 1) \o Users(<<f[i]>>)
      <4>1. u(s - 1) \o (Users(SubSeq(f, s, i - 1)) \o Users(<<f[i]>>))
              = (u(s - 1) \o Users(SubSeq(f, s, i - 1))) \o Users(<<f[i]>>)
        BY <3>6, ConcatThree
      <4> QED BY <3>1, <3>2, <3>4, <3>5, <4>1
    <3>8. u(i - 1) \in Seq(Items) /\ f[i] \in Items
      BY <1>2, <1>3, <3>3
    <3>9. u(i - 1) \o <<f[i]>> = Append(u(i - 1), f[i]) /\ u(i - 1) \o <<>> = u(i - 1)
      BY <3>8, AppendIsConcat, ConcatEmptySeq
    <3>10. i \in UserAt(f) \ spans <=> OfUser(f[i])
      BY <1>2, <2>2 DEF UserAt
    <3> QED BY <3>7, <3>8, <3>9, <3>10, UsersOne
  <2> QED BY <2>1, <2>2
<1>6. PickedBy(f, UserAt(f) \ spans, g)
  <2>1. g \in [0 .. n -> Seq(Items)]
    BY <1>3
  <2>2. 0 \in 0 .. n /\ \A i \in 1 .. n : i \in 0 .. n /\ i - 1 \in 0 .. n
    BY <1>2
  <2>3. g[0] = <<>>
    BY <1>1, <2>2, UsersEmpty DEF u
  <2>4. \A i \in 1 .. n : g[i] = u(i) /\ g[i - 1] = u(i - 1)
    BY <2>2
  <2> HIDE DEF g
  <2>5. \A i \in 1 .. n : g[i] = IF i \in UserAt(f) \ spans THEN Append(g[i - 1], f[i])
                                 ELSE g[i - 1]
    BY <1>5, <2>4
  <2> QED BY <2>1, <2>3, <2>5 DEF PickedBy
<1>7. n \in 0 .. n
  BY <1>2
<1>8. g[n] = Users(c[n])
  BY <1>7 DEF u
<1> HIDE DEF g
<1>9. Pick(f, UserAt(f) \ spans) = g[n]
  BY <1>6, PickIs
<1> QED BY <1>1, <1>7, <1>8, <1>9

-----------------------------------------------------------------------------
(* What tidy leaves out is blank.                                          *)
LEMMA TidyKeepsUsers ==
  ASSUME NEW f \in Seq(Items)
  PROVE  Tidy(f) \in Seq(Items) /\ Users(Tidy(f)) = Users(f)
<1> DEFINE shown == {i \in DOMAIN f : f[i] # Blank}
           keep == {i \in DOMAIN f :
                      \/ i \in shown
                      \/ /\ \E j \in shown : j < i
                         /\ \E j \in shown : j > i
                         /\ f[i - 1] # Blank}
<1>1. Tidy(f) = Pick(f, keep)
  BY Zenon DEF Tidy
<1>2. UserAt(f) \subseteq keep
  <2>1. \A x : OfUser(x) => x # Blank
    <3>1. Blank.kind = "blank"
      BY DEF Blank, Item, Indented
    <3> QED BY <3>1 DEF OfUser
  <2> QED BY <2>1 DEF UserAt
<1> HIDE DEF keep
<1> QED BY <1>1, <1>2, UsersOfPick, PickAscends

(* The user's lines a run is to keep.                                      *)
KeptAt(f, v) == {i \in UserAt(f) : f[i].kind \in Code => v[f[i].of] # Java}

(* The stripped positions hold the lines of the translated declarations    *)
(* and nothing else of the user's.                                         *)
LEMMA SpansAreTranslated ==
  ASSUME NEW f, WellFormed(f), NEW v, NEW how
  PROVE  UserAt(f) \ TranslatedSpans(f, v, how) = KeptAt(f, v)
<1>1. f \in Seq(Items) /\ DOMAIN f = 1 .. Len(f) /\ Len(f) \in Nat
  BY DEF WellFormed
<1>2. ASSUME NEW i \in UserAt(f), i \in TranslatedSpans(f, v, how)
      PROVE  f[i].kind \in Code /\ v[f[i].of] = Java
  <2>1. PICK d \in Declarations(f) :
           /\ v[d] = Java
           /\ i \in (First(f, d, how[d]) .. Max(Lines(f, d))) \cup Lines(f, d)
    BY <1>2 DEF TranslatedSpans
  <2> DEFINE L == Lines(f, d)
             first == First(f, d, how[d])
             last == Max(L)
  <2>2. \A k \in L : k \in DOMAIN f /\ f[k].kind \in Code /\ f[k].of = d
    BY DEF Lines
  <2>3. L # {} /\ L \subseteq 0 .. Len(f) /\ L \subseteq Nat
    <3>1. L # {}
      BY DEF Declarations, Lines
    <3> HIDE DEF L
    <3> QED BY <1>1, <2>2, <3>1
  <2>4. last \in L
    <3> HIDE DEF L
    <3> QED BY <1>1, <2>3, MaxIs
  <2>5. first \in L
    <3>1. Min(L) \in L
      <4> HIDE DEF L
      <4> QED BY <2>3, MinIs
    <3>2. Keyword(f, d) \in L
      <4>1. \E k \in L : f[k].kind = "head"
        BY DEF WellFormed
      <4> QED BY <4>1 DEF Keyword
    <3> QED BY <3>1, <3>2 DEF First
  <2>6. i \in L \/ (i \in first .. last)
    BY <2>1
  <2> HIDE DEF L, first, last
  <2>7. i \in L
    <3> SUFFICES ASSUME i \in first .. last, i # first, i # last PROVE i \in L
      BY <2>4, <2>5, <2>6
    <3>1. /\ first \in DOMAIN f /\ last \in DOMAIN f /\ i \in DOMAIN f
          /\ f[first].kind \in Code /\ f[first].of = d
          /\ first \in Nat /\ last \in Nat
      BY <1>1, <2>2, <2>3, <2>4, <2>5 DEF UserAt
    <3>2. first < i /\ i < last
      BY <3>1
    <3>3. last \in Lines(f, f[first].of)
      BY <2>4, <3>1 DEF L
    <3>4. i \in Lines(f, f[first].of) \/ f[i].kind \in Generated \cup {"blank"}
      BY <3>1, <3>2, <3>3 DEF WellFormed
    <3>5. f[i].kind \notin Generated \cup {"blank"}
      BY DEF UserAt, OfUser
    <3> QED BY <3>1, <3>4, <3>5 DEF L
  <2> QED BY <2>1, <2>2, <2>7
<1>3. ASSUME NEW i \in UserAt(f), f[i].kind \in Code, v[f[i].of] = Java
      PROVE  i \in TranslatedSpans(f, v, how)
  <2>1. i \in DOMAIN f
    BY DEF UserAt
  <2>2. i \in Lines(f, f[i].of) /\ f[i].of \in Declarations(f)
    BY <1>3, <2>1 DEF Lines, Declarations
  <2> QED BY <1>3, <2>2 DEF TranslatedSpans
<1> QED BY <1>2, <1>3 DEF KeptAt

-----------------------------------------------------------------------------
(* What a diagnostic can say of a declaration.                             *)
Said(f, v) == \A d \in Declarations(f) : v[d].at \in STRING /\ v[d].inside \in STRING

StaleOnes(f, stale) == \A i \in stale : f[i].kind = "marker"

LEMMA MarkerItem ==
  ASSUME NEW r \in STRING, NEW n \in Nat PROVE Indented("marker", r, n) \in Markers
BY DEF Indented, Markers, Items, Kinds, Blocks

(* Comments are wanted above lines of declarations that stay, and above    *)
(* comments a stray diagnostic points at.                                  *)
LEMMA BlockersAbove ==
  ASSUME NEW f \in Seq(Items), NEW v, Said(f, v), NEW how,
         NEW stale, StaleOnes(f, stale)
  PROVE  /\ Wanted(f, Blockers(f, v, how, stale))
         /\ \A i \in DOMAIN f :
              Blockers(f, v, how, stale)[i] # <<>> =>
                (f[i].kind \in Code /\ v[f[i].of] # Java) \/ f[i].kind = "marker"
<1> SUFFICES ASSUME NEW i \in DOMAIN f
             PROVE  /\ Blockers(f, v, how, stale)[i] \in Seq(Markers)
                    /\ Blockers(f, v, how, stale)[i] # <<>> =>
                         (f[i].kind \in Code /\ v[f[i].of] # Java) \/ f[i].kind = "marker"
  BY DEF Wanted
<1> DEFINE d == f[i].of
           own == f[i].kind \in Code /\ v[d] # Java
           n == Column(f[i])
           a == IF own /\ v[d].at # None /\ i = First(f, d, how[d])
                THEN <<Indented("marker", v[d].at, n)>> ELSE <<>>
           b == IF own /\ v[d].inside # None /\ f[i].kind = "body"
                THEN <<Indented("marker", v[d].inside, n)>> ELSE <<>>
           c == IF i \in stale /\ ~InsideGeneratedKdoc(f, i)
                THEN <<Indented("marker", "stale", n)>> ELSE <<>>
<1>1. Blockers(f, v, how, stale)[i] = a \o b \o c
  BY DEF Blockers
<1>2. <<>> \in Seq(Markers)
  OBVIOUS
<1>3. own => v[d].at \in STRING /\ v[d].inside \in STRING
  <2>1. own => d \in Declarations(f)
    BY DEF Declarations
  <2> HIDE DEF d, own
  <2> QED BY <2>1 DEF Said
<1>4. a \in Seq(Markers) /\ b \in Seq(Markers) /\ c \in Seq(Markers)
  <2>0. n \in Nat
    <3>1. f[i] \in Items
      OBVIOUS
    <3> QED BY <3>1 DEF Column, Items
  <2> HIDE DEF n
  <2>1. \A r \in STRING : <<Indented("marker", r, n)>> \in Seq(Markers)
    BY <2>0, MarkerItem
  <2> HIDE DEF d, own
  <2>2. a \in Seq(Markers)
    BY <1>2, <1>3, <2>1
  <2>3. b \in Seq(Markers)
    BY <1>2, <1>3, <2>1
  <2>4. c \in Seq(Markers)
    <3>1. "stale" \in STRING
      BY ReasonsAssumption
    <3>2. <<Indented("marker", "stale", n)>> \in Seq(Markers)
      BY <2>1, <3>1
    <3> QED BY <1>2, <3>2
  <2> QED BY <2>2, <2>3, <2>4
<1>5. ~ own => a = <<>> /\ b = <<>>
  OBVIOUS
<1>6. f[i].kind # "marker" => c = <<>>
  BY DEF StaleOnes
<1> HIDE DEF a, b, c, own
<1>7. a \o b \o c \in Seq(Markers)
  BY <1>4
<1>8. <<>> \o <<>> \o <<>> = <<>>
  OBVIOUS
<1> QED BY <1>1, <1>2, <1>5, <1>6, <1>7, <1>8 DEF own

-----------------------------------------------------------------------------
(* What a run makes of a file, whatever it says of the declarations.       *)
LEMMA ProposeKeeps ==
  ASSUME NEW f, WellFormed(f), NEW v, Said(f, v), NEW how,
         NEW stale, StaleOnes(f, stale), NEW include \in BOOLEAN
  PROVE  LET r == Propose(f, v, how, stale, include)
         IN  /\ r \in Seq(Items)
             /\ \/ Users(r) = Pick(f, KeptAt(f, v))
                \/ r = <<>> /\ \A i \in KeptAt(f, v) : f[i].kind \notin Code
             /\ TranslatedSpans(f, v, how) = {} => Users(r) = Pick(f, KeptAt(f, v))
<1> DEFINE spans == TranslatedSpans(f, v, how)
           all == Blockers(f, v, how, stale)
           wanted == IF include THEN all ELSE [i \in DOMAIN f |-> <<>>]
           copy == StripTranslated(f, spans, wanted)
           stripped == Tidy(copy)
           untouched == spans = {} /\ \A i \in DOMAIN f : wanted[i] = <<>>
           r == Propose(f, v, how, stale, include)
<1>1. f \in Seq(Items) /\ DOMAIN f = 1 .. Len(f)
  BY DEF WellFormed
<1>2. Wanted(f, wanted)
  <2>1. Wanted(f, all)
    BY <1>1, BlockersAbove
  <2>2. Wanted(f, [i \in DOMAIN f |-> <<>>])
    BY <1>1 DEF Wanted
  <2> QED BY <2>1, <2>2
<1>3. UserAt(f) \ spans = KeptAt(f, v)
  BY SpansAreTranslated
<1>4. r = CASE untouched -> f
            [] ~untouched /\ spans # {} /\ \A d \in Declarations(f) : v[d] = Java -> <<>>
            [] ~untouched /\ spans = {} -> stripped
            [] OTHER -> IF OnlyCommentLines(stripped) THEN <<>> ELSE stripped
  BY DEF Propose
<1> HIDE DEF spans, wanted, r
<1>5. /\ copy \in Seq(Items)
      /\ Users(copy) = Pick(f, KeptAt(f, v))
  BY <1>1, <1>2, <1>3, StripKeepsUsers
<1> HIDE DEF copy
<1>6. stripped \in Seq(Items) /\ Users(stripped) = Pick(f, KeptAt(f, v))
  BY <1>5, TidyKeepsUsers
<1> HIDE DEF stripped
<1>7. \A i \in KeptAt(f, v) : f[i].kind \in Code => f[i].of \in Declarations(f) /\ v[f[i].of] # Java
  BY DEF KeptAt, UserAt, Declarations
<1>8. OnlyCommentLines(stripped) => \A i \in KeptAt(f, v) : f[i].kind \notin Code
  <2> SUFFICES ASSUME OnlyCommentLines(stripped), NEW i \in KeptAt(f, v), f[i].kind \in Code
               PROVE  FALSE
    OBVIOUS
  <2> DEFINE u == Users(stripped)
  <2>1. PICK e : Ascends(f, KeptAt(f, v), Len(f), u, e)
    BY <1>1, <1>6, PickAscends
  <2>2. PICK h : Ascends(stripped, UserAt(stripped), Len(stripped), u, h)
    BY <1>6, PickAscends, UsersIs
  <2> HIDE DEF u
  <2>3. i \in 1 .. Len(f)
    BY <1>1 DEF KeptAt, UserAt
  <2>4. PICK k \in 1 .. Len(u) : e[k] = i
    BY <2>1, <2>3 DEF Ascends
  <2>5. u[k] = f[i]
    BY <2>1, <2>4 DEF Ascends
  <2>6. h[k] \in UserAt(stripped) /\ stripped[h[k]] = u[k]
    BY <2>2 DEF Ascends
  <2>7. stripped[h[k]].kind \in {"blank", "comment", "note"}
    BY <2>6 DEF OnlyCommentLines, UserAt
  <2> QED BY <2>5, <2>6, <2>7 DEF Code
<1>9. CASE untouched
  <2>1. r = f
    BY <1>4, <1>9
  <2>2. UserAt(f) = KeptAt(f, v)
    BY <1>3, <1>9
  <2> QED BY <1>1, <2>1, <2>2, UsersIs DEF r, spans
<1>10. CASE ~untouched /\ spans # {} /\ \A d \in Declarations(f) : v[d] = Java
  <2>1. r = <<>>
    BY <1>4, <1>10
  <2>2. \A i \in KeptAt(f, v) : f[i].kind \notin Code
    BY <1>7, <1>10
  <2>3. <<>> \in Seq(Items)
    OBVIOUS
  <2> QED BY <1>10, <2>1, <2>2, <2>3 DEF r, spans
<1>11. CASE ~untouched /\ spans = {}
  <2>1. r = stripped
    BY <1>4, <1>11
  <2> QED BY <1>6, <2>1 DEF r, spans
<1>12. CASE ~untouched /\ spans # {} /\ ~ \A d \in Declarations(f) : v[d] = Java
  <2>1. r = IF OnlyCommentLines(stripped) THEN <<>> ELSE stripped
    BY <1>4, <1>12
  <2>2. <<>> \in Seq(Items)
    OBVIOUS
  <2>3. CASE OnlyCommentLines(stripped)
    BY <1>8, <1>12, <2>1, <2>2, <2>3 DEF r, spans
  <2>4. CASE ~ OnlyCommentLines(stripped)
    BY <1>6, <1>12, <2>1, <2>4 DEF r, spans
  <2> QED BY <2>3, <2>4
<1> QED BY <1>9, <1>10, <1>11, <1>12

(* The speculative rounds strip to the same lines of the user's.           *)
LEMMA ProposeAgrees ==
  ASSUME NEW f, WellFormed(f), NEW v, Said(f, v), NEW how,
         NEW stale, StaleOnes(f, stale)
  PROVE  Users(Propose(f, v, how, stale, TRUE)) = Users(Propose(f, v, how, {}, FALSE))
<1>1. f \in Seq(Items)
  BY DEF WellFormed
<1>2. CASE \E i \in KeptAt(f, v) : f[i].kind \in Code
  <2>1. StaleOnes(f, {})
    BY DEF StaleOnes
  <2>2. Users(Propose(f, v, how, stale, TRUE)) = Pick(f, KeptAt(f, v))
    BY <1>2, ProposeKeeps
  <2>3. Users(Propose(f, v, how, {}, FALSE)) = Pick(f, KeptAt(f, v))
    BY <1>2, <2>1, ProposeKeeps
  <2> QED BY <2>2, <2>3
<1>3. CASE TranslatedSpans(f, v, how) = {}
  <2>1. StaleOnes(f, {})
    BY DEF StaleOnes
  <2>2. Users(Propose(f, v, how, stale, TRUE)) = Pick(f, KeptAt(f, v))
    BY <1>3, ProposeKeeps
  <2>3. Users(Propose(f, v, how, {}, FALSE)) = Pick(f, KeptAt(f, v))
    BY <1>3, <2>1, ProposeKeeps
  <2> QED BY <2>2, <2>3
<1>4. CASE /\ TranslatedSpans(f, v, how) # {}
           /\ ~ \E i \in KeptAt(f, v) : f[i].kind \in Code
  <2>1. \A d \in Declarations(f) : v[d] = Java
    <3> SUFFICES ASSUME NEW d \in Declarations(f), v[d] # Java PROVE FALSE
      OBVIOUS
    <3>1. PICK i \in DOMAIN f : f[i].kind \in Code /\ f[i].of = d
      BY DEF Declarations
    <3>2. i \in KeptAt(f, v)
      BY <3>1 DEF KeptAt, UserAt, OfUser, Code, Generated
    <3> QED BY <1>4, <3>1, <3>2
  <2>2. \A include \in BOOLEAN : \A late : Propose(f, v, how, late, include) = <<>>
    BY <1>4, <2>1, Zenon DEF Propose
  <2> QED BY <2>2
<1> QED BY <1>2, <1>3, <1>4

-----------------------------------------------------------------------------
(* A file whose lines of the user's are kept lines of a well-formed file   *)
(* is well-formed: its declarations are whole and stand together.          *)
LEMMA KeptWellFormed ==
  ASSUME NEW f, WellFormed(f), NEW v, NEW r \in Seq(Items),
         Users(r) = Pick(f, KeptAt(f, v))
  PROVE  WellFormed(r)
<1> DEFINE u == Users(r)
<1>1. /\ f \in Seq(Items) /\ DOMAIN f = 1 .. Len(f) /\ Len(f) \in Nat
      /\ DOMAIN r = 1 .. Len(r) /\ Len(r) \in Nat
  BY DEF WellFormed
<1>2. PICK e : Ascends(f, KeptAt(f, v), Len(f), u, e)
  BY <1>1, PickAscends
<1>3. PICK h : Ascends(r, UserAt(r), Len(r), u, h)
  BY PickAscends, UsersIs
<1> DEFINE n == Len(u)
<1>4. u \in Seq(Items) /\ n \in Nat
  BY UsersType
<1> HIDE DEF u
<1>5. /\ \A k \in 1 .. n : /\ e[k] \in DOMAIN f /\ e[k] \in KeptAt(f, v) /\ u[k] = f[e[k]]
                           /\ h[k] \in DOMAIN r /\ h[k] \in UserAt(r) /\ u[k] = r[h[k]]
      /\ \A j, k \in 1 .. n : j < k => e[j] < e[k] /\ h[j] < h[k]
      /\ \A i \in KeptAt(f, v) : \E k \in 1 .. n : e[k] = i
      /\ \A i \in UserAt(r) : \E k \in 1 .. n : h[k] = i
  <2>1. \A i \in KeptAt(f, v) : i \in 1 .. Len(f)
    BY <1>1 DEF KeptAt, UserAt
  <2>2. \A i \in UserAt(r) : i \in 1 .. Len(r)
    BY <1>1 DEF UserAt
  <2> QED BY <1>1, <1>2, <1>3, <2>1, <2>2 DEF Ascends
<1> HIDE DEF n
<1>6. \A i \in DOMAIN r : f \in Seq(Items) /\ r[i].kind \in Code => i \in UserAt(r)
  BY DEF UserAt, OfUser, Code, Generated
<1>7. ASSUME NEW d \in Declarations(r)
      PROVE  \E i \in Lines(r, d) :
                /\ r[i].kind = "head"
                /\ \A j \in Lines(r, d) \ {i} :
                      r[j].kind = IF j < i THEN "ann" ELSE "body"
  <2>1. PICK i \in DOMAIN r : r[i].kind \in Code /\ r[i].of = d
    BY DEF Declarations
  <2>2. PICK k \in 1 .. n : h[k] = i
    BY <1>1, <1>5, <1>6, <2>1
  <2>3. f[e[k]].kind \in Code /\ f[e[k]].of = d /\ e[k] \in DOMAIN f /\ v[d] # Java
    BY <1>5, <2>1, <2>2 DEF KeptAt
  <2>4. d \in Declarations(f)
    BY <2>3 DEF Declarations
  <2>5. PICK m \in Lines(f, d) :
          /\ f[m].kind = "head"
          /\ \A j \in Lines(f, d) \ {m} : f[j].kind = IF j < m THEN "ann" ELSE "body"
    BY <2>4 DEF WellFormed
  <2>6. m \in KeptAt(f, v) /\ f[m].of = d
    BY <2>3, <2>5 DEF Lines, KeptAt, UserAt, OfUser, Code, Generated
  <2>7. PICK l \in 1 .. n : e[l] = m
    BY <1>5, <2>6
  <2>8. r[h[l]] = f[m] /\ h[l] \in DOMAIN r
    BY <1>5, <2>7
  <2>9. h[l] \in Lines(r, d) /\ r[h[l]].kind = "head"
    BY <2>5, <2>6, <2>8 DEF Lines, Code
  <2>10. ASSUME NEW j \in Lines(r, d) \ {h[l]}
         PROVE  r[j].kind = IF j < h[l] THEN "ann" ELSE "body"
    <3>1. j \in DOMAIN r /\ r[j].kind \in Code /\ r[j].of = d
      BY DEF Lines
    <3>2. PICK b \in 1 .. n : h[b] = j
      BY <1>1, <1>5, <1>6, <3>1
    <3>3. r[j] = f[e[b]] /\ e[b] \in Lines(f, d)
      BY <1>5, <3>1, <3>2 DEF Lines
    <3>4. b \in Nat /\ l \in Nat /\ b # l /\ e[b] \in Nat /\ m \in Nat /\ j \in Nat /\ h[l] \in Nat
      BY <1>1, <1>5, <2>7, <2>8, <3>2, SMTT(20)
    <3>5. CASE b < l
      <4>1. e[b] < m /\ j < h[l]
        BY <1>5, <2>7, <3>2, <3>5
      <4> QED BY <2>5, <3>3, <3>4, <4>1
    <3>6. CASE l < b
      <4>1. m < e[b] /\ h[l] < j
        BY <1>5, <2>7, <3>2, <3>6
      <4>2. ~ (e[b] < m) /\ ~ (j < h[l]) /\ e[b] # m
        BY <3>4, <4>1
      <4> QED BY <2>5, <3>3, <4>2
    <3> QED BY <3>4, <3>5, <3>6
  <2> QED BY <2>9, <2>10
<1>8. ASSUME NEW i \in DOMAIN r, NEW j \in DOMAIN r, NEW k \in DOMAIN r,
             i < j, j < k, r[i].kind \in Code, k \in Lines(r, r[i].of)
      PROVE  j \in Lines(r, r[i].of) \/ r[j].kind \in Generated \cup {"blank"}
  <2> SUFFICES ASSUME OfUser(r[j]) PROVE j \in Lines(r, r[i].of)
    BY DEF OfUser
  <2>1. r[k].kind \in Code /\ r[k].of = r[i].of
    BY <1>8 DEF Lines
  <2>2. i \in UserAt(r) /\ j \in UserAt(r) /\ k \in UserAt(r)
    BY <1>1, <1>6, <1>8, <2>1 DEF UserAt
  <2>3. PICK a \in 1 .. n : h[a] = i
    BY <1>5, <2>2
  <2>4. PICK b \in 1 .. n : h[b] = j
    BY <1>5, <2>2
  <2>5. PICK c \in 1 .. n : h[c] = k
    BY <1>5, <2>2
  <2>6. i \in Nat /\ j \in Nat /\ k \in Nat /\ a \in Nat /\ b \in Nat /\ c \in Nat
    BY <1>1
  <2>7. a < b /\ b < c
    <3>1. ~ (b < a) /\ a # b
      BY <1>5, <1>8, <2>3, <2>4, <2>6
    <3>2. ~ (c < b) /\ b # c
      BY <1>5, <1>8, <2>4, <2>5, <2>6
    <3> QED BY <2>6, <3>1, <3>2
  <2>8. e[a] < e[b] /\ e[b] < e[c]
    BY <1>5, <2>7
  <2>9. /\ e[a] \in DOMAIN f /\ e[b] \in DOMAIN f /\ e[c] \in DOMAIN f
        /\ f[e[a]] = r[i] /\ f[e[b]] = r[j] /\ f[e[c]] = r[k]
    BY <1>5, <2>3, <2>4, <2>5
  <2>10. e[c] \in Lines(f, f[e[a]].of)
    BY <2>1, <2>9 DEF Lines
  <2>11. e[b] \in Lines(f, f[e[a]].of) \/ f[e[b]].kind \in Generated \cup {"blank"}
    BY <1>8, <2>8, <2>9, <2>10 DEF WellFormed
  <2>12. e[b] \in Lines(f, f[e[a]].of)
    BY <2>9, <2>11 DEF OfUser
  <2> QED BY <2>9, <2>12 DEF Lines
<1> QED BY <1>7, <1>8 DEF WellFormed

LEMMA EmptyWellFormed == WellFormed(<<>>)
<1>1. <<>> \in Seq(Items) /\ DOMAIN <<>> = {}
  OBVIOUS
<1> QED BY <1>1 DEF WellFormed, Declarations

-----------------------------------------------------------------------------
LEMMA RunIs ==
  ASSUME WellFormed(file), Run
  PROVE  \E stale :
           /\ StaleOnes(file, stale)
           /\ Said(file, verdict')
           /\ strays' = {i \in stale : ~InsideGeneratedKdoc(file, i)}
           /\ file' = Propose(file, verdict', parse', stale, TRUE)
<1>1. PICK v \in [Declarations(file) -> UNION {Verdicts(file, d) : d \in Declarations(file)}],
           how \in [Declarations(file) -> {"attached", "separate"}],
           stale \in {s \in SUBSET {i \in DOMAIN file : file[i].kind = "marker"} :
                         Cardinality(s) <= 1} :
        /\ \A d \in Declarations(file) :
              v[d] \in Verdicts(file, d) /\ how[d] \in Parses(file, d)
        /\ verdict' = v
        /\ parse' = how
        /\ strays' = {i \in stale : ~InsideGeneratedKdoc(file, i)}
        /\ file' = Propose(file, v, how, stale, TRUE)
  BY DEF Run
<1>2. StaleOnes(file, stale)
  BY DEF StaleOnes
<1>3. Said(file, v)
  <2> SUFFICES ASSUME NEW d \in Declarations(file)
               PROVE  v[d].at \in STRING /\ v[d].inside \in STRING
    BY DEF Said
  <2>1. v[d] \in Verdicts(file, d)
    BY <1>1
  <2>2. Reasons \cup {None} \subseteq STRING
    BY ReasonsAssumption DEF None
  <2>3. v[d] = Java \/ \E a \in Reasons \cup {None}, b \in Reasons \cup {None} :
                          v[d] = [at |-> a, inside |-> b]
    BY <2>1 DEF Verdicts
  <2>4. Java.at \in STRING /\ Java.inside \in STRING
    BY ReasonsAssumption DEF Java, None
  <2>5. ASSUME NEW a \in Reasons \cup {None}, NEW b \in Reasons \cup {None},
               v[d] = [at |-> a, inside |-> b]
        PROVE  v[d].at \in STRING /\ v[d].inside \in STRING
    BY <2>2, <2>5
  <2> QED BY <2>3, <2>4, <2>5
<1> QED BY <1>1, <1>2, <1>3

(* The file stays one the parser reads.                                    *)
LEMMA AlwaysWellFormed == Spec => []WellFormed(file)
<1>1. Init => WellFormed(file)
  BY FilesAssumption DEF Init
<1>2. WellFormed(file) /\ [Next]_vars => WellFormed(file)'
  <2> SUFFICES ASSUME WellFormed(file), [Next]_vars PROVE WellFormed(file')
    OBVIOUS
  <2>1. CASE Run
    <3>1. PICK stale : /\ StaleOnes(file, stale)
                       /\ Said(file, verdict')
                       /\ file' = Propose(file, verdict', parse', stale, TRUE)
      BY <2>1, RunIs
    <3>2. /\ file' \in Seq(Items)
          /\ \/ Users(file') = Pick(file, KeptAt(file, verdict'))
             \/ file' = <<>>
      BY <3>1, ProposeKeeps
    <3> QED BY <3>2, KeptWellFormed, EmptyWellFormed
  <2>2. CASE UNCHANGED vars
    BY <2>2 DEF vars
  <2> QED BY <2>1, <2>2 DEF Next
<1> QED BY <1>1, <1>2, PTL DEF Spec

(* No run loses a line but those of the declarations it found in Java:     *)
(* propose_migration keeps the user's code, imports and comments in their  *)
(* order, around every comment copy_kept replaces, and deletes a file only *)
(* when it holds no code that stays.                                       *)
THEOREM LinesSurvive == Spec => UserLinesSurvive
<1> DEFINE Stays(x) == /\ x.kind \notin Generated \cup {"blank"}
                       /\ x.kind \in Code => verdict'[x.of] # Java
                       /\ file' = <<>> => x.kind \in Code
           Keeps == Users(file') = Pick(file, {i \in DOMAIN file : Stays(file[i])})
<1>1. WellFormed(file) /\ Next => Keeps
  <2> SUFFICES ASSUME WellFormed(file), Run PROVE Keeps
    BY DEF Next
  <2>1. PICK stale : /\ StaleOnes(file, stale)
                     /\ Said(file, verdict')
                     /\ file' = Propose(file, verdict', parse', stale, TRUE)
    BY RunIs
  <2> DEFINE at == {i \in DOMAIN file : Stays(file[i])}
             kept == KeptAt(file, verdict')
  <2>2. \/ Users(file') = Pick(file, kept)
        \/ file' = <<>> /\ \A i \in kept : file[i].kind \notin Code
    BY <2>1, ProposeKeeps
  <2>3. file \in Seq(Items) /\ DOMAIN file = 1 .. Len(file)
    BY DEF WellFormed
  <2>4. CASE file' # <<>>
    <3>1. at = kept
      BY <2>4 DEF KeptAt, UserAt, OfUser
    <3> QED BY <2>2, <2>4, <3>1
  <2>5. CASE file' = <<>>
    <3>1. Users(file') = <<>>
      BY <2>5, UsersEmpty
    <3>2. at = {i \in kept : file[i].kind \in Code}
      BY <2>5 DEF KeptAt, UserAt, OfUser
    <3>3. CASE \A i \in kept : file[i].kind \notin Code
      <4>1. at = {}
        BY <3>2, <3>3
      <4> HIDE DEF at
      <4>2. PICK e : Ascends(file, {}, Len(file), Pick(file, {}), e)
        BY <2>3, PickAscends
      <4>3. \A k \in 1 .. Len(Pick(file, {})) : FALSE
        BY <4>2 DEF Ascends
      <4>4. Pick(file, {}) \in Seq(Items)
        BY <2>3, PickAscends
      <4>5. Pick(file, {}) = <<>>
        BY <4>3, <4>4
      <4>6. Users(file') = Pick(file, at)
        BY <3>1, <4>1, <4>5
      <4> QED BY <4>6 DEF at
    <3>4. CASE Users(file') = Pick(file, kept)
      <4>1. PICK e : Ascends(file, kept, Len(file), <<>>, e)
        BY <2>3, <3>1, <3>4, PickAscends
      <4>2. \A i \in kept : i \in 1 .. Len(file)
        BY <2>3 DEF KeptAt, UserAt
      <4>3. Len(<<>>) = 0
        OBVIOUS
      <4>4. kept = {}
        BY <4>1, <4>2, <4>3 DEF Ascends
      <4> HIDE DEF kept
      <4>5. at = kept
        <5> HIDE DEF at
        <5> QED BY <3>2, <4>4
      <4> HIDE DEF at
      <4>6. Users(file') = Pick(file, at)
        BY <3>4, <4>5
      <4> QED BY <4>6 DEF at
    <3> QED BY <2>2, <3>3, <3>4
  <2> QED BY <2>4, <2>5
<1>2. WellFormed(file) /\ [Next]_vars => [Keeps]_vars
  BY <1>1
<1>3. UserLinesSurvive <=> [][Keeps]_vars
  BY DEF UserLinesSurvive
<1> HIDE DEF Keeps
<1> QED BY <1>2, <1>3, AlwaysWellFormed, PTL DEF Spec

(* The text the speculative rounds plan on, stripped without comments,     *)
(* holds the same lines of the user's as the file a run writes.            *)
THEOREM SpeculationAgrees == Spec => SpeculationSeesTheResidue
<1> DEFINE Same == \A how \in {parse'} :
                     Users(file') = Users(Propose(file, verdict', how, {}, FALSE))
<1>1. WellFormed(file) /\ Next => Same
  <2> SUFFICES ASSUME WellFormed(file), Run PROVE Same
    BY DEF Next
  <2>1. PICK stale : /\ StaleOnes(file, stale)
                     /\ Said(file, verdict')
                     /\ file' = Propose(file, verdict', parse', stale, TRUE)
    BY RunIs
  <2> QED BY <2>1, ProposeAgrees
<1>2. WellFormed(file) /\ [Next]_vars => [Same]_vars
  BY <1>1
<1>3. SpeculationSeesTheResidue <=> [][Same]_vars
  BY DEF SpeculationSeesTheResidue
<1> HIDE DEF Same
<1> QED BY <1>2, <1>3, AlwaysWellFormed, PTL DEF Spec

-----------------------------------------------------------------------------
(* Where the lines of a copy come from and what stands above them.         *)

(* A comment gives the reason x gives, whatever its indentation.           *)
Says(y, x) == y.kind = x.kind /\ y.of = x.of

(* Of items lo to hi of g, the last but annotations and blanks says x.     *)
Ends(g, lo, hi, x) ==
  \E m \in lo .. hi :
     /\ Says(g[m], x)
     /\ \A l \in m + 1 .. hi : g[l].kind \in {"ann", "blank"}

(* Item k of g is item o[k] of f, or a comment of this run when o[k] is 0; *)
(* items keep their order, and those of K are all there.                   *)
Traced(f, K, lo, hi, g, o) ==
  /\ g \in Seq(Items)
  /\ o \in [1 .. Len(g) -> Nat]
  /\ \A k \in 1 .. Len(g) :
        IF o[k] = 0 THEN g[k].kind = "marker" ELSE o[k] \in lo .. hi /\ g[k] = f[o[k]]
  /\ \A j, k \in 1 .. Len(g) : j < k /\ o[j] # 0 /\ o[k] # 0 => o[j] < o[k]
  /\ \A i \in lo .. hi : i \in K => \E k \in 1 .. Len(g) : o[k] = i

(* The lines, i itself or below its annotations, whose comment may stand   *)
(* above line i.                                                           *)
Tops(f, wanted, i) ==
  {j \in i .. Len(f) : /\ wanted[j] # <<>>
                       /\ \A k \in i .. j - 1 : f[k].kind \in {"ann", "blank"}}

(* The first n items of g end with such a comment.                         *)
HasAbove(f, wanted, i, g, n) ==
  \E j \in Tops(f, wanted, i) : Ends(g, 1, n, Last(wanted[j]))

(* A line a comment was wanted above has such a comment above it.          *)
Reasoned(f, wanted, g, o) ==
  \A k \in 1 .. Len(g) :
     o[k] # 0 /\ wanted[o[k]] # <<>> => HasAbove(f, wanted, o[k], g, k - 1)

(* Nothing but annotations and blanks among the first n items of t.        *)
Bare(t, n) == \A l \in 1 .. n : t[l].kind \in {"ann", "blank"}

Placed(f, K, lo, hi, wanted, g) ==
  \E o : Traced(f, K, lo, hi, g, o) /\ Reasoned(f, wanted, g, o)

(* r joins the origins of one stretch, of m items, to those of the next.   *)
Joined(r, o, m, q, n) ==
  /\ r \in [1 .. m + n -> Nat]
  /\ \A k \in 1 .. m : r[k] = o[k]
  /\ \A k \in 1 .. n : r[m + k] = q[k]

(* None of the lines lo to hi must stay.                                   *)
Spares(K, lo, hi) == \A i \in lo .. hi : i \notin K

(* All of n items are new.                                                 *)
AllNew(o, n) == \A k \in 1 .. n : o[k] = 0

LEMMA ConcatItems ==
  ASSUME NEW s \in Seq(Items), NEW t \in Seq(Items)
  PROVE  /\ s \o t \in Seq(Items)
         /\ Len(s \o t) = Len(s) + Len(t) /\ Len(s) \in Nat /\ Len(t) \in Nat
         /\ \A k \in 1 .. Len(s) : (s \o t)[k] = s[k]
         /\ \A k \in 1 .. Len(t) : (s \o t)[Len(s) + k] = t[k]
OBVIOUS

LEMMA JoinedExists ==
  ASSUME NEW m \in Nat, NEW n \in Nat,
         NEW o \in [1 .. m -> Nat], NEW q \in [1 .. n -> Nat]
  PROVE  \E r : Joined(r, o, m, q, n)
<1> DEFINE r == [k \in 1 .. m + n |-> IF k <= m THEN o[k] ELSE q[k - m]]
<1>1. \A k \in 1 .. m + n : (k \in 1 .. m /\ k <= m) \/ (k - m \in 1 .. n /\ ~ (k <= m))
  OBVIOUS
<1>2. \A k \in 1 .. n : m + k \in 1 .. m + n /\ ~ (m + k <= m) /\ (m + k) - m = k
  OBVIOUS
<1>3. \A k \in 1 .. m : k \in 1 .. m + n /\ k <= m
  OBVIOUS
<1>4. Joined(r, o, m, q, n)
  BY <1>1, <1>2, <1>3 DEF Joined
<1> QED BY <1>4

LEMMA EndsLeft ==
  ASSUME NEW s \in Seq(Items), NEW t \in Seq(Items), NEW n \in 0 .. Len(s), NEW x,
         Ends(s, 1, n, x)
  PROVE  Ends(s \o t, 1, n, x)
<1>1. Len(s) \in Nat /\ \A k \in 1 .. n : k \in 1 .. Len(s)
  OBVIOUS
<1>2. PICK m \in 1 .. n : Says(s[m], x) /\ \A l \in m + 1 .. n : s[l].kind \in {"ann", "blank"}
  BY DEF Ends
<1>3. \A l \in m + 1 .. n : l \in 1 .. n
  BY <1>1
<1>4. \A k \in 1 .. n : (s \o t)[k] = s[k]
  BY <1>1, ConcatItems
<1> QED BY <1>2, <1>3, <1>4 DEF Ends

LEMMA EndsRight ==
  ASSUME NEW s \in Seq(Items), NEW t \in Seq(Items), NEW n \in 0 .. Len(t), NEW x,
         Ends(t, 1, n, x)
  PROVE  Ends(s \o t, 1, Len(s) + n, x)
<1>1. Len(s) \in Nat /\ Len(t) \in Nat
  OBVIOUS
<1>2. PICK m \in 1 .. n : Says(t[m], x) /\ \A l \in m + 1 .. n : t[l].kind \in {"ann", "blank"}
  BY DEF Ends
<1>3. \A k \in 1 .. n : (s \o t)[Len(s) + k] = t[k]
  BY <1>1, ConcatItems
<1>4. Len(s) + m \in 1 .. Len(s) + n /\ Says((s \o t)[Len(s) + m], x)
  BY <1>1, <1>2, <1>3
<1>5. ASSUME NEW l \in (Len(s) + m) + 1 .. Len(s) + n
      PROVE  (s \o t)[l].kind \in {"ann", "blank"}
  <2>1. l - Len(s) \in m + 1 .. n /\ l - Len(s) \in 1 .. n /\ Len(s) + (l - Len(s)) = l
    BY <1>1
  <2>2. (s \o t)[l] = t[l - Len(s)]
    BY <1>3, <2>1
  <2> QED BY <1>2, <2>1, <2>2
<1> QED BY <1>4, <1>5 DEF Ends

LEMMA EndsOn ==
  ASSUME NEW s \in Seq(Items), NEW t \in Seq(Items), NEW n \in 0 .. Len(t),
         NEW x, Ends(s, 1, Len(s), x), Bare(t, n)
  PROVE  Ends(s \o t, 1, Len(s) + n, x)
<1>1. Len(s) \in Nat /\ Len(t) \in Nat /\ Len(s \o t) = Len(s) + Len(t)
  OBVIOUS
<1>2. PICK m \in 1 .. Len(s) : Says(s[m], x) /\ \A l \in m + 1 .. Len(s) : s[l].kind \in {"ann", "blank"}
  BY DEF Ends
<1>3. m \in 1 .. Len(s) + n /\ Says((s \o t)[m], x)
  BY <1>1, <1>2, ConcatItems
<1>4. ASSUME NEW l \in m + 1 .. Len(s) + n PROVE (s \o t)[l].kind \in {"ann", "blank"}
  <2>1. CASE l <= Len(s)
    <3>1. l \in m + 1 .. Len(s) /\ l \in 1 .. Len(s)
      BY <1>1, <2>1
    <3> QED BY <1>2, <3>1, ConcatItems
  <2>2. CASE ~ (l <= Len(s))
    <3>1. l - Len(s) \in 1 .. n /\ l - Len(s) \in 1 .. Len(t) /\ Len(s) + (l - Len(s)) = l
      BY <1>1, <2>2
    <3>2. (s \o t)[l] = t[l - Len(s)]
      BY <3>1, ConcatItems
    <3> QED BY <3>1, <3>2 DEF Bare
  <2> QED BY <2>1, <2>2
<1> QED BY <1>3, <1>4 DEF Ends

LEMMA HasAboveLeft ==
  ASSUME NEW f, NEW wanted, NEW i, NEW s \in Seq(Items), NEW t \in Seq(Items),
         NEW n \in 0 .. Len(s), HasAbove(f, wanted, i, s, n)
  PROVE  HasAbove(f, wanted, i, s \o t, n)
<1>1. PICK j \in Tops(f, wanted, i) : Ends(s, 1, n, Last(wanted[j]))
  BY DEF HasAbove
<1> DEFINE x == Last(wanted[j])
<1>2. Ends(s, 1, n, x)
  BY <1>1
<1> HIDE DEF x
<1>3. Ends(s \o t, 1, n, x)
  BY <1>2, EndsLeft
<1> QED BY <1>3 DEF HasAbove, x

LEMMA HasAboveRight ==
  ASSUME NEW f, NEW wanted, NEW i, NEW s \in Seq(Items), NEW t \in Seq(Items),
         NEW n \in 0 .. Len(t),
         HasAbove(f, wanted, i, t, n) \/ (Bare(t, n) /\ HasAbove(f, wanted, i, s, Len(s)))
  PROVE  HasAbove(f, wanted, i, s \o t, Len(s) + n)
<1>1. PICK j \in Tops(f, wanted, i) :
         \/ Ends(t, 1, n, Last(wanted[j]))
         \/ Bare(t, n) /\ Ends(s, 1, Len(s), Last(wanted[j]))
  BY DEF HasAbove
<1> DEFINE x == Last(wanted[j])
<1>2. Ends(t, 1, n, x) \/ (Bare(t, n) /\ Ends(s, 1, Len(s), x))
  BY <1>1
<1> HIDE DEF x
<1>3. Ends(s \o t, 1, Len(s) + n, x)
  BY <1>2, EndsRight, EndsOn
<1> QED BY <1>3 DEF HasAbove, x

(* Two neighbouring stretches, one after the other.                        *)
LEMMA TracedConcat ==
  ASSUME NEW f, NEW K, NEW lo \in Nat \ {0}, NEW mid \in Nat, NEW hi \in Nat,
         lo <= mid + 1, mid <= hi,
         NEW s, NEW o, Traced(f, K, lo, mid, s, o),
         NEW t, NEW q, Traced(f, K, mid + 1, hi, t, q),
         NEW r, Joined(r, o, Len(s), q, Len(t))
  PROVE  Traced(f, K, lo, hi, s \o t, r)
<1>1. /\ s \in Seq(Items) /\ t \in Seq(Items) /\ Len(s) \in Nat /\ Len(t) \in Nat
      /\ o \in [1 .. Len(s) -> Nat] /\ q \in [1 .. Len(t) -> Nat]
  BY DEF Traced
<1> DEFINE g == s \o t
<1>2. /\ g \in Seq(Items) /\ Len(g) = Len(s) + Len(t)
      /\ \A k \in 1 .. Len(s) : g[k] = s[k]
      /\ \A k \in 1 .. Len(t) : g[Len(s) + k] = t[k]
  BY <1>1, ConcatItems
<1> HIDE DEF g
<1>3. /\ r \in [1 .. Len(g) -> Nat]
      /\ \A k \in 1 .. Len(s) : r[k] = o[k]
      /\ \A k \in 1 .. Len(t) : r[Len(s) + k] = q[k]
  BY <1>2 DEF Joined
<1>4. \A k \in 1 .. Len(g) :
        \/ k \in 1 .. Len(s)
        \/ ~ (k <= Len(s)) /\ \E l \in 1 .. Len(t) : k = Len(s) + l
  <2> SUFFICES ASSUME NEW k \in 1 .. Len(g), ~ (k \in 1 .. Len(s))
               PROVE  ~ (k <= Len(s)) /\ \E l \in 1 .. Len(t) : k = Len(s) + l
    OBVIOUS
  <2>1. k - Len(s) \in 1 .. Len(t) /\ k = Len(s) + (k - Len(s)) /\ ~ (k <= Len(s))
    BY <1>1, <1>2
  <2> QED BY <2>1
<1>5. ASSUME NEW k \in 1 .. Len(g)
      PROVE  IF r[k] = 0 THEN g[k].kind = "marker" ELSE r[k] \in lo .. hi /\ g[k] = f[r[k]]
  <2>1. CASE k \in 1 .. Len(s)
    <3>1. IF o[k] = 0 THEN s[k].kind = "marker" ELSE o[k] \in lo .. mid /\ s[k] = f[o[k]]
      BY <2>1 DEF Traced
    <3>2. o[k] \in lo .. mid => o[k] \in lo .. hi
      OBVIOUS
    <3> QED BY <1>2, <1>3, <2>1, <3>1, <3>2
  <2>2. CASE \E l \in 1 .. Len(t) : k = Len(s) + l
    <3>1. PICK l \in 1 .. Len(t) : k = Len(s) + l
      BY <2>2
    <3>2. IF q[l] = 0 THEN t[l].kind = "marker" ELSE q[l] \in mid + 1 .. hi /\ t[l] = f[q[l]]
      BY DEF Traced
    <3>3. q[l] \in mid + 1 .. hi => q[l] \in lo .. hi
      OBVIOUS
    <3>4. r[k] = q[l] /\ g[k] = t[l]
      BY <1>2, <1>3, <3>1
    <3> QED BY <3>2, <3>3, <3>4
  <2> QED BY <1>4, <2>1, <2>2
<1>6. ASSUME NEW j \in 1 .. Len(g), NEW k \in 1 .. Len(g), j < k, r[j] # 0, r[k] # 0
      PROVE  r[j] < r[k]
  <2>1. CASE k \in 1 .. Len(s)
    <3>1. j \in 1 .. Len(s)
      BY <1>1, <1>2, <1>6, <2>1
    <3> QED BY <1>3, <1>6, <2>1, <3>1 DEF Traced
  <2>2. CASE ~ (k <= Len(s)) /\ \E l \in 1 .. Len(t) : k = Len(s) + l
    <3>1. PICK l \in 1 .. Len(t) : k = Len(s) + l
      BY <2>2
    <3>2. r[k] = q[l] /\ q[l] \in mid + 1 .. hi
      BY <1>3, <1>6, <3>1 DEF Traced
    <3>3. CASE j \in 1 .. Len(s)
      <4>1. r[j] = o[j] /\ o[j] \in lo .. mid
        BY <1>3, <1>6, <3>3 DEF Traced
      <4> QED BY <3>2, <4>1
    <3>4. CASE ~ (j <= Len(s)) /\ \E i \in 1 .. Len(t) : j = Len(s) + i
      <4>1. PICK i \in 1 .. Len(t) : j = Len(s) + i
        BY <3>4
      <4>2. i < l
        BY <1>1, <1>6, <3>1, <4>1
      <4>3. r[j] = q[i]
        BY <1>3, <4>1
      <4> QED BY <1>6, <3>2, <4>2, <4>3 DEF Traced
    <3> QED BY <1>4, <3>3, <3>4
  <2> QED BY <1>4, <2>1, <2>2
<1>7. ASSUME NEW i \in lo .. hi, i \in K PROVE \E k \in 1 .. Len(g) : r[k] = i
  <2>1. CASE i <= mid
    <3>1. i \in lo .. mid
      BY <2>1
    <3>2. PICK k \in 1 .. Len(s) : o[k] = i
      BY <1>7, <3>1 DEF Traced
    <3>3. k \in 1 .. Len(g)
      BY <1>1, <1>2
    <3> QED BY <1>3, <3>2, <3>3
  <2>2. CASE ~ (i <= mid)
    <3>1. i \in mid + 1 .. hi
      BY <2>2
    <3>2. PICK k \in 1 .. Len(t) : q[k] = i
      BY <1>7, <3>1 DEF Traced
    <3>3. Len(s) + k \in 1 .. Len(g)
      BY <1>1, <1>2
    <3> QED BY <1>3, <3>2, <3>3
  <2> QED BY <2>1, <2>2
<1>8. Traced(f, K, lo, hi, g, r)
  BY <1>2, <1>3, <1>5, <1>6, <1>7 DEF Traced
<1> QED BY <1>8 DEF g

LEMMA ReasonedConcat ==
  ASSUME NEW f, NEW wanted, NEW s \in Seq(Items), NEW t \in Seq(Items),
         NEW o \in [1 .. Len(s) -> Nat], NEW q \in [1 .. Len(t) -> Nat],
         Reasoned(f, wanted, s, o),
         \A k \in 1 .. Len(t) : q[k] # 0 /\ wanted[q[k]] # <<>> =>
            \/ HasAbove(f, wanted, q[k], t, k - 1)
            \/ Bare(t, k - 1) /\ HasAbove(f, wanted, q[k], s, Len(s)),
         NEW r, Joined(r, o, Len(s), q, Len(t))
  PROVE  Reasoned(f, wanted, s \o t, r)
<1> DEFINE g == s \o t
<1>1. /\ Len(s) \in Nat /\ Len(t) \in Nat /\ Len(g) = Len(s) + Len(t)
  BY ConcatItems
<1>2. /\ \A k \in 1 .. Len(s) : r[k] = o[k]
      /\ \A k \in 1 .. Len(t) : r[Len(s) + k] = q[k]
  BY DEF Joined
<1>3. ASSUME NEW k \in 1 .. Len(g), r[k] # 0, wanted[r[k]] # <<>>
      PROVE  HasAbove(f, wanted, r[k], g, k - 1)
  <2> DEFINE i == r[k]
  <2>1. CASE k <= Len(s)
    <3>1. k \in 1 .. Len(s) /\ k - 1 \in 0 .. Len(s)
      BY <1>1, <2>1
    <3>2. HasAbove(f, wanted, i, s, k - 1)
      BY <1>2, <1>3, <3>1 DEF Reasoned
    <3> HIDE DEF i
    <3>3. HasAbove(f, wanted, i, g, k - 1)
      BY <3>1, <3>2, HasAboveLeft
    <3> QED BY <3>3 DEF i
  <2>2. CASE ~ (k <= Len(s))
    <3> DEFINE l == k - Len(s)
    <3>1. l \in 1 .. Len(t) /\ k = Len(s) + l /\ l - 1 \in 0 .. Len(t)
          /\ k - 1 = Len(s) + (l - 1)
      BY <1>1, <2>2
    <3> HIDE DEF l
    <3>2. i = q[l]
      BY <1>2, <3>1
    <3>3. \/ HasAbove(f, wanted, i, t, l - 1)
          \/ Bare(t, l - 1) /\ HasAbove(f, wanted, i, s, Len(s))
      BY <1>3, <3>1, <3>2
    <3> HIDE DEF i
    <3>4. HasAbove(f, wanted, i, g, Len(s) + (l - 1))
      BY <3>1, <3>3, HasAboveRight
    <3> QED BY <3>1, <3>4 DEF i
  <2> QED BY <2>1, <2>2
<1> QED BY <1>3 DEF Reasoned

(* A stretch of f is its own origin.                                       *)
LEMMA StretchTraced ==
  ASSUME NEW f \in Seq(Items), NEW K, NEW p \in 1 .. Len(f) + 1, NEW q \in p - 1 .. Len(f)
  PROVE  \E o : /\ Traced(f, K, p, q, SubSeq(f, p, q), o)
                /\ \A k \in 1 .. Len(SubSeq(f, p, q)) : o[k] = p + k - 1
                /\ Len(SubSeq(f, p, q)) = q - p + 1
<1> DEFINE s == SubSeq(f, p, q)
           o == [k \in 1 .. Len(s) |-> p + k - 1]
<1>1. /\ s \in Seq(Items) /\ Len(s) = q - p + 1
      /\ \A k \in 1 .. q - p + 1 : s[k] = f[p + k - 1]
  BY SubSeqItems
<1>2. Len(f) \in Nat /\ p \in Nat /\ q \in Nat /\ p # 0
  OBVIOUS
<1> HIDE DEF s
<1>3. o \in [1 .. Len(s) -> Nat] /\ \A k \in 1 .. Len(s) : o[k] = p + k - 1
  BY <1>1, <1>2
<1> HIDE DEF o
<1>4. \A k \in 1 .. Len(s) : o[k] # 0 /\ o[k] \in p .. q /\ s[k] = f[o[k]]
  BY <1>1, <1>2, <1>3
<1>5. \A j, k \in 1 .. Len(s) : j < k => o[j] < o[k]
  BY <1>1, <1>2, <1>3
<1>6. \A i \in p .. q : \E k \in 1 .. Len(s) : o[k] = i
  <2> SUFFICES ASSUME NEW i \in p .. q PROVE \E k \in 1 .. Len(s) : o[k] = i
    OBVIOUS
  <2>1. i - p + 1 \in 1 .. Len(s) /\ p + (i - p + 1) - 1 = i
    BY <1>1, <1>2
  <2> QED BY <1>3, <2>1
<1>7. Traced(f, K, p, q, s, o)
  BY <1>1, <1>3, <1>4, <1>5, <1>6 DEF Traced
<1> QED BY <1>1, <1>3, <1>7 DEF s

(* Comments of this run in place of lines of which none must stay.         *)
LEMMA MarksTraced ==
  ASSUME NEW f, NEW K, NEW lo \in Nat \ {0}, NEW hi \in Nat,
         Spares(K, lo, hi), NEW b \in Seq(Markers)
  PROVE  \E o : Traced(f, K, lo, hi, b, o) /\ AllNew(o, Len(b))
<1> DEFINE o == [k \in 1 .. Len(b) |-> 0]
<1>1. b \in Seq(Items) /\ \A k \in 1 .. Len(b) : b[k].kind = "marker"
  BY UsersOfMarkers DEF Markers
<1>2. o \in [1 .. Len(b) -> Nat] /\ \A k \in 1 .. Len(b) : o[k] = 0
  OBVIOUS
<1> HIDE DEF o
<1>3. Traced(f, K, lo, hi, b, o)
  BY <1>1, <1>2 DEF Traced, Spares
<1> QED BY <1>2, <1>3 DEF AllNew

LEMMA PlacedConcat ==
  ASSUME NEW f, NEW K, NEW lo \in Nat \ {0}, NEW mid \in Nat, NEW hi \in Nat,
         lo <= mid + 1, mid <= hi,
         NEW wanted, NEW s, Placed(f, K, lo, mid, wanted, s),
         NEW t, NEW q, Traced(f, K, mid + 1, hi, t, q),
         \A k \in 1 .. Len(t) : q[k] # 0 /\ wanted[q[k]] # <<>> =>
            \/ HasAbove(f, wanted, q[k], t, k - 1)
            \/ Bare(t, k - 1) /\ HasAbove(f, wanted, q[k], s, Len(s))
  PROVE  Placed(f, K, lo, hi, wanted, s \o t)
<1>1. PICK o : Traced(f, K, lo, mid, s, o) /\ Reasoned(f, wanted, s, o)
  BY DEF Placed
<1>2. /\ s \in Seq(Items) /\ t \in Seq(Items) /\ Len(s) \in Nat /\ Len(t) \in Nat
      /\ o \in [1 .. Len(s) -> Nat] /\ q \in [1 .. Len(t) -> Nat]
  BY <1>1 DEF Traced
<1>3. PICK r : Joined(r, o, Len(s), q, Len(t))
  BY <1>2, JoinedExists
<1>4. Traced(f, K, lo, hi, s \o t, r)
  BY <1>1, <1>3, TracedConcat
<1>5. Reasoned(f, wanted, s \o t, r)
  BY <1>1, <1>2, <1>3, ReasonedConcat
<1> QED BY <1>4, <1>5 DEF Placed

(* Two regions, each in its place.                                         *)
LEMMA PlacedJoin ==
  ASSUME NEW f, NEW K, NEW lo \in Nat \ {0}, NEW mid \in Nat, NEW hi \in Nat,
         lo <= mid + 1, mid <= hi,
         NEW wanted, NEW s, Placed(f, K, lo, mid, wanted, s),
         NEW t, Placed(f, K, mid + 1, hi, wanted, t)
  PROVE  Placed(f, K, lo, hi, wanted, s \o t)
<1>1. PICK q : Traced(f, K, mid + 1, hi, t, q) /\ Reasoned(f, wanted, t, q)
  BY DEF Placed
<1>2. \A k \in 1 .. Len(t) : q[k] # 0 /\ wanted[q[k]] # <<>> =>
         HasAbove(f, wanted, q[k], t, k - 1)
  BY <1>1 DEF Reasoned
<1> QED BY <1>1, <1>2, PlacedConcat

LEMMA PlacedType ==
  ASSUME NEW f, NEW K, NEW lo, NEW hi, NEW wanted, NEW g, Placed(f, K, lo, hi, wanted, g)
  PROVE  g \in Seq(Items) /\ Len(g) \in Nat
BY DEF Placed, Traced

LEMMA NothingPlaced ==
  ASSUME NEW f, NEW K, NEW lo \in Nat \ {0}, NEW wanted
  PROVE  Placed(f, K, lo, lo - 1, wanted, <<>>)
<1>1. <<>> \in Seq(Items) /\ Len(<<>>) = 0 /\ <<>> \in Seq(Markers)
  OBVIOUS
<1>2. lo - 1 \in Nat /\ Spares(K, lo, lo - 1)
  BY DEF Spares
<1>3. PICK o : Traced(f, K, lo, lo - 1, <<>>, o)
  BY <1>1, <1>2, MarksTraced
<1>4. Reasoned(f, wanted, <<>>, o)
  BY <1>1 DEF Reasoned
<1> QED BY <1>3, <1>4 DEF Placed

(* Lines that need not stay may be passed over.                            *)
LEMMA PlacedPast ==
  ASSUME NEW f, NEW K, NEW lo \in Nat \ {0}, NEW mid \in Nat, NEW hi \in Nat,
         lo <= mid + 1, mid <= hi, Spares(K, mid + 1, hi),
         NEW wanted, NEW s, Placed(f, K, lo, mid, wanted, s)
  PROVE  Placed(f, K, lo, hi, wanted, s)
<1>1. PICK o : Traced(f, K, lo, mid, s, o) /\ Reasoned(f, wanted, s, o)
  BY DEF Placed
<1>2. \A i \in lo .. mid : i \in lo .. hi
  OBVIOUS
<1>3. \A i \in lo .. hi : i \in K => i \in lo .. mid
  <2> SUFFICES ASSUME NEW i \in lo .. hi, i \in K PROVE i \in lo .. mid
    OBVIOUS
  <2>1. i \notin mid + 1 .. hi
    BY DEF Spares
  <2> QED BY <2>1
<1>4. Traced(f, K, lo, hi, s, o)
  BY <1>1, <1>2, <1>3 DEF Traced
<1> QED BY <1>1, <1>4 DEF Placed

(* The comments wanted above the next line, in place of those absorbed.    *)
LEMMA BlockPlaced ==
  ASSUME NEW f, NEW K, NEW lo \in Nat \ {0}, NEW mid \in Nat, NEW hi \in Nat,
         lo <= mid + 1, mid <= hi, Spares(K, mid + 1, hi),
         NEW wanted, NEW s, Placed(f, K, lo, mid, wanted, s),
         NEW b \in Seq(Markers), b # <<>>
  PROVE  /\ Placed(f, K, lo, hi, wanted, s \o b)
         /\ Ends(s \o b, 1, Len(s \o b), Last(b))
<1>1. PICK q : Traced(f, K, mid + 1, hi, b, q) /\ AllNew(q, Len(b))
  <2> DEFINE n == mid + 1
  <2>1. n \in Nat \ {0} /\ Spares(K, n, hi)
    OBVIOUS
  <2> HIDE DEF n
  <2>2. \E q : Traced(f, K, n, hi, b, q) /\ AllNew(q, Len(b))
    BY <2>1, MarksTraced
  <2> QED BY <2>2 DEF n
<1>2. Placed(f, K, lo, hi, wanted, s \o b)
  BY <1>1, PlacedConcat DEF AllNew
<1>3. s \in Seq(Items) /\ b \in Seq(Items)
  BY PlacedType, UsersOfMarkers
<1>4. Len(b) \in Nat /\ Len(b) # 0 /\ Len(s) \in Nat
  BY <1>3
<1>5. Last(b) = b[Len(b)] /\ Len(b) \in 1 .. Len(b)
  BY <1>4 DEF Last
<1>6. Ends(b, 1, Len(b), Last(b))
  BY <1>4, <1>5 DEF Ends, Says
<1>7. Len(b) \in 0 .. Len(b) /\ Len(s \o b) = Len(s) + Len(b)
  BY <1>3, <1>4, ConcatItems
<1> QED BY <1>2, <1>3, <1>6, <1>7, EndsRight

(* How a line whose comment is settled will find it above: just copied, or *)
(* among the lines of f still to be copied.                                *)
Due(f, acc, j, x) ==
  \/ j = acc.p /\ Ends(acc.out, 1, Len(acc.out), x)
  \/ Ends(f, acc.p, j - 1, x)

(* How far copy_kept has come before it looks at a line.                   *)
Laid(f, K, from, line, wanted, acc) ==
  /\ acc.p \in from .. line
  /\ Placed(f, K, from, acc.p - 1, wanted, acc.out)
  /\ \A j \in acc.p .. line - 1 : wanted[j] # <<>> => Due(f, acc, j, Last(wanted[j]))

LEMMA EndsOfStretch ==
  ASSUME NEW f \in Seq(Items), NEW p \in 1 .. Len(f) + 1, NEW q \in p - 1 .. Len(f),
         NEW n \in 0 .. q - p + 1, NEW x, Ends(f, p, p + n - 1, x)
  PROVE  Ends(SubSeq(f, p, q), 1, n, x)
<1> DEFINE s == SubSeq(f, p, q)
<1>1. Len(f) \in Nat /\ p \in Nat /\ q \in Nat /\ n \in Nat /\ q \in 0 .. Len(f)
  OBVIOUS
<1>2. \A k \in 1 .. q - p + 1 : s[k] = f[p + k - 1]
  BY <1>1, SubSeqItems
<1> HIDE DEF s
<1>3. PICK m \in p .. p + n - 1 :
        Says(f[m], x) /\ \A l \in m + 1 .. p + n - 1 : f[l].kind \in {"ann", "blank"}
  BY DEF Ends
<1>4. m - p + 1 \in 1 .. n /\ m - p + 1 \in 1 .. q - p + 1 /\ p + (m - p + 1) - 1 = m
  BY <1>1
<1>5. Says(s[m - p + 1], x)
  BY <1>2, <1>3, <1>4
<1>6. ASSUME NEW l \in (m - p + 1) + 1 .. n PROVE s[l].kind \in {"ann", "blank"}
  <2>1. p + l - 1 \in m + 1 .. p + n - 1 /\ l \in 1 .. q - p + 1
    BY <1>1, <1>4
  <2> QED BY <1>2, <1>3, <2>1
<1>7. Ends(s, 1, n, x)
  BY <1>4, <1>5, <1>6 DEF Ends
<1> QED BY <1>7 DEF s

(* What has been settled may be copied up to any line before the next.     *)
LEMMA LaidCopies ==
  ASSUME NEW f \in Seq(Items), NEW K, NEW from \in 1 .. Len(f), NEW line \in from .. Len(f) + 1,
         NEW wanted, NEW acc, Laid(f, K, from, line, wanted, acc),
         NEW q \in acc.p - 1 .. line - 1
  PROVE  Placed(f, K, from, q, wanted, acc.out \o SubSeq(f, acc.p, q))
<1> DEFINE p == acc.p
           out == acc.out
           t == SubSeq(f, p, q)
<1>1. p \in from .. line /\ Len(f) \in Nat
  BY DEF Laid
<1>2. Placed(f, K, from, p - 1, wanted, out)
  BY DEF Laid
<1>3. \A j \in p .. line - 1 : wanted[j] # <<>> =>
         \/ j = p /\ Ends(out, 1, Len(out), Last(wanted[j]))
         \/ Ends(f, p, j - 1, Last(wanted[j]))
  BY DEF Laid, Due
<1>4. q \in p - 1 .. line - 1
  OBVIOUS
<1> HIDE DEF p, out
<1>5. /\ p \in 1 .. Len(f) + 1 /\ q \in p - 1 .. Len(f)
      /\ p - 1 \in Nat /\ q \in Nat /\ from <= (p - 1) + 1 /\ p - 1 <= q /\ (p - 1) + 1 = p
      /\ from \in Nat \ {0}
  BY <1>1, <1>4
<1>6. PICK o : /\ Traced(f, K, p, q, t, o)
               /\ \A k \in 1 .. Len(t) : o[k] = p + k - 1
               /\ Len(t) = q - p + 1
  BY <1>5, StretchTraced
<1>7. ASSUME NEW k \in 1 .. Len(t), o[k] # 0, wanted[o[k]] # <<>>
      PROVE  \/ HasAbove(f, wanted, o[k], t, k - 1)
             \/ Bare(t, k - 1) /\ HasAbove(f, wanted, o[k], out, Len(out))
  <2> DEFINE j == p + k - 1
             x == Last(wanted[j])
  <2>1. o[k] = j /\ j \in p .. line - 1 /\ k \in Nat /\ (j = p => k = 1)
        /\ k - 1 \in 0 .. q - p + 1 /\ j - 1 = p + (k - 1) - 1
    <3>1. o[k] = j /\ k \in 1 .. q - p + 1
      BY <1>6
    <3> QED BY <1>1, <1>4, <1>5, <3>1
  <2> HIDE DEF j
  <2>2. (j = p /\ Ends(out, 1, Len(out), x)) \/ Ends(f, p, j - 1, x)
    BY <1>3, <1>7, <2>1
  <2> HIDE DEF x
  <2>3. Ends(f, p, j - 1, x) => Ends(t, 1, k - 1, x)
    <3> SUFFICES ASSUME Ends(f, p, j - 1, x) PROVE Ends(t, 1, k - 1, x)
      OBVIOUS
    <3>1. Ends(f, p, p + (k - 1) - 1, x)
      BY <2>1
    <3> QED BY <1>5, <2>1, <3>1, EndsOfStretch
  <2>4. Ends(t, 1, k - 1, x) \/ (k = 1 /\ Ends(out, 1, Len(out), x))
    BY <2>1, <2>2, <2>3
  <2>5. j \in Tops(f, wanted, j)
    <3>1. j \in j .. Len(f) /\ \A m \in j .. j - 1 : FALSE
      BY <1>1, <2>1
    <3> QED BY <1>7, <2>1, <3>1 DEF Tops
  <2>6. k = 1 => Bare(t, k - 1)
    BY DEF Bare
  <2>7. \/ HasAbove(f, wanted, j, t, k - 1)
        \/ Bare(t, k - 1) /\ HasAbove(f, wanted, j, out, Len(out))
    BY <2>4, <2>5, <2>6 DEF HasAbove, x
  <2> QED BY <2>1, <2>7
<1> HIDE DEF t
<1>8. Traced(f, K, (p - 1) + 1, q, t, o)
  BY <1>5, <1>6
<1>9. Placed(f, K, from, q, wanted, out \o t)
  BY <1>2, <1>5, <1>7, <1>8, PlacedConcat
<1> QED BY <1>9 DEF p, out, t

(* What stands between a line and the comment found before its annotations.*)
LEMMA BeforeAnnotationsIs ==
  ASSUME NEW f \in Seq(Items), NEW from \in 1 .. Len(f) + 1, NEW line \in 1 .. Len(f),
         MarkerBeforeAnnotations(f, from, line) # 0
  PROVE  LET above == MarkerBeforeAnnotations(f, from, line)
         IN  /\ above \in from .. line - 1 /\ f[above].kind = "marker"
             /\ \A k \in above + 1 .. line - 1 : f[k].kind \in {"ann", "blank"}
<1> DEFINE open == LastOf(f, from, line - 1, {"marker", "doc"})
<1>1. line - 1 \in 0 .. Len(f)
  OBVIOUS
<1>2. open = 0 \/ open \in from .. line - 1
  BY <1>1, LastOfIs
<1>3. /\ MarkerBeforeAnnotations(f, from, line) = open /\ open # 0 /\ f[open].kind = "marker"
      /\ {f[i].kind : i \in open + 1 .. line - 1} \subseteq {"ann", "blank"}
  BY DEF MarkerBeforeAnnotations
<1> HIDE DEF open
<1>4. \A k \in open + 1 .. line - 1 : f[k].kind \in {"ann", "blank"}
  BY <1>3
<1> QED BY <1>2, <1>3, <1>4

(* One comment put in place leaves all that is settled in its place.       *)
LEMMA InsertLays ==
  ASSUME NEW f \in Seq(Items), NEW K, K \subseteq UserAt(f),
         NEW from \in 1 .. Len(f), NEW line \in from .. Len(f),
         NEW wanted, wanted[line] \in Seq(Markers), wanted[line] # <<>>,
         NEW acc, Laid(f, K, from, line, wanted, acc)
  PROVE  Laid(f, K, from, line + 1, wanted, InsertAbove(f, from, wanted, acc, line))
<1> DEFINE block == wanted[line]
           p == acc.p
           x == Last(block)
           above == MarkerBeforeAnnotations(f, acc.p, line)
           start == Max({BlockStart(f, from, line), acc.p})
           behind == Behind(Column(f[above]), block)
           replaced == [out |-> acc.out \o SubSeq(f, acc.p, above - 1) \o behind
                                        \o SubSeq(f, above + 1, line - 1),
                        p |-> line]
           inserted == [out |-> acc.out \o SubSeq(f, acc.p, start - 1) \o block,
                        p |-> line]
           next == InsertAbove(f, from, wanted, acc, line)
<1>0. /\ above # 0 /\ ReadsAlike(f[above], block) => next = acc
      /\ above # 0 /\ ~ ReadsAlike(f[above], block) => next = replaced
      /\ above = 0 /\ SubSeq(f, start, line - 1) = block => next = acc
      /\ above = 0 /\ SubSeq(f, start, line - 1) # block => next = inserted
  BY DEF InsertAbove
<1>1. /\ p \in from .. line /\ Len(f) \in Nat /\ from \in Nat \ {0} /\ line \in Nat
      /\ line \in from .. Len(f) + 1 /\ p \in 1 .. Len(f) + 1 /\ line - 1 \in 0 .. Len(f)
      /\ p - 1 \in Nat /\ from <= (p - 1) + 1
  BY DEF Laid
<1>2. block \in Seq(Markers) /\ block # <<>> /\ block \in Seq(Items)
  BY UsersOfMarkers
<1>3. above # 0 => /\ above \in p .. line - 1 /\ f[above].kind = "marker"
                   /\ \A k \in above + 1 .. line - 1 : f[k].kind \in {"ann", "blank"}
  BY <1>1, BeforeAnnotationsIs
<1>4. start \in p .. line /\ \A i \in start .. line - 1 : ~ OfUser(f[i])
  <2> DEFINE b == BlockStart(f, from, line)
  <2>1. b \in from .. line /\ \A i \in b .. line - 1 : ~ OfUser(f[i])
    BY BlockStartIs
  <2> HIDE DEF b
  <2> DEFINE T == {b, p}
  <2>2. T \subseteq 0 .. line /\ T # {} /\ line \in Nat
    BY <1>1, <2>1
  <2>3. Max(T) \in T /\ \A m \in T : m <= Max(T)
    <3> HIDE DEF T
    <3> QED BY <2>2, MaxIs
  <2>4. start = Max(T)
    BY DEF b
  <2>5. start \in {b, p} /\ b <= start /\ p <= start
    BY <2>3, <2>4
  <2> HIDE DEF start, p, T
  <2> QED BY <1>1, <2>1, <2>5
<1>5. \A i \in K : OfUser(f[i])
  BY DEF UserAt
<1>6. \A q \in p - 1 .. line - 1 : Placed(f, K, from, q, wanted, acc.out \o SubSeq(f, p, q))
  BY <1>1, LaidCopies
<1>7. \A j \in p .. line - 1 : wanted[j] # <<>> => Due(f, acc, j, Last(wanted[j]))
  BY DEF Laid
<1>8. Ends(f, p, line - 1, x) => Laid(f, K, from, line + 1, wanted, acc)
  <2> SUFFICES ASSUME Ends(f, p, line - 1, x) PROVE Laid(f, K, from, line + 1, wanted, acc)
    OBVIOUS
  <2>1. Due(f, acc, line, x)
    BY DEF Due
  <2>2. ASSUME NEW j \in p .. (line + 1) - 1, wanted[j] # <<>>
        PROVE  Due(f, acc, j, Last(wanted[j]))
    <3>1. j = line \/ j \in p .. line - 1
      BY <1>1
    <3> QED BY <1>7, <2>1, <2>2, <3>1
  <2>3. acc.p \in from .. line + 1
    BY <1>1
  <2> QED BY <2>2, <2>3 DEF Laid
<1>9. ASSUME NEW out, Placed(f, K, from, line - 1, wanted, out), Ends(out, 1, Len(out), x)
      PROVE  Laid(f, K, from, line + 1, wanted, [out |-> out, p |-> line])
  <2> DEFINE to == [out |-> out, p |-> line]
  <2>1. to.p = line /\ to.out = out /\ to.p \in from .. line + 1
    BY <1>1
  <2> HIDE DEF to
  <2>2. ASSUME NEW j \in to.p .. (line + 1) - 1, wanted[j] # <<>>
        PROVE  Due(f, to, j, Last(wanted[j]))
    <3>1. j = line
      BY <1>1, <2>1
    <3> QED BY <1>9, <2>1, <3>1 DEF Due
  <2>3. Laid(f, K, from, line + 1, wanted, to)
    BY <1>9, <2>1, <2>2 DEF Laid
  <2> QED BY <2>3 DEF to
<1> HIDE DEF next, above, start
<1>10. CASE above # 0 /\ ReadsAlike(f[above], block)
  <2> DEFINE y == [f[above] EXCEPT !.drift = 0]
  <2>1. Last(block) = y
    <3>1. block = << y >>
      BY <1>10 DEF ReadsAlike
    <3> HIDE DEF block, y
    <3>2. Len(<< y >>) = 1 /\ << y >>[1] = y
      OBVIOUS
    <3> QED BY <3>1, <3>2 DEF Last
  <2>2. Says(f[above], y)
    <3>1. f[above] \in Items
      BY <1>1, <1>3, <1>10
    <3> QED BY <3>1 DEF Says, Items
  <2>3. Ends(f, p, line - 1, y)
    <3> HIDE DEF y
    <3> QED BY <1>3, <1>10, <2>2 DEF Ends
  <2> QED BY <1>0, <1>8, <1>10, <2>1, <2>3 DEF next
<1>11. CASE above # 0 /\ ~ ReadsAlike(f[above], block)
  <2> DEFINE s == acc.out \o SubSeq(f, p, above - 1)
             t == SubSeq(f, above + 1, line - 1)
  <2>1. /\ above \in p .. line - 1 /\ above - 1 \in p - 1 .. line - 1
        /\ above \in Nat /\ above - 1 \in Nat /\ from <= (above - 1) + 1 /\ above - 1 <= above
        /\ above + 1 \in 1 .. Len(f) + 1 /\ line - 1 \in (above + 1) - 1 .. Len(f)
        /\ line - 1 \in Nat /\ from <= above + 1 /\ above <= line - 1
    <3>1. above \in p .. line - 1
      BY <1>3, <1>11
    <3> HIDE DEF p
    <3> QED BY <1>1, <3>1
  <2>2. Placed(f, K, from, above - 1, wanted, s)
    BY <1>6, <2>1
  <2>3. Spares(K, (above - 1) + 1, above)
    <3> SUFFICES ASSUME NEW i \in (above - 1) + 1 .. above PROVE i \notin K
      BY DEF Spares
    <3>1. i = above
      BY <2>1
    <3> QED BY <1>3, <1>5, <1>11, <3>1 DEF OfUser, Generated
  <2> HIDE DEF s, block, p
  <2>31. /\ behind \in Seq(Markers) /\ behind # <<>>
         /\ Says(Last(behind), x)
    <3>1. f[above] \in Items /\ Len(block) \in Nat /\ Len(block) # 0
      BY <1>1, <1>2, <2>1
    <3>2. /\ behind \in Seq(Markers) /\ Len(behind) = Len(block)
          /\ behind[1] = [block[1] EXCEPT !.drift = Column(f[above])]
          /\ \A k \in 2 .. Len(block) : behind[k] = block[k]
      BY <1>2, <3>1, BehindIs
    <3> HIDE DEF behind
    <3>3. behind # <<>>
      BY <3>1, <3>2
    <3>4. block[1] \in Items
      BY <1>2, <3>1
    <3>5. Says(behind[1], block[1])
      BY <3>2, <3>4 DEF Says, Items
    <3>6. Len(block) = 1 \/ Len(block) \in 2 .. Len(block)
      <4>1. \A k \in Nat : k # 0 => k = 1 \/ k \in 2 .. k
        OBVIOUS
      <4> QED BY <3>1, <4>1, Zenon
    <3>7. Says(behind[Len(block)], block[Len(block)])
      BY <3>2, <3>5, <3>6 DEF Says
    <3>8. Last(behind) = behind[Len(block)] /\ x = block[Len(block)]
      BY <3>2 DEF Last
    <3> QED BY <3>2, <3>3, <3>7, <3>8
  <2> HIDE DEF behind
  <2>4. /\ Placed(f, K, from, above, wanted, s \o behind)
        /\ Ends(s \o behind, 1, Len(s \o behind), Last(behind))
    BY <1>1, <2>1, <2>2, <2>3, <2>31, BlockPlaced
  <2>41. Ends(s \o behind, 1, Len(s \o behind), x)
    BY <2>4, <2>31 DEF Ends, Says
  <2>5. PICK o : /\ Traced(f, K, above + 1, line - 1, t, o)
                 /\ \A k \in 1 .. Len(t) : o[k] = (above + 1) + k - 1
                 /\ Len(t) = (line - 1) - (above + 1) + 1
    BY <2>1, StretchTraced
  <2>6. \A k \in 1 .. Len(t) : t[k].kind \in {"ann", "blank"}
    <3>1. \A k \in 1 .. Len(t) : t[k] = f[o[k]] /\ o[k] \in above + 1 .. line - 1
      <4> HIDE DEF t
      <4>1. ASSUME NEW k \in 1 .. Len(t) PROVE o[k] # 0
        <5>1. k \in Nat /\ o[k] = (above + 1) + k - 1
          BY <1>1, <2>1, <2>5
        <5> QED BY <2>1, <5>1
      <4> QED BY <2>5, <4>1 DEF Traced
    <3> HIDE DEF t
    <3> QED BY <1>3, <1>11, <3>1
  <2> DEFINE a == s \o behind
  <2>7. \A k \in 1 .. Len(t) : Bare(t, k - 1) /\ HasAbove(f, wanted, o[k], a, Len(a))
    <3> SUFFICES ASSUME NEW k \in 1 .. Len(t)
                 PROVE  Bare(t, k - 1) /\ HasAbove(f, wanted, o[k], a, Len(a))
      OBVIOUS
    <3> HIDE DEF t, a
    <3>1. k - 1 \in 0 .. Len(t) /\ k \in Nat
      BY <1>1, <2>1, <2>5
    <3>2. Bare(t, k - 1)
      BY <2>5, <2>6, <3>1 DEF Bare
    <3> DEFINE m == o[k]
    <3>3. m \in above + 1 .. line - 1
      BY <2>1, <2>5
    <3> HIDE DEF m
    <3>4. line \in m .. Len(f) /\ \A l \in m .. line - 1 : l \in above + 1 .. line - 1
      BY <1>1, <2>1, <3>3
    <3>5. line \in Tops(f, wanted, m)
      BY <1>2, <1>3, <1>11, <3>4 DEF Tops, block
    <3>6. HasAbove(f, wanted, m, a, Len(a))
      BY <2>41, <3>5 DEF HasAbove, a, x, block
    <3> QED BY <3>2, <3>6 DEF m
  <2>8. s \o behind \in Seq(Items) /\ t \in Seq(Items)
    BY <2>4, <2>5, PlacedType DEF Traced
  <2> HIDE DEF t
  <2> DEFINE out == a \o t
  <2>9. Placed(f, K, from, line - 1, wanted, out)
    <3> HIDE DEF a
    <3> QED BY <1>1, <2>1, <2>4, <2>5, <2>7, PlacedConcat DEF a
  <2>10. Ends(out, 1, Len(out), x)
    <3>1. a \in Seq(Items) /\ Ends(a, 1, Len(a), x)
      BY <2>41, <2>8
    <3> HIDE DEF a, x
    <3>2. Bare(t, Len(t)) /\ Len(t) \in 0 .. Len(t) /\ Len(a \o t) = Len(a) + Len(t)
      BY <2>6, <2>8, <3>1 DEF Bare
    <3>3. Ends(a \o t, 1, Len(a) + Len(t), x)
      BY <2>8, <3>1, <3>2, EndsOn
    <3> QED BY <3>2, <3>3
  <2>11. Laid(f, K, from, line + 1, wanted, [out |-> out, p |-> line])
    <3> HIDE DEF out, x
    <3> QED BY <1>9, <2>9, <2>10
  <2>12. next = [out |-> out, p |-> line]
    BY <1>0, <1>11 DEF s, t, behind, block, p
  <2> QED BY <2>11, <2>12 DEF next, block
<1>12. CASE above = 0 /\ SubSeq(f, start, line - 1) = block
  <2> DEFINE t == SubSeq(f, start, line - 1)
  <2>1. start \in 1 .. Len(f) + 1 /\ start \in Nat
    BY <1>1, <1>4
  <2>2. /\ Len(t) = IF start <= line - 1 THEN (line - 1) - start + 1 ELSE 0
        /\ \A k \in 1 .. (line - 1) - start + 1 : t[k] = f[start + k - 1]
    BY <1>1, <2>1, SubSeqItems
  <2>3. Len(t) # 0 /\ t = block
    <3>1. t = block
      BY <1>12
    <3> HIDE DEF t, block
    <3> QED BY <1>2, <3>1
  <2> HIDE DEF t, block
  <2>4. start <= line - 1 /\ Len(t) = (line - 1) - start + 1
    BY <2>2, <2>3
  <2>5. Len(t) \in 1 .. (line - 1) - start + 1 /\ start + Len(t) - 1 = line - 1
        /\ line - 1 \in p .. line - 1
    BY <1>1, <1>4, <2>1, <2>4
  <2>6. Last(block) = f[line - 1]
    BY <2>2, <2>3, <2>5 DEF Last
  <2>7. \A l \in (line - 1) + 1 .. line - 1 : FALSE
    BY <1>1
  <2>8. Ends(f, p, line - 1, x)
    BY <2>5, <2>6, <2>7 DEF Ends, Says
  <2> QED BY <1>0, <1>8, <1>12, <2>8 DEF next
<1>13. CASE above = 0 /\ SubSeq(f, start, line - 1) # block
  <2> DEFINE s == acc.out \o SubSeq(f, p, start - 1)
  <2>1. /\ start - 1 \in p - 1 .. line - 1 /\ start - 1 \in Nat /\ line - 1 \in Nat
        /\ from <= (start - 1) + 1 /\ start - 1 <= line - 1 /\ (start - 1) + 1 = start
    BY <1>1, <1>4
  <2>2. Placed(f, K, from, start - 1, wanted, s)
    BY <1>6, <2>1
  <2>3. Spares(K, (start - 1) + 1, line - 1)
    BY <1>4, <1>5, <2>1 DEF Spares
  <2> HIDE DEF s, block, p
  <2>4. /\ Placed(f, K, from, line - 1, wanted, s \o block)
        /\ Ends(s \o block, 1, Len(s \o block), Last(block))
    BY <1>1, <1>2, <2>1, <2>2, <2>3, BlockPlaced
  <2> DEFINE out == s \o block
  <2>5. Laid(f, K, from, line + 1, wanted, [out |-> out, p |-> line])
    <3> HIDE DEF out
    <3> QED BY <1>9, <2>4 DEF out
  <2>6. next = [out |-> out, p |-> line]
    BY <1>0, <1>13 DEF s, block, p
  <2> QED BY <2>5, <2>6 DEF next, block
<1> QED BY <1>10, <1>11, <1>12, <1>13 DEF next

(* A copied region has every comment it wants in place.                    *)
LEMMA CopyPlaces ==
  ASSUME NEW f \in Seq(Items), NEW K, K \subseteq UserAt(f),
         NEW from \in 1 .. Len(f), NEW to \in from .. Len(f),
         NEW wanted, Wanted(f, wanted)
  PROVE  Placed(f, K, from, to, wanted, CopyKept(f, from, to, wanted))
<1>1. PICK done : /\ Copying(f, from, to, wanted, done)
                  /\ CopyKept(f, from, to, wanted)
                       = done[to].out \o SubSeq(f, done[to].p, to)
  BY CopySteps
<1> DEFINE Ok(i) == Laid(f, K, from, i + 1, wanted, done[i])
           T == {i \in from - 1 .. to : ~ Ok(i)}
<1>0. to \in Nat /\ from \in Nat \ {0} /\ Len(f) \in Nat /\ from - 1 \in Nat
  OBVIOUS
<1>2. T = {}
  <2>1. SUFFICES ASSUME T # {} PROVE FALSE
    OBVIOUS
  <2>2. T \subseteq Nat
    BY <1>0
  <2>3. PICK i \in T : \A j \in T : i <= j
    <3> HIDE DEF T
    <3> QED BY <2>1, <2>2, Least
  <2>4. i \in from - 1 .. to /\ ~ Ok(i) /\ i \in 0 .. to
    OBVIOUS
  <2>5. done[i] = IF i < from THEN [out |-> <<>>, p |-> from]
                  ELSE IF wanted[i] = <<>> THEN done[i - 1]
                  ELSE InsertAbove(f, from, wanted, done[i - 1], i)
    BY <1>1, <2>4 DEF Copying
  <2>6. CASE i < from
    <3> DEFINE acc == done[i]
    <3>1. i + 1 = from
      BY <1>0, <2>4, <2>6
    <3>2. acc.out = <<>> /\ acc.p = from
      BY <2>5, <2>6
    <3> HIDE DEF acc
    <3>3. Placed(f, K, from, acc.p - 1, wanted, acc.out)
      BY <1>0, <3>2, NothingPlaced
    <3>4. acc.p \in from .. from /\ \A j \in acc.p .. from - 1 : FALSE
      BY <1>0, <3>2
    <3>5. Laid(f, K, from, from, wanted, acc)
      BY <3>3, <3>4 DEF Laid
    <3> QED BY <2>4, <3>1, <3>5 DEF acc
  <2>7. CASE ~ (i < from)
    <3> DEFINE acc == done[i - 1]
    <3>1. /\ i - 1 \in from - 1 .. to /\ ~ (i <= i - 1) /\ (i - 1) + 1 = i
          /\ i \in from .. Len(f) /\ i \in 1 .. Len(f) /\ i \in Nat
      BY <1>0, <2>4, <2>7
    <3>2. Ok(i - 1)
      <4> HIDE DEF Ok
      <4> QED BY <2>3, <3>1
    <3>3. Laid(f, K, from, i, wanted, acc)
      BY <3>1, <3>2
    <3> HIDE DEF acc
    <3>4. CASE wanted[i] = <<>>
      <4>1. acc.p \in from .. i + 1
        BY <1>0, <3>1, <3>3 DEF Laid
      <4>2. \A j \in acc.p .. (i + 1) - 1 : j = i \/ j \in acc.p .. i - 1
        BY <1>0, <3>1, <4>1
      <4>3. Laid(f, K, from, i + 1, wanted, acc)
        BY <3>3, <3>4, <4>1, <4>2 DEF Laid
      <4> QED BY <2>4, <2>5, <2>7, <3>4, <4>3 DEF acc
    <3>5. CASE wanted[i] # <<>>
      <4>1. wanted[i] \in Seq(Markers)
        BY <3>1 DEF Wanted
      <4>2. Laid(f, K, from, i + 1, wanted, InsertAbove(f, from, wanted, acc, i))
        BY <3>1, <3>3, <3>5, <4>1, InsertLays
      <4> QED BY <2>4, <2>5, <2>7, <3>5, <4>2 DEF acc
    <3> QED BY <3>4, <3>5
  <2> QED BY <2>6, <2>7
<1>3. to \in from - 1 .. to
  BY <1>0
<1>4. Ok(to)
  <2> HIDE DEF Ok
  <2> QED BY <1>2, <1>3
<1> DEFINE acc == done[to]
<1>5. Laid(f, K, from, to + 1, wanted, acc)
  BY <1>4
<1> HIDE DEF acc
<1>6. to + 1 \in from .. Len(f) + 1 /\ to \in acc.p - 1 .. (to + 1) - 1
  BY <1>0, <1>5 DEF Laid
<1>7. Placed(f, K, from, to, wanted, acc.out \o SubSeq(f, acc.p, to))
  <2> DEFINE n == to + 1
  <2>1. n \in from .. Len(f) + 1 /\ to \in acc.p - 1 .. n - 1 /\ Laid(f, K, from, n, wanted, acc)
    BY <1>5, <1>6
  <2> HIDE DEF n
  <2> QED BY <2>1, LaidCopies
<1> QED BY <1>1, <1>7 DEF acc

(* So has a file of which spans were cut out.                              *)
LEMMA StripPlaces ==
  ASSUME NEW f \in Seq(Items), NEW spans,
         NEW wanted, Wanted(f, wanted)
  PROVE  Placed(f, UserAt(f) \ spans, 1, Len(f), wanted, StripTranslated(f, spans, wanted))
<1>1. PICK c : /\ StrippedBy(f, spans, wanted, c)
               /\ StripTranslated(f, spans, wanted) = c[Len(f)]
  BY StripSteps
<1> DEFINE n == Len(f)
           K == UserAt(f) \ spans
           Ok(i) == Placed(f, K, 1, i, wanted, c[i])
           T == {i \in 0 .. n : ~ Ok(i)}
<1>2. /\ c[0] = <<>>
      /\ \A i \in 1 .. n :
            c[i] = IF i \in spans THEN c[i - 1]
                   ELSE c[Start(spans, i) - 1] \o CopyKept(f, Start(spans, i), i, wanted)
  BY <1>1 DEF StrippedBy
<1>3. n \in Nat /\ 1 \in Nat \ {0} /\ K \subseteq UserAt(f) /\ \A i \in spans : i \notin K
  OBVIOUS
<1>4. T = {}
  <2>1. SUFFICES ASSUME T # {} PROVE FALSE
    OBVIOUS
  <2>2. T \subseteq Nat
    BY <1>3
  <2>3. PICK i \in T : \A j \in T : i <= j
    <3> HIDE DEF T
    <3> QED BY <2>1, <2>2, Least
  <2>4. i \in 0 .. n /\ ~ Ok(i)
    OBVIOUS
  <2>5. ASSUME NEW j \in 0 .. n, j < i PROVE Ok(j)
    <3> HIDE DEF Ok
    <3>1. ~ (i <= j)
      BY <1>3, <2>4, <2>5
    <3> QED BY <2>3, <3>1
  <2> HIDE DEF K
  <2>6. CASE i = 0
    <3>1. Placed(f, K, 1, 1 - 1, wanted, <<>>)
      BY <1>3, NothingPlaced
    <3> QED BY <1>2, <2>4, <2>6, <3>1
  <2>7. CASE i # 0 /\ i \in spans
    <3>1. /\ i \in 1 .. n /\ i - 1 \in 0 .. n /\ i - 1 < i /\ i - 1 \in Nat /\ i \in Nat
          /\ 1 <= (i - 1) + 1 /\ i - 1 <= i
      BY <1>3, <2>4, <2>7
    <3>2. Placed(f, K, 1, i - 1, wanted, c[i - 1])
      BY <2>5, <3>1
    <3>3. Spares(K, (i - 1) + 1, i)
      <4>1. \A j \in (i - 1) + 1 .. i : j = i
        BY <3>1
      <4> QED BY <1>3, <2>7, <4>1 DEF Spares
    <3>4. Placed(f, K, 1, i, wanted, c[i - 1])
      BY <1>3, <3>1, <3>2, <3>3, PlacedPast
    <3> QED BY <1>2, <2>4, <2>7, <3>1, <3>4
  <2>8. CASE i # 0 /\ i \notin spans
    <3> DEFINE s == Start(spans, i)
    <3>1. i \in 1 .. n /\ i \in Nat \ {0}
      BY <1>3, <2>4, <2>8
    <3>2. s \in 1 .. i
      BY <2>8, <3>1, StartIs
    <3>3. c[i] = c[s - 1] \o CopyKept(f, s, i, wanted)
      BY <1>2, <2>8, <3>1
    <3> HIDE DEF s
    <3>4. /\ s \in 1 .. Len(f) /\ i \in s .. Len(f) /\ s - 1 \in 0 .. n /\ s - 1 < i
          /\ s - 1 \in Nat /\ 1 <= (s - 1) + 1 /\ s - 1 <= i /\ (s - 1) + 1 = s
      BY <1>3, <3>1, <3>2
    <3>5. Placed(f, K, s, i, wanted, CopyKept(f, s, i, wanted))
      BY <1>3, <3>4, CopyPlaces
    <3>6. Placed(f, K, 1, s - 1, wanted, c[s - 1])
      BY <2>5, <3>4
    <3>7. Placed(f, K, 1, i, wanted, c[s - 1] \o CopyKept(f, s, i, wanted))
      BY <1>3, <3>1, <3>4, <3>5, <3>6, PlacedJoin
    <3> QED BY <2>4, <3>3, <3>7
  <2> QED BY <2>6, <2>7, <2>8
<1>5. n \in 0 .. n
  BY <1>3
<1>6. Ok(n)
  <2> HIDE DEF Ok
  <2> QED BY <1>4, <1>5
<1> QED BY <1>1, <1>6

(* What tidy keeps.                                                        *)
Shown(g) == {i \in DOMAIN g : g[i] # Blank}
TidyAt(g) ==
  {i \in DOMAIN g :
     \/ i \in Shown(g)
     \/ /\ \E j \in Shown(g) : j < i
        /\ \E j \in Shown(g) : j > i
        /\ g[i - 1] # Blank}

LEMMA TidyPicks ==
  ASSUME NEW g \in Seq(Items)
  PROVE  /\ Tidy(g) \in Seq(Items)
         /\ \E e : Ascends(g, TidyAt(g), Len(g), Tidy(g), e)
<1>1. Tidy(g) = Pick(g, TidyAt(g))
  BY Zenon DEF Tidy, TidyAt, Shown
<1> QED BY <1>1, PickAscends

(* Only blank lines leave, so every comment stays above its line.          *)
LEMMA TidyPlaces ==
  ASSUME NEW f \in Seq(Items), NEW K, K \subseteq UserAt(f),
         NEW wanted, Wanted(f, wanted),
         NEW g, Placed(f, K, 1, Len(f), wanted, g)
  PROVE  Placed(f, K, 1, Len(f), wanted, Tidy(g))
<1>1. PICK o : Traced(f, K, 1, Len(f), g, o) /\ Reasoned(f, wanted, g, o)
  BY DEF Placed
<1>2. g \in Seq(Items) /\ DOMAIN g = 1 .. Len(g) /\ Len(g) \in Nat /\ Len(f) \in Nat
  BY <1>1 DEF Traced
<1> DEFINE h == Tidy(g)
<1>3. h \in Seq(Items) /\ \E e : Ascends(g, TidyAt(g), Len(g), h, e)
  BY <1>2, TidyPicks
<1>4. PICK e : Ascends(g, TidyAt(g), Len(g), h, e)
  BY <1>3
<1> HIDE DEF h
<1> DEFINE n == Len(h)
<1>5. n \in Nat
  BY <1>3
<1> HIDE DEF n
<1>6. /\ \A k \in 1 .. n : e[k] \in 1 .. Len(g) /\ h[k] = g[e[k]]
      /\ \A j, k \in 1 .. n : j < k => e[j] < e[k]
      /\ \A i \in 1 .. Len(g) : g[i] # Blank => \E k \in 1 .. n : e[k] = i
  <2>1. \A i \in 1 .. Len(g) : g[i] # Blank => i \in TidyAt(g)
    BY <1>2 DEF TidyAt, Shown
  <2> QED BY <1>4, <2>1 DEF Ascends, n
<1> DEFINE r == [k \in 1 .. n |-> o[e[k]]]
<1>7. r \in [1 .. n -> Nat] /\ \A k \in 1 .. n : r[k] = o[e[k]]
  BY <1>1, <1>6 DEF Traced
<1> HIDE DEF r
<1>8. Blank.kind = "blank"
  BY DEF Blank, Item, Indented
<1>9. Traced(f, K, 1, Len(f), h, r)
  <2>1. ASSUME NEW k \in 1 .. n
        PROVE  IF r[k] = 0 THEN h[k].kind = "marker" ELSE r[k] \in 1 .. Len(f) /\ h[k] = f[r[k]]
    BY <1>1, <1>6, <1>7 DEF Traced
  <2>2. ASSUME NEW j \in 1 .. n, NEW k \in 1 .. n, j < k, r[j] # 0, r[k] # 0
        PROVE  r[j] < r[k]
    <3>1. e[j] < e[k] /\ e[j] \in 1 .. Len(g) /\ e[k] \in 1 .. Len(g)
      BY <1>6, <2>2
    <3> QED BY <1>1, <1>7, <2>2, <3>1 DEF Traced
  <2>3. ASSUME NEW i \in 1 .. Len(f), i \in K PROVE \E k \in 1 .. n : r[k] = i
    <3>1. PICK m \in 1 .. Len(g) : o[m] = i
      BY <1>1, <2>3 DEF Traced
    <3>2. g[m] = f[i]
      BY <1>1, <3>1 DEF Traced
    <3>3. g[m] # Blank
      BY <1>8, <2>3, <3>2 DEF UserAt, OfUser
    <3>4. PICK k \in 1 .. n : e[k] = m
      BY <1>6, <3>3
    <3> QED BY <1>7, <3>1, <3>4
  <2> QED BY <1>3, <1>7, <2>1, <2>2, <2>3 DEF Traced, n
<1>10. Reasoned(f, wanted, h, r)
  <2> SUFFICES ASSUME NEW k \in 1 .. n, r[k] # 0, wanted[r[k]] # <<>>
               PROVE  HasAbove(f, wanted, r[k], h, k - 1)
    BY DEF Reasoned, n
  <2> DEFINE i == r[k]
  <2>1. i \in 1 .. Len(f) /\ i = o[e[k]] /\ e[k] \in 1 .. Len(g)
    BY <1>1, <1>6, <1>7 DEF Traced
  <2> HIDE DEF i
  <2>21. HasAbove(f, wanted, i, g, e[k] - 1)
    BY <1>1, <2>1 DEF Reasoned, i
  <2>22. PICK top \in Tops(f, wanted, i) : Ends(g, 1, e[k] - 1, Last(wanted[top]))
    BY <2>21 DEF HasAbove
  <2> DEFINE b == wanted[top]
             x == Last(b)
  <2>2. Ends(g, 1, e[k] - 1, x)
    BY <2>22
  <2>3. b \in Seq(Markers) /\ b # <<>>
    <3>1. top \in 1 .. Len(f) /\ wanted[top] # <<>>
      BY <1>2, <2>1 DEF Tops
    <3> QED BY <3>1 DEF Wanted
  <2>4. x.kind = "marker"
    <3>1. x = b[Len(b)]
      BY DEF Last
    <3> HIDE DEF b, x
    <3>2. x \in Markers
      BY <2>3, <3>1
    <3> QED BY <3>2 DEF Markers
  <2> HIDE DEF x, b
  <2>5. PICK m \in 1 .. e[k] - 1 :
          Says(g[m], x) /\ \A l \in m + 1 .. e[k] - 1 : g[l].kind \in {"ann", "blank"}
    BY <2>2 DEF Ends
  <2>6. m \in 1 .. Len(g) /\ m < e[k] /\ m \in Nat
    BY <1>2, <2>1
  <2>7. PICK j \in 1 .. n : e[j] = m
    BY <1>6, <1>8, <2>4, <2>5, <2>6 DEF Says
  <2>8. j < k
    <3>1. j # k /\ ~ (k < j)
      BY <1>6, <2>1, <2>6, <2>7
    <3> QED BY <1>5, <3>1
  <2>9. j \in 1 .. k - 1
    BY <1>5, <2>8
  <2>10. Says(h[j], x)
    BY <1>6, <2>5, <2>7
  <2>11. ASSUME NEW l \in j + 1 .. k - 1 PROVE h[l].kind \in {"ann", "blank"}
    <3>1. l \in 1 .. n /\ j < l /\ l < k
      BY <1>5, <2>9
    <3>2. e[j] < e[l] /\ e[l] < e[k] /\ e[l] \in 1 .. Len(g) /\ h[l] = g[e[l]]
      BY <1>6, <3>1
    <3>3. e[l] \in m + 1 .. e[k] - 1
      BY <1>2, <2>1, <2>6, <2>7, <3>2
    <3> QED BY <2>5, <3>2, <3>3
  <2>12. Ends(h, 1, k - 1, x)
    BY <2>9, <2>10, <2>11 DEF Ends
  <2> QED BY <2>12, <2>22 DEF HasAbove, i, b, x
<1> QED BY <1>9, <1>10 DEF Placed, h

IsTidy(g) ==
  \A i \in DOMAIN g : g[i] = Blank => i \notin {1, Len(g)} /\ g[i - 1] # Blank

LEMMA TidyIsTidy ==
  ASSUME NEW g \in Seq(Items)
  PROVE  IsTidy(Tidy(g))
<1> DEFINE h == Tidy(g)
<1>1. /\ DOMAIN g = 1 .. Len(g) /\ Len(g) \in Nat
      /\ h \in Seq(Items) /\ \E e : Ascends(g, TidyAt(g), Len(g), h, e)
  BY TidyPicks
<1>2. PICK e : Ascends(g, TidyAt(g), Len(g), h, e)
  BY <1>1
<1> HIDE DEF h
<1>3. DOMAIN h = 1 .. Len(h) /\ Len(h) \in Nat
  BY <1>1
<1>4. /\ \A k \in 1 .. Len(h) : e[k] \in 1 .. Len(g) /\ e[k] \in TidyAt(g) /\ h[k] = g[e[k]]
      /\ \A j, k \in 1 .. Len(h) : j < k => e[j] < e[k]
      /\ \A i \in Shown(g) : i \in 1 .. Len(g) /\ \E k \in 1 .. Len(h) : e[k] = i
  <2>1. \A i \in Shown(g) : i \in TidyAt(g) /\ i \in 1 .. Len(g)
    BY <1>1 DEF TidyAt, Shown
  <2> QED BY <1>2, <2>1 DEF Ascends
<1> SUFFICES ASSUME NEW i \in 1 .. Len(h), h[i] = Blank
             PROVE  i \notin {1, Len(h)} /\ h[i - 1] # Blank
  BY <1>3 DEF IsTidy, h
<1>5. e[i] \in 1 .. Len(g) /\ e[i] \in TidyAt(g) /\ e[i] \notin Shown(g)
  BY <1>4 DEF Shown
<1>6. PICK a \in Shown(g) : a < e[i]
  BY <1>5 DEF TidyAt
<1>7. PICK b \in Shown(g) : b > e[i]
  BY <1>5 DEF TidyAt
<1>8. g[e[i] - 1] # Blank
  BY <1>5 DEF TidyAt
<1>9. PICK j \in 1 .. Len(h) : e[j] = a
  BY <1>4
<1>10. PICK k \in 1 .. Len(h) : e[k] = b
  BY <1>4
<1>11. j < i /\ i < k
  <2>1. j # i /\ ~ (i < j) /\ k # i /\ ~ (k < i)
    BY <1>1, <1>4, <1>5, <1>6, <1>7, <1>9, <1>10
  <2> QED BY <1>3, <2>1
<1>12. i \notin {1, Len(h)} /\ i - 1 \in 1 .. Len(h) /\ i - 1 < i
  <2>1. Len(h) \in Nat /\ i \in 1 .. Len(h) /\ j \in 1 .. Len(h) /\ k \in 1 .. Len(h)
    BY <1>3
  <2>2. i # 1 /\ i # Len(h)
    BY <1>11, <2>1
  <2>3. i - 1 \in 1 .. Len(h) /\ i - 1 < i
    BY <2>1, <2>2
  <2> QED BY <2>2, <2>3
<1>13. a \in 1 .. Len(g)
  BY <1>4
<1>14. e[i] - 1 \in Shown(g)
  <2>1. e[i] - 1 \in 1 .. Len(g)
    BY <1>1, <1>5, <1>6, <1>13
  <2> QED BY <1>1, <1>8, <2>1 DEF Shown
<1>15. PICK l \in 1 .. Len(h) : e[l] = e[i] - 1
  BY <1>4, <1>14
<1>16. l = i - 1
  <2>1. l # i /\ ~ (i < l)
    BY <1>1, <1>4, <1>5, <1>15
  <2>2. ~ (l < i - 1)
    <3> SUFFICES ASSUME l < i - 1 PROVE FALSE
      OBVIOUS
    <3>1. e[l] < e[i - 1] /\ e[i - 1] < e[i] /\ e[i - 1] \in 1 .. Len(g)
      BY <1>4, <1>12
    <3> QED BY <1>5, <1>15, <3>1
  <2> QED BY <1>3, <2>1, <2>2
<1>17. h[i - 1] # Blank
  BY <1>4, <1>8, <1>12, <1>15, <1>16
<1> QED BY <1>12, <1>17

-----------------------------------------------------------------------------
(* What a retained declaration is blamed with.                             *)
LEMMA FirstIsNoBody ==
  ASSUME NEW f, WellFormed(f), NEW d \in Declarations(f), NEW how
  PROVE  /\ First(f, d, how) \in Lines(f, d)
         /\ f[First(f, d, how)].kind # "body"
         /\ Keyword(f, d) \in Lines(f, d) /\ f[Keyword(f, d)].kind = "head"
         /\ \A i \in Lines(f, d) : f[i].kind = "head" => i = Keyword(f, d)
<1>1. DOMAIN f = 1 .. Len(f) /\ Len(f) \in Nat
  BY DEF WellFormed
<1> DEFINE L == Lines(f, d)
           m == Min(L)
           w == Keyword(f, d)
<1>2. PICK i \in L : /\ f[i].kind = "head"
                     /\ \A j \in L \ {i} : f[j].kind = IF j < i THEN "ann" ELSE "body"
  BY DEF WellFormed
<1>3. L \subseteq Nat
  BY <1>1 DEF Lines
<1>4. w = CHOOSE k \in L : f[k].kind = "head"
  BY DEF Keyword
<1> HIDE DEF L, w
<1>5. w \in L /\ f[w].kind = "head"
  BY <1>2, <1>4
<1>6. \A j \in L : f[j].kind = "head" => j = i
  BY <1>2
<1>7. m \in L /\ m <= i
  BY <1>2, <1>3, MinIs
<1> HIDE DEF m
<1>8. f[m].kind # "body"
  <2>1. CASE m = i
    BY <1>2, <2>1
  <2>2. CASE m # i
    <3>1. m < i
      BY <1>2, <1>3, <1>7, <2>2
    <3> QED BY <1>2, <1>7, <2>2, <3>1
  <2> QED BY <2>1, <2>2
<1>9. First(f, d, how) \in {w, m}
  BY DEF First, w, m, L
<1> QED BY <1>5, <1>6, <1>7, <1>8, <1>9 DEF L, w

BlamedBy(f, b, d, said, how) ==
  LET first == First(f, d, how)
  IN  /\ said.at # None => b[first] = <<Indented("marker", said.at, Column(f[first]))>>
      /\ said.inside # None =>
           \A i \in Lines(f, d) : f[i].kind = "body" =>
              b[i] = <<Indented("marker", said.inside, Column(f[i]))>>

LEMMA BlockerIs ==
  ASSUME NEW f, WellFormed(f), NEW v, NEW how, NEW stale, StaleOnes(f, stale),
         NEW d \in Declarations(f), v[d] # Java
  PROVE  BlamedBy(f, Blockers(f, v, how, stale), d, v[d], how[d])
<1> DEFINE first == First(f, d, how[d])
           b == Blockers(f, v, how, stale)
           at(i) == <<Indented("marker", v[d].at, Column(f[i]))>>
           inside(i) == <<Indented("marker", v[d].inside, Column(f[i]))>>
<1>1. /\ first \in Lines(f, d) /\ f[first].kind # "body"
  BY FirstIsNoBody
<1>2. \A r : (<<>> \o <<r>>) \o <<>> = <<r>> /\ (<<r>> \o <<>>) \o <<>> = <<r>>
  OBVIOUS
<1>3. ASSUME NEW i \in Lines(f, d)
      PROVE  b[i] = (IF v[d].at # None /\ i = first THEN at(i) ELSE <<>>)
                    \o (IF v[d].inside # None /\ f[i].kind = "body"
                        THEN inside(i) ELSE <<>>)
                    \o <<>>
  <2>1. i \in DOMAIN f /\ f[i].kind \in Code /\ f[i].of = d
    BY DEF Lines
  <2>2. i \notin stale
    BY <2>1 DEF StaleOnes, Code
  <2>3. b[i] =
          LET e == f[i].of
              own == f[i].kind \in Code /\ v[e] # Java
              says(reason) == <<Indented("marker", reason, Column(f[i]))>>
          IN (IF own /\ v[e].at # None /\ i = First(f, e, how[e])
              THEN says(v[e].at) ELSE <<>>)
             \o (IF own /\ v[e].inside # None /\ f[i].kind = "body"
                 THEN says(v[e].inside) ELSE <<>>)
             \o (IF i \in stale /\ ~InsideGeneratedKdoc(f, i)
                 THEN says("stale") ELSE <<>>)
    BY <2>1 DEF Blockers
  <2> HIDE DEF b
  <2> QED BY <2>1, <2>2, <2>3, Zenon
<1> HIDE DEF b, first
<1>4. v[d].at # None => b[first] = at(first)
  BY <1>1, <1>2, <1>3
<1>5. v[d].inside # None =>
        \A i \in Lines(f, d) : f[i].kind = "body" => b[i] = inside(i)
  BY <1>1, <1>2, <1>3
<1> QED BY <1>4, <1>5 DEF b, first, BlamedBy

(* A comment is wanted above a first line, a line of a body or, where a    *)
(* stray diagnostic points at it, a comment.                               *)
Astray(f, stale, i) == f[i].kind = "marker" /\ i \in stale /\ ~InsideGeneratedKdoc(f, i)

LEMMA BlockedLine ==
  ASSUME NEW f \in Seq(Items), NEW v, NEW how, NEW stale, StaleOnes(f, stale),
         NEW i \in DOMAIN f, Blockers(f, v, how, stale)[i] # <<>>
  PROVE  \/ /\ f[i].kind \in Code /\ v[f[i].of] # Java
            /\ i = First(f, f[i].of, how[f[i].of]) \/ f[i].kind = "body"
         \/ /\ Astray(f, stale, i)
            /\ Blockers(f, v, how, stale)[i] = <<Indented("marker", "stale", Column(f[i]))>>
<1> DEFINE d == f[i].of
           own == f[i].kind \in Code /\ v[d] # Java
           first == i = First(f, d, how[d])
           n == Column(f[i])
           a == IF own /\ v[d].at # None /\ first
                THEN <<Indented("marker", v[d].at, n)>> ELSE <<>>
           b == IF own /\ v[d].inside # None /\ f[i].kind = "body"
                THEN <<Indented("marker", v[d].inside, n)>> ELSE <<>>
           c == IF i \in stale /\ ~InsideGeneratedKdoc(f, i)
                THEN <<Indented("marker", "stale", n)>> ELSE <<>>
<1>1. Blockers(f, v, how, stale)[i] = a \o b \o c
  BY DEF Blockers
<1>2. /\ c # <<>> => Astray(f, stale, i) /\ c = <<Indented("marker", "stale", n)>>
  BY DEF StaleOnes, Astray
<1>3. a # <<>> => own /\ first
  OBVIOUS
<1>4. b # <<>> => own /\ f[i].kind = "body"
  OBVIOUS
<1>5. Astray(f, stale, i) => ~ own
  BY DEF Astray, Code
<1> DEFINE marked == <<Indented("marker", "stale", n)>>
<1> HIDE DEF a, b, c, own, n
<1>6. <<>> \o <<>> \o <<>> = <<>> /\ <<>> \o <<>> \o marked = marked
  OBVIOUS
<1>7. a # <<>> \/ b # <<>> \/ c # <<>>
  BY <1>1, <1>6
<1>8. CASE a # <<>> \/ b # <<>>
  BY <1>3, <1>4, <1>8 DEF own
<1>9. CASE a = <<>> /\ b = <<>>
  <2>1. Blockers(f, v, how, stale)[i] = marked /\ Astray(f, stale, i)
    BY <1>1, <1>2, <1>6, <1>7, <1>9
  <2> QED BY <2>1 DEF n
<1> QED BY <1>8, <1>9

(* Two lines with a comment each have more than annotations between them.  *)
Apart(f, wanted) ==
  \A i, j \in 1 .. Len(f) :
     i < j /\ wanted[i] # <<>> /\ wanted[j] # <<>> /\ f[j].kind # "marker" =>
        \E k \in i .. j - 1 : f[k].kind \notin {"ann", "blank"}

(* Two blamed lines are never parted by annotations alone: what a comment  *)
(* goes above is the first line of a declaration, or a line of its body.   *)
LEMMA BlockersApart ==
  ASSUME NEW f, WellFormed(f), NEW v, NEW how, NEW stale, StaleOnes(f, stale)
  PROVE  Apart(f, Blockers(f, v, how, stale))
<1> DEFINE b == Blockers(f, v, how, stale)
<1>1. f \in Seq(Items) /\ DOMAIN f = 1 .. Len(f) /\ Len(f) \in Nat
  BY DEF WellFormed
<1> SUFFICES ASSUME NEW i \in 1 .. Len(f), NEW j \in 1 .. Len(f), i < j, b[i] # <<>>, b[j] # <<>>,
                    f[j].kind # "marker"
             PROVE  \E k \in i .. j - 1 : f[k].kind \notin {"ann", "blank"}
  BY DEF Apart
<1> DEFINE d == f[i].of
           e == f[j].of
           w == Keyword(f, d)
<1>2. /\ \/ f[i].kind = "marker"
         \/ f[i].kind \in Code /\ (i = First(f, d, how[d]) \/ f[i].kind = "body")
      /\ f[j].kind \in Code
      /\ j = First(f, e, how[e]) \/ f[j].kind = "body"
  BY <1>1, BlockedLine DEF Astray
<1> HIDE DEF b
<1>6. CASE f[i].kind # "ann"
  <2>1. f[i].kind \notin {"ann", "blank"} /\ i \in i .. j - 1
    BY <1>2, <1>6 DEF Code
  <2> QED BY <2>1
<1>7. CASE f[i].kind = "ann"
  <2>3. d \in Declarations(f) /\ i \in Lines(f, d) /\ j \in Lines(f, e)
    BY <1>1, <1>2, <1>7 DEF Declarations, Lines, Code
  <2>4. PICK m \in Lines(f, d) :
          /\ f[m].kind = "head"
          /\ \A k \in Lines(f, d) \ {m} : f[k].kind = IF k < m THEN "ann" ELSE "body"
    BY <2>3 DEF WellFormed
  <2>5. m \in 1 .. Len(f) /\ f[m].kind \in Code /\ f[m].of = d
    BY <1>1, <2>4 DEF Lines
  <2>6. i < m /\ i = First(f, d, how[d])
    <3>1. i # m /\ f[i].kind # "body"
      BY <1>7, <2>4
    <3>2. f[i].kind = IF i < m THEN "ann" ELSE "body"
      BY <2>3, <2>4, <3>1
    <3> QED BY <1>2, <1>7, <3>1, <3>2
  <2>7. CASE m < j
    <3>1. m \in i .. j - 1
      BY <2>5, <2>6, <2>7
    <3> QED BY <2>4, <3>1
  <2>8. CASE ~ (m < j)
    <3>1. j \in Lines(f, d) => FALSE
      <4> SUFFICES ASSUME j \in Lines(f, d) PROVE FALSE
        OBVIOUS
      <4>1. e = d
        BY DEF Lines
      <4>2. j # First(f, e, how[e])
        BY <2>6, <4>1
      <4>3. f[j].kind = "body"
        BY <1>2, <4>2
      <4>4. j # m /\ j < m
        BY <2>4, <2>5, <2>8, <4>3
      <4>5. f[j].kind = IF j < m THEN "ann" ELSE "body"
        BY <2>4, <4>4
      <4> QED BY <4>3, <4>4, <4>5
    <3>2. j # m
      BY <2>4, <3>1
    <3>3. j < m
      BY <2>5, <2>8, <3>2
    <3>4. f[j].kind \in Generated \cup {"blank"}
      BY <1>1, <1>2, <1>7, <2>4, <2>5, <3>1, <3>3 DEF WellFormed, Code
    <3> QED BY <1>2, <3>4 DEF Generated, Code
  <2> QED BY <2>7, <2>8
<1> QED BY <1>6, <1>7

(* Whose comment a blamed line of a declaration has above it: its own, or  *)
(* that of a comment between its annotations and its keyword.              *)
LEMMA TopIs ==
  ASSUME NEW f, WellFormed(f), NEW v, NEW how, NEW stale, StaleOnes(f, stale),
         NEW i \in DOMAIN f, f[i].kind \in Code,
         Blockers(f, v, how, stale)[i] # <<>>,
         NEW j \in Tops(f, Blockers(f, v, how, stale), i)
  PROVE  \/ j = i
         \/ /\ f[i].kind = "ann" /\ Astray(f, stale, j)
            /\ Blockers(f, v, how, stale)[j] = <<Indented("marker", "stale", Column(f[j]))>>
<1> DEFINE b == Blockers(f, v, how, stale)
<1>1. f \in Seq(Items) /\ DOMAIN f = 1 .. Len(f) /\ Len(f) \in Nat
  BY DEF WellFormed
<1>2. j \in i .. Len(f) /\ b[j] # <<>> /\ \A k \in i .. j - 1 : f[k].kind \in {"ann", "blank"}
  BY DEF Tops
<1>3. j \in 1 .. Len(f) /\ (j # i => i < j /\ i \in i .. j - 1)
  BY <1>1, <1>2
<1> SUFFICES ASSUME j # i
             PROVE  /\ f[i].kind = "ann" /\ Astray(f, stale, j)
                    /\ b[j] = <<Indented("marker", "stale", Column(f[j]))>>
  OBVIOUS
<1>4. f[i].kind = "ann"
  BY <1>2, <1>3 DEF Code
<1>5. f[j].kind = "marker"
  BY <1>1, <1>2, <1>3, BlockersApart DEF Apart
<1>6. Astray(f, stale, j) /\ b[j] = <<Indented("marker", "stale", Column(f[j]))>>
  BY <1>1, <1>2, <1>3, <1>5, BlockedLine DEF Code
<1> QED BY <1>4, <1>6

LEMMA EndsReads ==
  ASSUME NEW g \in Seq(Items), NEW i \in 1 .. Len(g), NEW r, NEW n,
         Ends(g, 1, i - 1, Indented("marker", r, n))
  PROVE  Reads(g, i, r)
<1>1. i \in Nat
  OBVIOUS
<1>2. PICK m \in 1 .. i - 1 :
        /\ Says(g[m], Indented("marker", r, n))
        /\ \A l \in m + 1 .. i - 1 : g[l].kind \in {"ann", "blank"}
  BY DEF Ends
<1>3. g[m].kind = "marker" /\ g[m].of = r /\ g[m].kind \in Generated
  BY <1>2 DEF Says, Indented, Generated
<1>4. m \in Above(g, i)
  BY <1>2, <1>3 DEF Above
<1>5. Above(g, i) \subseteq 0 .. i
  BY <1>1 DEF Above
<1>6. Max(Above(g, i)) \in Above(g, i) /\ m <= Max(Above(g, i))
  BY <1>1, <1>4, <1>5, MaxIs
<1> DEFINE u == Max(Above(g, i))
<1>7. u \in 1 .. i - 1 /\ g[u].kind \in Generated /\ m <= u
  BY <1>6 DEF Above
<1> HIDE DEF u
<1>8. u = m
  <2> SUFFICES ASSUME u # m PROVE FALSE
    OBVIOUS
  <2>1. u \in m + 1 .. i - 1
    BY <1>1, <1>7
  <2> QED BY <1>2, <1>7, <2>1 DEF Generated
<1> QED BY <1>3, <1>4, <1>8 DEF Reads, u

(* The lines of declaration d of g come from its lines in f, and its first *)
(* line from the first.                                                    *)
CameFrom(f, g, d, how, o) ==
  /\ \A k \in Lines(g, d) :
        k \in 1 .. Len(g) /\ o[k] # 0 /\ o[k] \in Lines(f, d) /\ g[k] = f[o[k]]
  /\ o[First(g, d, how)] = First(f, d, how)

LEMMA LinesTraced ==
  ASSUME NEW f, WellFormed(f), NEW g, WellFormed(g),
         NEW d \in Declarations(g), NEW how,
         NEW K, NEW o, Traced(f, K, 1, Len(f), g, o)
  PROVE  /\ d \in Declarations(f)
         /\ (\A i \in Lines(f, d) : i \in K) => CameFrom(f, g, d, how, o)
<1>2. /\ f \in Seq(Items) /\ DOMAIN f = 1 .. Len(f) /\ Len(f) \in Nat
      /\ g \in Seq(Items) /\ DOMAIN g = 1 .. Len(g) /\ Len(g) \in Nat
  BY DEF WellFormed
<1>3. ASSUME NEW k \in Lines(g, d)
      PROVE  /\ k \in 1 .. Len(g) /\ o[k] # 0 /\ o[k] \in Lines(f, d) /\ g[k] = f[o[k]]
  <2>1. k \in 1 .. Len(g) /\ g[k].kind \in Code /\ g[k].of = d
    BY <1>2 DEF Lines
  <2>2. o[k] # 0
    BY <2>1 DEF Traced, Code
  <2>3. o[k] \in 1 .. Len(f) /\ g[k] = f[o[k]]
    BY <2>1, <2>2 DEF Traced
  <2> QED BY <1>2, <2>1, <2>2, <2>3 DEF Lines
<1>4. d \in Declarations(f)
  <2>1. PICK k \in Lines(g, d) : TRUE
    BY DEF Declarations, Lines
  <2>2. o[k] \in Lines(f, d)
    BY <1>3
  <2> QED BY <2>2 DEF Declarations, Lines
<1> SUFFICES ASSUME \A i \in Lines(f, d) : i \in K
             PROVE  CameFrom(f, g, d, how, o)
  BY <1>4
<1>5. \A i \in Lines(f, d) : i \in K /\ i \in 1 .. Len(f)
  BY <1>2 DEF Lines
<1>6. ASSUME NEW i \in Lines(f, d) PROVE \E k \in Lines(g, d) : o[k] = i
  <2>1. PICK k \in 1 .. Len(g) : o[k] = i
    BY <1>5 DEF Traced
  <2>2. g[k] = f[i]
    BY <1>5, <2>1 DEF Traced
  <2>3. f[i].kind \in Code /\ f[i].of = d
    BY DEF Lines
  <2>4. k \in Lines(g, d)
    BY <1>2, <2>1, <2>2, <2>3 DEF Lines
  <2> QED BY <2>1, <2>4
<1> DEFINE first == First(f, d, how)
           top == First(g, d, how)
<1>8. /\ top \in Lines(g, d) /\ first \in Lines(f, d)
      /\ g[Keyword(g, d)].kind = "head" /\ Keyword(g, d) \in Lines(g, d)
      /\ \A i \in Lines(f, d) : f[i].kind = "head" => i = Keyword(f, d)
  BY <1>4, FirstIsNoBody
<1>9. o[top] = first
  <2>1. CASE how = "separate"
    <3>1. top = Keyword(g, d) /\ first = Keyword(f, d)
      BY <2>1 DEF First
    <3>2. o[top] \in Lines(f, d) /\ f[o[top]].kind = "head"
      BY <1>3, <1>8, <3>1
    <3> QED BY <1>8, <3>1, <3>2
  <2>2. CASE how # "separate"
    <3> DEFINE L == Lines(f, d)
               M == Lines(g, d)
    <3>1. top = Min(M) /\ first = Min(L)
      BY <2>2 DEF First
    <3>2. L \subseteq Nat /\ M \subseteq Nat /\ L # {} /\ M # {}
      BY <1>2, <1>8 DEF Lines
    <3> HIDE DEF L, M, top, first
    <3>3. first \in L /\ (\A i \in L : first <= i) /\ top \in M /\ \A k \in M : top <= k
      BY <3>1, <3>2, MinIs
    <3>4. PICK k \in M : o[k] = first
      BY <1>6, <3>3 DEF L, M
    <3>5. top <= k /\ first <= o[top] /\ o[top] \in Nat /\ top \in Nat /\ k \in Nat /\ first \in Nat
      BY <1>3, <3>2, <3>3 DEF L, M
    <3>6. ~ (top < k)
      <4> SUFFICES ASSUME top < k PROVE FALSE
        OBVIOUS
      <4>1. top \in 1 .. Len(g) /\ k \in 1 .. Len(g) /\ o[top] # 0 /\ o[k] # 0
        BY <1>3, <3>3 DEF M
      <4>2. o[top] < o[k]
        BY <4>1 DEF Traced
      <4> QED BY <3>4, <3>5, <4>2
    <3>7. top = k
      BY <3>5, <3>6
    <3> QED BY <3>4, <3>7
  <2> QED BY <2>1, <2>2
<1> QED BY <1>3, <1>9 DEF CameFrom

(* In a file where every blamed line has its comment, the declarations     *)
(* that stay read as this run blamed them, but for strays.                 *)
Stray(f, stale) == \E j \in stale : j \in DOMAIN f /\ Astray(f, stale, j)

AsBlamed(g, d, said, how, astray) ==
  /\ said.at # None =>
       LET first == First(g, d, how)
       IN \/ Reads(g, first, said.at)
          \/ astray /\ g[first].kind = "ann" /\ Reads(g, first, "stale")
  /\ said.inside # None =>
       \A i \in Lines(g, d) : g[i].kind = "body" => Reads(g, i, said.inside)

LEMMA PlacedReads ==
  ASSUME NEW f, WellFormed(f), NEW v, NEW how, NEW stale, StaleOnes(f, stale),
         NEW g, WellFormed(g),
         Placed(f, KeptAt(f, v), 1, Len(f), Blockers(f, v, how, stale), g),
         NEW d \in Declarations(g)
  PROVE  /\ d \in Declarations(f)
         /\ v[d] # Java => AsBlamed(g, d, v[d], how[d], Stray(f, stale))
<1> DEFINE b == Blockers(f, v, how, stale)
           K == KeptAt(f, v)
<1>1. PICK o : Traced(f, K, 1, Len(f), g, o) /\ Reasoned(f, b, g, o)
  BY DEF Placed
<1>2. /\ f \in Seq(Items) /\ DOMAIN f = 1 .. Len(f) /\ Len(f) \in Nat
      /\ g \in Seq(Items) /\ DOMAIN g = 1 .. Len(g) /\ Len(g) \in Nat
  BY DEF WellFormed
<1> DEFINE seen == how[d]
           first == First(f, d, seen)
           top == First(g, d, seen)
<1>3. Traced(f, K, 1, Len(f), g, o)
  BY <1>1
<1> HIDE DEF K, seen
<1>4. /\ d \in Declarations(f)
      /\ (\A i \in Lines(f, d) : i \in K) => CameFrom(f, g, d, seen, o)
  BY <1>3, LinesTraced
<1> SUFFICES ASSUME v[d] # Java
             PROVE  AsBlamed(g, d, v[d], how[d], Stray(f, stale))
  BY <1>4
<1>5. \A i \in Lines(f, d) : i \in K
  BY DEF Lines, K, KeptAt, UserAt, OfUser, Code, Generated
<1>6. /\ \A k \in Lines(g, d) :
            k \in 1 .. Len(g) /\ o[k] # 0 /\ o[k] \in Lines(f, d) /\ g[k] = f[o[k]]
      /\ o[top] = first
  BY <1>4, <1>5 DEF CameFrom
<1>7. ASSUME NEW k \in Lines(g, d), NEW r, NEW n, b[o[k]] = <<Indented("marker", r, n)>>
      PROVE  \/ Reads(g, k, r)
             \/ Stray(f, stale) /\ g[k].kind = "ann" /\ Reads(g, k, "stale")
  <2> DEFINE i == o[k]
  <2>1. /\ k \in 1 .. Len(g) /\ i # 0 /\ i \in DOMAIN f
        /\ f[i].kind \in Code /\ g[k] = f[i]
    BY <1>6 DEF Lines
  <2>2. \A x : <<x>> # <<>> /\ Len(<<x>>) = 1 /\ <<x>>[1] = x
    OBVIOUS
  <2>3. b[i] # <<>>
    BY <1>7, <2>2
  <2>4. HasAbove(f, b, i, g, k - 1)
    BY <1>1, <2>1, <2>3 DEF Reasoned
  <2> HIDE DEF i
  <2>5. PICK j \in Tops(f, b, i) : Ends(g, 1, k - 1, Last(b[j]))
    BY <2>4 DEF HasAbove
  <2>6. \/ j = i
        \/ /\ f[i].kind = "ann" /\ Astray(f, stale, j)
           /\ b[j] = <<Indented("marker", "stale", Column(f[j]))>>
    BY <2>1, <2>3, TopIs
  <2>61. j \in DOMAIN f
    BY <1>2, <2>1 DEF Tops
  <2> HIDE DEF b
  <2>7. CASE j = i
    <3>1. Last(b[j]) = Indented("marker", r, n)
      BY <1>7, <2>2, <2>7 DEF Last, i
    <3>2. Ends(g, 1, k - 1, Indented("marker", r, n))
      BY <2>5, <3>1
    <3> QED BY <1>2, <2>1, <3>2, EndsReads
  <2>8. CASE /\ f[i].kind = "ann" /\ Astray(f, stale, j)
             /\ b[j] = <<Indented("marker", "stale", Column(f[j]))>>
    <3> DEFINE m == Column(f[j])
    <3> HIDE DEF m
    <3>1. Last(b[j]) = Indented("marker", "stale", m)
      BY <2>2, <2>8 DEF Last, m
    <3>2. Ends(g, 1, k - 1, Indented("marker", "stale", m))
      BY <2>5, <3>1
    <3>3. Reads(g, k, "stale")
      BY <1>2, <2>1, <3>2, EndsReads
    <3>4. Stray(f, stale)
      BY <2>8, <2>61 DEF Stray, Astray
    <3> QED BY <2>1, <2>8, <3>3, <3>4
  <2> QED BY <2>6, <2>7, <2>8
<1>8. top \in Lines(g, d)
  BY FirstIsNoBody
<1>10. BlamedBy(f, b, d, v[d], seen)
  BY <1>4, BlockerIs DEF seen
<1> HIDE DEF b
<1>11. v[d].at # None =>
         \/ Reads(g, top, v[d].at)
         \/ Stray(f, stale) /\ g[top].kind = "ann" /\ Reads(g, top, "stale")
  <2>1. v[d].at # None => b[first] = <<Indented("marker", v[d].at, Column(f[first]))>>
    BY <1>10 DEF BlamedBy
  <2> HIDE DEF first, top
  <2> QED BY <1>6, <1>7, <1>8, <2>1
<1>12. ASSUME v[d].inside # None, NEW k \in Lines(g, d), g[k].kind = "body"
       PROVE  Reads(g, k, v[d].inside)
  <2>1. o[k] \in Lines(f, d) /\ f[o[k]].kind = "body"
    BY <1>6, <1>12
  <2>2. b[o[k]] = <<Indented("marker", v[d].inside, Column(f[o[k]]))>>
    BY <1>10, <1>12, <2>1 DEF BlamedBy
  <2> QED BY <1>7, <1>12, <2>2
<1> QED BY <1>11, <1>12 DEF top, seen, AsBlamed

(* What a run writes is the file untouched, nothing, or a tidy file with   *)
(* every comment in place.                                                 *)
LEMMA ProposePlaces ==
  ASSUME NEW f, WellFormed(f), NEW v, Said(f, v), NEW how,
         NEW stale, StaleOnes(f, stale)
  PROVE  LET r == Propose(f, v, how, stale, TRUE)
             b == Blockers(f, v, how, stale)
         IN  \/ r = f /\ \A i \in DOMAIN f : b[i] = <<>>
             \/ r = <<>>
             \/ IsTidy(r) /\ Placed(f, KeptAt(f, v), 1, Len(f), b, r)
<1> DEFINE spans == TranslatedSpans(f, v, how)
           b == Blockers(f, v, how, stale)
           copy == StripTranslated(f, spans, b)
           stripped == Tidy(copy)
           untouched == spans = {} /\ \A i \in DOMAIN f : b[i] = <<>>
           r == Propose(f, v, how, stale, TRUE)
<1>1. f \in Seq(Items) /\ DOMAIN f = 1 .. Len(f)
  BY DEF WellFormed
<1>2. Wanted(f, b)
  BY <1>1, BlockersAbove
<1>3. UserAt(f) \ spans = KeptAt(f, v)
  BY SpansAreTranslated
<1>4. r = CASE untouched -> f
            [] ~untouched /\ spans # {} /\ \A d \in Declarations(f) : v[d] = Java -> <<>>
            [] ~untouched /\ spans = {} -> stripped
            [] OTHER -> IF OnlyCommentLines(stripped) THEN <<>> ELSE stripped
  BY DEF Propose
<1>5. r = <<>> \/ r = stripped \/ (r = f /\ untouched)
  <2> HIDE DEF spans, b, stripped, r
  <2> QED BY <1>4
<1> HIDE DEF spans, b, r
<1>6. Placed(f, KeptAt(f, v), 1, Len(f), b, copy)
  BY <1>1, <1>2, <1>3, StripPlaces
<1> HIDE DEF copy
<1>7. KeptAt(f, v) \subseteq UserAt(f)
  BY DEF KeptAt
<1>8. Placed(f, KeptAt(f, v), 1, Len(f), b, stripped)
  BY <1>1, <1>2, <1>6, <1>7, TidyPlaces
<1>9. IsTidy(stripped)
  BY <1>6, PlacedType, TidyIsTidy
<1> HIDE DEF stripped
<1> QED BY <1>5, <1>8, <1>9 DEF b, r

LEMMA RunKeepsMarkers ==
  ASSUME WellFormed(file), TypeOK, Run
  PROVE  MarkersConsistent'
<1>1. PICK stale : /\ StaleOnes(file, stale)
                   /\ Said(file, verdict')
                   /\ strays' = {i \in stale : ~InsideGeneratedKdoc(file, i)}
                   /\ file' = Propose(file, verdict', parse', stale, TRUE)
  BY RunIs
<1> DEFINE b == Blockers(file, verdict', parse', stale)
<1>2. /\ file' \in Seq(Items) /\ WellFormed(file')
  <2>1. /\ file' \in Seq(Items)
        /\ \/ Users(file') = Pick(file, KeptAt(file, verdict'))
           \/ file' = <<>>
    BY <1>1, ProposeKeeps
  <2> QED BY <2>1, KeptWellFormed, EmptyWellFormed
<1>3. /\ runs' \in 0 .. MaxRuns
      /\ DOMAIN verdict' = Declarations(file) /\ DOMAIN parse' = Declarations(file)
      /\ strays' \subseteq Nat
  <2>2. strays' \subseteq Nat
    <3>1. DOMAIN file = 1 .. Len(file) /\ Len(file) \in Nat
      BY DEF WellFormed
    <3>2. strays' \subseteq DOMAIN file
      BY DEF Run
    <3> QED BY <3>1, <3>2
  <2>1. runs \in 0 .. MaxRuns /\ runs < MaxRuns /\ runs' = runs + 1 /\ MaxRuns \in Nat
    BY ReasonsAssumption DEF Run, TypeOK
  <2> QED BY <2>1, <2>2 DEF Run
<1>4. \/ file' = file /\ \A i \in DOMAIN file : b[i] = <<>>
      \/ file' = <<>>
      \/ IsTidy(file') /\ Placed(file, KeptAt(file, verdict'), 1, Len(file), b, file')
  BY <1>1, ProposePlaces
<1> DEFINE Reading(d) ==
             AsBlamed(file', d, verdict'[d], parse'[d], Stray(file, stale))
<1>5. /\ file' \notin Files => IsTidy(file')
      /\ \A d \in Declarations(file') :
            d \in Declarations(file) /\ (verdict'[d] # Java => Reading(d))
  <2>1. CASE file' = file /\ \A i \in DOMAIN file : b[i] = <<>>
    <3>1. file' \notin Files => IsTidy(file')
      BY <2>1 DEF TypeOK, IsTidy
    <3>2. ASSUME NEW d \in Declarations(file), verdict'[d] # Java PROVE Reading(d)
      <4> DEFINE first == First(file, d, parse'[d])
      <4>1. first \in Lines(file, d)
        BY FirstIsNoBody
      <4>2. /\ verdict'[d].at # None => \E x : b[first] = << x >>
            /\ verdict'[d].inside # None =>
                 \A i \in Lines(file, d) : file[i].kind = "body" => \E x : b[i] = << x >>
        <5>1. BlamedBy(file, b, d, verdict'[d], parse'[d])
          BY <1>1, <3>2, BlockerIs
        <5> HIDE DEF b
        <5> QED BY <5>1 DEF BlamedBy
      <4>3. \A x : <<x>> # <<>>
        OBVIOUS
      <4>4. \A i \in Lines(file, d) : b[i] = <<>>
        BY <2>1 DEF Lines
      <4> HIDE DEF b, first
      <4>5. verdict'[d].at = None
        BY <4>1, <4>2, <4>3, <4>4
      <4>6. verdict'[d].inside # None => \A i \in Lines(file, d) : file[i].kind # "body"
        BY <4>2, <4>3, <4>4
      <4> QED BY <2>1, <4>5, <4>6 DEF AsBlamed
    <3> HIDE DEF Reading
    <3> QED BY <2>1, <3>1, <3>2
  <2>2. CASE file' = <<>>
    <3>1. DOMAIN file' = {} /\ Declarations(file') = {}
      BY <2>2 DEF Declarations
    <3> QED BY <3>1 DEF IsTidy
  <2>3. CASE IsTidy(file') /\ Placed(file, KeptAt(file, verdict'), 1, Len(file), b, file')
    <3>1. ASSUME NEW d \in Declarations(file')
          PROVE  d \in Declarations(file) /\ (verdict'[d] # Java => Reading(d))
      BY <1>1, <1>2, <2>3, PlacedReads
    <3> HIDE DEF Reading
    <3> QED BY <2>3, <3>1
  <2> HIDE DEF b, Reading
  <2> QED BY <1>4, <2>1, <2>2, <2>3
<1>51. Stray(file, stale) => strays' # {}
  BY <1>1 DEF Stray, Astray
<1>6. TypeOK'
  BY <1>2, <1>3, <1>5 DEF TypeOK, IsTidy
<1>7. ReasonIsCurrent'
  BY <1>5, <1>51 DEF ReasonIsCurrent, Retained, AsBlamed
<1> QED BY <1>6, <1>7 DEF MarkersConsistent

(* After every run the comment above each line it blamed gives this run's  *)
(* reason, above the first line of every declaration that stays and above  *)
(* the lines of its body, whatever comments of earlier runs copy_kept      *)
(* replaced or tidy moved, and the file is tidy.  The exception is in the  *)
(* property: a stale diagnostic that is not dropped, at a comment between  *)
(* annotations and keyword, takes the place of the reason above them.      *)
THEOREM MarkersStayConsistent == Spec => []MarkersConsistent
<1>1. Init => MarkersConsistent
  <2> SUFFICES ASSUME Init PROVE MarkersConsistent
    OBVIOUS
  <2>1. WellFormed(file) /\ runs = 0 /\ MaxRuns \in Nat
    BY FilesAssumption, ReasonsAssumption DEF Init
  <2>2. TypeOK
    BY <2>1 DEF TypeOK, Init, WellFormed
  <2>3. ReasonIsCurrent
    BY <2>1 DEF ReasonIsCurrent
  <2> QED BY <2>2, <2>3 DEF MarkersConsistent
<1>2. WellFormed(file) /\ MarkersConsistent /\ [Next]_vars => MarkersConsistent'
  <2> SUFFICES ASSUME WellFormed(file), MarkersConsistent, [Next]_vars
               PROVE  MarkersConsistent'
    OBVIOUS
  <2>1. CASE Run
    BY <2>1, RunKeepsMarkers DEF MarkersConsistent
  <2>2. CASE UNCHANGED vars
    BY <2>2 DEF vars, MarkersConsistent, TypeOK, ReasonIsCurrent
  <2> QED BY <2>1, <2>2 DEF Next
<1> QED BY <1>1, <1>2, AlwaysWellFormed, PTL DEF Spec

-----------------------------------------------------------------------------

(***************************************************************************)
(* A run after a run.  A file a run wrote without cutting anything is what *)
(* copy_kept and tidy make of it again.  To be found by the next run, a    *)
(* comment must stand where that run looks: before annotations, or         *)
(* directly above the line with nothing to absorb above it.                *)
(***************************************************************************)
(* The last KDoc of the first n items is one that notlin wrote.            *)
Headed(g, n) ==
  \E b \in 1 .. n : g[b].kind = "marker" /\ \A l \in b + 1 .. n : g[l].kind # "doc"

(* Where absorbing comments stops above a line indented by n: at all but   *)
(* comments of notlin's, at a note indented otherwise, and at a legacy     *)
(* block that a generated KDoc precedes.                                   *)
Solid(g, j, n) ==
  /\ g[j].kind # "marker"
  /\ g[j].kind = "note" => g[j].indent # n
  /\ g[j].kind = "legacy" => Headed(g, j - 1)

(* Of the items lo to hi of g, the comment x is where the next run finds   *)
(* it; above annotations it may have been put behind another indentation.  *)
Stands(g, lo, hi, x) ==
  \/ lo <= hi /\ g[hi] = x /\ (hi = 1 \/ Solid(g, hi - 1, x.indent))
  \/ \E m \in lo .. hi :
        /\ Says(g[m], x)
        /\ \A l \in m + 1 .. hi : g[l].kind \in {"ann", "blank"}
        /\ \E l \in m + 1 .. hi : g[l].kind = "ann"

LEMMA SolidIs ==
  ASSUME NEW g \in Seq(Items), NEW j \in 1 .. Len(g), NEW n
  PROVE  ~ Absorbed(g, 1, j, n) <=> Solid(g, j, n)
<1> DEFINE both == {i \in 1 .. j : g[i].kind \in {"marker", "doc"}}
           old == {i \in 1 .. j : g[i].kind \in {"legacy"}}
           kdoc == LastOf(g, 1, j, {"marker", "doc"})
           legacy == LastOf(g, 1, j, {"legacy"})
<1>1. j \in Nat /\ j # 0 /\ both \subseteq 0 .. j /\ old \subseteq 0 .. j
  OBVIOUS
<1>2. /\ kdoc = IF both = {} THEN 0 ELSE Max(both)
      /\ legacy = IF old = {} THEN 0 ELSE Max(old)
  BY DEF LastOf
<1>3. both # {} => Max(both) \in both /\ \A i \in both : i <= Max(both)
  <2> HIDE DEF both
  <2> QED BY <1>1, MaxIs
<1>4. old # {} => Max(old) \in old /\ \A i \in old : i <= Max(old)
  <2> HIDE DEF old
  <2> QED BY <1>1, MaxIs
<1>5. /\ kdoc = 0 => \A i \in 1 .. j : g[i].kind \notin {"marker", "doc"}
      /\ kdoc # 0 => /\ kdoc \in 1 .. j /\ g[kdoc].kind \in {"marker", "doc"}
                     /\ \A i \in 1 .. j : g[i].kind \in {"marker", "doc"} => i <= kdoc
  BY <1>2, <1>3
<1>6. /\ legacy = 0 => \A i \in 1 .. j : g[i].kind # "legacy"
      /\ legacy # 0 => /\ legacy \in 1 .. j /\ g[legacy].kind = "legacy"
                       /\ \A i \in 1 .. j : g[i].kind = "legacy" => i <= legacy
  BY <1>2, <1>4
<1>7. Opening(g, 1, j) = IF kdoc # 0 /\ g[kdoc].kind = "marker" THEN kdoc ELSE legacy
  BY DEF Opening
<1> HIDE DEF kdoc, legacy
<1>8. g[j].kind = "marker" => Opening(g, 1, j) = j
  BY <1>1, <1>5, <1>7
<1>9. Opening(g, 1, j) = j => g[j].kind \in {"marker", "legacy"}
  BY <1>1, <1>6, <1>7
<1>10. ASSUME g[j].kind = "legacy"
       PROVE  Opening(g, 1, j) # j <=> Headed(g, j - 1)
  <2>1. legacy = j
    BY <1>1, <1>6, <1>10
  <2>2. CASE kdoc # 0 /\ g[kdoc].kind = "marker"
    <3>1. kdoc # j /\ kdoc \in 1 .. j - 1
      BY <1>1, <1>5, <1>10, <2>2
    <3>2. \A l \in kdoc + 1 .. j - 1 : g[l].kind # "doc"
      BY <1>1, <1>5, <2>2
    <3> QED BY <1>7, <2>2, <3>1, <3>2 DEF Headed
  <2>3. CASE ~ (kdoc # 0 /\ g[kdoc].kind = "marker")
    <3>1. ASSUME Headed(g, j - 1) PROVE FALSE
      <4>1. PICK b \in 1 .. j - 1 : g[b].kind = "marker" /\ \A l \in b + 1 .. j - 1 : g[l].kind # "doc"
        BY <3>1 DEF Headed
      <4>2. kdoc # 0 /\ b <= kdoc /\ g[kdoc].kind = "doc" /\ kdoc \in 1 .. j
        BY <1>1, <1>5, <2>3, <4>1
      <4>3. kdoc # j /\ kdoc # b
        BY <1>10, <4>1, <4>2
      <4>4. kdoc \in b + 1 .. j - 1
        BY <1>1, <4>2, <4>3
      <4> QED BY <4>1, <4>2, <4>4
    <3> QED BY <1>7, <2>1, <2>3, <3>1
  <2> QED BY <2>2, <2>3
<1>11. Absorbed(g, 1, j, n) <=> \/ g[j].kind = "note" /\ g[j].indent = n
                                \/ g[j].kind \in Blocks /\ Opening(g, 1, j) = j
  BY DEF Absorbed
<1> QED BY <1>8, <1>9, <1>10, <1>11 DEF Solid, Blocks

(* The comments above a line end at the first item that is not absorbed.   *)
LEMMA BlockStartSolid ==
  ASSUME NEW f \in Seq(Items), NEW line \in 1 .. Len(f)
  PROVE  LET b == BlockStart(f, 1, line)
             n == Column(f[line])
         IN  /\ b \in 1 .. line
             /\ \A i \in b .. line - 1 : ~ Solid(f, i, n)
             /\ b = 1 \/ Solid(f, b - 1, n)
<1> DEFINE n == Column(f[line])
           T == {s \in 1 .. line : \A i \in s .. line - 1 : Absorbed(f, 1, i, n)}
           b == Min(T)
<1>1. line \in T /\ T \subseteq Nat /\ Len(f) \in Nat
  OBVIOUS
<1>2. b \in T /\ \A m \in T : b <= m
  <2> HIDE DEF T
  <2> QED BY <1>1, MinIs
<1>3. BlockStart(f, 1, line) = b
  BY DEF BlockStart
<1> HIDE DEF b, n
<1>4. b \in 1 .. line /\ \A i \in b .. line - 1 : Absorbed(f, 1, i, n)
  BY <1>2
<1>5. ASSUME b # 1 PROVE ~ Absorbed(f, 1, b - 1, n)
  <2> SUFFICES ASSUME Absorbed(f, 1, b - 1, n) PROVE FALSE
    OBVIOUS
  <2>1. b - 1 \in 1 .. line /\ ~ (b <= b - 1)
    BY <1>4, <1>5
  <2>2. \A i \in b - 1 .. line - 1 : i = b - 1 \/ i \in b .. line - 1
    BY <1>4
  <2>3. b - 1 \in T
    BY <1>4, <2>1, <2>2
  <2> QED BY <1>2, <2>1, <2>3
<1>6. \A i \in b .. line - 1 : i \in 1 .. Len(f)
  BY <1>1, <1>4
<1>7. b # 1 => b - 1 \in 1 .. Len(f)
  BY <1>1, <1>4
<1> QED BY <1>3, <1>4, <1>5, <1>6, <1>7, SolidIs DEF n

-----------------------------------------------------------------------------
(* The copy so far, and the next lines of f after it.                      *)
Agree(g, h, n) == \A k \in 1 .. n : g[k] = h[k]

LEMMA HeadedAgree ==
  ASSUME NEW g, NEW h, NEW n \in Nat, Agree(g, h, n)
  PROVE  /\ \A i \in 0 .. n : Headed(g, i) => Headed(h, i)
         /\ \A x : \A i \in 1 .. n : Solid(g, i, x) => Solid(h, i, x)
         /\ \A x : \A i \in 0 .. n : Stands(g, 1, i, x) => Stands(h, 1, i, x)
<1>1. ASSUME NEW i \in 0 .. n, Headed(g, i) PROVE Headed(h, i)
  <2>1. PICK b \in 1 .. i : g[b].kind = "marker" /\ \A l \in b + 1 .. i : g[l].kind # "doc"
    BY <1>1 DEF Headed
  <2>2. b \in 1 .. n /\ \A l \in b + 1 .. i : l \in 1 .. n
    OBVIOUS
  <2> QED BY <2>1, <2>2 DEF Headed, Agree
<1>2. ASSUME NEW i \in 1 .. n, NEW x, Solid(g, i, x) PROVE Solid(h, i, x)
  <2>1. i - 1 \in 0 .. n
    OBVIOUS
  <2> QED BY <1>1, <1>2, <2>1 DEF Solid, Agree
<1>3. ASSUME NEW i \in 0 .. n, NEW x, Stands(g, 1, i, x) PROVE Stands(h, 1, i, x)
  <2>1. CASE 1 <= i /\ g[i] = x /\ (i = 1 \/ Solid(g, i - 1, x.indent))
    <3>1. i \in 1 .. n /\ (i # 1 => i - 1 \in 1 .. n)
      BY <2>1
    <3> QED BY <1>2, <2>1, <3>1 DEF Stands, Agree
  <2>2. CASE \E m \in 1 .. i :
              /\ Says(g[m], x)
              /\ \A l \in m + 1 .. i : g[l].kind \in {"ann", "blank"}
              /\ \E l \in m + 1 .. i : g[l].kind = "ann"
    <3>1. PICK m \in 1 .. i :
              /\ Says(g[m], x)
              /\ \A l \in m + 1 .. i : g[l].kind \in {"ann", "blank"}
              /\ \E l \in m + 1 .. i : g[l].kind = "ann"
      BY <2>2
    <3>2. m \in 1 .. n /\ \A l \in m + 1 .. i : l \in 1 .. n
      OBVIOUS
    <3>3. Says(h[m], x) /\ \A l \in m + 1 .. i : h[l] = g[l]
      BY <3>1, <3>2 DEF Agree
    <3> QED BY <3>1, <3>3 DEF Stands
  <2> QED BY <1>3, <2>1, <2>2 DEF Stands
<1> QED BY <1>1, <1>2, <1>3

(* s is out, followed by the items p to q of f.                            *)
Grows(f, p, q, out, s) ==
  /\ out \in Seq(Items) /\ s \in Seq(Items)
  /\ Len(s) = Len(out) + (q - p + 1)
  /\ Agree(out, s, Len(out))
  /\ \A j \in p .. q : s[Len(out) + (j - p + 1)] = f[j]

(* Nothing is out yet, or a comment was just put above the line p.         *)
AtLine(f, p, out) ==
  \/ p = 1 /\ out = <<>>
  \/ f[p].kind \in Code /\ Headed(out, Len(out))

LEMMA GrowsIs ==
  ASSUME NEW f \in Seq(Items), NEW out \in Seq(Items),
         NEW p \in 1 .. Len(f) + 1, NEW q \in p - 1 .. Len(f)
  PROVE  Grows(f, p, q, out, out \o SubSeq(f, p, q))
<1> DEFINE t == SubSeq(f, p, q)
<1>1. Len(f) \in Nat /\ p \in Nat /\ q \in Nat /\ q \in 0 .. Len(f)
  OBVIOUS
<1>2. t \in Seq(Items) /\ Len(t) = q - p + 1 /\ \A k \in 1 .. q - p + 1 : t[k] = f[p + k - 1]
  BY <1>1, SubSeqItems
<1> HIDE DEF t
<1>3. /\ out \o t \in Seq(Items) /\ Len(out \o t) = Len(out) + Len(t) /\ Len(out) \in Nat
      /\ \A k \in 1 .. Len(out) : (out \o t)[k] = out[k]
      /\ \A k \in 1 .. Len(t) : (out \o t)[Len(out) + k] = t[k]
  BY <1>2, ConcatItems
<1>4. ASSUME NEW j \in p .. q PROVE (out \o t)[Len(out) + (j - p + 1)] = f[j]
  <2>1. j - p + 1 \in 1 .. q - p + 1 /\ p + (j - p + 1) - 1 = j
    BY <1>1
  <2> QED BY <1>2, <1>3, <2>1
<1> QED BY <1>2, <1>3, <1>4 DEF Grows, Agree, t

LEMMA GrowsHeaded ==
  ASSUME NEW f \in Seq(Items), NEW p \in Nat \ {0}, NEW q \in Nat, p <= q + 1,
         NEW out, NEW s, Grows(f, p, q, out, s), AtLine(f, p, out),
         NEW n \in p - 1 .. q, Headed(f, n)
  PROVE  Headed(s, Len(out) + (n - p + 1))
<1> DEFINE m == Len(out)
           at(j) == m + (j - p + 1)
<1>1. m \in Nat /\ Agree(out, s, m) /\ \A j \in p .. q : s[at(j)] = f[j]
  BY DEF Grows
<1>2. PICK b \in 1 .. n : f[b].kind = "marker" /\ \A l \in b + 1 .. n : f[l].kind # "doc"
  BY DEF Headed
<1>3. AtLine(f, p, out)
  OBVIOUS
<1> HIDE DEF m
<1>4. CASE p <= b
  <2>1. b \in p .. q /\ at(b) \in 1 .. at(n)
    BY <1>1, <1>4
  <2>2. ASSUME NEW l \in at(b) + 1 .. at(n) PROVE s[l].kind # "doc"
    <3>1. l - m + p - 1 \in b + 1 .. n /\ l - m + p - 1 \in p .. q /\ at(l - m + p - 1) = l
      BY <1>1, <1>4
    <3> QED BY <1>1, <1>2, <3>1
  <2>3. s[at(b)].kind = "marker"
    BY <1>1, <1>2, <2>1
  <2> QED BY <2>1, <2>2, <2>3 DEF Headed, m
<1>5. CASE ~ (p <= b)
  <2>1. p # 1
    BY <1>5
  <2>2. Headed(out, m)
    BY <1>3, <2>1 DEF AtLine, m
  <2>3. PICK c \in 1 .. m : out[c].kind = "marker" /\ \A l \in c + 1 .. m : out[l].kind # "doc"
    BY <2>2 DEF Headed
  <2>4. c \in 1 .. at(n) /\ s[c].kind = "marker"
    BY <1>1, <2>3 DEF Agree
  <2>5. ASSUME NEW l \in c + 1 .. at(n) PROVE s[l].kind # "doc"
    <3>1. CASE l <= m
      <4>1. l \in c + 1 .. m /\ l \in 1 .. m
        BY <1>1, <3>1
      <4> QED BY <1>1, <2>3, <4>1 DEF Agree
    <3>2. CASE ~ (l <= m)
      <4>1. l - m + p - 1 \in b + 1 .. n /\ l - m + p - 1 \in p .. q /\ at(l - m + p - 1) = l
        BY <1>1, <1>5, <3>2
      <4> QED BY <1>1, <1>2, <4>1
    <3> QED BY <3>1, <3>2
  <2> QED BY <2>4, <2>5 DEF Headed, m
<1> QED BY <1>4, <1>5

LEMMA GrowsSolid ==
  ASSUME NEW f \in Seq(Items), NEW p \in Nat \ {0}, NEW q \in Nat,
         NEW out, NEW s, Grows(f, p, q, out, s), AtLine(f, p, out),
         NEW j \in p .. q, NEW n, Solid(f, j, n)
  PROVE  Solid(s, Len(out) + (j - p + 1), n)
<1>1. Len(out) \in Nat /\ s[Len(out) + (j - p + 1)] = f[j]
  BY DEF Grows
<1>2. p <= q + 1 /\ j - 1 \in p - 1 .. q
  OBVIOUS
<1>3. Len(out) + ((j - 1) - p + 1) = (Len(out) + (j - p + 1)) - 1
  BY <1>1
<1>4. Headed(f, j - 1) => Headed(s, (Len(out) + (j - p + 1)) - 1)
  <2>1. Headed(f, j - 1) => Headed(s, Len(out) + ((j - 1) - p + 1))
    BY <1>2, GrowsHeaded
  <2> QED BY <1>3, <2>1
<1> QED BY <1>1, <1>4 DEF Solid

LEMMA GrowsStands ==
  ASSUME NEW f \in Seq(Items), NEW p \in Nat \ {0}, NEW q \in Nat, p <= q + 1,
         NEW out, NEW s, Grows(f, p, q, out, s), AtLine(f, p, out),
         NEW j \in p .. q + 1, NEW x, x.kind = "marker", Stands(f, p, j - 1, x)
  PROVE  Stands(s, 1, Len(out) + (j - p), x)
<1> DEFINE m == Len(out)
           hi == m + (j - p)
<1>1. m \in Nat /\ \A k \in p .. q : s[m + (k - p + 1)] = f[k]
  BY DEF Grows
<1>2. hi \in Nat /\ j \in Nat
  BY <1>1
<1>3. CASE p <= j - 1 /\ f[j - 1] = x /\ (j - 1 = 1 \/ Solid(f, (j - 1) - 1, x.indent))
  <2>1. j - 1 \in p .. q /\ m + ((j - 1) - p + 1) = hi
    BY <1>1, <1>3
  <2>2. s[hi] = x /\ 1 <= hi
    BY <1>1, <1>3, <2>1
  <2>3. CASE p = 1 /\ j - 1 = 1
    <3>1. f[p].kind \notin Code
      BY <1>3, <2>3 DEF Code
    <3>2. out = <<>>
      BY <3>1 DEF AtLine
    <3>3. hi = 1
      BY <2>3, <3>2
    <3> QED BY <2>2, <3>3 DEF Stands
  <2>4. CASE j - 1 = p /\ j - 1 # 1
    <3>1. f[p].kind \notin Code
      BY <1>3, <2>4 DEF Code
    <3> QED BY <2>4, <3>1 DEF AtLine
  <2>5. CASE j - 1 # p
    <3>0. p <= j - 1
      BY <1>3
    <3>1. (j - 1) - 1 \in p .. q /\ m + (((j - 1) - 1) - p + 1) = hi - 1 /\ j - 1 # 1
      <4> HIDE DEF m
      <4> QED BY <1>1, <1>2, <2>5, <3>0
    <3>2. Solid(s, m + (((j - 1) - 1) - p + 1), x.indent)
      BY <1>3, <3>1, GrowsSolid
    <3>3. Solid(s, hi - 1, x.indent)
      BY <3>1, <3>2
    <3> QED BY <2>2, <3>3 DEF Stands
  <2> QED BY <1>2, <2>3, <2>4, <2>5
<1>4. CASE \E k \in p .. j - 1 :
            /\ Says(f[k], x)
            /\ \A l \in k + 1 .. j - 1 : f[l].kind \in {"ann", "blank"}
            /\ \E l \in k + 1 .. j - 1 : f[l].kind = "ann"
  <2>1. PICK k \in p .. j - 1 :
            /\ Says(f[k], x)
            /\ \A l \in k + 1 .. j - 1 : f[l].kind \in {"ann", "blank"}
            /\ \E l \in k + 1 .. j - 1 : f[l].kind = "ann"
    BY <1>4
  <2>2. PICK a \in k + 1 .. j - 1 : f[a].kind = "ann"
    BY <2>1
  <2> DEFINE c == m + (k - p + 1)
             d == m + (a - p + 1)
  <2>a. m \in Nat /\ k \in p .. q /\ a \in p .. q /\ k < a /\ a <= j - 1
    BY <1>1
  <2>3. k \in p .. q /\ a \in p .. q /\ c \in 1 .. hi /\ d \in c + 1 .. hi
    <3> HIDE DEF m
    <3>1. c \in Nat /\ d \in Nat /\ hi \in Nat /\ 1 <= c
      BY <2>a, <1>2
    <3>2. c < d /\ d <= hi
      BY <2>a
    <3> QED BY <2>a, <3>1, <3>2
  <2>4. Says(s[c], x) /\ s[d].kind = "ann"
    BY <1>1, <2>1, <2>2, <2>3
  <2>5. ASSUME NEW l \in c + 1 .. hi PROVE s[l].kind \in {"ann", "blank"}
    <3>1. l - m + p - 1 \in k + 1 .. j - 1 /\ l - m + p - 1 \in p .. q
          /\ m + ((l - m + p - 1) - p + 1) = l
      <4> HIDE DEF m
      <4> QED BY <1>2, <2>a
    <3> QED BY <1>1, <2>1, <3>1
  <2> QED BY <2>3, <2>4, <2>5 DEF Stands
<1> QED BY <1>3, <1>4 DEF Stands

-----------------------------------------------------------------------------
(* A comment wanted above a line is where the next run finds it.           *)
Firm(wanted, g, o) ==
  \A k \in 1 .. Len(g) :
     o[k] # 0 /\ wanted[o[k]] # <<>> => Stands(g, 1, k - 1, Last(wanted[o[k]]))

Settled(f, n, wanted, g) ==
  \E o : Traced(f, UserAt(f), 1, n, g, o) /\ Firm(wanted, g, o)

(* Nothing is wanted but one comment above a line of a declaration, with   *)
(* the indentation of the line.                                            *)
Lone(f, wanted) ==
  \A i \in 1 .. Len(f) :
     wanted[i] # <<>> =>
        /\ f[i].kind \in Code
        /\ \E x \in Markers : /\ wanted[i] = <<x>>
                             /\ x.indent = Column(f[i]) /\ x.drift = 0

LEMMA LoneIs ==
  ASSUME NEW f, NEW wanted, Lone(f, wanted), NEW i \in 1 .. Len(f), wanted[i] # <<>>
  PROVE  /\ Last(wanted[i]) \in Markers /\ Last(wanted[i]).kind = "marker"
         /\ wanted[i] = <<Last(wanted[i])>> /\ wanted[i] \in Seq(Markers)
         /\ Last(wanted[i]).indent = Column(f[i]) /\ Last(wanted[i]).drift = 0
         /\ f[i].kind \in Code
<1>1. PICK x \in Markers : wanted[i] = <<x>> /\ x.indent = Column(f[i]) /\ x.drift = 0
  BY DEF Lone
<1>2. Len(<<x>>) = 1 /\ <<x>>[1] = x /\ <<x>> \in Seq(Markers)
  OBVIOUS
<1>3. Last(wanted[i]) = x
  BY <1>1, <1>2 DEF Last
<1> QED BY <1>1, <1>2, <1>3 DEF Markers, Lone

LEMMA SettledConcat ==
  ASSUME NEW f, NEW mid \in Nat, NEW hi \in Nat, mid <= hi,
         NEW wanted, NEW s, Settled(f, mid, wanted, s),
         NEW t, NEW q, Traced(f, UserAt(f), mid + 1, hi, t, q),
         \A k \in 1 .. Len(t) : q[k] # 0 /\ wanted[q[k]] # <<>> =>
            Stands(s \o t, 1, Len(s) + k - 1, Last(wanted[q[k]]))
  PROVE  Settled(f, hi, wanted, s \o t)
<1>1. PICK o : Traced(f, UserAt(f), 1, mid, s, o) /\ Firm(wanted, s, o)
  BY DEF Settled
<1>2. /\ s \in Seq(Items) /\ t \in Seq(Items) /\ Len(s) \in Nat /\ Len(t) \in Nat
      /\ o \in [1 .. Len(s) -> Nat] /\ q \in [1 .. Len(t) -> Nat]
  BY <1>1 DEF Traced
<1>3. PICK r : Joined(r, o, Len(s), q, Len(t))
  BY <1>2, JoinedExists
<1>4. Traced(f, UserAt(f), 1, hi, s \o t, r)
  <2>1. 1 \in Nat \ {0} /\ 1 <= mid + 1
    OBVIOUS
  <2> DEFINE K == UserAt(f)
  <2> HIDE DEF K
  <2>2. Traced(f, K, 1, mid, s, o) /\ Traced(f, K, mid + 1, hi, t, q)
    BY <1>1 DEF K
  <2>3. Traced(f, K, 1, hi, s \o t, r)
    BY <1>3, <2>1, <2>2, TracedConcat
  <2> QED BY <2>3 DEF K
<1> DEFINE g == s \o t
<1>5. /\ Len(g) = Len(s) + Len(t) /\ Agree(s, g, Len(s))
      /\ \A k \in 1 .. Len(s) : r[k] = o[k]
      /\ \A k \in 1 .. Len(t) : r[Len(s) + k] = q[k]
  BY <1>2, <1>3, ConcatItems DEF Joined, Agree
<1> HIDE DEF g
<1>6. ASSUME NEW k \in 1 .. Len(g), r[k] # 0, wanted[r[k]] # <<>>
      PROVE  Stands(g, 1, k - 1, Last(wanted[r[k]]))
  <2>1. CASE k <= Len(s)
    <3>1. k \in 1 .. Len(s) /\ k - 1 \in 0 .. Len(s)
      BY <1>2, <1>5, <2>1
    <3>2. Stands(s, 1, k - 1, Last(wanted[o[k]]))
      BY <1>1, <1>5, <1>6, <3>1 DEF Firm
    <3>3. Stands(g, 1, k - 1, Last(wanted[o[k]]))
      BY <1>2, <1>5, <3>1, <3>2, HeadedAgree
    <3> QED BY <1>5, <3>1, <3>3
  <2>2. CASE ~ (k <= Len(s))
    <3>1. k - Len(s) \in 1 .. Len(t) /\ Len(s) + (k - Len(s)) = k
      BY <1>2, <1>5, <2>2
    <3>2. r[k] = q[k - Len(s)]
      BY <1>5, <3>1
    <3> QED BY <1>6, <3>1, <3>2 DEF g
  <2> QED BY <2>1, <2>2
<1>7. Firm(wanted, g, r)
  BY <1>6 DEF Firm
<1> QED BY <1>4, <1>7 DEF Settled, g

(* How a line whose comment is in place will find it: in what is out, or   *)
(* among the lines of f still to be copied.                                *)
Waits(f, p, out, j, x) ==
  \/ j = p /\ Stands(out, 1, Len(out), x)
  \/ Stands(f, p, j - 1, x)

(* How far copy_kept has come before it looks at a line.                   *)
Paved(f, line, wanted, acc) ==
  /\ acc.p \in 1 .. line
  /\ acc.out # <<>> => acc.p < line
  /\ AtLine(f, acc.p, acc.out)
  /\ Settled(f, acc.p - 1, wanted, acc.out)
  /\ \A j \in acc.p .. line - 1 :
        wanted[j] # <<>> => Waits(f, acc.p, acc.out, j, Last(wanted[j]))

LEMMA SettledType ==
  ASSUME NEW f, NEW n, NEW wanted, NEW g, Settled(f, n, wanted, g)
  PROVE  g \in Seq(Items) /\ Len(g) \in Nat
BY DEF Settled, Traced

LEMMA PavedCopies ==
  ASSUME NEW f \in Seq(Items), NEW wanted, Lone(f, wanted),
         NEW line \in 1 .. Len(f) + 1, NEW acc, Paved(f, line, wanted, acc),
         NEW q \in acc.p - 1 .. line - 1
  PROVE  /\ Grows(f, acc.p, q, acc.out, acc.out \o SubSeq(f, acc.p, q))
         /\ Settled(f, q, wanted, acc.out \o SubSeq(f, acc.p, q))
<1> DEFINE p == acc.p
           out == acc.out
           t == SubSeq(f, p, q)
           s == out \o t
<1>1. /\ p \in 1 .. line /\ AtLine(f, p, out) /\ Settled(f, p - 1, wanted, out)
      /\ \A j \in p .. line - 1 : wanted[j] # <<>> => Waits(f, p, out, j, Last(wanted[j]))
      /\ q \in p - 1 .. line - 1 /\ Len(f) \in Nat
  BY DEF Paved
<1> HIDE DEF p, out
<1>2. /\ p \in 1 .. Len(f) + 1 /\ q \in p - 1 .. Len(f) /\ p \in Nat \ {0} /\ q \in Nat
      /\ p - 1 \in Nat /\ p - 1 <= q /\ (p - 1) + 1 = p /\ p <= q + 1
  BY <1>1
<1>3. out \in Seq(Items) /\ Len(out) \in Nat
  BY <1>1, SettledType
<1>4. Grows(f, p, q, out, s)
  BY <1>2, <1>3, GrowsIs
<1>5. PICK o : /\ Traced(f, UserAt(f), p, q, t, o)
               /\ \A k \in 1 .. Len(t) : o[k] = p + k - 1
               /\ Len(t) = q - p + 1
  <2> DEFINE K == UserAt(f)
  <2> HIDE DEF K
  <2>1. \E o : /\ Traced(f, K, p, q, t, o)
               /\ \A k \in 1 .. Len(t) : o[k] = p + k - 1
               /\ Len(t) = q - p + 1
    BY <1>2, StretchTraced
  <2> QED BY <2>1 DEF K
<1> HIDE DEF t
<1>6. ASSUME NEW k \in 1 .. Len(t), o[k] # 0, wanted[o[k]] # <<>>
      PROVE  Stands(s, 1, Len(out) + k - 1, Last(wanted[o[k]]))
  <2> DEFINE j == p + k - 1
             x == Last(wanted[j])
  <2>1. k \in 1 .. q - p + 1
    BY <1>5
  <2>2. /\ o[k] = j /\ j \in p .. line - 1 /\ j \in p .. q + 1 /\ j \in 1 .. Len(f)
        /\ (j = p => Len(out) + k - 1 = Len(out)) /\ Len(out) + (j - p) = Len(out) + k - 1
    BY <1>1, <1>2, <1>3, <1>5, <2>1
  <2> HIDE DEF j
  <2>3. Waits(f, p, out, j, x) /\ x.kind = "marker"
    BY <1>1, <1>6, <2>2, LoneIs
  <2> HIDE DEF x
  <2>4. CASE j = p /\ Stands(out, 1, Len(out), x)
    <3>1. Agree(out, s, Len(out)) /\ Len(out) \in 0 .. Len(out)
      BY <1>3, <1>4 DEF Grows
    <3>2. Stands(s, 1, Len(out), x)
      BY <1>3, <2>4, <3>1, HeadedAgree
    <3> QED BY <2>2, <2>4, <3>2 DEF x
  <2>5. CASE Stands(f, p, j - 1, x)
    <3>1. Stands(s, 1, Len(out) + (j - p), x)
      BY <1>1, <1>2, <1>4, <2>2, <2>3, <2>5, GrowsStands
    <3> QED BY <2>2, <3>1 DEF x
  <2> QED BY <2>3, <2>4, <2>5 DEF Waits
<1>7. Settled(f, q, wanted, s)
  <2>1. Traced(f, UserAt(f), (p - 1) + 1, q, t, o)
    BY <1>2, <1>5
  <2> QED BY <1>1, <1>2, <1>6, <2>1, SettledConcat
<1> QED BY <1>4, <1>7 DEF p, out, t

(* A comment in place of lines of which none must stay.                    *)
LEMMA MarkSettles ==
  ASSUME NEW f, NEW mid \in Nat, NEW hi \in Nat, mid <= hi, Spares(UserAt(f), mid + 1, hi),
         NEW wanted, NEW s, Settled(f, mid, wanted, s), NEW x \in Markers
  PROVE  /\ Settled(f, hi, wanted, s \o <<x>>)
         /\ s \o <<x>> \in Seq(Items) /\ Len(s \o <<x>>) = Len(s) + 1
         /\ (s \o <<x>>)[Len(s) + 1] = x /\ Agree(s, s \o <<x>>, Len(s))
<1> DEFINE n == mid + 1
<1>1. n \in Nat \ {0} /\ Spares(UserAt(f), n, hi) /\ <<x>> \in Seq(Markers)
  OBVIOUS
<1> HIDE DEF n
<1>2. PICK q : Traced(f, UserAt(f), n, hi, <<x>>, q) /\ AllNew(q, Len(<<x>>))
  BY <1>1, MarksTraced
<1>3. Settled(f, hi, wanted, s \o <<x>>)
  BY <1>2, SettledConcat DEF AllNew, n
<1>4. s \in Seq(Items) /\ <<x>> \in Seq(Items)
  BY <1>2, SettledType DEF Traced
<1>5. Len(<<x>>) = 1 /\ <<x>>[1] = x /\ 1 \in 1 .. 1
  OBVIOUS
<1> QED BY <1>3, <1>4, <1>5, ConcatItems DEF Agree

LEMMA BeforeAnnotationsHas ==
  ASSUME NEW f \in Seq(Items), NEW from \in 1 .. Len(f) + 1, NEW line \in 1 .. Len(f),
         MarkerBeforeAnnotations(f, from, line) # 0
  PROVE  \E k \in MarkerBeforeAnnotations(f, from, line) + 1 .. line - 1 : f[k].kind = "ann"
<1> DEFINE open == LastOf(f, from, line - 1, {"marker", "doc"})
<1>1. /\ MarkerBeforeAnnotations(f, from, line) = open
      /\ "ann" \in {f[i].kind : i \in open + 1 .. line - 1}
  BY DEF MarkerBeforeAnnotations
<1> HIDE DEF open
<1> QED BY <1>1

LEMMA AtLineSolid ==
  ASSUME NEW f, NEW p, NEW out, AtLine(f, p, out), out # <<>>, NEW n
  PROVE  Solid(f, p, n)
BY DEF AtLine, Solid, Code

(* Above the line a comment is put at the end of what is not absorbed.     *)
LEMMA StartIsBlock ==
  ASSUME NEW f \in Seq(Items), NEW line \in 1 .. Len(f), NEW p \in 1 .. line,
         NEW out, AtLine(f, p, out), out # <<>> => p < line
  PROVE  LET b == BlockStart(f, 1, line)
         IN  /\ Max({b, p}) = b /\ b \in p .. line
             /\ b = 1 \/ Solid(f, b - 1, Column(f[line]))
             /\ out # <<>> => p <= b - 1
             /\ out = <<>> => p = 1
<1> DEFINE b == BlockStart(f, 1, line)
           n == Column(f[line])
<1>1. b \in 1 .. line /\ (\A i \in b .. line - 1 : ~ Solid(f, i, n))
      /\ (b = 1 \/ Solid(f, b - 1, n))
  BY BlockStartSolid
<1> HIDE DEF b, n
<1>2. line \in Nat /\ p \in Nat
  OBVIOUS
<1>3. ASSUME out # <<>> PROVE p <= b - 1
  <2>1. Solid(f, p, n) /\ p < line
    BY <1>3, AtLineSolid
  <2>2. p \notin b .. line - 1
    BY <1>1, <2>1
  <2> QED BY <1>1, <1>2, <2>1, <2>2
<1>4. ASSUME out = <<>> PROVE p = 1
  <2>1. ~ Headed(out, Len(out))
    BY <1>4 DEF Headed
  <2> QED BY <2>1 DEF AtLine
<1>5. b \in p .. line
  BY <1>1, <1>2, <1>3, <1>4
<1>6. Max({b, p}) = b
  <2> DEFINE T == {b, p}
  <2>1. T \subseteq 0 .. line /\ T # {} /\ b \in T /\ T = {b, p}
    BY <1>1
  <2> HIDE DEF T
  <2>2. Max(T) \in T /\ b <= Max(T)
    BY <1>2, <2>1, MaxIs
  <2>3. Max(T) = b
    BY <1>5, <2>1, <2>2
  <2> QED BY <2>3 DEF T
<1> QED BY <1>1, <1>3, <1>4, <1>5, <1>6 DEF b, n

LEMMA OneMarker ==
  ASSUME NEW q \in Seq(Markers), Len(q) = 1
  PROVE  q = << q[1] >> /\ q[1] \in Markers
<1> DEFINE M == Markers
<1>1. q \in Seq(M) /\ Len(q) = 1
  OBVIOUS
<1> HIDE DEF M
<1>2. q[1] \in M
  BY <1>1
<1>3. q = << q[1] >>
  BY <1>1, <1>2
<1> QED BY <1>2, <1>3 DEF M

(* One comment put in place paves one line more.                           *)
LEMMA PavedInsert ==
  ASSUME NEW f \in Seq(Items), NEW wanted, Lone(f, wanted), Apart(f, wanted),
         NEW line \in 1 .. Len(f), wanted[line] # <<>>,
         NEW acc, Paved(f, line, wanted, acc)
  PROVE  Paved(f, line + 1, wanted, InsertAbove(f, 1, wanted, acc, line))
<1> DEFINE block == wanted[line]
           p == acc.p
           x == Last(block)
           above == MarkerBeforeAnnotations(f, acc.p, line)
           b == BlockStart(f, 1, line)
           start == Max({b, acc.p})
           behind == Behind(Column(f[above]), block)
           y == [x EXCEPT !.drift = Column(f[above])]
           replaced == [out |-> acc.out \o SubSeq(f, acc.p, above - 1) \o behind
                                        \o SubSeq(f, above + 1, line - 1),
                        p |-> line]
           inserted == [out |-> acc.out \o SubSeq(f, acc.p, start - 1) \o block,
                        p |-> line]
           next == InsertAbove(f, 1, wanted, acc, line)
<1>0. /\ above # 0 /\ ReadsAlike(f[above], block) => next = acc
      /\ above # 0 /\ ~ ReadsAlike(f[above], block) => next = replaced
      /\ above = 0 /\ SubSeq(f, start, line - 1) = block => next = acc
      /\ above = 0 /\ SubSeq(f, start, line - 1) # block => next = inserted
  BY DEF InsertAbove
<1>1. /\ p \in 1 .. line /\ Len(f) \in Nat /\ line \in Nat /\ p \in Nat \ {0}
      /\ line \in 1 .. Len(f) + 1 /\ p \in 1 .. Len(f) + 1 /\ line - 1 \in 0 .. Len(f)
      /\ AtLine(f, p, acc.out) /\ (acc.out # <<>> => p < line)
  BY DEF Paved
<1>2. /\ block = <<x>> /\ x \in Markers /\ x.kind = "marker" /\ f[line].kind \in Code
      /\ x.indent = Column(f[line])
  BY LoneIs
<1>3. above # 0 => /\ above \in p .. line - 1 /\ f[above].kind = "marker"
                   /\ \A k \in above + 1 .. line - 1 : f[k].kind \in {"ann", "blank"}
                   /\ \E k \in above + 1 .. line - 1 : f[k].kind = "ann"
  BY <1>1, BeforeAnnotationsIs, BeforeAnnotationsHas
<1>4. /\ start = b /\ b \in p .. line /\ (b = 1 \/ Solid(f, b - 1, x.indent))
      /\ (acc.out # <<>> => p <= b - 1) /\ (acc.out = <<>> => p = 1)
  BY <1>1, <1>2, StartIsBlock
<1>5. \A i \in b .. line - 1 : ~ OfUser(f[i])
  <2>1. 1 \in 1 .. Len(f) /\ line \in 1 .. Len(f)
    BY <1>1
  <2> QED BY <2>1, BlockStartIs
<1>6. \A q \in p - 1 .. line - 1 :
        /\ Grows(f, p, q, acc.out, acc.out \o SubSeq(f, p, q))
        /\ Settled(f, q, wanted, acc.out \o SubSeq(f, p, q))
  BY <1>1, PavedCopies
<1>7. \A j \in p .. line - 1 : wanted[j] # <<>> => Waits(f, p, acc.out, j, Last(wanted[j]))
  BY DEF Paved
<1>8. Stands(f, p, line - 1, x) => Paved(f, line + 1, wanted, acc)
  <2> SUFFICES ASSUME Stands(f, p, line - 1, x) PROVE Paved(f, line + 1, wanted, acc)
    OBVIOUS
  <2>1. ASSUME NEW j \in p .. (line + 1) - 1, wanted[j] # <<>>
        PROVE  Waits(f, acc.p, acc.out, j, Last(wanted[j]))
    <3>1. j = line \/ j \in p .. line - 1
      BY <1>1
    <3> QED BY <1>7, <2>1, <3>1 DEF Waits
  <2>2. acc.p \in 1 .. line + 1 /\ (acc.out # <<>> => acc.p < line + 1)
    BY <1>1
  <2> QED BY <2>1, <2>2 DEF Paved
<1>9. ASSUME NEW out, Settled(f, line - 1, wanted, out), Stands(out, 1, Len(out), x),
             Headed(out, Len(out))
      PROVE  Paved(f, line + 1, wanted, [out |-> out, p |-> line])
  <2> DEFINE to == [out |-> out, p |-> line]
  <2>1. to.p = line /\ to.out = out /\ to.p \in 1 .. line + 1 /\ line < line + 1
    BY <1>1
  <2> HIDE DEF to
  <2>2. ASSUME NEW j \in to.p .. (line + 1) - 1, wanted[j] # <<>>
        PROVE  Waits(f, to.p, to.out, j, Last(wanted[j]))
    <3>1. j = line
      BY <1>1, <2>1
    <3> QED BY <1>9, <2>1, <3>1 DEF Waits
  <2>3. AtLine(f, to.p, to.out)
    BY <1>2, <1>9, <2>1 DEF AtLine
  <2>4. Paved(f, line + 1, wanted, to)
    BY <1>9, <2>1, <2>2, <2>3 DEF Paved
  <2> QED BY <2>4 DEF to
<1> HIDE DEF next, above, start, b
<1>10. CASE above # 0 /\ ReadsAlike(f[above], block)
  <2>1. Says(f[above], x)
    <3>1. f[above] \in Items
      BY <1>1, <1>3, <1>10
    <3> HIDE DEF x, block
    <3>2. <<[f[above] EXCEPT !.drift = 0]>> = <<x>>
      BY <1>2, <1>10 DEF ReadsAlike
    <3>3. [f[above] EXCEPT !.drift = 0] = x
      BY <3>2
    <3> QED BY <3>1, <3>3 DEF Says, Items
  <2>2. Stands(f, p, line - 1, x)
    BY <1>3, <1>10, <2>1 DEF Stands
  <2> QED BY <1>0, <1>8, <1>10, <2>2 DEF next
<1>11. CASE above # 0 /\ ~ ReadsAlike(f[above], block)
  <2> DEFINE s == acc.out \o SubSeq(f, p, above - 1)
             a == s \o <<y>>
             t == SubSeq(f, above + 1, line - 1)
             out == a \o t
  <2>1. /\ above \in p .. line - 1 /\ above - 1 \in p - 1 .. line - 1
        /\ above \in Nat /\ above - 1 \in Nat /\ above - 1 <= above
        /\ above + 1 \in 1 .. Len(f) + 1 /\ line - 1 \in (above + 1) - 1 .. Len(f)
        /\ line - 1 \in Nat /\ above <= line - 1 /\ (above - 1) + 1 = above
    <3>1. above \in p .. line - 1
      BY <1>3, <1>11
    <3> HIDE DEF p
    <3> QED BY <1>1, <3>1
  <2>2. Settled(f, above - 1, wanted, s)
    BY <1>6, <2>1
  <2>3. Spares(UserAt(f), (above - 1) + 1, above)
    <3> SUFFICES ASSUME NEW i \in (above - 1) + 1 .. above PROVE i \notin UserAt(f)
      BY DEF Spares
    <3>1. i = above
      BY <2>1
    <3> QED BY <1>3, <1>11, <3>1 DEF UserAt, OfUser, Generated
  <2>30. /\ y \in Markers /\ Says(y, x) /\ behind = <<y>>
    <3>1. f[above] \in Items /\ block \in Seq(Markers) /\ block # <<>>
          /\ Len(block) = 1 /\ block[1] = x
      <4>1. \A z : Len(<<z>>) = 1 /\ <<z>>[1] = z /\ <<z>> # <<>>
        OBVIOUS
      <4>2. block \in Seq(Markers)
        BY LoneIs
      <4>3. f[above] \in Items
        BY <1>1, <1>3, <1>11
      <4> HIDE DEF x, block
      <4> QED BY <1>2, <4>1, <4>2, <4>3
    <3> HIDE DEF x, block, above, p
    <3>2. /\ Column(f[above]) \in Nat /\ behind \in Seq(Markers) /\ Len(behind) = 1
          /\ behind[1] = y
      BY <3>1, BehindIs
    <3>3. behind = <<y>> /\ y \in Markers
      <4> HIDE DEF behind, y
      <4> QED BY <3>2, OneMarker
    <3>4. Says(y, x)
      BY <1>2 DEF Says, Markers, Items
    <3> QED BY <3>3, <3>4
  <2> HIDE DEF s, block, p, x, y, behind
  <2>4. /\ Settled(f, above, wanted, a) /\ a \in Seq(Items)
        /\ Len(a) = Len(s) + 1 /\ a[Len(s) + 1] = y
    BY <2>1, <2>2, <2>3, <2>30, MarkSettles
  <2>5. PICK o : /\ Traced(f, UserAt(f), above + 1, line - 1, t, o)
                 /\ \A k \in 1 .. Len(t) : o[k] = (above + 1) + k - 1
                 /\ Len(t) = (line - 1) - (above + 1) + 1
    <3> DEFINE K == UserAt(f)
    <3> HIDE DEF K
    <3>1. \E o : /\ Traced(f, K, above + 1, line - 1, t, o)
                 /\ \A k \in 1 .. Len(t) : o[k] = (above + 1) + k - 1
                 /\ Len(t) = (line - 1) - (above + 1) + 1
      BY <2>1, StretchTraced
    <3> QED BY <3>1 DEF K
  <2>6. /\ t \in Seq(Items)
        /\ \A k \in 1 .. Len(t) : /\ o[k] = (above + 1) + k - 1 /\ o[k] \in above + 1 .. line - 1
                                  /\ t[k] = f[o[k]]
    <3> HIDE DEF t
    <3>1. ASSUME NEW k \in 1 .. Len(t) PROVE o[k] # 0 /\ o[k] = (above + 1) + k - 1
      <4>1. k \in Nat /\ o[k] = (above + 1) + k - 1
        BY <2>5
      <4> QED BY <2>1, <4>1
    <3> QED BY <2>5, <3>1 DEF Traced
  <2> HIDE DEF t
  <2>7. \A k \in 1 .. Len(t) : t[k].kind \in {"ann", "blank"}
    BY <1>3, <1>11, <2>6
  <2>8. \E k \in 1 .. Len(t) : t[k].kind = "ann"
    <3>1. PICK i \in above + 1 .. line - 1 : f[i].kind = "ann"
      BY <1>3, <1>11
    <3>2. i - above \in 1 .. Len(t) /\ (above + 1) + (i - above) - 1 = i
      BY <1>1, <2>1, <2>5
    <3>3. t[i - above] = f[i]
      BY <2>6, <3>2
    <3> QED BY <3>1, <3>2, <3>3
  <2>9. \A k \in 1 .. Len(t) : wanted[o[k]] = <<>>
    <3> SUFFICES ASSUME NEW k \in 1 .. Len(t), wanted[o[k]] # <<>> PROVE FALSE
      OBVIOUS
    <3> DEFINE j == o[k]
    <3>1. j \in above + 1 .. line - 1
      BY <2>6
    <3> HIDE DEF j
    <3>2. j \in 1 .. Len(f) /\ line \in 1 .. Len(f) /\ j < line
      BY <1>1, <2>1, <3>1
    <3>3. PICK m \in j .. line - 1 : f[m].kind \notin {"ann", "blank"}
      <4>1. f[line].kind # "marker"
        BY <1>2 DEF Code
      <4> QED BY <3>2, <4>1 DEF Apart, j
    <3>4. m \in above + 1 .. line - 1
      BY <2>1, <3>1
    <3> QED BY <1>3, <1>11, <3>3, <3>4
  <2> HIDE DEF a
  <2>10. Settled(f, line - 1, wanted, out)
    BY <2>1, <2>4, <2>5, <2>9, SettledConcat
  <2>11. /\ Len(out) = Len(a) + Len(t) /\ Len(a) \in Nat /\ Len(t) \in Nat
         /\ \A k \in 1 .. Len(a) : out[k] = a[k]
         /\ \A k \in 1 .. Len(t) : out[Len(a) + k] = t[k]
    BY <2>4, <2>6, ConcatItems
  <2> HIDE DEF out
  <2> DEFINE m == Len(a)
  <2>12. m \in 1 .. Len(out) /\ out[m] = y
    <3>1. s \in Seq(Items)
      BY <2>2, SettledType
    <3>2. Len(s) \in Nat
      BY <3>1
    <3> QED BY <2>4, <2>11, <3>2
  <2>13. ASSUME NEW l \in m + 1 .. Len(out) PROVE out[l].kind \in {"ann", "blank"}
    <3>1. l - m \in 1 .. Len(t) /\ m + (l - m) = l
      BY <2>11
    <3>2. out[l] = t[l - m]
      BY <2>11, <3>1
    <3> QED BY <2>7, <3>1, <3>2
  <2>14. \E l \in m + 1 .. Len(out) : out[l].kind = "ann"
    <3>1. PICK k \in 1 .. Len(t) : t[k].kind = "ann"
      BY <2>8
    <3>2. m + k \in m + 1 .. Len(out) /\ out[m + k] = t[k]
      BY <2>11
    <3> QED BY <3>1, <3>2
  <2>15. Stands(out, 1, Len(out), x)
    BY <2>12, <2>13, <2>14, <2>30 DEF Stands
  <2>16. Headed(out, Len(out))
    <3>1. \A l \in m + 1 .. Len(out) : out[l].kind # "doc"
      BY <2>13
    <3> QED BY <2>12, <2>30, <3>1 DEF Headed, Markers
  <2>17. Paved(f, line + 1, wanted, [out |-> out, p |-> line])
    BY <1>9, <2>10, <2>15, <2>16
  <2>18. next = [out |-> out, p |-> line]
    BY <1>0, <1>11, <2>30 DEF s, t, a, out, p
  <2> QED BY <2>17, <2>18 DEF next
<1>12. CASE above = 0 /\ SubSeq(f, start, line - 1) = block
  <2> DEFINE t == SubSeq(f, b, line - 1)
  <2>1. b \in 1 .. Len(f) + 1 /\ b \in Nat
    BY <1>1, <1>4
  <2>2. /\ Len(t) = IF b <= line - 1 THEN (line - 1) - b + 1 ELSE 0
        /\ \A k \in 1 .. (line - 1) - b + 1 : t[k] = f[b + k - 1]
    BY <1>1, <2>1, SubSeqItems
  <2>3. t = <<x>>
    BY <1>2, <1>4, <1>12
  <2> HIDE DEF t, x, p
  <2>4. Len(t) = 1 /\ t[1] = x
    BY <2>3
  <2>5. b = line - 1 /\ 1 \in 1 .. (line - 1) - b + 1 /\ b + 1 - 1 = b
    <3>1. b <= line - 1
      <4> SUFFICES ASSUME ~ (b <= line - 1) PROVE FALSE
        OBVIOUS
      <4>1. Len(t) = 0
        BY <2>2
      <4> QED BY <2>4, <4>1
    <3>2. Len(t) = (line - 1) - b + 1
      BY <2>2, <3>1
    <3>3. (line - 1) - b + 1 = 1 /\ line \in Nat /\ b \in Nat
      BY <1>1, <2>1, <2>4, <3>2
    <3> HIDE DEF b
    <3>4. b = line - 1
      BY <3>3
    <3> QED BY <3>3, <3>4
  <2>6. f[line - 1] = x
    BY <2>2, <2>4, <2>5
  <2>7. p <= line - 1
    BY <1>1, <1>4, <2>5
  <2>8. Stands(f, p, line - 1, x)
    BY <1>4, <2>5, <2>6, <2>7 DEF Stands
  <2> QED BY <1>0, <1>8, <1>12, <2>8 DEF next, x, p
<1>13. CASE above = 0 /\ SubSeq(f, start, line - 1) # block
  <2> DEFINE s == acc.out \o SubSeq(f, p, b - 1)
             out == s \o <<x>>
  <2> HIDE DEF block, p, x
  <2>1. /\ b - 1 \in p - 1 .. line - 1 /\ b - 1 \in Nat /\ line - 1 \in Nat
        /\ b - 1 <= line - 1 /\ (b - 1) + 1 = b /\ b \in Nat
    BY <1>1, <1>4
  <2>2. Settled(f, b - 1, wanted, s) /\ Grows(f, p, b - 1, acc.out, s)
    BY <1>6, <2>1
  <2>3. Spares(UserAt(f), (b - 1) + 1, line - 1)
    BY <1>5, <2>1 DEF Spares, UserAt
  <2>4. s \in Seq(Items) /\ Len(s) \in Nat /\ Len(acc.out) \in Nat
        /\ Len(s) = Len(acc.out) + ((b - 1) - p + 1)
    <3>1. Len(s) \in Nat /\ s \in Seq(Items)
      BY <2>2, SettledType
    <3> QED BY <2>2, <3>1 DEF Grows
  <2> HIDE DEF s
  <2>5. /\ Settled(f, line - 1, wanted, out)
        /\ Len(out) = Len(s) + 1 /\ out[Len(s) + 1] = x /\ Agree(s, out, Len(s))
    BY <1>2, <2>1, <2>2, <2>3, MarkSettles
  <2> HIDE DEF out
  <2>6. Len(s) = 0 \/ Solid(s, Len(s), x.indent)
    <3>1. CASE p <= b - 1
      <4>1. b # 1 /\ b - 1 \in p .. b - 1
        BY <1>1, <2>1, <3>1
      <4>2. Solid(s, Len(acc.out) + ((b - 1) - p + 1), x.indent)
        BY <1>1, <1>4, <2>1, <2>2, <4>1, GrowsSolid
      <4> QED BY <2>4, <4>2
    <3>2. CASE ~ (p <= b - 1)
      <4>1. acc.out = <<>> /\ b = p
        BY <1>1, <1>4, <2>1, <3>2
      <4>2. Len(<<>>) = 0
        OBVIOUS
      <4> QED BY <1>1, <2>4, <4>1, <4>2
    <3> QED BY <3>1, <3>2
  <2>7. Stands(out, 1, Len(out), x)
    <3>1. 1 <= Len(out) /\ out[Len(out)] = x /\ Len(out) - 1 = Len(s)
      BY <2>4, <2>5
    <3>2. Len(out) = 1 \/ Solid(out, Len(out) - 1, x.indent)
      <4>1. CASE Len(s) = 0
        BY <2>5, <4>1
      <4>2. CASE Len(s) # 0 /\ Solid(s, Len(s), x.indent)
        <5>1. Len(s) \in 1 .. Len(s)
          BY <2>4, <4>2
        <5> QED BY <2>4, <2>5, <3>1, <4>2, <5>1, HeadedAgree
      <4> QED BY <2>6, <4>1, <4>2
    <3> QED BY <3>1, <3>2 DEF Stands
  <2>8. Headed(out, Len(out))
    <3>1. Len(out) \in 1 .. Len(out) /\ out[Len(out)] = x /\ Len(out) \in Nat
      BY <2>4, <2>5
    <3>2. \A l \in Len(out) + 1 .. Len(out) : FALSE
      BY <3>1
    <3> QED BY <1>2, <3>1, <3>2 DEF Headed
  <2>9. Paved(f, line + 1, wanted, [out |-> out, p |-> line])
    BY <1>9, <2>5, <2>7, <2>8
  <2>10. next = [out |-> out, p |-> line]
    BY <1>0, <1>2, <1>4, <1>13 DEF s, out, block, p
  <2> QED BY <2>9, <2>10 DEF next
<1> QED BY <1>10, <1>11, <1>12, <1>13 DEF next

(* A file copied whole has every comment where the next run finds it.      *)
LEMMA CopySettles ==
  ASSUME NEW f \in Seq(Items), Len(f) # 0,
         NEW wanted, Lone(f, wanted), Apart(f, wanted)
  PROVE  Settled(f, Len(f), wanted, CopyKept(f, 1, Len(f), wanted))
<1> DEFINE n == Len(f)
<1>0. n \in Nat /\ 1 \in 1 .. Len(f) /\ n \in 1 .. Len(f) /\ n \in 0 .. n
  OBVIOUS
<1>1. PICK done : /\ Copying(f, 1, n, wanted, done)
                  /\ CopyKept(f, 1, n, wanted) = done[n].out \o SubSeq(f, done[n].p, n)
  BY <1>0, CopySteps
<1> DEFINE Ok(i) == Paved(f, i + 1, wanted, done[i])
           T == {i \in 0 .. n : ~ Ok(i)}
<1> HIDE DEF n
<1>2. T = {}
  <2>1. SUFFICES ASSUME T # {} PROVE FALSE
    OBVIOUS
  <2>2. T \subseteq Nat
    BY <1>0
  <2>3. PICK i \in T : \A j \in T : i <= j
    <3> HIDE DEF T
    <3> QED BY <2>1, <2>2, Least
  <2>4. i \in 0 .. n /\ ~ Ok(i)
    OBVIOUS
  <2>5. done[i] = IF i < 1 THEN [out |-> <<>>, p |-> 1]
                  ELSE IF wanted[i] = <<>> THEN done[i - 1]
                  ELSE InsertAbove(f, 1, wanted, done[i - 1], i)
    BY <1>1, <2>4 DEF Copying
  <2>6. CASE i = 0
    <3> DEFINE acc == done[i]
    <3>1. acc.out = <<>> /\ acc.p = 1
      BY <2>5, <2>6
    <3> HIDE DEF acc
    <3>2. Traced(f, UserAt(f), 1, 0, <<>>, <<>>)
      <4>1. <<>> \in Seq(Items) /\ Len(<<>>) = 0 /\ 1 .. 0 = {} /\ <<>> \in [1 .. 0 -> Nat]
        OBVIOUS
      <4> QED BY <4>1 DEF Traced
    <3>3. Firm(wanted, <<>>, <<>>)
      <4>1. \A k \in 1 .. Len(<<>>) : FALSE
        OBVIOUS
      <4> QED BY <4>1 DEF Firm
    <3>4. acc.p - 1 = 0 /\ acc.p \in 1 .. 1 /\ \A j \in acc.p .. 1 - 1 : FALSE
      BY <3>1
    <3>5. Settled(f, acc.p - 1, wanted, acc.out)
      BY <3>1, <3>2, <3>3, <3>4 DEF Settled
    <3>6. AtLine(f, acc.p, acc.out)
      BY <3>1 DEF AtLine
    <3>7. Paved(f, 1, wanted, acc)
      BY <3>1, <3>4, <3>5, <3>6 DEF Paved
    <3>8. i + 1 = 1
      BY <2>6
    <3> QED BY <2>4, <3>7, <3>8 DEF acc
  <2>7. CASE i # 0
    <3> DEFINE acc == done[i - 1]
    <3>1. /\ i - 1 \in 0 .. n /\ ~ (i <= i - 1) /\ (i - 1) + 1 = i /\ ~ (i < 1)
          /\ i \in 1 .. Len(f) /\ i \in Nat
      BY <1>0, <2>4, <2>7 DEF n
    <3>2. Ok(i - 1)
      <4> HIDE DEF Ok
      <4> QED BY <2>3, <3>1
    <3>3. Paved(f, i, wanted, acc)
      BY <3>1, <3>2
    <3> HIDE DEF acc
    <3>4. CASE wanted[i] = <<>>
      <4>1. acc.p \in 1 .. i + 1 /\ (acc.out # <<>> => acc.p < i + 1)
        BY <3>1, <3>3 DEF Paved
      <4>2. \A j \in acc.p .. (i + 1) - 1 : j = i \/ j \in acc.p .. i - 1
        BY <3>1, <4>1
      <4>3. Paved(f, i + 1, wanted, acc)
        BY <3>3, <3>4, <4>1, <4>2 DEF Paved
      <4> QED BY <2>4, <2>5, <3>1, <3>4, <4>3 DEF acc
    <3>5. CASE wanted[i] # <<>>
      <4>1. Paved(f, i + 1, wanted, InsertAbove(f, 1, wanted, acc, i))
        BY <3>1, <3>3, <3>5, PavedInsert
      <4> QED BY <2>4, <2>5, <3>1, <3>5, <4>1 DEF acc
    <3> QED BY <3>4, <3>5
  <2> QED BY <2>6, <2>7
<1>3. Ok(n)
  <2> HIDE DEF Ok
  <2> QED BY <1>0, <1>2
<1> DEFINE acc == done[n]
           m == n + 1
<1>4. Paved(f, m, wanted, acc)
  BY <1>3
<1> HIDE DEF acc
<1>5. m \in 1 .. Len(f) + 1 /\ m - 1 = n
  BY <1>0 DEF n
<1>6. n \in acc.p - 1 .. m - 1
  BY <1>0, <1>4, <1>5 DEF Paved
<1> HIDE DEF m
<1>7. Settled(f, n, wanted, acc.out \o SubSeq(f, acc.p, n))
  BY <1>4, <1>5, <1>6, PavedCopies
<1> QED BY <1>1, <1>7 DEF acc, n

(* A comment that belongs to a line from above its annotations stands at   *)
(* column 0, like the one wanted: only then the two compare equal.         *)
Flush(g, line, x) ==
  LET above == MarkerBeforeAnnotations(g, 1, line)
  IN  above # 0 => g[above].indent = 0 /\ x.indent = 0

(* A comment that is found where it stands is left there.                  *)
LEMMA InsertAgain ==
  ASSUME NEW g \in Seq(Items), NEW line \in 1 .. Len(g),
         NEW wanted, NEW x \in Markers, wanted[line] = <<x>>,
         x.drift = 0, x.indent = Column(g[line]),
         Stands(g, 1, line - 1, x), Flush(g, line, x),
         NEW acc, acc.p = 1
  PROVE  InsertAbove(g, 1, wanted, acc, line) = acc
<1> DEFINE above == MarkerBeforeAnnotations(g, acc.p, line)
           open == LastOf(g, 1, line - 1, {"marker", "doc"})
           at == {i \in 1 .. line - 1 : g[i].kind \in {"marker", "doc"}}
           between == {g[i].kind : i \in open + 1 .. line - 1}
           b == BlockStart(g, 1, line)
           start == Max({b, acc.p})
<1>1. Len(g) \in Nat /\ line \in Nat /\ at \subseteq 0 .. line
  OBVIOUS
<1>2. open = IF at = {} THEN 0 ELSE Max(at)
  BY DEF LastOf
<1>3. at # {} => Max(at) \in at /\ \A i \in at : i <= Max(at)
  <2> HIDE DEF at
  <2> QED BY <1>1, MaxIs
<1>4. \A m \in at : (\A i \in m + 1 .. line - 1 : i \notin at) => open = m
  <2> SUFFICES ASSUME NEW m \in at, \A i \in m + 1 .. line - 1 : i \notin at
               PROVE  open = m
    OBVIOUS
  <2>1. m \in 1 .. line - 1 /\ open = Max(at) /\ Max(at) \in at /\ m <= Max(at)
    BY <1>2, <1>3
  <2>2. open \in 1 .. line - 1 /\ open \in at /\ m <= open
    BY <2>1
  <2> HIDE DEF open, at
  <2>3. ~ (open \in m + 1 .. line - 1)
    BY <2>2
  <2> QED BY <1>1, <2>1, <2>2, <2>3
<1>5. above = IF /\ open # 0
                 /\ g[open].kind = "marker"
                 /\ "ann" \in between
                 /\ between \subseteq {"ann", "blank"}
              THEN open ELSE 0
  BY DEF MarkerBeforeAnnotations
<1>6. /\ above # 0 /\ ReadsAlike(g[above], <<x>>) => InsertAbove(g, 1, wanted, acc, line) = acc
      /\ above = 0 /\ SubSeq(g, start, line - 1) = <<x>> => InsertAbove(g, 1, wanted, acc, line) = acc
  BY DEF InsertAbove
<1>60. above # 0 => g[above].indent = 0 /\ x.indent = 0
  BY DEF Flush
<1>61. x.kind = "marker"
  BY DEF Markers
<1> HIDE DEF above, open, start, b
<1>7. CASE \E m \in 1 .. line - 1 :
             /\ Says(g[m], x)
             /\ \A l \in m + 1 .. line - 1 : g[l].kind \in {"ann", "blank"}
             /\ \E l \in m + 1 .. line - 1 : g[l].kind = "ann"
  <2>1. PICK m \in 1 .. line - 1 :
             /\ Says(g[m], x)
             /\ \A l \in m + 1 .. line - 1 : g[l].kind \in {"ann", "blank"}
             /\ \E l \in m + 1 .. line - 1 : g[l].kind = "ann"
    BY <1>7
  <2>2. open = m
    <3>1. m \in at /\ \A i \in m + 1 .. line - 1 : i \notin at
      BY <1>61, <2>1 DEF Says
    <3> QED BY <1>4, <3>1
  <2>3. "ann" \in between /\ between \subseteq {"ann", "blank"}
    BY <2>1, <2>2
  <2>4. above = m /\ m # 0
    BY <1>5, <1>61, <2>1, <2>2, <2>3 DEF Says
  <2>5. ReadsAlike(g[above], <<x>>)
    <3>1. g[m] \in Items /\ g[m].indent = 0 /\ x.indent = 0 /\ x \in Items
      BY <1>60, <2>1, <2>4 DEF Markers
    <3>2. [g[m] EXCEPT !.drift = 0] = x
      BY <2>1, <3>1 DEF Says, Items
    <3> QED BY <2>4, <3>1, <3>2 DEF ReadsAlike
  <2> QED BY <1>6, <2>4, <2>5
<1>8. CASE /\ 1 <= line - 1 /\ g[line - 1] = x
           /\ line - 1 = 1 \/ Solid(g, (line - 1) - 1, x.indent)
  <2>1. open = line - 1
    <3>1. line - 1 \in at /\ \A i \in (line - 1) + 1 .. line - 1 : i \notin at
      BY <1>1, <1>8, <1>61
    <3> QED BY <1>4, <3>1
  <2>2. above = 0
    <3>1. \A i \in open + 1 .. line - 1 : FALSE
      BY <1>1, <2>1
    <3>2. "ann" \notin between
      BY <3>1
    <3> QED BY <1>5, <3>2
  <2>3. /\ b \in 1 .. line /\ (\A i \in b .. line - 1 : ~ Solid(g, i, x.indent))
        /\ (b = 1 \/ Solid(g, b - 1, x.indent))
    BY BlockStartSolid DEF b
  <2>4. ~ Solid(g, line - 1, x.indent)
    BY <1>8, <1>61 DEF Solid
  <2>5. b = line - 1
    <3>1. b # line
      BY <1>1, <1>8, <2>3, <2>4
    <3>2. CASE line - 1 = 1
      BY <1>1, <2>3, <3>1, <3>2
    <3>3. CASE line - 1 # 1
      <4>1. Solid(g, (line - 1) - 1, x.indent)
        BY <1>8, <3>3
      <4>2. (line - 1) - 1 \notin b .. line - 1
        BY <2>3, <4>1
      <4> QED BY <1>1, <1>8, <2>3, <3>1, <4>2
    <3> QED BY <3>2, <3>3
  <2>6. start = b
    <3> DEFINE T == {b, 1}
    <3>1. T \subseteq 0 .. line /\ T # {} /\ T = {b, 1}
      BY <1>1, <2>3
    <3> HIDE DEF T
    <3>2. Max(T) \in T /\ \A m \in T : m <= Max(T)
      BY <1>1, <3>1, MaxIs
    <3>3. Max(T) = b
      BY <2>3, <3>1, <3>2
    <3> QED BY <3>3 DEF T, start
  <2> DEFINE t == SubSeq(g, line - 1, line - 1)
  <2>7. t = <<x>>
    <3>1. line - 1 \in 1 .. Len(g) /\ (line - 1) + 1 - 1 = line - 1 /\ (line - 1) - (line - 1) + 1 = 1
      BY <1>1, <1>8
    <3>2. line - 1 \in 1 .. Len(g) + 1 /\ line - 1 \in 0 .. Len(g)
      BY <1>1, <3>1
    <3>3. t \in Seq(Items) /\ Len(t) = 1 /\ t[1] = g[line - 1]
      BY <3>1, <3>2, SubSeqItems
    <3> HIDE DEF t
    <3> QED BY <1>8, <3>3
  <2> QED BY <1>6, <2>2, <2>5, <2>6, <2>7
<1> QED BY <1>7, <1>8 DEF Stands

(* A file whose comments are all found is copied as it is.                 *)
LEMMA CopyAgain ==
  ASSUME NEW g \in Seq(Items), Len(g) # 0, NEW wanted, Lone(g, wanted),
         \A i \in 1 .. Len(g) : wanted[i] # <<>> => /\ Stands(g, 1, i - 1, Last(wanted[i]))
                                              /\ Flush(g, i, Last(wanted[i]))
  PROVE  CopyKept(g, 1, Len(g), wanted) = g
<1> DEFINE n == Len(g)
<1>0. n \in Nat /\ 1 \in 1 .. Len(g) /\ n \in 1 .. Len(g) /\ n \in 0 .. n
  OBVIOUS
<1>1. PICK done : /\ Copying(g, 1, n, wanted, done)
                  /\ CopyKept(g, 1, n, wanted) = done[n].out \o SubSeq(g, done[n].p, n)
  BY <1>0, CopySteps
<1> DEFINE Ok(i) == done[i].p = 1 /\ done[i].out = <<>>
           T == {i \in 0 .. n : ~ Ok(i)}
<1> HIDE DEF n
<1>2. T = {}
  <2>1. SUFFICES ASSUME T # {} PROVE FALSE
    OBVIOUS
  <2>2. T \subseteq Nat
    BY <1>0
  <2>3. PICK i \in T : \A j \in T : i <= j
    <3> HIDE DEF T
    <3> QED BY <2>1, <2>2, Least
  <2>4. i \in 0 .. n /\ ~ Ok(i)
    OBVIOUS
  <2>5. done[i] = IF i < 1 THEN [out |-> <<>>, p |-> 1]
                  ELSE IF wanted[i] = <<>> THEN done[i - 1]
                  ELSE InsertAbove(g, 1, wanted, done[i - 1], i)
    BY <1>1, <2>4 DEF Copying
  <2>6. CASE i = 0
    BY <2>4, <2>5, <2>6
  <2>7. CASE i # 0
    <3> DEFINE acc == done[i - 1]
    <3>1. i - 1 \in 0 .. n /\ ~ (i <= i - 1) /\ ~ (i < 1) /\ i \in 1 .. Len(g)
      BY <1>0, <2>4, <2>7 DEF n
    <3>2. Ok(i - 1)
      <4> HIDE DEF Ok
      <4> QED BY <2>3, <3>1
    <3>3. acc.p = 1 /\ acc.out = <<>>
      BY <3>2
    <3> HIDE DEF acc
    <3>4. wanted[i] # <<>> => InsertAbove(g, 1, wanted, acc, i) = acc
      <4> SUFFICES ASSUME wanted[i] # <<>> PROVE InsertAbove(g, 1, wanted, acc, i) = acc
        OBVIOUS
      <4> DEFINE x == Last(wanted[i])
      <4>1. /\ x \in Markers /\ wanted[i] = <<x>> /\ x.drift = 0
            /\ x.indent = Column(g[i]) /\ Stands(g, 1, i - 1, x) /\ Flush(g, i, x)
        BY <3>1, LoneIs
      <4> HIDE DEF x
      <4> QED BY <3>1, <3>3, <4>1, InsertAgain
    <3>5. done[i] = acc
      BY <2>5, <3>1, <3>4 DEF acc
    <3> QED BY <2>4, <3>3, <3>5
  <2> QED BY <2>6, <2>7
<1>3. Ok(n)
  <2> HIDE DEF Ok
  <2> QED BY <1>0, <1>2
<1>4. CopyKept(g, 1, n, wanted) = <<>> \o SubSeq(g, 1, n)
  BY <1>1, <1>3
<1>5. SubSeq(g, 1, n) = g
  BY SubSeqFull DEF n
<1>6. <<>> \o g = g
  OBVIOUS
<1> QED BY <1>4, <1>5, <1>6 DEF n

(* Where nothing is cut out the whole file is one region.                  *)
LEMMA StripNothing ==
  ASSUME NEW f \in Seq(Items), Len(f) # 0, NEW wanted, Wanted(f, wanted)
  PROVE  StripTranslated(f, {}, wanted) = CopyKept(f, 1, Len(f), wanted)
<1> DEFINE n == Len(f)
<1>1. PICK c : StrippedBy(f, {}, wanted, c) /\ StripTranslated(f, {}, wanted) = c[n]
  BY StripSteps
<1>2. n \in 1 .. n /\ n \in Nat /\ n \in 1 .. Len(f) /\ 1 \in 1 .. Len(f)
  OBVIOUS
<1> HIDE DEF n
<1>3. Start({}, n) = 1
  <2> DEFINE T == {j \in 1 .. n : (j .. n) \cap {} = {}}
  <2>1. 1 \in T /\ T \subseteq Nat /\ \A j \in T : j >= 1
    BY <1>2
  <2>2. Start({}, n) = Min(T)
    BY DEF Start
  <2> HIDE DEF T
  <2> DEFINE m == Min(T)
  <2>3. m \in T /\ m <= 1
    BY <2>1, MinIs
  <2> HIDE DEF m
  <2>4. m \in Nat /\ m >= 1
    BY <2>1, <2>3
  <2>5. m = 1
    BY <2>3, <2>4
  <2> QED BY <2>2, <2>5 DEF m
<1>4. c[0] = <<>> /\ c[n] = c[1 - 1] \o CopyKept(f, 1, n, wanted)
  BY <1>1, <1>2, <1>3 DEF StrippedBy, n
<1>5. CopyKept(f, 1, n, wanted) \in Seq(Items)
  BY <1>2, CopyKeepsUsers
<1>6. \A s \in Seq(Items) : <<>> \o s = s
  OBVIOUS
<1> QED BY <1>1, <1>4, <1>5, <1>6, SMTT(20) DEF n

(* A tidy file is tidied to itself.                                        *)
LEMMA TidyAgain ==
  ASSUME NEW g \in Seq(Items), IsTidy(g)
  PROVE  Tidy(g) = g
<1> DEFINE n == Len(g)
           at == TidyAt(g)
           h == [i \in 0 .. n |-> SubSeq(g, 1, i)]
<1>1. DOMAIN g = 1 .. n /\ n \in Nat /\ n \in 0 .. Len(g)
  OBVIOUS
<1>2. ASSUME NEW i \in 1 .. n PROVE i \in at
  <2>1. CASE g[i] # Blank
    BY <1>1, <2>1 DEF TidyAt, Shown
  <2>2. CASE g[i] = Blank
    <3>1. i # 1 /\ i # n /\ g[i - 1] # Blank
      BY <1>1, <2>2 DEF IsTidy
    <3>2. i - 1 \in 1 .. n /\ i + 1 \in 1 .. n /\ i - 1 < i /\ i + 1 > i
      <4>1. i \in 1 .. n /\ i # 1 /\ i # n
        BY <3>1
      <4> HIDE DEF n, at, h
      <4>2. n \in Nat
        BY <1>1
      <4> QED BY <4>1, <4>2
    <3>3. g[i + 1] # Blank
      <4> SUFFICES ASSUME g[i + 1] = Blank PROVE FALSE
        OBVIOUS
      <4>1. g[(i + 1) - 1] # Blank
        BY <1>1, <3>2 DEF IsTidy
      <4>2. (i + 1) - 1 = i
        OBVIOUS
      <4> QED BY <2>2, <4>1, <4>2
    <3>4. i - 1 \in Shown(g) /\ i + 1 \in Shown(g)
      BY <1>1, <3>1, <3>2, <3>3 DEF Shown
    <3> QED BY <1>1, <3>1, <3>2, <3>4 DEF TidyAt
  <2> QED BY <2>1, <2>2
<1>3. /\ h \in [0 .. n -> Seq(Items)]
      /\ \A i \in 0 .. n : h[i] = SubSeq(g, 1, i)
  <2>1. ASSUME NEW i \in 0 .. n PROVE SubSeq(g, 1, i) \in Seq(Items)
    <3>1. 1 \in 1 .. Len(g) + 1 /\ i \in 0 .. Len(g)
      BY <1>1
    <3> QED BY <3>1, SubSeqItems
  <2> QED BY <2>1
<1> HIDE DEF h, at, n
<1>4. PickedBy(g, at, h)
  <2>1. h[0] = <<>>
    <3>1. SubSeq(g, 1, 0) = <<>>
      BY SubSeqEmpty
    <3> QED BY <1>1, <1>3, <3>1
  <2>2. ASSUME NEW i \in 1 .. n PROVE h[i] = Append(h[i - 1], g[i])
    <3>1. 1 \in 1 .. Len(g) /\ i \in 1 .. Len(g) /\ i \in 0 .. n /\ i - 1 \in 0 .. n /\ g[i] \in Items
      BY <1>1 DEF n
    <3>2. SubSeq(g, 1, i) = SubSeq(g, 1, i - 1) \o <<g[i]>>
      BY <3>1, SubSeqRecursiveSecond
    <3>3. h[i - 1] \in Seq(Items) /\ h[i - 1] = SubSeq(g, 1, i - 1) /\ h[i] = SubSeq(g, 1, i)
      BY <1>3, <3>1
    <3>4. Append(h[i - 1], g[i]) = h[i - 1] \o <<g[i]>>
      BY <3>1, <3>3, AppendIsConcat
    <3> QED BY <3>2, <3>3, <3>4
  <2> QED BY <1>2, <1>3, <2>1, <2>2 DEF PickedBy, n
<1>5. Pick(g, at) = h[n]
  BY <1>4, PickIs DEF n
<1>6. Tidy(g) = Pick(g, at)
  BY Zenon DEF Tidy, TidyAt, Shown, at
<1>7. h[n] = g
  <2>1. SubSeq(g, 1, n) = g
    BY SubSeqFull DEF n
  <2> QED BY <1>1, <1>3, <2>1 DEF n
<1> QED BY <1>5, <1>6, <1>7

(* Tidying leaves every comment where the next run finds it.               *)
LEMMA TidySettles ==
  ASSUME NEW f \in Seq(Items), NEW wanted, Lone(f, wanted),
         NEW g, Settled(f, Len(f), wanted, g)
  PROVE  Settled(f, Len(f), wanted, Tidy(g))
<1>1. PICK o : Traced(f, UserAt(f), 1, Len(f), g, o) /\ Firm(wanted, g, o)
  BY DEF Settled
<1>2. g \in Seq(Items) /\ DOMAIN g = 1 .. Len(g) /\ Len(g) \in Nat /\ Len(f) \in Nat
  BY <1>1 DEF Traced
<1> DEFINE h == Tidy(g)
<1>3. h \in Seq(Items) /\ \E e : Ascends(g, TidyAt(g), Len(g), h, e)
  BY <1>2, TidyPicks
<1>4. PICK e : Ascends(g, TidyAt(g), Len(g), h, e)
  BY <1>3
<1> HIDE DEF h
<1> DEFINE n == Len(h)
<1>5. n \in Nat
  BY <1>3
<1> HIDE DEF n
<1>6. /\ \A k \in 1 .. n : e[k] \in 1 .. Len(g) /\ h[k] = g[e[k]]
      /\ \A j, k \in 1 .. n : j < k => e[j] < e[k]
      /\ \A i \in TidyAt(g) : i \in 1 .. Len(g) /\ \E k \in 1 .. n : e[k] = i
      /\ \A i \in 1 .. Len(g) : g[i] # Blank => i \in TidyAt(g)
  <2>1. \A i \in 1 .. Len(g) : g[i] # Blank => i \in TidyAt(g)
    BY <1>2 DEF TidyAt, Shown
  <2>2. \A i \in TidyAt(g) : i \in 1 .. Len(g)
    BY <1>2 DEF TidyAt
  <2> QED BY <1>4, <2>1, <2>2 DEF Ascends, n
<1> DEFINE r == [k \in 1 .. n |-> o[e[k]]]
<1>7. r \in [1 .. n -> Nat] /\ \A k \in 1 .. n : r[k] = o[e[k]]
  BY <1>1, <1>6 DEF Traced
<1> HIDE DEF r
<1>8. Blank.kind = "blank"
  BY DEF Blank, Item, Indented
<1>9. Traced(f, UserAt(f), 1, Len(f), h, r)
  <2>1. ASSUME NEW k \in 1 .. n
        PROVE  IF r[k] = 0 THEN h[k].kind = "marker" ELSE r[k] \in 1 .. Len(f) /\ h[k] = f[r[k]]
    BY <1>1, <1>6, <1>7 DEF Traced
  <2>2. ASSUME NEW j \in 1 .. n, NEW k \in 1 .. n, j < k, r[j] # 0, r[k] # 0
        PROVE  r[j] < r[k]
    <3>1. e[j] < e[k] /\ e[j] \in 1 .. Len(g) /\ e[k] \in 1 .. Len(g)
      BY <1>6, <2>2
    <3> QED BY <1>1, <1>7, <2>2, <3>1 DEF Traced
  <2>3. ASSUME NEW i \in 1 .. Len(f), i \in UserAt(f) PROVE \E k \in 1 .. n : r[k] = i
    <3>1. PICK m \in 1 .. Len(g) : o[m] = i
      BY <1>1, <2>3 DEF Traced
    <3>2. g[m] = f[i]
      BY <1>1, <3>1 DEF Traced
    <3>3. g[m] # Blank
      BY <1>8, <2>3, <3>2 DEF UserAt, OfUser
    <3>4. PICK k \in 1 .. n : e[k] = m
      BY <1>6, <3>3
    <3> QED BY <1>7, <3>1, <3>4
  <2> QED BY <1>3, <1>7, <2>1, <2>2, <2>3 DEF Traced, n
<1>10. ASSUME NEW k \in 1 .. n, NEW m \in 1 .. e[k] - 1, g[m] # Blank
       PROVE  \E j \in 1 .. k - 1 : e[j] = m
  <2>1. m \in 1 .. Len(g) /\ m < e[k] /\ m \in Nat /\ e[k] \in Nat /\ k \in Nat
    BY <1>2, <1>6
  <2>2. PICK j \in 1 .. n : e[j] = m
    BY <1>6, <1>10, <2>1
  <2>3. j # k /\ ~ (k < j)
    BY <1>6, <2>1, <2>2
  <2>4. j \in 1 .. k - 1
    BY <1>5, <2>1, <2>3
  <2> QED BY <2>2, <2>4
<1>11. ASSUME NEW j \in 1 .. n, NEW k \in 1 .. n, NEW l \in j + 1 .. k - 1
       PROVE  e[l] \in e[j] + 1 .. e[k] - 1 /\ h[l] = g[e[l]]
  <2>1. l \in 1 .. n /\ j < l /\ l < k
    BY <1>5
  <2>2. e[j] < e[l] /\ e[l] < e[k] /\ e[l] \in 1 .. Len(g) /\ e[j] \in 1 .. Len(g)
        /\ e[k] \in 1 .. Len(g) /\ h[l] = g[e[l]]
    BY <1>6, <2>1
  <2> QED BY <1>2, <2>2
<1>12. ASSUME NEW k \in 1 .. n, Headed(g, e[k] - 1) PROVE Headed(h, k - 1)
  <2>1. PICK b \in 1 .. e[k] - 1 :
           g[b].kind = "marker" /\ \A l \in b + 1 .. e[k] - 1 : g[l].kind # "doc"
    BY <1>12 DEF Headed
  <2>2. PICK j \in 1 .. k - 1 : e[j] = b
    BY <1>8, <1>10, <2>1
  <2>3. j \in 1 .. n /\ h[j].kind = "marker"
    BY <1>5, <1>6, <2>1, <2>2
  <2>4. \A l \in j + 1 .. k - 1 : h[l].kind # "doc"
    BY <1>11, <2>1, <2>2, <2>3
  <2> QED BY <2>3, <2>4 DEF Headed
<1>13. ASSUME NEW k \in 1 .. n, NEW y, Solid(g, e[k], y) PROVE Solid(h, k, y)
  BY <1>6, <1>12, <1>13 DEF Solid
<1>14. ASSUME NEW k \in 1 .. n, k # 1, g[e[k]] # Blank,
              NEW y, e[k] = 1 \/ Solid(g, e[k] - 1, y)
       PROVE  Solid(h, k - 1, y)
  <2> DEFINE c == e[k - 1]
  <2>1. k - 1 \in 1 .. n /\ k - 1 < k
    BY <1>5, <1>14
  <2>2. c \in 1 .. Len(g) /\ e[k] \in 1 .. Len(g) /\ c < e[k] /\ h[k - 1] = g[c]
    BY <1>6, <2>1
  <2>3. \A i \in TidyAt(g) : ~ (c < i /\ i < e[k])
    <3> SUFFICES ASSUME NEW i \in TidyAt(g), c < i, i < e[k] PROVE FALSE
      OBVIOUS
    <3>1. PICK l \in 1 .. n : e[l] = i
      BY <1>6
    <3>2. l # k - 1 /\ l # k /\ ~ (l < k - 1) /\ ~ (k < l)
      BY <1>2, <1>6, <2>1, <2>2, <3>1
    <3> QED BY <1>5, <2>1, <3>2
  <2> HIDE DEF c
  <2>4. CASE c = e[k] - 1
    <3>1. Solid(g, c, y)
      BY <1>2, <1>14, <2>2, <2>4
    <3> QED BY <1>13, <2>1, <3>1 DEF c
  <2>5. CASE c # e[k] - 1
    <3>1. c + 1 \in 1 .. Len(g) /\ c < c + 1 /\ c + 1 < e[k] /\ (c + 1) - 1 = c
      BY <1>2, <2>2, <2>5
    <3>2. c + 1 \notin TidyAt(g)
      BY <2>3, <3>1
    <3>3. e[k] \in Shown(g)
      BY <1>2, <1>14, <2>2 DEF Shown
    <3>4. g[c] = Blank
      <4> SUFFICES ASSUME g[c] # Blank PROVE FALSE
        OBVIOUS
      <4>1. c \in Shown(g) /\ g[(c + 1) - 1] # Blank
        BY <1>2, <2>2, <3>1 DEF Shown
      <4>2. e[k] > c + 1
        BY <1>2, <2>2, <3>1
      <4>3. c + 1 \in DOMAIN g
        BY <1>2, <3>1
      <4>4. c + 1 \in TidyAt(g)
        BY <3>1, <3>3, <4>1, <4>2, <4>3 DEF TidyAt
      <4> QED BY <3>2, <4>4
    <3>5. h[k - 1].kind = "blank"
      BY <1>8, <2>2, <3>4
    <3> QED BY <3>5 DEF Solid
  <2> QED BY <2>4, <2>5
<1>15. ASSUME NEW k \in 1 .. n, NEW x, x.kind = "marker", Stands(g, 1, e[k] - 1, x)
       PROVE  Stands(h, 1, k - 1, x)
  <2>1. x # Blank /\ e[k] \in 1 .. Len(g) /\ e[k] \in Nat
    BY <1>6, <1>8, <1>15
  <2>2. CASE /\ 1 <= e[k] - 1 /\ g[e[k] - 1] = x
             /\ e[k] - 1 = 1 \/ Solid(g, (e[k] - 1) - 1, x.indent)
    <3>1. e[k] - 1 \in 1 .. e[k] - 1
      BY <2>1, <2>2
    <3>2. PICK j \in 1 .. k - 1 : e[j] = e[k] - 1
      BY <1>10, <2>1, <2>2, <3>1
    <3>3. j \in 1 .. n /\ j \in Nat
      BY <1>5
    <3>4. j = k - 1
      <4> SUFFICES ASSUME j # k - 1 PROVE FALSE
        OBVIOUS
      <4>1. k - 1 \in j + 1 .. k - 1
        BY <1>5, <3>3
      <4>2. e[k - 1] \in e[j] + 1 .. e[k] - 1
        BY <1>11, <3>3, <4>1
      <4> QED BY <2>1, <3>2, <4>2
    <3>5. h[k - 1] = x /\ 1 <= k - 1
      BY <1>6, <2>2, <3>2, <3>3, <3>4
    <3>6. k - 1 = 1 \/ Solid(h, (k - 1) - 1, x.indent)
      <4>1. e[k - 1] = e[k] - 1
        BY <3>2, <3>4
      <4>2. k - 1 # 1 => Solid(h, (k - 1) - 1, x.indent)
        <5> DEFINE q == k - 1
        <5>1. q \in 1 .. n /\ g[e[q]] # Blank /\ (e[q] = 1 \/ Solid(g, e[q] - 1, x.indent))
          BY <2>1, <2>2, <3>3, <3>4, <4>1
        <5> HIDE DEF q
        <5>2. q # 1 => Solid(h, q - 1, x.indent)
          BY <1>14, <5>1
        <5> QED BY <5>2 DEF q
      <4> QED BY <4>2
    <3> QED BY <3>5, <3>6 DEF Stands
  <2>3. CASE \E m \in 1 .. e[k] - 1 :
              /\ Says(g[m], x)
              /\ \A l \in m + 1 .. e[k] - 1 : g[l].kind \in {"ann", "blank"}
              /\ \E l \in m + 1 .. e[k] - 1 : g[l].kind = "ann"
    <3>1. PICK m \in 1 .. e[k] - 1 :
              /\ Says(g[m], x)
              /\ \A l \in m + 1 .. e[k] - 1 : g[l].kind \in {"ann", "blank"}
              /\ \E l \in m + 1 .. e[k] - 1 : g[l].kind = "ann"
      BY <2>3
    <3>2. PICK a \in m + 1 .. e[k] - 1 : g[a].kind = "ann"
      BY <3>1
    <3>3. PICK j \in 1 .. k - 1 : e[j] = m
      BY <1>8, <1>10, <1>15, <2>1, <3>1 DEF Says
    <3>4. a \in 1 .. e[k] - 1 /\ g[a] # Blank
      BY <1>8, <3>2
    <3>5. PICK i \in 1 .. k - 1 : e[i] = a
      BY <1>10, <3>4
    <3>6. i \in 1 .. n /\ j \in 1 .. n /\ Says(h[j], x) /\ h[i].kind = "ann"
      BY <1>5, <1>6, <3>1, <3>2, <3>3, <3>5, SMTT(20)
    <3>7. i \in j + 1 .. k - 1
      <4>1. i # j /\ ~ (i < j)
        BY <1>6, <2>1, <3>2, <3>3, <3>5, <3>6
      <4> QED BY <1>5, <3>6, <4>1
    <3>8. \A l \in j + 1 .. k - 1 : h[l].kind \in {"ann", "blank"}
      BY <1>11, <3>1, <3>3, <3>6, SMTT(20)
    <3> QED BY <3>6, <3>7, <3>8 DEF Stands
  <2> QED BY <1>15, <2>2, <2>3 DEF Stands
<1>16. Firm(wanted, h, r)
  <2> SUFFICES ASSUME NEW k \in 1 .. n, r[k] # 0, wanted[r[k]] # <<>>
               PROVE  Stands(h, 1, k - 1, Last(wanted[r[k]]))
    BY DEF Firm, n
  <2>1. r[k] \in 1 .. Len(f) /\ r[k] = o[e[k]] /\ e[k] \in 1 .. Len(g)
    BY <1>1, <1>6, <1>7 DEF Traced
  <2>2. Last(wanted[r[k]]).kind = "marker"
    BY <2>1, LoneIs
  <2>3. Stands(g, 1, e[k] - 1, Last(wanted[r[k]]))
    BY <1>1, <2>1 DEF Firm
  <2> QED BY <1>15, <2>2, <2>3
<1> QED BY <1>9, <1>16 DEF Settled, h

-----------------------------------------------------------------------------
(* A comment is wanted above the first line of a declaration that is       *)
(* blamed, or above a line of its body, and it gives that reason.          *)
LEMMA BlockerSays ==
  ASSUME NEW f, WellFormed(f), NEW v, NEW how, NEW stale, StaleOnes(f, stale), ~ Stray(f, stale),
         NEW i \in DOMAIN f, Blockers(f, v, how, stale)[i] # <<>>
  PROVE  LET b == Blockers(f, v, how, stale)
             d == f[i].of
         IN  /\ f[i].kind \in Code /\ d \in Declarations(f) /\ i \in Lines(f, d)
             /\ v[d] # Java
             /\ \/ /\ v[d].at # None /\ i = First(f, d, how[d])
                   /\ b[i] = <<Indented("marker", v[d].at, Column(f[i]))>>
                \/ /\ v[d].inside # None /\ f[i].kind = "body"
                   /\ b[i] = <<Indented("marker", v[d].inside, Column(f[i]))>>
<1> DEFINE d == f[i].of
           b == Blockers(f, v, how, stale)
           at == <<Indented("marker", v[d].at, Column(f[i]))>>
           inside == <<Indented("marker", v[d].inside, Column(f[i]))>>
           own == f[i].kind \in Code /\ v[d] # Java
           x == IF own /\ v[d].at # None /\ i = First(f, d, how[d])
                THEN at ELSE <<>>
           y == IF own /\ v[d].inside # None /\ f[i].kind = "body"
                THEN inside ELSE <<>>
           z == IF i \in stale /\ ~InsideGeneratedKdoc(f, i)
                THEN <<Indented("marker", "stale", Column(f[i]))>> ELSE <<>>
<1>1. b[i] = x \o y \o z
  BY DEF Blockers
<1>2. f \in Seq(Items) /\ own
  <2>1. f \in Seq(Items)
    BY DEF WellFormed
  <2>2. ~ Astray(f, stale, i)
    BY DEF Stray, Astray
  <2> QED BY <2>1, <2>2, BlockedLine
<1>3. d \in Declarations(f) /\ i \in Lines(f, d)
  BY <1>2 DEF Declarations, Lines
<1>4. z = <<>>
  BY <1>2 DEF StaleOnes, Code
<1>5. \A r : (<<>> \o <<r>>) \o <<>> = <<r>> /\ (<<r>> \o <<>>) \o <<>> = <<r>>
  OBVIOUS
<1>6. (<<>> \o <<>>) \o <<>> = <<>>
  OBVIOUS
<1>7. i = First(f, d, how[d]) => f[i].kind # "body"
  BY <1>3, FirstIsNoBody
<1>8. b[i] = (x \o y) \o z
  BY <1>1, <1>4
<1>9. b[i] # <<>>
  OBVIOUS
<1> HIDE DEF b, z, at, inside
<1>10. CASE v[d].at # None /\ i = First(f, d, how[d])
  <2>1. x = at /\ y = <<>>
    BY <1>2, <1>7, <1>10
  <2> HIDE DEF x, y
  <2>2. b[i] = at
    BY <1>4, <1>5, <1>8, <2>1 DEF at
  <2> QED BY <1>2, <1>3, <1>10, <2>2 DEF b, at
<1>11. CASE ~ (v[d].at # None /\ i = First(f, d, how[d]))
  <2>1. x = <<>>
    BY <1>11
  <2>2. CASE v[d].inside # None /\ f[i].kind = "body"
    <3>1. y = inside
      BY <1>2, <2>2
    <3> HIDE DEF x, y
    <3>2. b[i] = inside
      BY <1>4, <1>5, <1>8, <2>1, <3>1 DEF inside
    <3> QED BY <1>2, <1>3, <2>2, <3>2 DEF b, inside
  <2>3. CASE ~ (v[d].inside # None /\ f[i].kind = "body")
    <3>1. y = <<>>
      BY <2>3
    <3> HIDE DEF x, y
    <3> QED BY <1>4, <1>6, <1>8, <1>9, <2>1, <3>1
  <2> QED BY <2>2, <2>3
<1> QED BY <1>10, <1>11

LEMMA BlockersLone ==
  ASSUME NEW f, WellFormed(f), NEW v, Said(f, v), NEW how,
         NEW stale, StaleOnes(f, stale), ~ Stray(f, stale)
  PROVE  Lone(f, Blockers(f, v, how, stale))
<1> DEFINE b == Blockers(f, v, how, stale)
<1> SUFFICES ASSUME NEW i \in 1 .. Len(f), b[i] # <<>>
             PROVE  /\ f[i].kind \in Code
                    /\ \E x \in Markers : /\ b[i] = <<x>>
                                         /\ x.indent = Column(f[i]) /\ x.drift = 0
  BY DEF Lone
<1> DEFINE d == f[i].of
           n == Column(f[i])
<1>1. i \in DOMAIN f
  BY DEF WellFormed
<1>2. /\ f[i].kind \in Code /\ d \in Declarations(f)
      /\ \/ b[i] = <<Indented("marker", v[d].at, n)>>
         \/ b[i] = <<Indented("marker", v[d].inside, n)>>
  BY <1>1, BlockerSays
<1>3. n \in Nat
  <2>1. f[i] \in Items
    BY DEF WellFormed
  <2> QED BY <2>1 DEF Column, Items
<1> HIDE DEF b, d, n
<1>4. \A r \in STRING : /\ Indented("marker", r, n) \in Markers
                        /\ Indented("marker", r, n).indent = n
                        /\ Indented("marker", r, n).drift = 0
  <2> SUFFICES ASSUME NEW r \in STRING
               PROVE  /\ Indented("marker", r, n) \in Markers
                      /\ Indented("marker", r, n).indent = n
                      /\ Indented("marker", r, n).drift = 0
    OBVIOUS
  <2>1. Indented("marker", r, n) \in Markers
    BY <1>3, MarkerItem
  <2> QED BY <2>1 DEF Indented
<1>5. v[d].at \in STRING /\ v[d].inside \in STRING
  BY <1>2 DEF Said
<1> QED BY <1>2, <1>4, <1>5 DEF n

(* The file is tidy, and what d is blamed with stands where the next run   *)
(* looks for it.                                                           *)
Holds(g, d, said, how) ==
  /\ said.at # None =>
       LET i == First(g, d, how)
       IN  IsTidy(g) /\ Stands(g, 1, i - 1, Indented("marker", said.at, Column(g[i])))
  /\ said.inside # None =>
       \A i \in Lines(g, d) :
          g[i].kind = "body" =>
             IsTidy(g) /\ Stands(g, 1, i - 1, Indented("marker", said.inside, Column(g[i])))

LEMMA SettledHolds ==
  ASSUME NEW f, WellFormed(f), NEW v, NEW how, NEW stale, StaleOnes(f, stale),
         NEW g, WellFormed(g), IsTidy(g),
         Settled(f, Len(f), Blockers(f, v, how, stale), g),
         NEW d \in Declarations(g), v[d] # Java
  PROVE  Holds(g, d, v[d], how[d])
<1> DEFINE b == Blockers(f, v, how, stale)
           K == UserAt(f)
           top == First(g, d, how[d])
           first == First(f, d, how[d])
<1>1. PICK o : Traced(f, K, 1, Len(f), g, o) /\ Firm(b, g, o)
  BY DEF Settled
<1>2. \A i \in Lines(f, d) : i \in K
  BY DEF Lines, UserAt, OfUser, Code, Generated
<1>3. /\ d \in Declarations(f)
      /\ \A k \in Lines(g, d) :
            k \in 1 .. Len(g) /\ o[k] # 0 /\ o[k] \in Lines(f, d) /\ g[k] = f[o[k]]
      /\ o[top] = first
  <2> DEFINE seen == how[d]
  <2>1. Traced(f, K, 1, Len(f), g, o)
    BY <1>1
  <2> HIDE DEF b, K, seen
  <2>2. d \in Declarations(f) /\ CameFrom(f, g, d, seen, o)
    BY <1>2, <2>1, LinesTraced
  <2> QED BY <2>2 DEF CameFrom, seen
<1>4. top \in Lines(g, d)
  BY FirstIsNoBody
<1>5. BlamedBy(f, b, d, v[d], how[d])
  BY <1>3, BlockerIs
<1> HIDE DEF b, K
<1>6. ASSUME NEW k \in Lines(g, d), NEW r, b[o[k]] = <<Indented("marker", r, Column(f[o[k]]))>>
      PROVE  Stands(g, 1, k - 1, Indented("marker", r, Column(g[k])))
  <2>1. b[o[k]] # <<>> /\ Last(b[o[k]]) = Indented("marker", r, Column(g[k]))
    <3>1. \A x : <<x>> # <<>> /\ Len(<<x>>) = 1 /\ <<x>>[1] = x
      OBVIOUS
    <3> QED BY <1>3, <1>6, <3>1 DEF Last
  <2> QED BY <1>1, <1>3, <2>1 DEF Firm
<1>7. ASSUME v[d].at # None
      PROVE  Stands(g, 1, top - 1, Indented("marker", v[d].at, Column(g[top])))
  <2>1. b[o[top]] = <<Indented("marker", v[d].at, Column(f[o[top]]))>>
    BY <1>3, <1>5, <1>7 DEF BlamedBy
  <2> HIDE DEF top
  <2> QED BY <1>4, <1>6, <2>1
<1>8. ASSUME v[d].inside # None, NEW k \in Lines(g, d), g[k].kind = "body"
      PROVE  Stands(g, 1, k - 1, Indented("marker", v[d].inside, Column(g[k])))
  <2>1. o[k] \in Lines(f, d) /\ f[o[k]].kind = "body"
    BY <1>3, <1>8
  <2>2. b[o[k]] = <<Indented("marker", v[d].inside, Column(f[o[k]]))>>
    BY <1>5, <1>8, <2>1 DEF BlamedBy
  <2> QED BY <1>6, <2>2
<1> QED BY <1>7, <1>8 DEF Holds

-----------------------------------------------------------------------------
(* What a run makes of a file none of whose declarations is translated.    *)
LEMMA NothingTranslated ==
  ASSUME NEW f, NEW v, \A d \in Declarations(f) : v[d] # Java, NEW how, NEW stale
  PROVE  LET r == Propose(f, v, how, stale, TRUE)
             b == Blockers(f, v, how, stale)
         IN  \/ r = f /\ \A i \in DOMAIN f : b[i] = <<>>
             \/ /\ \E i \in DOMAIN f : b[i] # <<>>
                /\ r = Tidy(StripTranslated(f, {}, b))
<1> DEFINE spans == TranslatedSpans(f, v, how)
           b == Blockers(f, v, how, stale)
           stripped == Tidy(StripTranslated(f, spans, b))
           untouched == spans = {} /\ \A i \in DOMAIN f : b[i] = <<>>
           r == Propose(f, v, how, stale, TRUE)
<1>1. spans = {}
  <2>1. {e \in Declarations(f) : v[e] = Java} = {}
    OBVIOUS
  <2> QED BY <2>1 DEF TranslatedSpans
<1>2. r = CASE untouched -> f
            [] ~untouched /\ spans # {} /\ \A d \in Declarations(f) : v[d] = Java -> <<>>
            [] ~untouched /\ spans = {} -> stripped
            [] OTHER -> IF OnlyCommentLines(stripped) THEN <<>> ELSE stripped
  BY DEF Propose
<1>3. stripped = Tidy(StripTranslated(f, {}, b))
  <2> HIDE DEF spans, b
  <2> QED BY <1>1
<1> HIDE DEF spans, b, stripped, r
<1>4. r = IF \A i \in DOMAIN f : b[i] = <<>> THEN f ELSE stripped
  BY <1>1, <1>2
<1> QED BY <1>3, <1>4 DEF b, r

(* After a run that translated nothing, all comments it wanted stand where *)
(* the next run finds them.                                                *)
LEMMA ProposeHolds ==
  ASSUME NEW f, WellFormed(f), NEW v, Said(f, v), NEW how,
         NEW stale, StaleOnes(f, stale), ~ Stray(f, stale),
         \A d \in Declarations(f) : v[d] # Java,
         NEW g, g = Propose(f, v, how, stale, TRUE), WellFormed(g),
         NEW d \in Declarations(g)
  PROVE  d \in Declarations(f) /\ Holds(g, d, v[d], how[d])
<1> DEFINE b == Blockers(f, v, how, stale)
<1>1. f \in Seq(Items) /\ DOMAIN f = 1 .. Len(f)
  BY DEF WellFormed
<1>2. \/ g = f /\ \A i \in DOMAIN f : b[i] = <<>>
      \/ /\ \E i \in DOMAIN f : b[i] # <<>>
         /\ g = Tidy(StripTranslated(f, {}, b))
  BY NothingTranslated
<1>3. CASE g = f /\ \A i \in DOMAIN f : b[i] = <<>>
  <2>1. BlamedBy(f, b, d, v[d], how[d])
    BY <1>3, BlockerIs
  <2>2. \A i \in Lines(f, d) : b[i] = <<>>
    BY <1>3 DEF Lines
  <2>3. First(f, d, how[d]) \in Lines(f, d)
    BY <1>3, FirstIsNoBody
  <2>4. \A x : <<x>> # <<>>
    OBVIOUS
  <2> HIDE DEF b
  <2>5. v[d].at = None
    BY <2>1, <2>2, <2>3, <2>4 DEF BlamedBy
  <2>6. v[d].inside # None => \A i \in Lines(f, d) : f[i].kind # "body"
    BY <2>1, <2>2, <2>4 DEF BlamedBy
  <2>7. Holds(g, d, v[d], how[d])
    BY <1>3, <2>5, <2>6 DEF Holds
  <2> QED BY <1>3, <2>7
<1>4. CASE /\ \E i \in DOMAIN f : b[i] # <<>>
           /\ g = Tidy(StripTranslated(f, {}, b))
  <2>1. Len(f) # 0 /\ Len(f) \in Nat
    <3>1. DOMAIN f # {}
      BY <1>4
    <3>2. Len(f) \in Nat
      BY <1>1
    <3> QED BY <1>1, <3>1, <3>2
  <2>2. Wanted(f, b) /\ Apart(f, b) /\ Lone(f, b)
    BY <1>1, BlockersAbove, BlockersApart, BlockersLone
  <2> HIDE DEF b
  <2> DEFINE copy == CopyKept(f, 1, Len(f), b)
  <2>3. StripTranslated(f, {}, b) = copy
    BY <1>1, <2>1, <2>2, StripNothing
  <2>4. Settled(f, Len(f), b, copy)
    BY <1>1, <2>1, <2>2, CopySettles
  <2> HIDE DEF copy
  <2>5. Settled(f, Len(f), b, Tidy(copy))
    BY <1>1, <2>2, <2>4, TidySettles
  <2>6. copy \in Seq(Items)
    BY <2>4 DEF Settled, Traced
  <2>7. IsTidy(g) /\ Settled(f, Len(f), b, g)
    BY <1>4, <2>3, <2>5, <2>6, TidyIsTidy
  <2>8. PICK o : Traced(f, UserAt(f), 1, Len(f), g, o)
    BY <2>7 DEF Settled
  <2>9. \A i \in Lines(f, d) : i \in UserAt(f)
    BY DEF Lines, UserAt, OfUser, Code, Generated
  <2>10. d \in Declarations(f)
    <3> DEFINE K == UserAt(f)
    <3>1. Traced(f, K, 1, Len(f), g, o) /\ \A i \in Lines(f, d) : i \in K
      BY <2>8, <2>9
    <3> HIDE DEF K
    <3> QED BY <3>1, LinesTraced
  <2>11. Holds(g, d, v[d], how[d])
    BY <2>7, <2>10, SettledHolds DEF b
  <2> QED BY <2>10, <2>11
<1> QED BY <1>2, <1>3, <1>4

-----------------------------------------------------------------------------
(* A declaration seen to start at its annotations and now at its keyword,  *)
(* with no comment between the two.                                        *)
LEMMA HoldsParted ==
  ASSUME NEW g, WellFormed(g), NEW d \in Declarations(g), ~ MarkerInside(g, d),
         NEW said, NEW how, Holds(g, d, said, how), how # "separate"
  PROVE  Holds(g, d, said, "separate")
<1> DEFINE i == First(g, d, how)
           w == Keyword(g, d)
           x == Indented("marker", said.at, Column(g[w]))
           y == Indented("marker", said.at, Column(g[i]))
<1>1. g \in Seq(Items) /\ DOMAIN g = 1 .. Len(g) /\ Len(g) \in Nat
  BY DEF WellFormed
<1>2. /\ i \in Lines(g, d) /\ g[i].kind # "body"
      /\ w \in Lines(g, d) /\ g[w].kind = "head"
      /\ \A k \in Lines(g, d) : g[k].kind = "head" => k = w
  BY FirstIsNoBody
<1>3. First(g, d, "separate") = w
  BY DEF First
<1>4. \A k \in Lines(g, d) : i <= k
  <2> DEFINE L == Lines(g, d)
  <2>1. i = Min(L)
    BY DEF First
  <2>2. L \subseteq Nat /\ L # {}
    BY <1>1, <1>2 DEF Lines
  <2> HIDE DEF L, i
  <2>3. \A k \in L : i <= k
    BY <2>1, <2>2, MinIs
  <2> QED BY <2>3 DEF L
<1> HIDE DEF i, w
<1>5. PICK m \in Lines(g, d) :
        /\ g[m].kind = "head"
        /\ \A j \in Lines(g, d) \ {m} : g[j].kind = IF j < m THEN "ann" ELSE "body"
  BY DEF WellFormed
<1>6. m = w
  BY <1>2, <1>5
<1>7. i \in 1 .. Len(g) /\ w \in 1 .. Len(g) /\ i <= w
  BY <1>1, <1>2, <1>4 DEF Lines
<1>8. ASSUME said.at # None PROVE IsTidy(g) /\ Stands(g, 1, w - 1, x)
  <2>1. IsTidy(g) /\ Stands(g, 1, i - 1, y)
    BY <1>8 DEF Holds, i
  <2>0. \A z : Says(z, y) <=> Says(z, x)
    BY DEF Says, Indented
  <2>00. Says(y, x)
    BY DEF Says, Indented
  <2>000. i = w => y = x
    OBVIOUS
  <2> HIDE DEF x, y
  <2>2. CASE i = w
    BY <2>000, <2>1, <2>2
  <2>3. CASE i # w
    <3>1. i < w /\ i \in i .. w - 1 /\ i \in Nat /\ w \in Nat
      BY <1>7, <2>3
    <3>2. g[i].kind = "ann"
      BY <1>2, <1>5, <1>6, <3>1
    <3>3. g[i].of = d /\ g[w].of = d
      BY <1>2 DEF Lines
    <3>4. ASSUME NEW l \in i .. w - 1 PROVE g[l].kind \in {"ann", "blank"}
      <4>1. l \in 1 .. Len(g) /\ i <= l /\ l < w
        BY <1>7
      <4>2. CASE l \in Lines(g, d)
        <5>1. l # w /\ g[l].kind = IF l < w THEN "ann" ELSE "body"
          BY <1>5, <1>6, <4>1, <4>2
        <5> QED BY <4>1, <5>1
      <4>3. CASE l \notin Lines(g, d)
        <5>1. l # i /\ i < l
          BY <1>2, <1>7, <4>1, <4>3
        <5>2. g[i].kind \in Code /\ g[i].of = d
          BY <1>2 DEF Lines
        <5>3. g[l].kind \in Generated \cup {"blank"}
          <6>1. i \in DOMAIN g /\ l \in DOMAIN g /\ w \in DOMAIN g
            BY <1>1, <1>7, <4>1
          <6>2. \A i1, j1, k1 \in DOMAIN g :
                  /\ i1 < j1 /\ j1 < k1
                  /\ g[i1].kind \in Code /\ k1 \in Lines(g, g[i1].of)
                  => j1 \in Lines(g, g[i1].of) \/ g[j1].kind \in Generated \cup {"blank"}
            BY DEF WellFormed
          <6> QED BY <1>2, <4>1, <4>3, <5>1, <5>2, <6>1, <6>2
        <5>4. g[l].kind \notin Generated
          BY <1>1, <1>2, <1>7, <3>2, <3>3, <4>1, <5>1 DEF MarkerInside
        <5> QED BY <5>3, <5>4
      <4> QED BY <4>2, <4>3
    <3>5. CASE 1 <= i - 1 /\ g[i - 1] = y
      <4> DEFINE p == i - 1
      <4>1. p \in 1 .. w - 1 /\ Says(g[p], x) /\ i \in p + 1 .. w - 1
        BY <2>00, <3>1, <3>5
      <4>2. \A l \in p + 1 .. w - 1 : l \in i .. w - 1
        BY <3>1
      <4> HIDE DEF p
      <4> QED BY <2>1, <3>2, <3>4, <4>1, <4>2 DEF Stands
    <3>6. CASE \E p \in 1 .. i - 1 :
                /\ Says(g[p], y)
                /\ \A l \in p + 1 .. i - 1 : g[l].kind \in {"ann", "blank"}
                /\ \E l \in p + 1 .. i - 1 : g[l].kind = "ann"
      <4>1. PICK p \in 1 .. i - 1 :
                /\ Says(g[p], y)
                /\ \A l \in p + 1 .. i - 1 : g[l].kind \in {"ann", "blank"}
        BY <3>6
      <4>2. p \in 1 .. w - 1 /\ i \in p + 1 .. w - 1
        BY <3>1
      <4>3. \A l \in p + 1 .. w - 1 : l \in p + 1 .. i - 1 \/ l \in i .. w - 1
        BY <3>1
      <4>4. \A l \in p + 1 .. w - 1 : g[l].kind \in {"ann", "blank"}
        BY <3>4, <4>1, <4>3
      <4> QED BY <2>0, <2>1, <3>2, <4>1, <4>2, <4>4 DEF Stands
    <3> QED BY <2>1, <3>5, <3>6 DEF Stands
  <2> QED BY <2>2, <2>3
<1> QED BY <1>3, <1>8 DEF Holds, x

(* No annotations but a declaration's own stand above the line it starts   *)
(* at, and none above a line of its body.                                  *)
LEMMA NoneAboveAnnotations ==
  ASSUME NEW f, WellFormed(f), NEW d \in Declarations(f), NEW i \in Lines(f, d),
         NEW how, f[i].kind = "body" \/ (how # "separate" /\ i = First(f, d, how))
  PROVE  MarkerBeforeAnnotations(f, 1, i) = 0
<1> DEFINE above == MarkerBeforeAnnotations(f, 1, i)
<1> SUFFICES ASSUME above # 0 PROVE FALSE
  OBVIOUS
<1>1. f \in Seq(Items) /\ DOMAIN f = 1 .. Len(f) /\ Len(f) \in Nat
  BY DEF WellFormed
<1>2. i \in 1 .. Len(f) /\ f[i].kind \in Code /\ f[i].of = d /\ 1 \in 1 .. Len(f) + 1
  BY <1>1 DEF Lines
<1>3. /\ above \in 1 .. i - 1
      /\ \A l \in above + 1 .. i - 1 : f[l].kind \in {"ann", "blank"}
      /\ \E l \in above + 1 .. i - 1 : f[l].kind = "ann"
  <2>1. 1 \in 1 .. i
    BY <1>2
  <2> QED BY <1>1, <1>2, <2>1, BeforeAnnotationsIs, BeforeAnnotationsHas
<1> HIDE DEF above
<1>4. PICK k \in above + 1 .. i - 1 : f[k].kind = "ann"
  BY <1>3
<1>5. k \in 1 .. Len(f) /\ k < i /\ \A l \in k .. i - 1 : f[l].kind \in {"ann", "blank"}
  <2>1. \A l \in k .. i - 1 : l \in above + 1 .. i - 1
    BY <1>2, <1>3
  <2> QED BY <1>2, <1>3, <2>1
<1> DEFINE e == f[k].of
<1>6. k \in Lines(f, e) /\ e \in Declarations(f)
  BY <1>1, <1>4, <1>5 DEF Lines, Declarations, Code
<1> HIDE DEF e
<1>7. PICK h \in Lines(f, e) :
        /\ f[h].kind = "head"
        /\ \A j \in Lines(f, e) \ {h} : f[j].kind = IF j < h THEN "ann" ELSE "body"
  BY <1>6 DEF WellFormed
<1>8. h \in 1 .. Len(f) /\ k < h
  BY <1>1, <1>4, <1>5, <1>6, <1>7 DEF Lines
<1>9. h \notin k .. i - 1
  BY <1>5, <1>7
<1>10. i <= h
  BY <1>2, <1>5, <1>8, <1>9
<1>11. CASE e = d
  <2>1. CASE f[i].kind = "body"
    <3>1. i # h /\ ~ (i < h)
      BY <1>7, <1>11, <2>1
    <3> QED BY <1>2, <1>8, <1>10, <3>1
  <2>2. CASE how # "separate" /\ i = First(f, d, how)
    <3> DEFINE L == Lines(f, d)
    <3>1. i = Min(L) /\ k \in L
      BY <1>6, <1>11, <2>2 DEF First
    <3>2. L \subseteq Nat /\ L # {}
      BY <1>1 DEF Lines
    <3> HIDE DEF L
    <3>3. i <= k
      BY <3>1, <3>2, MinIs
    <3> QED BY <1>2, <1>5, <3>3
  <2> QED BY <2>1, <2>2
<1>12. CASE e # d
  <2>1. h # i
    BY <1>2, <1>7, <1>12 DEF Lines
  <2>2. k \in DOMAIN f /\ i \in DOMAIN f /\ h \in DOMAIN f /\ k < i /\ i < h
    BY <1>1, <1>2, <1>5, <1>8, <1>10, <2>1
  <2>3. f[k].kind \in Code /\ h \in Lines(f, f[k].of)
    BY <1>4, <1>7 DEF Code, e
  <2>4. \A i1, j1, k1 \in DOMAIN f :
          /\ i1 < j1 /\ j1 < k1
          /\ f[i1].kind \in Code /\ k1 \in Lines(f, f[i1].of)
          => j1 \in Lines(f, f[i1].of) \/ f[j1].kind \in Generated \cup {"blank"}
    BY DEF WellFormed
  <2>5. i \in Lines(f, e) \/ f[i].kind \in Generated \cup {"blank"}
    BY <2>2, <2>3, <2>4 DEF e
  <2> QED BY <1>2, <1>12, <2>5 DEF Lines, Code, Generated
<1> QED BY <1>11, <1>12

(* With every comment in place the run writes what it read.                *)
LEMMA HeldStays ==
  ASSUME NEW f, WellFormed(f), NEW v, Said(f, v), NEW how,
         NEW stale, StaleOnes(f, stale), ~ Stray(f, stale),
         \A d \in Declarations(f) : v[d] # Java,
         \A d \in Declarations(f) : Holds(f, d, v[d], how[d]) /\ ~ Pushed(f, v, how, d)
  PROVE  Propose(f, v, how, stale, TRUE) = f
<1> DEFINE b == Blockers(f, v, how, stale)
           r == Propose(f, v, how, stale, TRUE)
<1>1. f \in Seq(Items) /\ DOMAIN f = 1 .. Len(f) /\ Len(f) \in Nat
  BY DEF WellFormed
<1>2. \/ r = f
      \/ /\ \E i \in DOMAIN f : b[i] # <<>>
         /\ r = Tidy(StripTranslated(f, {}, b))
  BY NothingTranslated
<1>3. ASSUME NEW i \in 1 .. Len(f), b[i] # <<>>
      PROVE  IsTidy(f) /\ Stands(f, 1, i - 1, Last(b[i])) /\ Flush(f, i, Last(b[i]))
  <2> DEFINE d == f[i].of
             first == First(f, d, how[d])
             at == Indented("marker", v[d].at, Column(f[i]))
             inside == Indented("marker", v[d].inside, Column(f[i]))
  <2>1. /\ d \in Declarations(f) /\ i \in Lines(f, d)
        /\ \/ v[d].at # None /\ i = first /\ b[i] = <<at>>
           \/ v[d].inside # None /\ f[i].kind = "body" /\ b[i] = <<inside>>
    BY <1>1, <1>3, BlockerSays
  <2>2. Holds(f, d, v[d], how[d]) /\ ~ Pushed(f, v, how, d)
    BY <2>1
  <2>3. \A x : Last(<<x>>) = x
    <3>1. \A x : Len(<<x>>) = 1 /\ <<x>>[1] = x
      OBVIOUS
    <3> QED BY <3>1 DEF Last
  <2>4. /\ v[d].at # None /\ i = first => IsTidy(f) /\ Stands(f, 1, i - 1, at)
        /\ v[d].inside # None /\ f[i].kind = "body" =>
              IsTidy(f) /\ Stands(f, 1, i - 1, inside)
    BY <2>1, <2>2 DEF Holds
  <2>5. CASE v[d].at # None /\ i = first /\ b[i] = <<at>>
    <3>1. Flush(f, i, at)
      <4>1. CASE how[d] = "separate"
        <5>1. i = Keyword(f, d)
          BY <2>5, <4>1 DEF First
        <5>2. MarkerBeforeAnnotations(f, 1, i) # 0 =>
                f[MarkerBeforeAnnotations(f, 1, i)].indent = 0 /\ Column(f[i]) = 0
          BY <2>2, <2>5, <4>1, <5>1 DEF Pushed
        <5> QED BY <5>2 DEF Flush, Indented
      <4>2. CASE how[d] # "separate"
        <5>1. MarkerBeforeAnnotations(f, 1, i) = 0
          <6> DEFINE seen == how[d]
          <6>1. i = First(f, d, seen) /\ seen # "separate" /\ d \in Declarations(f)
                /\ i \in Lines(f, d)
            BY <2>1, <2>5, <4>2
          <6> HIDE DEF seen, d
          <6> QED BY <6>1, NoneAboveAnnotations
        <5> QED BY <5>1 DEF Flush
      <4> QED BY <4>1, <4>2
    <3> HIDE DEF b, d, first, at
    <3> QED BY <2>3, <2>4, <2>5, <3>1
  <2>6. CASE v[d].inside # None /\ f[i].kind = "body" /\ b[i] = <<inside>>
    <3>1. MarkerBeforeAnnotations(f, 1, i) = 0
      <4> HIDE DEF d
      <4> QED BY <2>1, <2>6, NoneAboveAnnotations
    <3>2. Flush(f, i, inside)
      BY <3>1 DEF Flush
    <3> HIDE DEF b, d, inside
    <3> QED BY <2>3, <2>4, <2>6, <3>2
  <2> HIDE DEF b, d, first, at, inside
  <2> QED BY <2>1, <2>5, <2>6
<1>4. Lone(f, b) /\ Wanted(f, b)
  BY <1>1, BlockersLone, BlockersAbove
<1> HIDE DEF b, r
<1>5. CASE /\ \E i \in DOMAIN f : b[i] # <<>>
           /\ r = Tidy(StripTranslated(f, {}, b))
  <2>1. PICK i \in 1 .. Len(f) : b[i] # <<>>
    BY <1>1, <1>5
  <2>2. Len(f) # 0
    BY <1>1
  <2>3. StripTranslated(f, {}, b) = f
    <3>1. StripTranslated(f, {}, b) = CopyKept(f, 1, Len(f), b)
      BY <1>1, <1>4, <2>2, StripNothing
    <3>2. CopyKept(f, 1, Len(f), b) = f
      BY <1>1, <1>3, <1>4, <2>2, CopyAgain
    <3> QED BY <3>1, <3>2
  <2>4. IsTidy(f)
    BY <1>3, <2>1
  <2> QED BY <1>1, <1>5, <2>3, <2>4, TidyAgain DEF r
<1> QED BY <1>2, <1>5 DEF r

-----------------------------------------------------------------------------
(* After a run only declarations it kept are left, and if it kept them all *)
(* its comments are where the next run finds them.                         *)
Left == runs > 0 => \A d \in Declarations(file) : d \in DOMAIN verdict /\ verdict[d] # Java

Quiet ==
  runs > 0 /\ strays = {} /\ (\A d \in DOMAIN verdict : verdict[d] # Java) =>
     \A d \in Declarations(file) : Holds(file, d, verdict[d], parse[d])

LEMMA LeftAfter ==
  ASSUME NEW f, WellFormed(f), NEW v, Said(f, v), NEW how,
         NEW stale, StaleOnes(f, stale),
         NEW g, g = Propose(f, v, how, stale, TRUE),
         NEW d \in Declarations(g)
  PROVE  d \in Declarations(f) /\ v[d] # Java
<1>1. f \in Seq(Items) /\ g \in Seq(Items) /\ DOMAIN g = 1 .. Len(g)
  <2>1. g \in Seq(Items)
    BY ProposeKeeps
  <2>2. f \in Seq(Items)
    BY DEF WellFormed
  <2>3. \A s \in Seq(Items) : DOMAIN s = 1 .. Len(s)
    OBVIOUS
  <2> QED BY <2>1, <2>2, <2>3, Zenon
<1>2. PICK k \in Lines(g, d) : TRUE
  BY DEF Declarations, Lines
<1>3. k \in 1 .. Len(g) /\ g[k].kind \in Code /\ g[k].of = d /\ k \in UserAt(g)
  BY <1>1, <1>2 DEF Lines, UserAt, OfUser, Code, Generated
<1>4. Users(g) = Pick(f, KeptAt(f, v))
  <2>1. g # <<>>
    <3>1. 1 .. Len(<<>>) = {}
      OBVIOUS
    <3> QED BY <1>3, <3>1
  <2> QED BY <2>1, ProposeKeeps
<1> DEFINE u == Users(g)
<1>5. PICK e : Ascends(f, KeptAt(f, v), Len(f), u, e)
  BY <1>1, <1>4, PickAscends
<1>6. PICK h : Ascends(g, UserAt(g), Len(g), u, h)
  BY <1>1, PickAscends, UsersIs
<1> HIDE DEF u
<1>7. PICK n \in 1 .. Len(u) : h[n] = k
  BY <1>3, <1>6 DEF Ascends
<1>8. u[n] = g[k] /\ u[n] = f[e[n]] /\ e[n] \in KeptAt(f, v)
  BY <1>5, <1>6, <1>7 DEF Ascends
<1> QED BY <1>3, <1>8 DEF KeptAt, UserAt, Declarations

LEMMA NoneAstray ==
  ASSUME NEW f, NEW stale, {i \in stale : ~InsideGeneratedKdoc(f, i)} = {}
  PROVE  ~ Stray(f, stale)
BY DEF Stray, Astray

LEMMA QuietAfter ==
  ASSUME WellFormed(file), Run
  PROVE  Left' /\ Quiet'
<1>1. PICK stale : /\ StaleOnes(file, stale)
                   /\ Said(file, verdict')
                   /\ strays' = {i \in stale : ~InsideGeneratedKdoc(file, i)}
                   /\ file' = Propose(file, verdict', parse', stale, TRUE)
  BY RunIs
<1>2. DOMAIN verdict' = Declarations(file)
  BY DEF Run
<1>3. WellFormed(file')
  <2>1. /\ file' \in Seq(Items)
        /\ \/ Users(file') = Pick(file, KeptAt(file, verdict'))
           \/ file' = <<>>
    BY <1>1, ProposeKeeps
  <2> QED BY <2>1, KeptWellFormed, EmptyWellFormed
<1>4. Left'
  <2>1. \A d \in Declarations(file') : d \in Declarations(file) /\ verdict'[d] # Java
    BY <1>1, LeftAfter
  <2> QED BY <1>2, <2>1 DEF Left
<1>5. ASSUME strays' = {}, \A d \in DOMAIN verdict' : verdict'[d] # Java,
             NEW d \in Declarations(file')
      PROVE  Holds(file', d, verdict'[d], parse'[d])
  <2>1. ~ Stray(file, stale)
    BY <1>1, <1>5, NoneAstray
  <2> QED BY <1>1, <1>2, <1>3, <1>5, <2>1, ProposeHolds
<1>6. Quiet'
  BY <1>5 DEF Quiet
<1> QED BY <1>4, <1>6

(* The next run with the same verdicts writes the file it found: copy_kept *)
(* and generated_kdoc_before_annotations find every comment in its place,  *)
(* and tidy leaves a tidy file; even when the parser now sees an annotated *)
(* declaration start at its keyword.  What the property excepts is needed: *)
(* a stale diagnostic that inside_generated_notlin_kdoc lets pass makes    *)
(* the file grow, and a comment above annotations that is not at column 0  *)
(* never equals the desired block.                                         *)
THEOREM RerunsChangeNothing == Spec => RunningAgainChangesNothing
<1> DEFINE Same == /\ runs > 0
                   /\ verdict' = verdict
                   /\ strays = {} /\ strays' = {}
                   /\ \A d \in DOMAIN parse' :
                         parse'[d] # parse[d] =>
                            parse'[d] = "separate" /\ ~MarkerInside(file, d)
                   /\ \A d \in Retained(file, verdict) :
                         ~Pushed(file, verdict, parse', d)
<1>1. Init => Left /\ Quiet
  <2> SUFFICES ASSUME Init PROVE Left /\ Quiet
    OBVIOUS
  <2>1. ~ (runs > 0)
    BY DEF Init
  <2> QED BY <2>1 DEF Left, Quiet
<1>2. WellFormed(file) /\ Left /\ Quiet /\ [Next]_vars => Left' /\ Quiet'
  <2> SUFFICES ASSUME WellFormed(file), Left, Quiet, [Next]_vars
               PROVE  Left' /\ Quiet'
    OBVIOUS
  <2>1. CASE Run
    BY <2>1, QuietAfter
  <2>2. CASE UNCHANGED vars
    BY <2>2 DEF vars, Left, Quiet
  <2> QED BY <2>1, <2>2 DEF Next
<1>3. WellFormed(file) /\ Left /\ Quiet /\ [Next]_vars => [Same => file' = file]_vars
  <2> SUFFICES ASSUME WellFormed(file), Left, Quiet, Run, Same PROVE file' = file
    BY DEF Next
  <2>1. PICK stale : /\ StaleOnes(file, stale)
                     /\ Said(file, verdict')
                     /\ strays' = {i \in stale : ~InsideGeneratedKdoc(file, i)}
                     /\ file' = Propose(file, verdict', parse', stale, TRUE)
    BY RunIs
  <2>2. DOMAIN verdict' = Declarations(file) /\ DOMAIN parse' = Declarations(file)
    BY DEF Run
  <2>3. \A d \in Declarations(file) : verdict'[d] # Java
    BY DEF Left
  <2>4. \A d \in Declarations(file) : Holds(file, d, verdict'[d], parse[d])
    BY <2>2, <2>3 DEF Quiet
  <2>5. ASSUME NEW d \in Declarations(file) PROVE Holds(file, d, verdict'[d], parse'[d])
    <3>1. CASE parse'[d] = parse[d]
      BY <2>4, <3>1
    <3>2. CASE parse'[d] # parse[d]
      <4>1. parse'[d] = "separate" /\ parse[d] # "separate" /\ ~ MarkerInside(file, d)
        BY <2>2, <3>2
      <4>2. Holds(file, d, verdict'[d], "separate")
        BY <2>4, <4>1, HoldsParted
      <4> QED BY <4>1, <4>2
    <3> QED BY <3>1, <3>2
  <2>6. ~ Stray(file, stale)
    BY <2>1, NoneAstray
  <2>7. \A d \in Declarations(file) : ~ Pushed(file, verdict', parse', d)
    BY <2>3 DEF Retained
  <2> QED BY <2>1, <2>3, <2>5, <2>6, <2>7, HeldStays
<1>4. Spec => [][Same => file' = file]_vars
  BY <1>1, <1>2, <1>3, AlwaysWellFormed, PTL DEF Spec
<1> QED BY <1>4 DEF RunningAgainChangesNothing

-----------------------------------------------------------------------------
(***************************************************************************)
(* The other edit of a retained file: LocalsApart of SmartCastRepair, for  *)
(* every file and every LocalLimit.                                        *)
(***************************************************************************)
(* What the names in use and the bindings made have to do with each other: *)
(* a binding's name is in use, or all names were when it was made, and that*)
(* takes as many bindings as there are names.                              *)
NamesInv ==
  /\ \E entries : bound \in Seq(entries)
  /\ taken \subseteq 0 .. LocalLimit - 1
  /\ Cardinality(taken) <= Len(bound) + 1
  /\ \A i \in 1 .. Len(bound) : bound[i].local \in taken \cup {LocalLimit}
  /\ \A i \in 1 .. Len(bound) : bound[i].local = LocalLimit => LocalLimit <= i
  /\ \A i, j \in 1 .. Len(bound) :
       i # j /\ bound[i].local = bound[j].local => bound[i].local = LocalLimit
  /\ PropertyUsed => /\ 0 \in taken
                     /\ \A i \in 1 .. Len(bound) : bound[i].local # 0

(* The name local_name picks is one that is not in use.                    *)
LEMMA FreshIsFree ==
  ASSUME Free # {} PROVE FreshLocal \in Free
<1>1. Free \subseteq Nat BY LocalLimitAssumption DEF Free
<1>2. \E n \in Free : \A m \in Free : n <= m BY <1>1, Least
<1>. QED BY <1>2 DEF FreshLocal

LEMMA NamesInit == RepairInit => NamesInv
<1> SUFFICES ASSUME RepairInit PROVE NamesInv OBVIOUS
<1>1. bound = << >> /\ Len(bound) = 0 BY DEF RepairInit
<1>2. bound \in Seq({}) BY <1>1
<1>3. taken = {0} \/ taken = {} BY DEF RepairInit
<1>4. taken \subseteq 0 .. LocalLimit - 1 BY <1>3, LocalLimitAssumption
<1>5. Cardinality(taken) <= 1
  <2>1. Cardinality({}) = 0 BY FS_EmptySet
  <2>2. Cardinality({0}) = 1 BY FS_Singleton
  <2>. QED BY <1>3, <2>1, <2>2
<1>6. PropertyUsed => 0 \in taken BY DEF RepairInit
<1>. QED BY <1>1, <1>2, <1>4, <1>5, <1>6 DEF NamesInv

LEMMA NamesBind == NamesInv /\ Bind => NamesInv'
<1> SUFFICES ASSUME NamesInv, Bind PROVE NamesInv' OBVIOUS
<1> DEFINE e == [site |-> NextSite, local |-> FreshLocal,
                 reads |-> Ranges(NextSite), at |-> LineStart(NextSite)]
<1>0. LocalLimit \in Nat \ {0} BY LocalLimitAssumption
<1>1. PICK entries : bound \in Seq(entries) BY DEF NamesInv
<1>2. /\ bound' = Append(bound, e)
      /\ taken' = taken \cup (IF FreshLocal = LocalLimit THEN {} ELSE {FreshLocal})
      /\ program' = program
  BY DEF Bind
<1>3. e.local = FreshLocal OBVIOUS
<1> HIDE DEF e
<1>4. bound' \in Seq(entries \cup {e})
  <2>1. bound \in Seq(entries \cup {e}) BY <1>1
  <2>. QED BY <1>2, <2>1
<1>5. /\ Len(bound) \in Nat /\ Len(bound') = Len(bound) + 1
      /\ \A i \in 1 .. Len(bound) : bound'[i] = bound[i]
      /\ bound'[Len(bound) + 1] = e
  BY <1>1, <1>2
<1>6. IsFiniteSet(taken) /\ Cardinality(taken) \in Nat
  <2>1. IsFiniteSet(0 .. LocalLimit - 1) BY <1>0, FS_Interval
  <2>. QED BY <2>1, FS_Subset, FS_CardinalityType DEF NamesInv
<1>7. PropertyUsed' <=> PropertyUsed BY <1>2 DEF PropertyUsed
<1>8. CASE Free = {}
  <2>1. FreshLocal = LocalLimit BY <1>8 DEF FreshLocal
  <2>2. taken' = taken BY <1>2, <2>1
  <2>3. 0 .. LocalLimit - 1 \subseteq taken BY <1>8 DEF Free
  <2>4. LocalLimit <= Cardinality(taken)
    <3>1. Cardinality(0 .. LocalLimit - 1) = LocalLimit BY <1>0, FS_Interval
    <3>. QED BY <1>6, <2>3, <3>1, FS_Subset
  <2>5. LocalLimit <= Len(bound) + 1 BY <1>0, <1>5, <1>6, <2>4 DEF NamesInv
  <2>6. \A i \in 1 .. Len(bound') :
           \/ i \in 1 .. Len(bound) /\ bound'[i].local = bound[i].local
           \/ i = Len(bound) + 1 /\ bound'[i].local = LocalLimit
    BY <1>3, <1>5, <2>1
  <2>7. Cardinality(taken') <= Len(bound') + 1 BY <1>5, <1>6, <2>2 DEF NamesInv
  <2>8. \A i \in 1 .. Len(bound') : bound'[i].local \in taken' \cup {LocalLimit}
    BY <2>2, <2>6 DEF NamesInv
  <2>9. \A i \in 1 .. Len(bound') : bound'[i].local = LocalLimit => LocalLimit <= i
    BY <2>5, <2>6 DEF NamesInv
  <2>10. \A i, j \in 1 .. Len(bound') :
            i # j /\ bound'[i].local = bound'[j].local => bound'[i].local = LocalLimit
    BY <2>6 DEF NamesInv
  <2>11. PropertyUsed' => /\ 0 \in taken'
                          /\ \A i \in 1 .. Len(bound') : bound'[i].local # 0
    BY <1>0, <1>7, <2>2, <2>6 DEF NamesInv
  <2>12. taken' \subseteq 0 .. LocalLimit - 1 BY <2>2 DEF NamesInv
  <2>. QED BY <1>4, <2>7, <2>8, <2>9, <2>10, <2>11, <2>12 DEF NamesInv
<1>9. CASE Free # {}
  <2>1. FreshLocal \in Free BY <1>9, FreshIsFree
  <2>2. FreshLocal \in 0 .. LocalLimit - 1 /\ FreshLocal \notin taken BY <2>1 DEF Free
  <2>3. FreshLocal # LocalLimit BY <1>0, <2>2
  <2>4. taken' = taken \cup {FreshLocal} BY <1>2, <2>3
  <2>5. Cardinality(taken') = Cardinality(taken) + 1
    BY <1>6, <2>2, <2>4, FS_AddElement
  <2>6. taken' \subseteq 0 .. LocalLimit - 1 BY <2>2, <2>4 DEF NamesInv
  <2>7. Cardinality(taken') <= Len(bound') + 1 BY <1>5, <1>6, <2>5 DEF NamesInv
  <2>8. \A i \in 1 .. Len(bound) : bound[i].local # FreshLocal
    BY <2>2, <2>3 DEF NamesInv
  <2>9. \A i \in 1 .. Len(bound') :
           \/ i \in 1 .. Len(bound) /\ bound'[i].local = bound[i].local
           \/ i = Len(bound) + 1 /\ bound'[i].local = FreshLocal
    BY <1>3, <1>5
  <2>10. \A i \in 1 .. Len(bound') : bound'[i].local \in taken' \cup {LocalLimit}
    BY <2>4, <2>9 DEF NamesInv
  <2>11. \A i \in 1 .. Len(bound') : bound'[i].local = LocalLimit => LocalLimit <= i
    BY <2>3, <2>9 DEF NamesInv
  <2>12. \A i, j \in 1 .. Len(bound') :
            i # j /\ bound'[i].local = bound'[j].local => bound'[i].local = LocalLimit
    BY <2>8, <2>9 DEF NamesInv
  <2>13. PropertyUsed' => /\ 0 \in taken'
                          /\ \A i \in 1 .. Len(bound') : bound'[i].local # 0
    BY <1>7, <2>2, <2>4, <2>9 DEF NamesInv
  <2>. QED BY <1>4, <2>6, <2>7, <2>10, <2>11, <2>12, <2>13 DEF NamesInv
<1>. QED BY <1>8, <1>9

LEMMA NamesStep == NamesInv /\ [RepairNext]_repairVars => NamesInv'
<1> SUFFICES ASSUME NamesInv, [RepairNext]_repairVars PROVE NamesInv' OBVIOUS
<1>1. CASE Bind BY <1>1, NamesBind
<1>2. CASE Plan \/ Skip \/ ApplyEdits \/ UNCHANGED repairVars
  <2>1. UNCHANGED <<program, taken, bound>>
    BY <1>2 DEF Plan, Skip, ApplyEdits, repairVars
  <2>. QED BY <2>1 DEF NamesInv, PropertyUsed
<1>. QED BY <1>1, <1>2 DEF RepairNext

(* Below the limit of local_name every binding of the repair has a name of *)
(* its own, and never one the file already uses, whatever the file looks   *)
(* like.                                                                   *)
THEOREM LocalNamesApart == RepairSpec => []LocalsApart
<1>1. NamesInv => LocalsApart
  <2> SUFFICES ASSUME NamesInv, Len(bound) < LocalLimit PROVE
        /\ \A i, j \in DOMAIN bound : i # j => bound[i].local # bound[j].local
        /\ PropertyUsed => \A i \in DOMAIN bound : bound[i].local # 0
    BY DEF LocalsApart
  <2>1. LocalLimit \in Nat /\ Len(bound) \in Nat /\ DOMAIN bound = 1 .. Len(bound)
    BY LocalLimitAssumption DEF NamesInv
  <2>. QED BY <2>1 DEF NamesInv
<1>. QED BY <1>1, NamesInit, NamesStep, PTL DEF RepairSpec
-----------------------------------------------------------------------------
(* Paths.  Of two nodes one encloses the other or one ends before the      *)
(* other begins.                                                           *)
Paths == Seq(Nat)
EndsBefore(a, b) ==
  \E i \in 1 .. Len(a) : i <= Len(b) /\ a[i] < b[i] /\ \A j \in 1 .. i - 1 : a[j] = b[j]

LEMMA PrefixIs ==
  ASSUME NEW a \in Paths, NEW b \in Paths
  PROVE  IsPrefix(a, b) <=> Len(a) <= Len(b) /\ \A i \in 1 .. Len(a) : a[i] = b[i]
<1>1. Len(a) \in Nat /\ Len(b) \in Nat /\ DOMAIN a = 1 .. Len(a) /\ DOMAIN b = 1 .. Len(b)
  BY DEF Paths
<1>2. CASE Len(a) <= Len(b)
  <2>1. SubSeq(a, 1, Len(a)) = [i \in 1 .. Len(a) |-> a[i]]
    BY <1>1 DEF Paths
  <2>2. SubSeq(b, 1, Len(a)) = [i \in 1 .. Len(a) |-> b[i]]
    BY <1>1, <1>2 DEF Paths
  <2> QED BY <1>2, <2>1, <2>2 DEF IsPrefix
<1> QED BY <1>2 DEF IsPrefix

LEMMA SameItems ==
  ASSUME NEW a \in Paths, NEW b \in Paths, Len(a) = Len(b), \A i \in 1 .. Len(a) : a[i] = b[i]
  PROVE  a = b
BY SeqEqual DEF Paths

LEMMA PrefixOrder ==
  ASSUME NEW a \in Paths, NEW b \in Paths
  PROVE  /\ IsPrefix(a, a)
         /\ IsPrefix(a, b) /\ IsPrefix(b, a) => a = b
<1>1. Len(a) \in Nat /\ Len(b) \in Nat
  BY DEF Paths
<1>2. IsPrefix(a, a)
  BY <1>1, PrefixIs
<1>3. ASSUME IsPrefix(a, b), IsPrefix(b, a) PROVE a = b
  <2>1. Len(a) = Len(b) /\ \A i \in 1 .. Len(a) : a[i] = b[i]
    BY <1>1, <1>3, PrefixIs
  <2> QED BY <2>1, SameItems
<1> QED BY <1>2, <1>3

LEMMA PrefixJoin ==
  ASSUME NEW a \in Paths, NEW b \in Paths, NEW c \in Paths
  PROVE  /\ IsPrefix(a, b) /\ IsPrefix(b, c) => IsPrefix(a, c)
         /\ IsPrefix(a, c) /\ IsPrefix(b, c) => IsPrefix(a, b) \/ IsPrefix(b, a)
<1>1. Len(a) \in Nat /\ Len(b) \in Nat /\ Len(c) \in Nat
  BY DEF Paths
<1> QED BY <1>1, PrefixIs

LEMMA PrecedesIs ==
  ASSUME NEW a \in Paths, NEW b \in Paths
  PROVE  Precedes(a, b) <=> IsStrictPrefix(a, b) \/ EndsBefore(a, b)
<1>1. /\ Len(a) \in Nat /\ Len(b) \in Nat /\ DOMAIN a = 1 .. Len(a) /\ DOMAIN b = 1 .. Len(b)
  BY DEF Paths
<1>2. \A i : i \in (DOMAIN a) \cap (DOMAIN b) <=> i \in 1 .. Len(a) /\ i <= Len(b)
  BY <1>1
<1> QED BY <1>2 DEF Precedes, EndsBefore

(* What ends before a node ends before all it encloses, and nothing a node *)
(* encloses extends to where it does not.                                  *)
LEMMA EndsBeforeAll ==
  ASSUME NEW a \in Paths, NEW b \in Paths, NEW m \in Paths, NEW n \in Paths,
         EndsBefore(a, b), IsPrefix(a, m), IsPrefix(b, n)
  PROVE  EndsBefore(m, n)
<1>1. Len(a) \in Nat /\ Len(b) \in Nat /\ Len(m) \in Nat /\ Len(n) \in Nat
  BY DEF Paths
<1>2. PICK i \in 1 .. Len(a) : i <= Len(b) /\ a[i] < b[i] /\ \A j \in 1 .. i - 1 : a[j] = b[j]
  BY DEF EndsBefore
<1>3. /\ Len(a) <= Len(m) /\ \A j \in 1 .. Len(a) : a[j] = m[j]
      /\ Len(b) <= Len(n) /\ \A j \in 1 .. Len(b) : b[j] = n[j]
  BY PrefixIs
<1>4. i \in 1 .. Len(m) /\ i <= Len(n) /\ m[i] < n[i]
  BY <1>1, <1>2, <1>3
<1>5. \A j \in 1 .. i - 1 : m[j] = n[j]
  BY <1>1, <1>2, <1>3
<1> QED BY <1>4, <1>5 DEF EndsBefore

LEMMA EndsApart ==
  ASSUME NEW a \in Paths, NEW b \in Paths, EndsBefore(a, b)
  PROVE  ~IsPrefix(a, b) /\ ~IsPrefix(b, a) /\ ~EndsBefore(b, a)
<1>1. /\ Len(a) \in Nat /\ Len(b) \in Nat
      /\ \A i \in 1 .. Len(a) : a[i] \in Nat
      /\ \A i \in 1 .. Len(b) : b[i] \in Nat
  BY DEF Paths
<1>2. PICK i \in 1 .. Len(a) : i <= Len(b) /\ a[i] < b[i] /\ \A j \in 1 .. i - 1 : a[j] = b[j]
  BY DEF EndsBefore
<1>3. i \in 1 .. Len(b) /\ a[i] # b[i]
  BY <1>1, <1>2
<1>4. ~IsPrefix(a, b) /\ ~IsPrefix(b, a)
  BY <1>2, <1>3, PrefixIs
<1>5. ASSUME NEW k \in 1 .. Len(b), k <= Len(a), b[k] < a[k], \A j \in 1 .. k - 1 : b[j] = a[j]
      PROVE  FALSE
  <2>1. k \in 1 .. Len(a) /\ b[k] # a[k]
    BY <1>1, <1>5
  <2>2. ~(i < k) /\ ~(k < i)
    BY <1>1, <1>2, <1>3, <1>5, <2>1
  <2>3. i = k
    BY <1>1, <2>2
  <2> QED BY <1>1, <1>2, <1>5, <2>3
<1> QED BY <1>4, <1>5 DEF EndsBefore

LEMMA EndsJoin ==
  ASSUME NEW a \in Paths, NEW b \in Paths, NEW c \in Paths, EndsBefore(a, b)
  PROVE  /\ EndsBefore(b, c) => EndsBefore(a, c)
         /\ IsPrefix(c, b) => EndsBefore(a, c) \/ IsStrictPrefix(c, a)
         /\ IsPrefix(c, a) => EndsBefore(c, b) \/ IsStrictPrefix(c, b)
<1>1. /\ Len(a) \in Nat /\ Len(b) \in Nat /\ Len(c) \in Nat
      /\ \A i \in 1 .. Len(a) : a[i] \in Nat
      /\ \A i \in 1 .. Len(b) : b[i] \in Nat
      /\ \A i \in 1 .. Len(c) : c[i] \in Nat
  BY DEF Paths
<1>2. PICK i \in 1 .. Len(a) : i <= Len(b) /\ a[i] < b[i] /\ \A j \in 1 .. i - 1 : a[j] = b[j]
  BY DEF EndsBefore
<1>3. ASSUME EndsBefore(b, c) PROVE EndsBefore(a, c)
  <2>1. PICK k \in 1 .. Len(b) : k <= Len(c) /\ b[k] < c[k] /\ \A j \in 1 .. k - 1 : b[j] = c[j]
    BY <1>3 DEF EndsBefore
  <2>2. CASE i <= k
    <3>1. i \in 1 .. Len(a) /\ i <= Len(c) /\ a[i] < c[i] /\ \A j \in 1 .. i - 1 : a[j] = c[j]
      BY <1>1, <1>2, <2>1, <2>2, SMTT(20)
    <3> QED BY <3>1 DEF EndsBefore
  <2>3. CASE k < i
    <3>1. k \in 1 .. Len(a) /\ k <= Len(c) /\ a[k] < c[k] /\ \A j \in 1 .. k - 1 : a[j] = c[j]
      BY <1>1, <1>2, <2>1, <2>3
    <3> QED BY <3>1 DEF EndsBefore
  <2> QED BY <1>1, <2>2, <2>3
<1>4. ASSUME IsPrefix(c, b) PROVE EndsBefore(a, c) \/ IsStrictPrefix(c, a)
  <2>1. Len(c) <= Len(b) /\ \A j \in 1 .. Len(c) : c[j] = b[j]
    BY <1>4, PrefixIs
  <2>2. CASE i <= Len(c)
    <3>1. a[i] < c[i] /\ \A j \in 1 .. i - 1 : a[j] = c[j]
      BY <1>1, <1>2, <2>1, <2>2
    <3> QED BY <1>2, <2>2, <3>1 DEF EndsBefore
  <2>3. CASE Len(c) < i
    <3>1. Len(c) < Len(a) /\ \A j \in 1 .. Len(c) : c[j] = a[j]
      BY <1>1, <1>2, <2>1, <2>3
    <3> QED BY <1>1, <3>1, PrefixIs DEF IsStrictPrefix
  <2> QED BY <1>1, <2>2, <2>3
<1>5. ASSUME IsPrefix(c, a) PROVE EndsBefore(c, b) \/ IsStrictPrefix(c, b)
  <2>1. Len(c) <= Len(a) /\ \A j \in 1 .. Len(c) : c[j] = a[j]
    BY <1>5, PrefixIs
  <2>2. CASE i <= Len(c)
    <3>1. i \in 1 .. Len(c) /\ c[i] < b[i] /\ \A j \in 1 .. i - 1 : c[j] = b[j]
      BY <1>1, <1>2, <2>1, <2>2
    <3> QED BY <1>2, <3>1 DEF EndsBefore
  <2>3. CASE Len(c) < i
    <3>1. Len(c) < Len(b) /\ \A j \in 1 .. Len(c) : c[j] = b[j]
      BY <1>1, <1>2, <2>1, <2>3
    <3> QED BY <1>1, <3>1, PrefixIs DEF IsStrictPrefix
  <2> QED BY <1>1, <2>2, <2>3
<1> QED BY <1>3, <1>4, <1>5

LEMMA OneOrOther ==
  ASSUME NEW a \in Paths, NEW b \in Paths
  PROVE  IsPrefix(a, b) \/ IsPrefix(b, a) \/ EndsBefore(a, b) \/ EndsBefore(b, a)
<1>1. /\ Len(a) \in Nat /\ Len(b) \in Nat
      /\ \A i \in 1 .. Len(a) : a[i] \in Nat
      /\ \A i \in 1 .. Len(b) : b[i] \in Nat
  BY DEF Paths
<1> DEFINE T == {i \in 1 .. Len(a) : i <= Len(b) /\ a[i] # b[i]}
<1>2. CASE T = {}
  <2>1. CASE Len(a) <= Len(b)
    <3>1. \A i \in 1 .. Len(a) : a[i] = b[i]
      BY <1>1, <1>2, <2>1
    <3> QED BY <2>1, <3>1, PrefixIs
  <2>2. CASE Len(b) <= Len(a)
    <3>1. \A i \in 1 .. Len(b) : b[i] = a[i]
      BY <1>1, <1>2, <2>2
    <3> QED BY <2>2, <3>1, PrefixIs
  <2> QED BY <1>1, <2>1, <2>2
<1>3. CASE T # {}
  <2>1. PICK i \in T : \A m \in T : i <= m
    <3>1. T \subseteq Nat
      BY <1>1
    <3> HIDE DEF T
    <3> QED BY <1>3, <3>1, Least
  <2>2. \A j \in 1 .. i - 1 : a[j] = b[j] /\ b[j] = a[j]
    BY <1>1, <2>1
  <2>3. a[i] < b[i] \/ b[i] < a[i]
    BY <1>1, <2>1
  <2>4. i \in 1 .. Len(a) /\ i \in 1 .. Len(b) /\ i <= Len(a) /\ i <= Len(b)
    BY <1>1, <2>1
  <2> QED BY <2>2, <2>3, <2>4 DEF EndsBefore
<1> QED BY <1>2, <1>3

-----------------------------------------------------------------------------
(* The nodes of a file.                                                    *)
LEMMA NodesAre ==
  ASSUME KotlinFile(program)
  PROVE  /\ IsFiniteSet(DOMAIN program) /\ << >> \in DOMAIN program
         /\ \A n \in DOMAIN program : n \in Paths /\ n \in Seq(Nat \ {0})
         /\ \A n \in DOMAIN program : n # << >> => Front(n) \in DOMAIN program
<1>1. \A n \in Seq(Nat \ {0}) : n \in Seq(Nat)
  BY SeqMonotonic
<1> QED BY <1>1 DEF KotlinFile, Paths

LEMMA PrecedesOrder ==
  ASSUME NEW a \in Paths, NEW b \in Paths, NEW c \in Paths
  PROVE  /\ ~Precedes(a, a)
         /\ Precedes(a, b) => ~Precedes(b, a)
         /\ Precedes(a, b) /\ Precedes(b, c) => Precedes(a, c)
         /\ a # b => Precedes(a, b) \/ Precedes(b, a)
<1>1. ~Precedes(a, a)
  BY PrecedesIs, EndsApart, PrefixOrder DEF IsStrictPrefix
<1>2. Precedes(a, b) => ~Precedes(b, a)
  BY PrecedesIs, EndsApart, PrefixOrder DEF IsStrictPrefix
<1>3. ASSUME Precedes(a, b), Precedes(b, c) PROVE Precedes(a, c)
  <2>1. CASE IsStrictPrefix(a, b) /\ IsStrictPrefix(b, c)
    BY <2>1, PrecedesIs, PrefixOrder, PrefixJoin DEF IsStrictPrefix
  <2>2. CASE IsStrictPrefix(a, b) /\ EndsBefore(b, c)
    BY <2>2, PrecedesIs, EndsJoin DEF IsStrictPrefix
  <2>3. CASE EndsBefore(a, b) /\ IsStrictPrefix(b, c)
    BY <2>3, PrecedesIs, EndsBeforeAll, PrefixOrder DEF IsStrictPrefix
  <2>4. CASE EndsBefore(a, b) /\ EndsBefore(b, c)
    BY <2>4, PrecedesIs, EndsJoin
  <2> QED BY <1>3, <2>1, <2>2, <2>3, <2>4, PrecedesIs
<1>4. a # b => Precedes(a, b) \/ Precedes(b, a)
  BY OneOrOther, PrecedesIs DEF IsStrictPrefix
<1> QED BY <1>1, <1>2, <1>3, <1>4

LEMMA ParentIs ==
  ASSUME NEW n \in Paths, n # << >>
  PROVE  /\ Parent(n) \in Paths /\ IsStrictPrefix(Parent(n), n)
         /\ Len(Parent(n)) = Len(n) - 1
         /\ \A p \in Paths : IsStrictPrefix(p, n) => IsPrefix(p, Parent(n))
<1>1. Len(n) \in Nat /\ Len(n) > 0 /\ DOMAIN n = 1 .. Len(n)
  BY EmptySeq DEF Paths
<1> DEFINE p == SubSeq(n, 1, Len(n) - 1)
<1>2. p \in Paths /\ Len(p) = Len(n) - 1 /\ \A i \in 1 .. Len(n) - 1 : p[i] = n[i]
  BY <1>1 DEF Paths
<1>3. p = Parent(n)
  BY DEF Parent, Front
<1> HIDE DEF p
<1>4. IsStrictPrefix(p, n)
  BY <1>1, <1>2, PrefixIs DEF IsStrictPrefix
<1>5. ASSUME NEW q \in Paths, IsStrictPrefix(q, n) PROVE IsPrefix(q, p)
  <2>1. Len(q) \in Nat /\ Len(q) <= Len(n) /\ \A i \in 1 .. Len(q) : q[i] = n[i]
    BY <1>5, PrefixIs DEF IsStrictPrefix, Paths
  <2>2. Len(q) # Len(n)
    BY <1>5, <2>1, SameItems DEF IsStrictPrefix
  <2> QED BY <1>1, <1>2, <2>1, <2>2, PrefixIs
<1> QED BY <1>2, <1>3, <1>4, <1>5

LEMMA ChildIs ==
  ASSUME NEW p \in Paths, NEW i \in Nat
  PROVE  Child(p, i) \in Paths /\ Child(p, i) # << >> /\ Parent(Child(p, i)) = p
<1>1. /\ Len(p) \in Nat /\ p \o <<i>> \in Paths /\ Len(p \o <<i>>) = Len(p) + 1
      /\ \A k \in 1 .. Len(p) : (p \o <<i>>)[k] = p[k]
  BY ConcatProperties DEF Paths
<1>2. Child(p, i) \in Paths /\ Len(Child(p, i)) = Len(p) + 1
      /\ \A k \in 1 .. Len(p) : Child(p, i)[k] = p[k]
  BY <1>1 DEF Child
<1>3. Child(p, i) # << >>
  BY <1>1, <1>2, EmptySeq
<1>4. Parent(Child(p, i)) \in Paths /\ Len(Parent(Child(p, i))) = Len(p)
  BY <1>1, <1>2, <1>3, ParentIs
<1>5. \A k \in 1 .. Len(p) : Parent(Child(p, i))[k] = p[k]
  BY <1>1, <1>2, <1>3, <1>4, ParentIs, PrefixIs DEF IsStrictPrefix
<1> QED BY <1>2, <1>3, <1>4, <1>5, SameItems

(* What encloses a node of a file is a node.                               *)
LEMMA AncestorIs ==
  ASSUME KotlinFile(program), NEW n \in DOMAIN program, NEW p \in Paths, IsPrefix(p, n)
  PROVE  p \in DOMAIN program
<1>1. n \in Paths /\ Len(n) \in Nat /\ Len(p) \in Nat /\ Len(p) <= Len(n)
  BY NodesAre, PrefixIs DEF Paths
<1> DEFINE Cut(k) == SubSeq(n, 1, k)
           T == {d \in 0 .. Len(n) : Cut(Len(n) - d) \notin DOMAIN program}
<1>2. \A k \in 0 .. Len(n) : /\ Cut(k) \in Paths /\ Len(Cut(k)) = k
                             /\ \A i \in 1 .. k : Cut(k)[i] = n[i]
  BY <1>1 DEF Paths
<1>3. Cut(Len(n)) = n
  <2>1. Len(n) \in 0 .. Len(n)
    BY <1>1
  <2> HIDE DEF Cut
  <2> QED BY <1>1, <1>2, <2>1, SameItems
<1>4. Cut(Len(p)) = p
  <2>1. \A i \in 1 .. Len(p) : p[i] = n[i]
    BY <1>1, PrefixIs
  <2>2. Cut(Len(p)) \in Paths /\ Len(Cut(Len(p))) = Len(p) /\ \A i \in 1 .. Len(p) : Cut(Len(p))[i] = p[i]
    BY <1>1, <1>2, <2>1
  <2> HIDE DEF Cut
  <2> QED BY <2>2, SameItems
<1>5. \A k \in 1 .. Len(n) : Parent(Cut(k)) = Cut(k - 1)
  <2> SUFFICES ASSUME NEW k \in 1 .. Len(n) PROVE Parent(Cut(k)) = Cut(k - 1)
    OBVIOUS
  <2>1. /\ Cut(k) \in Paths /\ Len(Cut(k)) = k /\ \A i \in 1 .. k : Cut(k)[i] = n[i]
        /\ Cut(k - 1) \in Paths /\ Len(Cut(k - 1)) = k - 1 /\ \A i \in 1 .. k - 1 : Cut(k - 1)[i] = n[i]
    BY <1>1, <1>2
  <2> HIDE DEF Cut
  <2>2. Cut(k) # << >>
    BY <1>1, <2>1, EmptySeq
  <2>3. Parent(Cut(k)) \in Paths /\ Len(Parent(Cut(k))) = k - 1
    BY <2>1, <2>2, ParentIs
  <2>4. \A i \in 1 .. k - 1 : Parent(Cut(k))[i] = Cut(k)[i]
    BY <2>1, <2>2, <2>3, ParentIs, PrefixIs DEF IsStrictPrefix
  <2>5. \A i \in 1 .. k - 1 : Parent(Cut(k))[i] = Cut(k - 1)[i]
    BY <1>1, <2>1, <2>4
  <2> QED BY <2>1, <2>3, <2>5, SameItems
<1>6. T = {}
  <2> SUFFICES ASSUME T # {} PROVE FALSE
    OBVIOUS
  <2>1. T \subseteq Nat
    BY <1>1
  <2>2. PICK d \in T : \A m \in T : d <= m
    <3> HIDE DEF T
    <3> QED BY <2>1, Least
  <2>3. d \in 0 .. Len(n) /\ Cut(Len(n) - d) \notin DOMAIN program
    BY <2>2
  <2> HIDE DEF Cut
  <2>4. d # 0
    BY <1>1, <1>3, <2>3
  <2>5. d - 1 \in 0 .. Len(n) /\ d - 1 \notin T
    BY <1>1, <2>2, <2>3, <2>4
  <2>6. Cut(Len(n) - (d - 1)) \in DOMAIN program
    BY <2>5
  <2> DEFINE k == Len(n) - (d - 1)
  <2>7. k \in 1 .. Len(n) /\ k - 1 = Len(n) - d
    BY <1>1, <2>3, <2>4
  <2>8. Cut(k) \in DOMAIN program
    BY <2>6
  <2> HIDE DEF k
  <2>9. Cut(k) # << >>
    BY <1>1, <1>2, <2>7, EmptySeq
  <2>10. Parent(Cut(k)) \in DOMAIN program
    BY <2>8, <2>9, NodesAre DEF Parent
  <2> QED BY <1>5, <2>3, <2>7, <2>10
<1>7. Len(n) - Len(p) \in 0 .. Len(n) /\ Len(n) - (Len(n) - Len(p)) = Len(p)
  BY <1>1
<1> HIDE DEF Cut
<1> QED BY <1>4, <1>6, <1>7

-----------------------------------------------------------------------------
(* Of the nodes in a set, one is the latest and one the earliest.          *)
LEMMA LatestIs ==
  ASSUME KotlinFile(program), NEW nodes, nodes \subseteq DOMAIN program, nodes # {}
  PROVE  Latest(nodes) \in nodes /\ \A m \in nodes \ {Latest(nodes)} : Precedes(m, Latest(nodes))
<1> DEFINE Later(n) == {m \in nodes : Precedes(n, m)}
           T == {Cardinality(Later(n)) : n \in nodes}
<1>1. IsFiniteSet(nodes) /\ \A n \in nodes : n \in Paths
  BY NodesAre, FS_Subset
<1>2. \A n \in nodes : IsFiniteSet(Later(n)) /\ Cardinality(Later(n)) \in Nat
  BY <1>1, FS_Subset, FS_CardinalityType
<1>3. PICK k \in T : \A m \in T : k <= m
  <2>1. T \subseteq Nat /\ T # {}
    BY <1>2
  <2> HIDE DEF T
  <2> QED BY <2>1, Least
<1>4. PICK n \in nodes : \A m \in nodes : Cardinality(Later(n)) <= Cardinality(Later(m))
  BY <1>3
<1>5. ASSUME NEW m \in nodes \ {n} PROVE Precedes(m, n)
  <2> SUFFICES ASSUME ~Precedes(m, n) PROVE FALSE
    OBVIOUS
  <2>1. Precedes(n, m) /\ ~Precedes(m, m)
    BY <1>1, PrecedesOrder
  <2>2. Later(m) \subseteq Later(n)
    BY <1>1, <2>1, PrecedesOrder
  <2>3. m \in Later(n) /\ m \notin Later(m)
    BY <2>1
  <2>4. Cardinality(Later(m)) < Cardinality(Later(n))
    <3> HIDE DEF Later
    <3>1. Later(m) # Later(n)
      BY <2>3
    <3> QED BY <1>2, <2>2, <3>1, FS_Subset
  <2>5. Cardinality(Later(n)) <= Cardinality(Later(m))
    BY <1>4
  <2> HIDE DEF Later
  <2> QED BY <1>2, <2>4, <2>5
<1> QED BY <1>5 DEF Latest

LEMMA EarliestIs ==
  ASSUME KotlinFile(program), NEW nodes, nodes \subseteq DOMAIN program, nodes # {}
  PROVE  Earliest(nodes) \in nodes /\ \A m \in nodes \ {Earliest(nodes)} : Precedes(Earliest(nodes), m)
<1> DEFINE Prior(n) == {m \in nodes : Precedes(m, n)}
           T == {Cardinality(Prior(n)) : n \in nodes}
<1>1. IsFiniteSet(nodes) /\ \A n \in nodes : n \in Paths
  BY NodesAre, FS_Subset
<1>2. \A n \in nodes : IsFiniteSet(Prior(n)) /\ Cardinality(Prior(n)) \in Nat
  BY <1>1, FS_Subset, FS_CardinalityType
<1>3. PICK k \in T : \A m \in T : k <= m
  <2>1. T \subseteq Nat /\ T # {}
    BY <1>2
  <2> HIDE DEF T
  <2> QED BY <2>1, Least
<1>4. PICK n \in nodes : \A m \in nodes : Cardinality(Prior(n)) <= Cardinality(Prior(m))
  BY <1>3
<1>5. ASSUME NEW m \in nodes \ {n} PROVE Precedes(n, m)
  <2> SUFFICES ASSUME ~Precedes(n, m) PROVE FALSE
    OBVIOUS
  <2>1. Precedes(m, n) /\ ~Precedes(m, m)
    BY <1>1, PrecedesOrder
  <2>2. Prior(m) \subseteq Prior(n)
    BY <1>1, <2>1, PrecedesOrder
  <2>3. m \in Prior(n) /\ m \notin Prior(m)
    BY <2>1
  <2>4. Cardinality(Prior(m)) < Cardinality(Prior(n))
    <3> HIDE DEF Prior
    <3>1. Prior(m) # Prior(n)
      BY <2>3
    <3> QED BY <1>2, <2>2, <3>1, FS_Subset
  <2>5. Cardinality(Prior(n)) <= Cardinality(Prior(m))
    BY <1>4
  <2> HIDE DEF Prior
  <2> QED BY <1>2, <2>4, <2>5
<1> QED BY <1>5 DEF Earliest

-----------------------------------------------------------------------------
(* Sites.  Nothing that binds a name or is a block lies between a site and *)
(* its tested read, or between it and a region that does not follow it.    *)
Plain(m) == Kind(m) \notin {"fun", "lambda", "block", "file"}
Clear(s, r) ==
  /\ r \in Paths /\ IsPrefix(s, r)
  /\ \A m \in DOMAIN program : IsPrefix(s, m) /\ IsStrictPrefix(m, r) => Plain(m)

LEMMA SiteIs ==
  ASSUME KotlinFile(program), NEW s \in Sites
  PROVE  /\ s \in DOMAIN program /\ s \in Paths /\ s # << >>
         /\ Plain(s) /\ Clear(s, s) /\ IsStrictPrefix(Parent(s), s)
         /\ Parent(s) \in Paths /\ Parent(s) \in DOMAIN program
<1>1. s \in DOMAIN program /\ s \in Paths /\ Kind(s) \in {"if", "when", "cases"}
  BY NodesAre DEF Sites
<1>2. s # << >>
  BY <1>1 DEF KotlinFile, Kind
<1>3. Clear(s, s)
  BY <1>1, PrefixOrder, NodesAre DEF Clear, IsStrictPrefix
<1> QED BY <1>1, <1>2, <1>3, ParentIs, NodesAre DEF Plain, Parent

LEMMA ClearDown ==
  ASSUME KotlinFile(program), NEW s \in Paths, NEW m \in Paths, m # << >>,
         Clear(s, Parent(m)), Plain(Parent(m))
  PROVE  Clear(s, m)
<1>1. Parent(m) \in Paths /\ IsStrictPrefix(Parent(m), m)
  BY ParentIs
<1>2. IsPrefix(s, m)
  BY <1>1, PrefixJoin DEF Clear, IsStrictPrefix
<1>3. ASSUME NEW a \in DOMAIN program, IsPrefix(s, a), IsStrictPrefix(a, m) PROVE Plain(a)
  <2>1. a \in Paths /\ IsPrefix(a, Parent(m))
    BY <1>3, NodesAre, ParentIs
  <2> QED BY <1>3, <2>1 DEF Clear, IsStrictPrefix
<1> QED BY <1>2, <1>3 DEF Clear

LEMMA ClearChild ==
  ASSUME KotlinFile(program), NEW s \in Paths, NEW p, NEW i \in Nat,
         Clear(s, p), Plain(p)
  PROVE  Clear(s, Child(p, i))
BY ClearDown, ChildIs DEF Clear

LEMMA TestsAre ==
  ASSUME KotlinFile(program), NEW s \in Sites, IsSite(s)
  PROVE  /\ SiteTests(s) \subseteq DOMAIN program
         /\ \A e \in SiteTests(s) : Plain(e) /\ Clear(s, e)
         /\ Kind(s) # "when" => \A e \in SiteTests(s) : Kind(e) \in {"is", "notIs"}
<1>1. /\ s \in DOMAIN program /\ s \in Paths /\ Kind(s) \in {"if", "when", "cases"}
      /\ Plain(s) /\ Clear(s, s)
  BY SiteIs DEF Sites
<1>2. \A m \in DOMAIN program : m \in Paths
  BY NodesAre
<1>3. Clear(s, Condition(s))
  BY <1>1, ClearChild DEF Condition
<1>4. CASE Kind(s) = "when"
  <2>1. SiteTests(s) = {n \in Children(s) : Kind(n) = "isEntry"}
    BY <1>4 DEF SiteTests
  <2>2. ASSUME NEW e \in Children(s) PROVE e \in DOMAIN program /\ Clear(s, e)
    BY <1>1, <1>2, ClearDown DEF Children
  <2> QED BY <1>4, <2>1, <2>2 DEF Plain
<1>5. CASE Kind(s) = "cases"
  <2>1. SiteTests(s) = {n \in {Condition(e) : e \in {c \in Children(s) : Kind(c) = "case"}} : Kind(n) = "is"}
    BY <1>5 DEF SiteTests, CaseTests, Tests
  <2>2. ASSUME NEW c \in Children(s), Kind(c) = "case", Kind(Condition(c)) = "is"
        PROVE  Condition(c) \in DOMAIN program /\ Clear(s, Condition(c))
    <3>1. c \in Paths /\ Clear(s, c) /\ Plain(c)
      BY <1>1, <1>2, <2>2, ClearDown DEF Children, Plain
    <3>2. Clear(s, Condition(c))
      BY <1>1, <3>1, ClearChild DEF Condition
    <3>3. Child(c, 1) \in DOMAIN program
      BY <2>2 DEF KotlinFile, Kind, Child, Children
    <3> QED BY <3>2, <3>3 DEF Condition
  <2> QED BY <1>5, <2>1, <2>2 DEF Plain
<1>6. CASE Kind(s) = "if" /\ Kind(Condition(s)) = "and"
  <2>1. SiteTests(s) = {n \in Children(Condition(s)) : Kind(n) = "is"}
    BY <1>6 DEF SiteTests, Tests, Operands
  <2>2. ASSUME NEW e \in Children(Condition(s)) PROVE e \in DOMAIN program /\ Clear(s, e)
    BY <1>1, <1>2, <1>3, <1>6, ClearDown DEF Children, Plain
  <2> QED BY <1>6, <2>1, <2>2 DEF Plain
<1>7. CASE Kind(s) = "if" /\ Kind(Condition(s)) # "and"
  <2>1. SiteTests(s) = {Condition(s)} \cap {n \in DOMAIN program : Kind(n) \in {"is", "notIs"}}
    BY <1>7 DEF SiteTests
  <2> QED BY <1>3, <1>7, <2>1 DEF Plain
<1> QED BY <1>1, <1>4, <1>5, <1>6, <1>7

(* What is tested is a read below the site.                                *)
LEMMA TestedIs ==
  ASSUME KotlinFile(program), NEW s \in Sites, IsSite(s)
  PROVE  /\ Tested(s) \in DOMAIN program /\ Kind(Tested(s)) = "read"
         /\ Clear(s, Tested(s))
<1>1. /\ s \in DOMAIN program /\ s \in Paths /\ Plain(s) /\ Clear(s, s)
  BY SiteIs
<1>2. CASE Kind(s) = "when"
  <2>1. Tested(s) = Child(s, 1)
    BY <1>2 DEF Tested
  <2>2. Child(s, 1) \in DOMAIN program /\ Kind(Child(s, 1)) = "read"
    BY <1>1, <1>2 DEF KotlinFile, Kind, Child
  <2> QED BY <1>1, <2>1, <2>2, ClearChild
<1>3. CASE Kind(s) # "when"
  <2> DEFINE e == Earliest(SiteTests(s))
  <2>1. e \in SiteTests(s)
    BY TestsAre, EarliestIs DEF IsSite
  <2>2. e \in DOMAIN program /\ Plain(e) /\ Clear(s, e) /\ Kind(e) \in {"is", "notIs"}
    BY <1>3, <2>1, TestsAre
  <2>3. Tested(s) = Child(e, 1)
    BY <1>3 DEF Tested
  <2> HIDE DEF e
  <2>4. Child(e, 1) \in DOMAIN program /\ Kind(Child(e, 1)) = "read"
    BY <2>2 DEF KotlinFile, Kind, Child
  <2> QED BY <1>1, <2>2, <2>3, <2>4, ClearChild
<1> QED BY <1>2, <1>3

(* A region in which reads are replaced follows the site or is below it.   *)
LEMMA RegionIs ==
  ASSUME KotlinFile(program), NEW s \in Sites, IsSite(s), Supported(s), NEW r \in Regions(s)
  PROVE  Clear(s, r) \/ r \in Following(s)
<1>1. /\ s \in DOMAIN program /\ s \in Paths /\ Kind(s) \in {"if", "when", "cases"}
      /\ Plain(s) /\ Clear(s, s)
  BY SiteIs DEF Sites
<1>2. \A i \in Nat : Clear(s, Child(s, i))
  BY <1>1, ClearChild
<1>3. \A m \in DOMAIN program : m \in Paths
  BY NodesAre
<1>4. CASE Kind(s) = "when"
  <2>1. Kind(Condition(s)) = "read"
    BY <1>1, <1>4 DEF KotlinFile, Kind, Condition, Child
  <2>2. PICK e \in SiteTests(s) : r = Child(e, 1)
    BY <1>4, <2>1 DEF Regions
  <2> QED BY <1>1, <2>2, TestsAre, ClearChild
<1>5. CASE Kind(s) = "cases"
  <2>1. Condition(Child(s, 1)) \in CaseTests(s)
    BY <1>5 DEF Supported
  <2>2. PICK e \in Children(s) : Kind(e) = "case" /\ Condition(Child(s, 1)) = Condition(e)
    BY <2>1 DEF CaseTests, Tests
  <2>3. e \in Paths /\ Child(s, 1) \in Paths
    BY <1>1, <1>3, <2>2, ChildIs DEF Children
  <2>4. Parent(Condition(Child(s, 1))) = Child(s, 1) /\ Parent(Condition(e)) = e
    BY <2>3, ChildIs DEF Condition
  <2>5. Kind(Child(s, 1)) = "case"
    BY <2>2, <2>4
  <2>6. r = Child(Child(s, 1), 2)
    BY <1>5, <2>5 DEF Regions, Condition
  <2> QED BY <1>1, <1>2, <2>5, <2>6, ClearChild DEF Plain
<1>6. CASE Kind(s) = "if"
  <2>1. ASSUME Kind(Condition(s)) = "and", r \in Operands(s) PROVE Clear(s, r)
    <3>1. r \in Paths /\ r # << >> /\ Parent(r) = Condition(s)
      BY <1>3, <2>1 DEF Operands, Children
    <3> QED BY <1>1, <1>2, <2>1, <3>1, ClearDown DEF Condition, Plain
  <2>2. r \in {Then(s), Else(s)} \/ r \in Following(s) \/ (Kind(Condition(s)) = "and" /\ r \in Operands(s))
    BY <1>6 DEF Regions
  <2> QED BY <1>2, <2>1, <2>2 DEF Then, Else
<1> QED BY <1>1, <1>4, <1>5, <1>6

-----------------------------------------------------------------------------
(* Which declarations a position sees.                                     *)
Reaches(s, n) == IsPrefix(s, n) \/ (EndsBefore(s, n) /\ IsStrictPrefix(Parent(s), n))
Lexical(d) == Kind(d) \in {"fun", "lambda"}

LEMMA VisibleIs ==
  ASSUME NEW d \in Paths, NEW n \in Paths
  PROVE  VisibleAt(d, n) <=> IF Lexical(d) THEN IsStrictPrefix(d, n)
                             ELSE IsStrictPrefix(Parent(d), n) /\ EndsBefore(d, n)
BY PrecedesIs, EndsApart DEF VisibleAt, Lexical, IsStrictPrefix

LEMMA OriginIs ==
  ASSUME KotlinFile(program), NEW n, NEW x, NEW d \in Origins(n, x)
  PROVE  /\ d \in DOMAIN program /\ d \in Paths /\ d # << >> /\ program[d].name = x
         /\ VisibleAt(d, n) /\ Kind(d) \in {"fun", "lambda", "decl", "assign"}
         /\ Parent(d) \in Paths /\ Parent(d) \in DOMAIN program /\ IsStrictPrefix(Parent(d), d)
<1>1. d \in DOMAIN program /\ Kind(d) \in {"fun", "lambda", "decl", "assign"}
      /\ program[d].name = x /\ VisibleAt(d, n)
  BY DEF Origins
<1>2. d # << >>
  BY <1>1 DEF KotlinFile, Kind
<1> QED BY <1>1, <1>2, NodesAre, ParentIs DEF Parent

(* Three facts of strict prefixes.                                         *)
LEMMA StrictJoin ==
  ASSUME NEW a \in Paths, NEW b \in Paths, NEW c \in Paths
  PROVE  /\ IsStrictPrefix(a, b) /\ IsPrefix(b, c) => IsStrictPrefix(a, c)
         /\ IsPrefix(a, b) /\ IsStrictPrefix(b, c) => IsStrictPrefix(a, c)
         /\ ~(IsPrefix(a, b) /\ IsStrictPrefix(b, a))
         /\ IsPrefix(a, c) /\ IsPrefix(b, c) => IsPrefix(a, b) \/ IsStrictPrefix(b, a)
BY PrefixJoin, PrefixOrder DEF IsStrictPrefix

(* What is visible where a statement begins is visible in it and in what   *)
(* follows it in its block.                                                *)
LEMMA VisibleOn ==
  ASSUME NEW s \in Paths, NEW n \in Paths, s # << >>, Reaches(s, n),
         NEW d \in Paths, d # << >>, VisibleAt(d, s)
  PROVE  VisibleAt(d, n)
<1>1. /\ Parent(s) \in Paths /\ IsStrictPrefix(Parent(s), s)
      /\ Parent(d) \in Paths /\ IsStrictPrefix(Parent(d), d)
      /\ \A p \in Paths : IsStrictPrefix(p, s) => IsPrefix(p, Parent(s))
  BY ParentIs
<1>2. ASSUME NEW p \in Paths, IsStrictPrefix(p, s) PROVE IsStrictPrefix(p, n)
  BY <1>1, <1>2, StrictJoin DEF Reaches
<1>3. CASE Lexical(d)
  BY <1>2, <1>3, VisibleIs
<1>4. CASE ~Lexical(d)
  <2>1. IsStrictPrefix(Parent(d), s) /\ EndsBefore(d, s)
    BY <1>4, VisibleIs
  <2>2. EndsBefore(d, n)
    BY <2>1, EndsBeforeAll, EndsJoin, PrefixOrder DEF Reaches
  <2> QED BY <1>1, <1>2, <1>4, <2>1, <2>2, VisibleIs
<1> QED BY <1>3, <1>4

(* What is visible at a read and begins before the statement is visible    *)
(* where the statement begins.                                             *)
LEMMA VisibleBack ==
  ASSUME NEW s \in Paths, NEW n \in Paths, s # << >>, Reaches(s, n),
         NEW d \in Paths, d # << >>, VisibleAt(d, n), Precedes(d, s)
  PROVE  VisibleAt(d, s)
<1>1. /\ Parent(s) \in Paths /\ IsStrictPrefix(Parent(s), s)
      /\ Parent(d) \in Paths /\ IsStrictPrefix(Parent(d), d)
      /\ \A p \in Paths : IsStrictPrefix(p, s) => IsPrefix(p, Parent(s))
  BY ParentIs
<1>2. CASE Lexical(d)
  <2>1. IsStrictPrefix(d, n)
    BY <1>2, VisibleIs
  <2>2. ~EndsBefore(d, s)
    <3> SUFFICES ASSUME EndsBefore(d, s) PROVE FALSE
      OBVIOUS
    <3>1. EndsBefore(d, n)
      BY EndsBeforeAll, EndsJoin, PrefixOrder DEF Reaches
    <3> QED BY <2>1, <3>1, EndsApart DEF IsStrictPrefix
  <2> QED BY <1>2, <2>2, VisibleIs, PrecedesIs
<1>3. CASE ~Lexical(d)
  <2>1. IsStrictPrefix(Parent(d), n) /\ EndsBefore(d, n)
    BY <1>3, VisibleIs
  <2>2. ~IsStrictPrefix(d, s)
    <3> SUFFICES ASSUME IsStrictPrefix(d, s) PROVE FALSE
      OBVIOUS
    <3>1. IsPrefix(d, n)
      BY <1>1, StrictJoin DEF Reaches, IsStrictPrefix
    <3> QED BY <2>1, <3>1, EndsApart
  <2>3. EndsBefore(d, s)
    BY <2>2, PrecedesIs
  <2>4. IsStrictPrefix(Parent(d), s)
    <3> SUFFICES ASSUME ~IsStrictPrefix(Parent(d), s) PROVE FALSE
      OBVIOUS
    <3>1. CASE IsPrefix(s, n)
      <4>1. IsPrefix(s, Parent(d))
        BY <1>1, <2>1, <3>1, StrictJoin DEF IsStrictPrefix
      <4>2. IsPrefix(s, d)
        BY <1>1, <4>1, StrictJoin DEF IsStrictPrefix
      <4> QED BY <2>3, <4>2, EndsApart
    <3>2. CASE EndsBefore(s, n) /\ IsStrictPrefix(Parent(s), n)
      <4>1. EndsBefore(Parent(d), s) \/ IsStrictPrefix(Parent(d), s)
        BY <1>1, <2>3, EndsJoin DEF IsStrictPrefix
      <4>2. EndsBefore(Parent(d), n)
        BY <1>1, <3>2, <4>1, EndsJoin
      <4> QED BY <1>1, <2>1, <4>2, EndsApart DEF IsStrictPrefix
    <3> QED BY <3>1, <3>2 DEF Reaches
  <2> QED BY <1>3, <2>3, <2>4, VisibleIs
<1> QED BY <1>2, <1>3

-----------------------------------------------------------------------------
(* Ranges.                                                                 *)
LEMMA FollowingIs ==
  ASSUME KotlinFile(program), NEW s \in Sites, NEW r \in Following(s)
  PROVE  /\ Kind(Parent(s)) = "block" /\ r \in DOMAIN program /\ r \in Paths /\ r # << >>
         /\ Parent(r) = Parent(s) /\ EndsBefore(s, r)
<1>1. /\ s \in Paths /\ s # << >> /\ Parent(s) \in Paths /\ IsStrictPrefix(Parent(s), s)
  BY SiteIs
<1>2. /\ Kind(Parent(s)) = "block" /\ r \in Children(Parent(s)) /\ Precedes(s, r)
  BY DEF Following, LaterSiblings
<1>3. r \in DOMAIN program /\ r \in Paths /\ r # << >> /\ Parent(r) = Parent(s)
  BY <1>2, NodesAre DEF Children
<1>4. ~IsStrictPrefix(s, r)
  BY <1>1, <1>3, ParentIs, StrictJoin
<1> QED BY <1>1, <1>2, <1>3, <1>4, PrecedesIs

LEMMA RegionReaches ==
  ASSUME KotlinFile(program), NEW s \in Sites, NEW r \in Paths, NEW n \in Paths,
         Clear(s, r) \/ r \in Following(s), IsPrefix(r, n)
  PROVE  Reaches(s, n) /\ (r \in Following(s) => EndsBefore(s, n) /\ IsStrictPrefix(Parent(s), n))
<1>1. /\ s \in Paths /\ s # << >> /\ Parent(s) \in Paths /\ IsStrictPrefix(Parent(s), s)
  BY SiteIs
<1>2. ASSUME r \in Following(s) PROVE EndsBefore(s, n) /\ IsStrictPrefix(Parent(s), n)
  <2>1. Parent(r) = Parent(s) /\ EndsBefore(s, r) /\ r # << >>
    BY <1>2, FollowingIs
  <2>2. IsStrictPrefix(Parent(s), r)
    BY <2>1, ParentIs
  <2> QED BY <1>1, <2>1, <2>2, EndsBeforeAll, PrefixOrder, StrictJoin
<1>3. ASSUME Clear(s, r) PROVE IsPrefix(s, n)
  BY <1>1, <1>3, PrefixJoin DEF Clear
<1> QED BY <1>2, <1>3 DEF Reaches

LEMMA RangeIs ==
  ASSUME KotlinFile(program), NEW s \in Sites, IsSite(s), Supported(s), NEW n \in Ranges(s)
  PROVE  /\ n \in DOMAIN program /\ n \in Paths /\ Kind(n) = "read"
         /\ program[n].name = Receiver(s) /\ Reaches(s, n)
<1>1. CASE n = Tested(s)
  BY <1>1, TestedIs, NodesAre DEF Clear, Reaches, Receiver
<1>2. CASE n # Tested(s)
  <2>1. PICK r \in Regions(s) : n \in Occurrences(r, Receiver(s))
    BY <1>2 DEF Ranges
  <2>2. n \in DOMAIN program /\ IsPrefix(r, n) /\ Kind(n) = "read" /\ program[n].name = Receiver(s)
    BY <2>1 DEF Occurrences, Under
  <2>3. Clear(s, r) \/ r \in Following(s)
    BY RegionIs
  <2>4. r \in Paths
    BY <2>3, FollowingIs DEF Clear
  <2> QED BY <2>2, <2>3, <2>4, NodesAre, RegionReaches
<1> QED BY <1>1, <1>2

(* What a read in a region sees and begins after the site lies below the   *)
(* region's root, if it declares the name where the analysis looks.        *)
LEMMA SeenInRegion ==
  ASSUME KotlinFile(program), NEW s \in Sites, NEW r \in Paths,
         Clear(s, r) \/ r \in Following(s),
         NEW n \in Paths, IsPrefix(r, n),
         NEW d \in DOMAIN program, d # << >>, VisibleAt(d, n), Precedes(s, d),
         ~Lexical(d) => Kind(Parent(d)) = "block" /\ d \notin Following(s)
  PROVE  IF Lexical(d) THEN IsPrefix(r, d) ELSE IsPrefix(r, Parent(d))
<1>1. /\ s \in Paths /\ s # << >> /\ Parent(s) \in Paths /\ IsStrictPrefix(Parent(s), s)
      /\ \A p \in Paths : IsStrictPrefix(p, s) => IsPrefix(p, Parent(s))
  BY SiteIs, ParentIs
<1>2. /\ d \in Paths /\ Parent(d) \in Paths /\ Parent(d) \in DOMAIN program
      /\ IsStrictPrefix(Parent(d), d)
      /\ \A p \in Paths : IsStrictPrefix(p, d) => IsPrefix(p, Parent(d))
  BY NodesAre, ParentIs DEF Parent
<1>3. IsStrictPrefix(s, d) \/ EndsBefore(s, d)
  BY <1>1, <1>2, PrecedesIs
<1>4. CASE Clear(s, r)
  <2>1. IsPrefix(s, n)
    BY <1>1, <1>4, PrefixJoin DEF Clear
  <2>2. ~EndsBefore(s, d)
    <3> SUFFICES ASSUME EndsBefore(s, d) PROVE FALSE
      OBVIOUS
    <3>1. EndsBefore(s, n)
      BY <1>1, <1>2, VisibleIs, EndsBeforeAll, EndsJoin, PrefixOrder DEF IsStrictPrefix
    <3> QED BY <1>1, <2>1, <3>1, EndsApart
  <2>3. IsStrictPrefix(s, d) /\ IsPrefix(s, Parent(d))
    BY <1>1, <1>2, <1>3, <2>2
  <2>4. CASE Lexical(d)
    <3>1. IsStrictPrefix(d, n)
      BY <1>2, <2>4, VisibleIs
    <3>2. ~IsStrictPrefix(d, r)
      BY <1>4, <2>3, <2>4 DEF Clear, Plain, Lexical, IsStrictPrefix
    <3> QED BY <1>2, <2>4, <3>1, <3>2, StrictJoin DEF IsStrictPrefix
  <2>5. CASE ~Lexical(d)
    <3>1. IsStrictPrefix(Parent(d), n)
      BY <1>2, <2>5, VisibleIs
    <3>2. ~IsStrictPrefix(Parent(d), r)
      BY <1>2, <1>4, <2>3, <2>5 DEF Clear, Plain
    <3> QED BY <1>2, <2>5, <3>1, <3>2, StrictJoin DEF IsStrictPrefix
  <2> QED BY <2>4, <2>5
<1>5. CASE r \in Following(s)
  <2>1. /\ Kind(Parent(s)) = "block" /\ r # << >> /\ Parent(r) = Parent(s)
        /\ EndsBefore(s, n) /\ IsStrictPrefix(Parent(s), n)
        /\ \A p \in Paths : IsStrictPrefix(p, r) => IsPrefix(p, Parent(s))
    BY <1>5, FollowingIs, RegionReaches, ParentIs
  <2>2. CASE Lexical(d)
    <3>1. IsStrictPrefix(d, n)
      BY <1>2, <2>2, VisibleIs
    <3>2. ~IsStrictPrefix(d, r)
      <4> SUFFICES ASSUME IsStrictPrefix(d, r) PROVE FALSE
        OBVIOUS
      <4>1. IsStrictPrefix(d, s)
        BY <1>1, <1>2, <2>1, StrictJoin
      <4> QED BY <1>1, <1>2, <1>3, <4>1, EndsApart, PrefixOrder DEF IsStrictPrefix
    <3> QED BY <1>2, <2>2, <3>1, <3>2, StrictJoin DEF IsStrictPrefix
  <2>3. CASE ~Lexical(d)
    <3>1. IsStrictPrefix(Parent(d), n) /\ EndsBefore(d, n)
      BY <1>2, <2>3, VisibleIs
    <3>2. ~IsStrictPrefix(s, d)
      <4> SUFFICES ASSUME IsStrictPrefix(s, d) PROVE FALSE
        OBVIOUS
      <4>1. IsPrefix(s, n)
        BY <1>1, <1>2, <3>1, StrictJoin DEF IsStrictPrefix
      <4> QED BY <1>1, <2>1, <4>1, EndsApart
    <3>3. EndsBefore(s, d)
      BY <1>3, <3>2
    <3>4. IsStrictPrefix(Parent(s), d)
      <4>1. EndsBefore(Parent(s), d) \/ IsStrictPrefix(Parent(s), d)
        BY <1>1, <1>2, <3>3, EndsJoin DEF IsStrictPrefix
      <4>2. ~EndsBefore(Parent(s), d)
        <5> SUFFICES ASSUME EndsBefore(Parent(s), d) PROVE FALSE
          OBVIOUS
        <5>1. EndsBefore(Parent(s), n)
          BY <1>1, <1>2, <3>1, EndsJoin
        <5> QED BY <1>1, <2>1, <5>1, EndsApart DEF IsStrictPrefix
      <4> QED BY <4>1, <4>2
    <3>5. ~IsStrictPrefix(Parent(d), r)
      <4> SUFFICES ASSUME IsStrictPrefix(Parent(d), r) PROVE FALSE
        OBVIOUS
      <4>1. IsPrefix(Parent(d), Parent(s)) /\ IsPrefix(Parent(s), Parent(d))
        BY <1>1, <1>2, <2>1, <3>4
      <4>2. Parent(d) = Parent(s)
        BY <1>1, <1>2, <4>1, PrefixOrder
      <4>3. d \in Following(s)
        BY <2>1, <4>2 DEF Following, LaterSiblings, Children
      <4> QED BY <2>3, <4>3
    <3> QED BY <1>2, <2>3, <3>1, <3>5, StrictJoin DEF IsStrictPrefix
  <2> QED BY <2>2, <2>3
<1> QED BY <1>4, <1>5

(* The step from an enclosing node towards a node.                         *)
LEMMA TowardsIs ==
  ASSUME NEW p \in Paths, NEW n \in Paths, IsStrictPrefix(p, n)
  PROVE  \E a \in Paths : a # << >> /\ Parent(a) = p /\ IsPrefix(a, n)
<1>1. /\ Len(p) \in Nat /\ Len(n) \in Nat /\ Len(p) <= Len(n) /\ Len(p) # Len(n)
      /\ \A i \in 1 .. Len(p) : p[i] = n[i]
  BY PrefixIs, SameItems DEF IsStrictPrefix, Paths
<1> DEFINE a == SubSeq(n, 1, Len(p) + 1)
<1>2. /\ a \in Paths /\ Len(a) = Len(p) + 1 /\ \A i \in 1 .. Len(a) : a[i] = n[i]
  BY <1>1 DEF Paths
<1> HIDE DEF a
<1>3. IsPrefix(a, n) /\ a # << >>
  BY <1>1, <1>2, PrefixIs, EmptySeq
<1>4. Parent(a) \in Paths /\ Len(Parent(a)) = Len(p) /\ IsStrictPrefix(Parent(a), a)
  BY <1>1, <1>2, <1>3, ParentIs
<1>5. \A i \in 1 .. Len(p) : Parent(a)[i] = p[i]
  BY <1>1, <1>2, <1>4, PrefixIs DEF IsStrictPrefix
<1> QED BY <1>2, <1>3, <1>4, <1>5, SameItems

LEMMA SiblingTowards ==
  ASSUME KotlinFile(program), NEW n \in DOMAIN program, NEW d \in DOMAIN program, d # << >>,
         IsStrictPrefix(Parent(d), n), EndsBefore(d, n)
  PROVE  \E a \in DOMAIN program :
           a # << >> /\ Parent(a) = Parent(d) /\ IsPrefix(a, n) /\ d \in EarlierSiblings(a)
<1>1. n \in Paths /\ d \in Paths /\ Parent(d) \in Paths
  BY NodesAre, ParentIs
<1>2. PICK a \in Paths : a # << >> /\ Parent(a) = Parent(d) /\ IsPrefix(a, n)
  BY <1>1, TowardsIs
<1>3. a \in DOMAIN program
  BY <1>2, AncestorIs
<1>4. ~IsStrictPrefix(a, d)
  BY <1>1, <1>2, ParentIs, StrictJoin
<1>5. Precedes(d, a)
  BY <1>1, <1>2, <1>4, EndsJoin, PrecedesIs
<1> QED BY <1>2, <1>3, <1>5 DEF EarlierSiblings, Children

(* Nothing that a replaced read sees begins after the site, if the walk    *)
(* looks for it (collect_occurrences, collect_after).                      *)
LEMMA NothingMeanwhile ==
  ASSUME KotlinFile(program), NEW s \in Sites, IsSite(s), Supported(s), NEW n \in Ranges(s),
         ~SetMeanwhile(s), NEW d \in Origins(n, Receiver(s))
  PROVE  Precedes(d, s)
<1> DEFINE x == Receiver(s)
<1>1. /\ s \in DOMAIN program /\ s \in Paths /\ Plain(s) /\ Kind(s) \in {"if", "when", "cases"}
  BY SiteIs DEF Sites
<1>2. /\ n \in DOMAIN program /\ n \in Paths
  BY RangeIs
<1>3. /\ d \in DOMAIN program /\ d \in Paths /\ d # << >> /\ program[d].name = x
      /\ VisibleAt(d, n) /\ Kind(d) \in {"fun", "lambda", "decl", "assign"}
      /\ Parent(d) \in Paths /\ IsStrictPrefix(Parent(d), d)
  BY OriginIs
<1>4. d # s
  BY <1>1, <1>3
<1> SUFFICES ASSUME Precedes(s, d) PROVE FALSE
  BY <1>1, <1>3, <1>4, PrecedesOrder
<1>5. ~Lexical(d) => Kind(d) = "decl" /\ Kind(Parent(d)) = "block" /\ d \notin Following(s)
  BY <1>3 DEF SetMeanwhile, Lexical
<1>6. CASE n = Tested(s)
  <2>1. IF Lexical(d) THEN IsPrefix(n, d) ELSE IsPrefix(n, Parent(d))
    BY <1>2, <1>3, <1>5, <1>6, TestedIs, PrefixOrder, SeenInRegion
  <2> QED BY <1>2, <1>3, <2>1, VisibleIs, StrictJoin
<1>7. CASE n # Tested(s)
  <2>1. PICK r \in Regions(s) : n \in Occurrences(r, x)
    BY <1>7 DEF Ranges
  <2>2. /\ IsPrefix(r, n)
        /\ \A a \in DOMAIN program : IsPrefix(r, a) /\ IsPrefix(a, n) =>
             /\ ~Declares(a, x)
             /\ a # r /\ Kind(Parent(a)) = "block" =>
                  \A b \in EarlierSiblings(a) : ~Declares(b, x)
    BY <2>1 DEF Occurrences, Under
  <2>3. Clear(s, r) \/ r \in Following(s)
    BY RegionIs
  <2>4. r \in Paths
    BY <2>3, FollowingIs DEF Clear
  <2>5. IF Lexical(d) THEN IsPrefix(r, d) ELSE IsPrefix(r, Parent(d))
    BY <1>2, <1>3, <1>5, <2>2, <2>3, <2>4, SeenInRegion
  <2>6. Declares(d, x)
    <3>1. d \in Under(d)
      BY <1>3, PrefixOrder DEF Under
    <3> QED BY <1>3, <1>5, <3>1 DEF Declares, Lexical
  <2>7. CASE Lexical(d)
    BY <1>2, <1>3, <2>2, <2>5, <2>6, <2>7, VisibleIs DEF IsStrictPrefix
  <2>8. CASE ~Lexical(d)
    <3>1. IsStrictPrefix(Parent(d), n) /\ EndsBefore(d, n)
      BY <1>2, <1>3, <2>8, VisibleIs
    <3>2. PICK a \in DOMAIN program :
             a # << >> /\ Parent(a) = Parent(d) /\ IsPrefix(a, n) /\ d \in EarlierSiblings(a)
      BY <1>2, <1>3, <3>1, SiblingTowards
    <3>3. a \in Paths /\ IsStrictPrefix(Parent(d), a)
      BY <3>2, NodesAre, ParentIs
    <3>4. IsPrefix(r, a) /\ a # r
      BY <1>3, <2>4, <2>5, <2>8, <3>3, StrictJoin DEF IsStrictPrefix
    <3> QED BY <1>5, <2>2, <2>6, <2>8, <3>2, <3>4
  <2> QED BY <2>7, <2>8
<1> QED BY <1>6, <1>7

-----------------------------------------------------------------------------
(* A binding of a site that is not misjudged.                              *)
LEMMA ScopeIs ==
  ASSUME KotlinFile(program), NEW n \in DOMAIN program, n # << >>
  PROVE  ScopeOf(n) \in Paths /\ IsStrictPrefix(ScopeOf(n), n)
<1> DEFINE T == {m \in DOMAIN program : IsStrictPrefix(m, n) /\ Kind(m) \in ScopeKinds}
<1>1. << >> \in T
  <2>1. << >> \in DOMAIN program /\ << >> \in Paths /\ n \in Paths /\ Kind(<< >>) = "file"
    BY NodesAre DEF KotlinFile, Kind
  <2>2. IsPrefix(<< >>, n)
    <3>1. Len(<< >>) = 0 /\ Len(n) \in Nat
      BY <2>1, LenProperties DEF Paths
    <3>2. Len(<< >>) <= Len(n) /\ \A i \in 1 .. Len(<< >>) : << >>[i] = n[i]
      BY <3>1
    <3> QED BY <2>1, <3>2, PrefixIs
  <2> QED BY <2>1, <2>2 DEF IsStrictPrefix, ScopeKinds
<1>2. T \subseteq DOMAIN program /\ T # {}
  BY <1>1
<1>3. Latest(T) \in T
  <2> HIDE DEF T
  <2> QED BY <1>2, LatestIs
<1>4. Latest(T) = ScopeOf(n)
  BY DEF ScopeOf
<1> QED BY <1>3, <1>4, NodesAre

LEMMA LineStartIs ==
  ASSUME KotlinFile(program), NEW s \in Sites
  PROVE  /\ LineStart(s) \in DOMAIN program /\ LineStart(s) \in Paths /\ LineStart(s) # << >>
         /\ Kind(LineStart(s)) = "block" => ~IsPrefix(LineStart(s), s)
<1> DEFINE T == {n \in DOMAIN program :
                   /\ program[n].line /\ (n = s \/ Precedes(n, s))
                   /\ Kind(n) = "block" => ClosedBefore(n, s)
                   /\ \A c \in DOMAIN program :
                        program[c].line /\ ClosedBefore(c, s) => ~IsStrictPrefix(c, n)}
<1>1. s \in DOMAIN program /\ s \in Seq(Nat \ {0}) /\ s \in Paths /\ s # << >>
  BY SiteIs, NodesAre
<1>2. << 1 >> \in DOMAIN program /\ << 1 >> \in Paths /\ program[<< 1 >>].line /\ Kind(<< 1 >>) # "block"
  BY <1>1, NodesAre DEF KotlinFile, Kind
<1>3. << 1 >> = s \/ Precedes(<< 1 >>, s)
  <2>1. Len(s) \in Nat /\ Len(s) > 0 /\ s[1] \in Nat \ {0}
    BY <1>1, EmptySeq
  <2>2. CASE s[1] = 1
    BY <1>1, <1>2, <2>1, <2>2, PrefixIs, PrecedesIs, SMTT(20) DEF IsStrictPrefix
  <2>3. CASE s[1] # 1
    <3>1. EndsBefore(<< 1 >>, s)
      BY <2>1, <2>3 DEF EndsBefore
    <3> QED BY <1>1, <1>2, <3>1, PrecedesIs
  <2> QED BY <2>2, <2>3
<1>4. ASSUME NEW c \in DOMAIN program, Kind(c) = "block" PROVE ~IsStrictPrefix(c, << 1 >>)
  <2>1. c \in Paths /\ c # << >>
    BY <1>4, NodesAre DEF KotlinFile, Kind
  <2>2. Len(c) \in Nat /\ Len(c) > 0
    BY <2>1, EmptySeq DEF Paths
  <2>3. ASSUME IsPrefix(c, << 1 >>) PROVE c = << 1 >>
    <3>1. Len(<< 1 >>) = 1
      OBVIOUS
    <3>2. Len(c) = 1 /\ \A i \in 1 .. Len(c) : c[i] = << 1 >>[i]
      BY <1>2, <2>1, <2>2, <2>3, <3>1, PrefixIs, SMTT(20)
    <3> QED BY <1>2, <2>1, <3>1, <3>2, SameItems
  <2> QED BY <2>3 DEF IsStrictPrefix
<1>5. << 1 >> \in T
  BY <1>2, <1>3, <1>4 DEF ClosedBefore
<1>6. Latest(T) \in T
  <2>1. T \subseteq DOMAIN program /\ T # {}
    BY <1>5
  <2> HIDE DEF T
  <2> QED BY <2>1, LatestIs
<1>7. Latest(T) = LineStart(s)
  BY DEF LineStart
<1>8. LineStart(s) # << >>
  BY <1>6, <1>7 DEF KotlinFile
<1> QED BY <1>6, <1>7, <1>8, NodesAre DEF ClosedBefore

LEMMA ValueKept ==
  ASSUME KotlinFile(program), NEW s \in Sites, IsSite(s), Supported(s), ~Misjudged(s),
         NEW n \in Ranges(s)
  PROVE  InScope(LineStart(s), n) /\ SameValue(LineStart(s), n, program[n].name)
<1> DEFINE x == Receiver(s)
           at == LineStart(s)
<1>1. /\ s \in DOMAIN program /\ s \in Paths /\ s # << >> /\ Parent(s) \in Paths
      /\ IsStrictPrefix(Parent(s), s)
      /\ \A p \in Paths : IsStrictPrefix(p, s) => IsPrefix(p, Parent(s))
  BY SiteIs, ParentIs
<1>2. at \in DOMAIN program /\ at \in Paths /\ at # << >>
      /\ (Kind(at) = "block" => ~IsPrefix(at, s))
  BY LineStartIs
<1>3. n \in Paths /\ program[n].name = x /\ Reaches(s, n)
  BY RangeIs
<1>4. IsPrefix(at, s)
  BY DEF Misjudged, BeginsElsewhere
<1> HIDE DEF at
<1>5. InScope(at, n)
  <2>1. IsPrefix(at, n) \/ Precedes(at, n)
    BY <1>1, <1>2, <1>3, <1>4, PrefixJoin, EndsJoin, PrecedesIs DEF Reaches
  <2>2. ScopeOf(at) \in Paths /\ IsStrictPrefix(ScopeOf(at), s)
    BY <1>1, <1>2, <1>4, ScopeIs, StrictJoin
  <2>3. IsStrictPrefix(ScopeOf(at), n)
    BY <1>1, <1>3, <2>2, StrictJoin DEF Reaches
  <2> QED BY <1>2, <1>4, <2>1, <2>3 DEF InScope
<1>6. ASSUME NEW d \in Origins(at, x) PROVE d \in Origins(s, x)
  <2>1. Reaches(at, s)
    BY <1>4 DEF Reaches
  <2>2. VisibleAt(d, s)
    BY <1>1, <1>2, <2>1, OriginIs, VisibleOn
  <2> QED BY <2>2, OriginIs DEF Origins
<1>7. ASSUME NEW d \in Origins(s, x) PROVE d \in Origins(at, x)
  <2>1. Reaches(at, s)
    BY <1>4 DEF Reaches
  <2>2. Precedes(d, at)
    BY DEF Misjudged, SetOnItsLine, at
  <2>3. VisibleAt(d, at)
    BY <1>1, <1>2, <2>1, <2>2, OriginIs, VisibleBack
  <2> QED BY <2>3, OriginIs DEF Origins
<1>8. ASSUME NEW d \in Origins(s, x) PROVE d \in Origins(n, x)
  <2>1. VisibleAt(d, n)
    BY <1>1, <1>3, OriginIs, VisibleOn
  <2> QED BY <2>1, OriginIs DEF Origins
<1>9. ASSUME NEW d \in Origins(n, x) PROVE d \in Origins(s, x)
  <2>1. Precedes(d, s)
    BY NothingMeanwhile DEF Misjudged
  <2>2. VisibleAt(d, s)
    BY <1>1, <1>3, <2>1, OriginIs, VisibleBack
  <2> QED BY <2>2, OriginIs DEF Origins
<1>10. Origins(at, x) = Origins(s, x) /\ Origins(n, x) = Origins(s, x)
  BY <1>6, <1>7, <1>8, <1>9
<1>11. Origins(s, x) # {}
  BY DEF Misjudged, Undeclared
<1>12. SameValue(at, n, x)
  BY <1>10, <1>11 DEF SameValue
<1> QED BY <1>3, <1>5, <1>12 DEF at

-----------------------------------------------------------------------------
(* The file is read, never changed.                                        *)
LEMMA Steady ==
  ASSUME program' = program
  PROVE  /\ Sites' = Sites
         /\ \A s : IsSite(s)' = IsSite(s)
         /\ \A s : Supported(s)' = Supported(s)
         /\ \A s : Repairable(s)' = Repairable(s)
         /\ \A x : IsOwner(x)' = IsOwner(x)
         /\ RewritesCover' = RewritesCover
         /\ \A s : Ranges(s)' = Ranges(s)
         /\ \A s : LineStart(s)' = LineStart(s)
         /\ \A s : Receiver(s)' = Receiver(s)
<1>1. \A n : Kind(n)' = Kind(n)
  BY DEF Kind
<1>2. \A n : Has(n)' = Has(n)
  BY DEF Has
<1>3. \A n : Children(n)' = Children(n)
  BY DEF Children, Parent
<1>4. \A n : Under(n)' = Under(n)
  BY DEF Under
<1>5. Sites' = Sites
  BY <1>1 DEF Sites
<1>6. \A n : LaterSiblings(n)' = LaterSiblings(n) /\ EarlierSiblings(n)' = EarlierSiblings(n)
  BY <1>3 DEF LaterSiblings, EarlierSiblings
<1>7. \A n : AlwaysExits(n)' = AlwaysExits(n)
  BY <1>1, <1>3 DEF AlwaysExits
<1>8. \A s : SiteTests(s)' = SiteTests(s) /\ CaseTests(s)' = CaseTests(s) /\ Operands(s)' = Operands(s)
  BY <1>1, <1>3 DEF SiteTests, CaseTests, Tests, Operands, Condition, Child
<1>9. \A s : Tested(s)' = Tested(s)
  BY <1>1, <1>8 DEF Tested, Child
<1>10. \A s : Receiver(s)' = Receiver(s)
  BY <1>9 DEF Receiver
<1>11. \A s : EarlyExit(s)' = EarlyExit(s)
  BY <1>1, <1>2, <1>7 DEF EarlyExit, Condition, Then, Else, Child
<1>12. \A s : Supported(s)' = Supported(s)
  BY <1>1, <1>2, <1>8, <1>11 DEF Supported, Condition, Else, Child
<1>13. \A n, x : Declares(n, x)' = Declares(n, x)
  BY <1>1, <1>4 DEF Declares
<1>14. \A r, x : Occurrences(r, x)' = Occurrences(r, x)
  BY <1>1, <1>4, <1>6, <1>13 DEF Occurrences, Parent
<1>15. \A s : Following(s)' = Following(s)
  BY <1>1, <1>6 DEF Following, Parent
<1>16. \A s : Regions(s)' = Regions(s)
  BY <1>1, <1>2, <1>8, <1>15 DEF Regions, Condition, Then, Else, Child
<1>17. \A s : Ranges(s)' = Ranges(s)
  BY <1>9, <1>10, <1>14, <1>16 DEF Ranges
<1>18. \A s : Refused(s)' = Refused(s)
  BY <1>1, <1>12 DEF Refused, Condition, Child
<1>19. \A s : Uses(s)' = Uses(s)
  BY <1>12, <1>17, <1>18 DEF Uses
<1>20. \A s : Repairable(s)' = Repairable(s) /\ NeedsRepair(s)' = NeedsRepair(s)
  BY <1>12, <1>19 DEF Repairable, NeedsRepair
<1>21. \A x : ExplicitTypes(x)' = ExplicitTypes(x)
  BY <1>1 DEF ExplicitTypes
<1>22. \A x : Resolves(x)' = Resolves(x) /\ OwnerOf(x)' = OwnerOf(x)
  BY <1>21 DEF Resolves, OwnerOf
<1>23. \A x : IsOwner(x)' = IsOwner(x)
  BY <1>22 DEF IsOwner
<1>24. \A s : IsSite(s)' = IsSite(s)
  BY <1>8 DEF IsSite
<1>25. RewritesCover' = RewritesCover
  BY <1>5, <1>10, <1>18, <1>20, <1>22, <1>23, <1>24 DEF RewritesCover
<1>26. \A n, s : ClosedBefore(n, s)' = ClosedBefore(n, s)
  BY <1>1 DEF ClosedBefore
<1>27. \A s : LineStart(s)' = LineStart(s)
  BY <1>1, <1>26 DEF LineStart
<1> QED BY <1>5, <1>10, <1>12, <1>17, <1>20, <1>23, <1>24, <1>25, <1>27

-----------------------------------------------------------------------------
(* What the repair has done and has left to do.  A binding is that of a    *)
(* repairable site; once the planner let the owner move, a site that can   *)
(* be repaired waits for its turn or has its reads replaced.               *)
Bindings ==
  \A b \in ToSet(bound) :
    /\ b.site \in Sites /\ IsSite(b.site) /\ Repairable(b.site)
    /\ b.reads = Ranges(b.site) /\ b.at = LineStart(b.site) /\ b.local \in 0 .. LocalLimit
Progress ==
  accepted /\ phase # "planning" =>
    \A s \in Sites : IsSite(s) /\ Repairable(s) /\ IsOwner(Receiver(s)) =>
      s \in todo \/ Ranges(s) \subseteq Replaced
RepairInv ==
  /\ NamesInv /\ KotlinFile(program)
  /\ phase \in {"planning", "repairing", "done"} /\ accepted \in BOOLEAN
  /\ todo \subseteq Sites /\ \A s \in todo : IsSite(s)
  /\ Bindings
  /\ accepted => RewritesCover
  /\ Progress
  /\ phase = "done" /\ accepted => todo = {}

LEMMA RepairStarts == RepairInit => RepairInv
<1> SUFFICES ASSUME RepairInit PROVE RepairInv
  OBVIOUS
<1>1. KotlinFile(program)
  BY ProgramsAssumption DEF RepairInit
<1>2. NamesInv
  BY NamesInit
<1>3. ToSet(bound) = {}
  BY DEF RepairInit, ToSet
<1> QED BY <1>1, <1>2, <1>3 DEF RepairInv, RepairInit, Bindings, Progress

LEMMA RepairSteps == RepairInv /\ [RepairNext]_repairVars => RepairInv'
<1> SUFFICES ASSUME RepairInv, [RepairNext]_repairVars PROVE RepairInv'
  OBVIOUS
<1>1. program' = program /\ KotlinFile(program)'
  <2>1. program' = program
    BY DEF RepairNext, Plan, Skip, Bind, ApplyEdits, repairVars
  <2> QED BY <2>1 DEF RepairInv, KotlinFile
<1>2. NamesInv'
  BY NamesStep DEF RepairInv
<1>3. /\ Sites' = Sites /\ RewritesCover' = RewritesCover
      /\ \A s : /\ IsSite(s)' = IsSite(s) /\ Repairable(s)' = Repairable(s)
                /\ Ranges(s)' = Ranges(s) /\ LineStart(s)' = LineStart(s)
                /\ Receiver(s)' = Receiver(s)
      /\ \A x : IsOwner(x)' = IsOwner(x)
  BY <1>1, Steady
<1>4. \A s : IsOwner(Receiver(s))' = IsOwner(Receiver(s))
  BY <1>3
<1>5. ASSUME bound' = bound PROVE Bindings' /\ Replaced' = Replaced
  <2>1. Bindings'
    BY <1>3, <1>5 DEF RepairInv, Bindings
  <2> QED BY <1>5, <2>1 DEF Replaced
<1>6. todo # {} => NextSite \in todo
  <2>1. todo \subseteq DOMAIN program
    BY DEF RepairInv, Sites
  <2> QED BY <2>1, EarliestIs DEF RepairInv, NextSite
<1>7. CASE Plan
  <2>1. /\ accepted' = RewritesCover /\ todo' = {s \in Sites : IsSite(s)} /\ bound' = bound
        /\ phase' = IF accepted' THEN "repairing" ELSE "done"
    BY <1>7 DEF Plan
  <2>2. accepted' \in BOOLEAN
    BY <2>1 DEF RewritesCover
  <2>3. Progress'
    BY <1>3, <2>1 DEF Progress
  <2> QED BY <1>1, <1>2, <1>3, <1>5, <2>1, <2>2, <2>3 DEF RepairInv
<1>8. CASE Skip
  <2>1. /\ phase = "repairing" /\ phase' = phase /\ accepted' = accepted /\ bound' = bound
        /\ NextSite \in todo /\ ~Bindable(NextSite) /\ todo' = todo \ {NextSite}
    BY <1>6, <1>8 DEF Skip
  <2>2. Repairable(NextSite) /\ IsOwner(Receiver(NextSite)) => Ranges(NextSite) \subseteq Replaced
    BY <2>1 DEF Bindable, Covered, Replaced
  <2>3. Progress'
    <3>1. Replaced' = Replaced
      BY <1>5, <2>1
    <3> QED BY <1>3, <1>4, <2>1, <2>2, <3>1 DEF RepairInv, Progress
  <2> QED BY <1>1, <1>2, <1>3, <1>5, <2>1, <2>3 DEF RepairInv
<1>9. CASE Bind
  <2> DEFINE e == [site |-> NextSite, local |-> FreshLocal,
                   reads |-> Ranges(NextSite), at |-> LineStart(NextSite)]
  <2>1. /\ phase = "repairing" /\ phase' = phase /\ accepted' = accepted
        /\ bound' = Append(bound, e)
        /\ NextSite \in todo /\ Bindable(NextSite) /\ todo' = todo \ {NextSite}
    BY <1>6, <1>9 DEF Bind
  <2>2. ToSet(bound') = ToSet(bound) \cup {e}
    <3>1. PICK entries : bound \in Seq(entries)
      BY DEF RepairInv, NamesInv
    <3> HIDE DEF e
    <3>2. /\ Len(bound) \in Nat /\ Len(bound') = Len(bound) + 1
          /\ DOMAIN bound = 1 .. Len(bound) /\ DOMAIN bound' = 1 .. Len(bound) + 1
          /\ \A i \in 1 .. Len(bound) : bound'[i] = bound[i]
          /\ bound'[Len(bound) + 1] = e
      BY <2>1, <3>1
    <3> QED BY <3>2 DEF ToSet
  <2>3. FreshLocal \in 0 .. LocalLimit
    BY FreshIsFree, LocalLimitAssumption DEF Free, FreshLocal
  <2>4. /\ e.site = NextSite /\ e.local = FreshLocal /\ e.reads = Ranges(NextSite)
        /\ e.at = LineStart(NextSite)
    OBVIOUS
  <2> HIDE DEF e
  <2>5. NextSite \in Sites /\ IsSite(NextSite) /\ Repairable(NextSite)
    BY <2>1 DEF RepairInv, Bindable
  <2>6. Bindings'
    BY <1>3, <2>2, <2>3, <2>4, <2>5 DEF RepairInv, Bindings
  <2>7. Replaced \subseteq Replaced' /\ Ranges(NextSite) \subseteq Replaced'
    BY <2>2, <2>4 DEF Replaced
  <2>8. Progress'
    BY <1>3, <1>4, <2>1, <2>7 DEF RepairInv, Progress
  <2> QED BY <1>1, <1>2, <1>3, <2>1, <2>6, <2>8 DEF RepairInv
<1>10. CASE ApplyEdits
  <2>1. phase' = "done" /\ todo = {} /\ todo' = {} /\ accepted' = accepted /\ bound' = bound
        /\ phase = "repairing"
    BY <1>10 DEF ApplyEdits
  <2>2. Progress'
    BY <1>3, <1>4, <1>5, <2>1 DEF RepairInv, Progress
  <2> QED BY <1>1, <1>2, <1>3, <1>5, <2>1, <2>2 DEF RepairInv
<1>11. CASE UNCHANGED repairVars
  <2>1. phase' = phase /\ todo' = todo /\ accepted' = accepted /\ bound' = bound
    BY <1>11 DEF repairVars
  <2>2. Progress'
    BY <1>3, <1>4, <1>5, <2>1 DEF RepairInv, Progress
  <2> QED BY <1>1, <1>2, <1>3, <1>5, <2>1, <2>2 DEF RepairInv
<1> QED BY <1>7, <1>8, <1>9, <1>10, <1>11 DEF RepairNext

LEMMA RepairAlways == RepairSpec => []RepairInv
BY RepairStarts, RepairSteps, PTL DEF RepairSpec

(* A binding that replaces a read is one of those made.                    *)
LEMMA BindingIs ==
  ASSUME RepairInv, NEW n \in Replaced
  PROVE  BindingOf(n) \in ToSet(bound) /\ n \in BindingOf(n).reads
<1> DEFINE mine == {i \in DOMAIN bound : n \in bound[i].reads}
<1>1. DOMAIN bound \subseteq Nat
  <2>1. PICK entries : bound \in Seq(entries)
    BY DEF RepairInv, NamesInv
  <2> QED BY <2>1
<1>2. mine \subseteq Nat /\ mine # {}
  BY <1>1 DEF Replaced, ToSet
<1>3. \E i \in mine : \A j \in mine : i <= j
  <2> HIDE DEF mine
  <2> QED BY <1>2, Least
<1> DEFINE first == CHOOSE i \in mine : \A j \in mine : i <= j
<1>4. first \in mine
  <2> HIDE DEF mine
  <2> QED BY <1>3
<1>5. BindingOf(n) = bound[first]
  BY DEF BindingOf
<1> HIDE DEF first
<1> QED BY <1>4, <1>5 DEF ToSet

(* Every edit of the repair replaces a read, and every read that becomes a *)
(* local keeps its value, in every file and on every path of the repair,   *)
(* unless a binding is of a site the analysis misjudges                    *)
(* (rewrite_with_bindings, collect_occurrences, collect_after, line_start).*)
THEOREM RepairKeepsValues ==
  RepairSpec => []((\A b \in ToSet(bound) : ~Misjudged(b.site)) => BindingsConsistent)
<1>1. ASSUME RepairInv, \A b \in ToSet(bound) : ~Misjudged(b.site) PROVE BindingsConsistent
  <2>1. BindingsTyped
    <3>1. ASSUME NEW b \in ToSet(bound)
          PROVE  /\ b.site \in Sites /\ b.local \in 0 .. LocalLimit
                 /\ b.at \in DOMAIN program
                 /\ \A n \in b.reads : Kind(n) = "read"
      <4>1. /\ b.site \in Sites /\ IsSite(b.site) /\ Supported(b.site)
            /\ b.reads = Ranges(b.site) /\ b.at = LineStart(b.site) /\ b.local \in 0 .. LocalLimit
        BY <1>1 DEF RepairInv, Bindings, Repairable
      <4> QED BY <1>1, <4>1, LineStartIs, RangeIs DEF RepairInv
    <3> QED BY <1>1, <3>1 DEF BindingsTyped, RepairInv, NamesInv
  <2>2. ASSUME NEW n \in Replaced
        PROVE  /\ InScope(BindingOf(n).at, n)
               /\ SameValue(BindingOf(n).at, n, program[n].name)
    <3> DEFINE b == BindingOf(n)
    <3>1. b \in ToSet(bound) /\ n \in b.reads
      BY <1>1, BindingIs
    <3> HIDE DEF b
    <3>2. /\ b.site \in Sites /\ IsSite(b.site) /\ Supported(b.site) /\ ~Misjudged(b.site)
          /\ b.reads = Ranges(b.site) /\ b.at = LineStart(b.site)
      BY <1>1, <3>1 DEF RepairInv, Bindings, Repairable
    <3>3. InScope(b.at, n) /\ SameValue(b.at, n, program[n].name)
      BY <1>1, <3>1, <3>2, ValueKept DEF RepairInv
    <3> QED BY <3>3 DEF b
  <2> QED BY <2>1, <2>2 DEF BindingsConsistent, RewritesKeepTheValue
<1> QED BY <1>1, RepairAlways, PTL

-----------------------------------------------------------------------------
(* What Kotlin narrows, the analysis covers, and comes after the test.     *)
LEMMA ChildrenApart ==
  ASSUME NEW p \in Paths, NEW i \in Nat, NEW j \in Nat, i < j
  PROVE  EndsBefore(Child(p, i), Child(p, j))
<1>1. /\ Len(p) \in Nat /\ Child(p, i) \in Paths /\ Child(p, j) \in Paths
      /\ Len(Child(p, i)) = Len(p) + 1 /\ Len(Child(p, j)) = Len(p) + 1
      /\ \A k \in 1 .. Len(p) : Child(p, i)[k] = p[k] /\ Child(p, j)[k] = p[k]
      /\ Child(p, i)[Len(p) + 1] = i /\ Child(p, j)[Len(p) + 1] = j
  BY ConcatProperties DEF Paths, Child
<1>2. /\ Len(p) + 1 \in 1 .. Len(Child(p, i)) /\ Len(p) + 1 <= Len(Child(p, j))
      /\ Child(p, i)[Len(p) + 1] < Child(p, j)[Len(p) + 1]
      /\ \A k \in 1 .. (Len(p) + 1) - 1 : Child(p, i)[k] = Child(p, j)[k]
  BY <1>1
<1> QED BY <1>2 DEF EndsBefore

LEMMA FirstChild ==
  ASSUME KotlinFile(program), NEW p \in Paths, NEW c \in Children(p), c # Child(p, 1)
  PROVE  EndsBefore(Child(p, 1), c)
<1>1. c \in Seq(Nat \ {0}) /\ c \in Paths /\ c # << >> /\ Parent(c) = p
  BY NodesAre DEF Children
<1>2. /\ Len(c) = Len(p) + 1 /\ Len(p) \in Nat /\ \A k \in 1 .. Len(p) : p[k] = c[k]
  <2>1. Len(c) \in Nat /\ Len(p) \in Nat /\ Len(p) = Len(c) - 1
    BY <1>1, ParentIs DEF Paths
  <2>2. \A k \in 1 .. Len(p) : p[k] = c[k]
    BY <1>1, ParentIs, PrefixIs DEF IsStrictPrefix
  <2> QED BY <2>1, <2>2
<1> DEFINE i == c[Len(p) + 1]
<1>3. i \in Nat \ {0}
  BY <1>1, <1>2
<1> HIDE DEF i
<1>4. c = Child(p, i)
  <2>1. /\ Child(p, i) \in Paths /\ Len(Child(p, i)) = Len(p) + 1
        /\ \A k \in 1 .. Len(p) : Child(p, i)[k] = p[k]
        /\ Child(p, i)[Len(p) + 1] = i
    BY <1>3, ConcatProperties DEF Paths, Child
  <2>2. \A k \in 1 .. Len(c) : c[k] = Child(p, i)[k]
    BY <1>2, <2>1 DEF i
  <2> QED BY <1>1, <1>2, <2>1, <2>2, SameItems
<1>5. 1 < i
  BY <1>3, <1>4
<1> QED BY <1>3, <1>4, <1>5, ChildrenApart

LEMMA SiblingsApart ==
  ASSUME NEW a \in Paths, NEW b \in Paths, a # << >>, b # << >>, Parent(a) = Parent(b), Precedes(a, b)
  PROVE  EndsBefore(a, b)
<1>1. ~IsStrictPrefix(a, b)
  BY ParentIs, StrictJoin
<1> QED BY <1>1, PrecedesIs

LEMMA NarrowedIs ==
  ASSUME KotlinFile(program), NEW s \in Sites, IsSite(s), Supported(s),
         EarlyExit(s) => Following(s) = LaterSiblings(s), NEW r \in NarrowedRegions(s)
  PROVE  r \in Regions(s) /\ r \in Paths /\ EndsBefore(Tested(s), r)
<1>1. /\ s \in DOMAIN program /\ s \in Paths /\ Kind(s) \in {"if", "when", "cases"}
  BY SiteIs DEF Sites
<1>2. \A m \in DOMAIN program : m \in Paths
  BY NodesAre
<1>3. \A p \in Paths, i \in Nat : /\ Child(p, i) \in Paths /\ IsPrefix(p, Child(p, i))
                                  /\ Parent(Child(p, i)) = p
  BY ChildIs, ParentIs DEF IsStrictPrefix
<1>4. CASE Kind(s) = "when"
  <2>1. Kind(Condition(s)) = "read"
    BY <1>1, <1>4 DEF KotlinFile, Kind, Condition, Child
  <2>2. PICK e \in SiteTests(s) : r = Child(e, 1)
    BY <1>4, <2>1 DEF NarrowedRegions
  <2>3. r \in Regions(s)
    BY <1>4, <2>1, <2>2 DEF Regions
  <2>4. e \in Children(s) /\ Kind(e) = "isEntry"
    BY <1>4 DEF SiteTests
  <2>5. e # Child(s, 1) /\ e \in Paths
    BY <1>2, <2>1, <2>4 DEF Condition, Children
  <2>6. EndsBefore(Child(s, 1), e)
    BY <1>1, <2>4, <2>5, FirstChild
  <2>7. EndsBefore(Child(s, 1), r)
    BY <1>1, <1>3, <2>2, <2>5, <2>6, EndsBeforeAll, PrefixOrder
  <2>8. Tested(s) = Child(s, 1)
    BY <1>4 DEF Tested
  <2> QED BY <1>3, <2>2, <2>3, <2>5, <2>7, <2>8
<1>5. CASE Kind(s) = "cases"
  <2> DEFINE first == Condition(Child(s, 1))
             e == Earliest(SiteTests(s))
  <2>1. first \in CaseTests(s) /\ SiteTests(s) = CaseTests(s)
    BY <1>5 DEF Supported, SiteTests
  <2>2. \A m \in CaseTests(s) : \E c \in Children(s) : Kind(c) = "case" /\ m = Condition(c)
    BY DEF CaseTests, Tests
  <2>3. PICK f \in Children(s) : Kind(f) = "case" /\ first = Condition(f)
    BY <2>1, <2>2
  <2>4. f \in Paths /\ Child(s, 1) \in Paths
    BY <1>1, <1>2, <1>3 DEF Children
  <2>5. f = Child(s, 1)
    <3>1. Parent(first) = Child(s, 1) /\ Parent(first) = f
      BY <1>3, <2>3, <2>4 DEF Condition
    <3> QED BY <3>1
  <2>6. Kind(Condition(s)) = "case"
    BY <2>3, <2>5 DEF Condition
  <2>7. /\ e \in SiteTests(s) /\ \A m \in SiteTests(s) \ {e} : Precedes(e, m)
        /\ SiteTests(s) \subseteq DOMAIN program
    BY TestsAre, EarliestIs DEF IsSite
  <2>8. PICK c \in Children(s) : e = Condition(c)
    BY <2>1, <2>2, <2>7
  <2>9. c \in Paths /\ e \in Paths /\ first \in Paths
    BY <1>2, <2>1, <2>7, <2>8 DEF Children
  <2>10. e = first
    <3> SUFFICES ASSUME e # first PROVE FALSE
      OBVIOUS
    <3>1. c # Child(s, 1)
      BY <2>8
    <3>2. EndsBefore(Child(s, 1), c)
      BY <1>1, <2>8, <3>1, FirstChild
    <3>3. IsPrefix(Child(s, 1), first) /\ IsPrefix(c, e)
      BY <1>3, <2>4, <2>8, <2>9 DEF Condition
    <3>4. EndsBefore(first, e)
      BY <2>4, <2>9, <3>2, <3>3, EndsBeforeAll
    <3>5. Precedes(e, first)
      BY <2>1, <2>7
    <3> QED BY <2>9, <3>4, <3>5, PrecedesIs, PrecedesOrder
  <2>11. Tested(s) = Child(e, 1)
    BY <1>5 DEF Tested
  <2> HIDE DEF e, first
  <2>12. Parent(Parent(Tested(s))) = Child(s, 1)
    BY <1>3, <2>4, <2>9, <2>10, <2>11 DEF first, Condition
  <2>13. r = Child(Child(s, 1), 2)
    BY <1>5, <2>6, <2>12 DEF NarrowedRegions
  <2>14. r \in Regions(s)
    BY <1>5, <2>6, <2>13 DEF Regions
  <2>15. EndsBefore(first, r)
    BY <2>4, <2>13, ChildrenApart DEF first, Condition
  <2>16. r \in Paths /\ Tested(s) \in Paths /\ IsPrefix(first, Tested(s))
    BY <1>3, <2>4, <2>9, <2>10, <2>11, <2>13
  <2> QED BY <2>9, <2>14, <2>15, <2>16, EndsBeforeAll, PrefixOrder
<1>6. CASE Kind(s) = "if"
  <2> DEFINE c == Condition(s)
             e == Earliest(SiteTests(s))
  <2>1. c \in Paths /\ Then(s) \in Paths /\ Else(s) \in Paths
        /\ EndsBefore(c, Then(s)) /\ EndsBefore(c, Else(s))
    BY <1>1, <1>3, ChildrenApart DEF Condition, Then, Else
  <2>2. /\ e \in SiteTests(s) /\ e \in DOMAIN program /\ e \in Paths
    BY <1>2, TestsAre, EarliestIs DEF IsSite
  <2>3. Tested(s) = Child(e, 1)
    BY <1>6 DEF Tested
  <2>4. IsPrefix(c, e)
    <3>1. CASE Kind(c) = "and"
      <4>1. e \in Children(c)
        BY <1>6, <2>2, <3>1 DEF SiteTests, Tests, Operands
      <4> QED BY <2>1, <2>2, <4>1, ParentIs DEF Children, IsStrictPrefix
    <3>2. CASE Kind(c) # "and"
      <4>1. e = c
        BY <1>6, <2>2, <3>2 DEF SiteTests
      <4> QED BY <2>1, <4>1, PrefixOrder
    <3> QED BY <3>1, <3>2
  <2> HIDE DEF e, c
  <2>5. Tested(s) \in Paths /\ IsPrefix(e, Tested(s)) /\ IsPrefix(c, Tested(s))
    BY <1>3, <2>1, <2>2, <2>3, <2>4, PrefixJoin
  <2>6. EndsBefore(Tested(s), Then(s)) /\ EndsBefore(Tested(s), Else(s))
    BY <2>1, <2>5, EndsBeforeAll, PrefixOrder
  <2>7. CASE Kind(c) = "and"
    <3>1. r = Then(s) \/ (r \in Operands(s) /\ Precedes(Parent(Tested(s)), r))
      BY <1>6, <2>7 DEF NarrowedRegions, c
    <3>2. r \in Regions(s)
      BY <1>6, <2>7, <3>1 DEF Regions, c
    <3>3. CASE r = Then(s)
      BY <2>1, <2>6, <3>2, <3>3
    <3>4. CASE r \in Operands(s) /\ Precedes(Parent(Tested(s)), r)
      <4>1. e \in Children(c) /\ r \in Children(c)
        BY <1>6, <2>2, <2>7, <3>4 DEF SiteTests, Tests, Operands, c
      <4>2. Parent(Tested(s)) = e
        BY <1>3, <2>2, <2>3
      <4>3. r \in Paths
        BY <1>2, <4>1 DEF Children
      <4>4. EndsBefore(e, r)
        BY <2>2, <3>4, <4>1, <4>2, <4>3, SiblingsApart DEF Children
      <4> QED BY <2>2, <2>5, <3>2, <4>3, <4>4, EndsBeforeAll, PrefixOrder
    <3> QED BY <3>1, <3>3, <3>4
  <2>8. CASE Kind(c) = "notIs"
    <3>1. (r = Else(s) /\ Has(Else(s))) \/ (r \in LaterSiblings(s) /\ EarlyExit(s))
      BY <1>6, <2>8 DEF NarrowedRegions, c
    <3>2. CASE r = Else(s) /\ Has(Else(s))
      <4>1. r \in Regions(s)
        BY <1>6, <2>8, <3>2 DEF Regions, c
      <4> QED BY <2>1, <2>6, <3>2, <4>1
    <3>3. CASE r \in LaterSiblings(s) /\ EarlyExit(s)
      <4>1. r \in Following(s) /\ ~Has(Else(s))
        BY <3>3 DEF EarlyExit
      <4>2. r \in Regions(s)
        BY <1>6, <2>8, <4>1 DEF Regions, c
      <4>3. r \in Paths /\ EndsBefore(s, r)
        BY <4>1, FollowingIs
      <4>4. IsPrefix(s, Tested(s))
        BY TestedIs DEF Clear
      <4> QED BY <1>1, <2>5, <4>2, <4>3, <4>4, EndsBeforeAll, PrefixOrder
    <3> QED BY <3>1, <3>2, <3>3
  <2>9. CASE Kind(c) \notin {"and", "notIs"}
    <3>1. r = Then(s)
      BY <1>6, <2>9 DEF NarrowedRegions, c
    <3>2. r \in Regions(s)
      BY <1>6, <2>9, <3>1 DEF Regions, c
    <3> QED BY <2>1, <2>6, <3>1, <3>2
  <2> QED BY <2>7, <2>8, <2>9
<1> QED BY <1>1, <1>4, <1>5, <1>6

(* A read that Kotlin narrows is one the analysis replaces: nothing it     *)
(* takes for a redeclaration lies between the test and the read.           *)
LEMMA NarrowedInRanges ==
  ASSUME KotlinFile(program), NEW s \in Sites, IsSite(s), Supported(s), ~Overlooked(s),
         NEW n \in NarrowedReads(s)
  PROVE  n \in Ranges(s) /\ n # Tested(s)
<1> DEFINE x == Receiver(s)
           t == Tested(s)
<1>1. PICK r \in NarrowedRegions(s) : n \in Under(r)
  BY DEF NarrowedReads
<1>2. /\ n \in DOMAIN program /\ n \in Paths /\ IsPrefix(r, n) /\ Kind(n) = "read"
      /\ program[n].name = x /\ SameValue(n, t, x)
  BY <1>1, NodesAre DEF NarrowedReads, Under
<1>3. (EarlyExit(s) => Following(s) = LaterSiblings(s)) /\ ~Mistaken(s)
  BY DEF Overlooked
<1>4. r \in Regions(s) /\ r \in Paths /\ EndsBefore(t, r)
  BY <1>3, NarrowedIs
<1>5. t \in DOMAIN program /\ t \in Paths
  BY TestedIs, NodesAre
<1>6. EndsBefore(t, n) /\ n # t
  BY <1>2, <1>4, <1>5, EndsBeforeAll, EndsApart, PrefixOrder
<1>7. ASSUME NEW d \in DOMAIN program, IsPrefix(r, d), Precedes(d, n), Declares(d, x),
             IsPrefix(d, n) \/ (Kind(Parent(d)) = "block" /\ IsPrefix(Parent(d), n))
      PROVE  FALSE
  <2>1. d \in Paths /\ Precedes(t, d)
    BY <1>4, <1>5, <1>7, NodesAre, EndsBeforeAll, PrefixOrder, PrecedesIs
  <2>2. d \in Origins(n, x)
    BY <1>3, <1>7, <2>1 DEF Mistaken
  <2> DEFINE l == Latest(Origins(n, x))
  <2>3. l \in Origins(t, x)
    <3>1. Origins(t, x) # {} /\ Origins(t, x) \subseteq DOMAIN program /\ l = Latest(Origins(t, x))
      BY <1>2 DEF SameValue, Origins
    <3> HIDE DEF l
    <3> QED BY <3>1, LatestIs
  <2>4. l \in Paths /\ VisibleAt(l, t)
    BY <2>3, OriginIs
  <2>5. Precedes(l, t)
    BY <1>5, <2>4, PrecedesIs DEF VisibleAt
  <2>6. l = d \/ Precedes(d, l)
    <3>1. Origins(n, x) \subseteq DOMAIN program
      BY DEF Origins
    <3> QED BY <2>2, <3>1, LatestIs
  <2> HIDE DEF l
  <2>7. Precedes(l, d)
    BY <1>5, <2>1, <2>4, <2>5, PrecedesOrder
  <2> QED BY <2>1, <2>4, <2>6, <2>7, PrecedesOrder
<1>8. ASSUME NEW a \in DOMAIN program, IsPrefix(r, a), IsPrefix(a, n)
      PROVE  /\ ~Declares(a, x)
             /\ a # r /\ Kind(Parent(a)) = "block" => \A b \in EarlierSiblings(a) : ~Declares(b, x)
  <2>1. a \in Paths
    BY NodesAre
  <2>2. ASSUME Declares(a, x) PROVE FALSE
    <3>1. a # n
      BY <1>2, <2>2 DEF Declares
    <3>2. Precedes(a, n)
      BY <1>2, <1>8, <2>1, <3>1, PrecedesIs DEF IsStrictPrefix
    <3> QED BY <1>7, <1>8, <2>2, <3>2
  <2>3. ASSUME a # r, Kind(Parent(a)) = "block", NEW b \in EarlierSiblings(a), Declares(b, x)
        PROVE  FALSE
    <3>1. b \in DOMAIN program /\ b \in Paths /\ b # << >> /\ Parent(b) = Parent(a) /\ Precedes(b, a)
      BY <2>3, NodesAre DEF EarlierSiblings, Children
    <3>2. a # << >>
      BY <1>4, <1>8, <2>1, <2>3, PrefixIs, SameItems, EmptySeq DEF Paths
    <3>3. /\ Parent(a) \in Paths /\ IsStrictPrefix(Parent(a), a) /\ IsStrictPrefix(Parent(a), b)
          /\ IsPrefix(r, Parent(a))
      BY <1>4, <1>8, <2>1, <2>3, <3>1, <3>2, ParentIs DEF IsStrictPrefix
    <3>4. IsPrefix(r, b) /\ IsPrefix(Parent(b), n)
      BY <1>2, <1>4, <1>8, <2>1, <3>1, <3>3, PrefixJoin DEF IsStrictPrefix
    <3>5. Precedes(b, n)
      BY <1>2, <1>8, <2>1, <3>1, PrecedesIs, PrecedesOrder DEF IsStrictPrefix
    <3> QED BY <1>7, <2>3, <3>1, <3>4, <3>5
  <2> QED BY <2>2, <2>3
<1>9. n \in Occurrences(r, x)
  BY <1>1, <1>2, <1>8 DEF Occurrences
<1> QED BY <1>4, <1>6, <1>9 DEF Ranges

(* What the planner accepts is repaired: a site with a read that Kotlin    *)
(* narrows needs the repair, so it is repairable and its receiver resolves.*)
LEMMA NarrowedReplaced ==
  ASSUME RepairInv, phase = "done", accepted, NEW s \in Sites, IsSite(s), ~Overlooked(s),
         Origins(Tested(s), Receiver(s)) # {},
         program[Latest(Origins(Tested(s), Receiver(s)))].type = Owner,
         NEW n \in NarrowedReads(s)
  PROVE  n \in Replaced
<1> DEFINE x == Receiver(s)
           l == Latest(Origins(Tested(s), x))
<1>1. KotlinFile(program) /\ RewritesCover /\ todo = {}
  BY DEF RepairInv
<1>2. Supported(s)
  BY DEF Overlooked
<1>3. n \in Ranges(s) /\ n # Tested(s) /\ Tested(s) \in Ranges(s)
  BY <1>1, <1>2, NarrowedInRanges DEF Ranges
<1>4. Repairable(s) /\ NeedsRepair(s) /\ ~Refused(s)
  <2>1. IsFiniteSet(Ranges(s))
    <3>1. Ranges(s) \subseteq DOMAIN program
      BY <1>1, <1>2, RangeIs
    <3> QED BY <1>1, <3>1, NodesAre, FS_Subset
  <2>2. IsFiniteSet({n}) /\ Cardinality({n}) = 1
    BY FS_Singleton
  <2>3. Cardinality({n} \cup {Tested(s)}) = 2
    <3>1. Tested(s) \notin {n}
      BY <1>3
    <3>2. Cardinality({n} \cup {Tested(s)}) = Cardinality({n}) + 1
      BY <2>2, <3>1, FS_AddElement
    <3> QED BY <2>2, <3>2
  <2>4. {n} \cup {Tested(s)} \subseteq Ranges(s)
    BY <1>3
  <2>5. Cardinality({n} \cup {Tested(s)}) <= Cardinality(Ranges(s))
    BY <2>1, <2>4, FS_Subset
  <2>6. Uses(s) = Cardinality(Ranges(s)) - 1
    BY <1>2 DEF Uses, Refused
  <2>7. Uses(s) > 0
    <3>1. Cardinality(Ranges(s)) \in Nat
      BY <2>1, FS_CardinalityType
    <3>2. 2 <= Cardinality(Ranges(s))
      BY <2>3, <2>5
    <3> HIDE DEF x
    <3> QED BY <2>6, <3>1, <3>2
  <2> QED BY <1>2, <2>7 DEF Repairable, NeedsRepair, Refused
<1>5. Resolves(x)
  BY <1>1, <1>4 DEF RewritesCover
<1>6. Owner \in ExplicitTypes(x)
  <2>1. l \in Origins(Tested(s), x)
    <3>1. Origins(Tested(s), x) \subseteq DOMAIN program
      BY DEF Origins
    <3> QED BY <1>1, <3>1, LatestIs
  <2>2. l \in DOMAIN program /\ program[l].name = x /\ program[l].type = Owner
    BY <2>1 DEF Origins
  <2> HIDE DEF l
  <2>3. Owner # ""
    BY ProgramsAssumption
  <2>4. Kind(l) \in {"fun", "decl"}
    BY <1>1, <2>2, <2>3 DEF KotlinFile, Kind
  <2> QED BY <2>2, <2>3, <2>4 DEF ExplicitTypes
<1>7. IsOwner(x)
  <2> DEFINE D == {d \in DOMAIN program : Kind(d) \in {"fun", "decl"} /\ program[d].name = x}
             f == [d \in D |-> program[d].type]
             T == {program[d].type : d \in D}
  <2>1. IsFiniteSet(D)
    BY <1>1, NodesAre, FS_Subset
  <2>2. f \in Surjection(D, T)
    BY DEF Surjection
  <2>3. IsFiniteSet(T)
    <3> HIDE DEF D, f, T
    <3> QED BY <2>1, <2>2, FS_Surjection
  <2>4. ExplicitTypes(x) \subseteq T
    BY DEF ExplicitTypes
  <2>5. IsFiniteSet(ExplicitTypes(x))
    BY <2>3, <2>4, FS_Subset
  <2>6. PICK o : ExplicitTypes(x) = {o}
    BY <1>5, <2>5, FS_Singleton DEF Resolves
  <2>7. ExplicitTypes(x) = {Owner}
    BY <1>6, <2>6
  <2>8. OwnerOf(x) = Owner
    BY <2>7 DEF OwnerOf
  <2> QED BY <1>5, <2>8 DEF IsOwner
<1>8. Ranges(s) \subseteq Replaced
  BY <1>1, <1>4, <1>7 DEF RepairInv, Progress
<1> QED BY <1>3, <1>8

(* What the planner accepts, the writer repairs: when the owner moves, no  *)
(* read that Kotlin smart-casts is left a getter call, in any file, unless *)
(* a site is overlooked (smart_cast_rewrites_cover, collect_occurrences).  *)
THEOREM AcceptedIsRepaired ==
  RepairSpec => []((\A s \in Sites : ~Overlooked(s)) => RepairComplete)
<1>1. ASSUME RepairInv, \A s \in Sites : ~Overlooked(s) PROVE RepairComplete
  BY <1>1, NarrowedReplaced DEF RepairComplete
<1> QED BY <1>1, RepairAlways, PTL
=============================================================================
