----------------------------- MODULE DataProofs -----------------------------
(* Proofs about what loops and recursions make of data of any length: Logins, for every
   line and every file; and MemBuffers, for every size of buffer, byte and size_t. *)
EXTENDS MemBuffers, Logins, SequenceTheorems, WellFoundedInduction, TLAPS

-----------------------------------------------------------------------------
(* Induction and recursion over the numbers *)

\* A least number for a relation on numbers that is well-founded.
LEMMA LeastOfRelation ==
  ASSUME NEW S, S \subseteq Nat, S # {}, NEW R, IsWellFoundedOn(R, Nat)
  PROVE  \E n \in S : \A m \in S : ~ (<<m, n>> \in R)
  BY WFMin

\* < as such a relation.
LEMMA LessRelation ==
  /\ IsWellFoundedOn(OpToRel(<, Nat), Nat)
  /\ \A m \in Nat : \A n \in Nat : m < n => <<m, n>> \in OpToRel(<, Nat)
<1>1. \A m, n \in Nat : m < n => <<m, n>> \in OpToRel(<, Nat)
  BY DEF OpToRel
<1>2. QED
  BY <1>1, NatLessThanWellFounded, Zenon

\* Every set of numbers has a least one.
LEMMA LeastNumber ==
  ASSUME NEW S, S \subseteq Nat, S # {}
  PROVE  \E n \in S : \A m \in S : n <= m
<1>1. \E n \in S : \A m \in S : ~ (<<m, n>> \in OpToRel(<, Nat))
  BY LessRelation, LeastOfRelation, Zenon
<1>2. \E n \in S : \A m \in S : ~ (m < n)
  BY <1>1, LessRelation, Zenon
<1>3. QED
  BY <1>2

\* So a set with 0, and with the successor of each of its numbers, has them all.
LEMMA Induction ==
  ASSUME NEW S, 0 \in S, \A n \in Nat : n \in S => n + 1 \in S
  PROVE  Nat \subseteq S
<1> DEFINE T == Nat \ S
<1>1. CASE T = {}
  BY <1>1
<1>2. CASE T # {}
  <2>1. PICK n \in T : \A m \in T : n <= m
    BY <1>2, LeastNumber
  <2>2. n # 0 /\ n \in Nat /\ n - 1 \in Nat
    BY <2>1
  <2>3. n - 1 \in S
    BY <2>1, <2>2
  <2>4. QED
    BY <2>1, <2>2, <2>3
<1>3. QED
  BY <1>1, <1>2

\* g[i] makes the value at i from the one before it; f is what that gives from a on.
IsRule(g, T, m, n) == m \in Nat /\ n \in Nat /\ m <= n /\ g \in [m .. n -> [T -> T]]
Follows(f, g, a, m, n) == f[m] = a /\ \A i \in m .. n : i > m => f[i] = g[i][f[i - 1]]

\* A function defined by recursion on the numbers from m to n is there.
LEMMA Recursion ==
  ASSUME NEW T, NEW a \in T, NEW m, NEW n, NEW g, IsRule(g, T, m, n)
  PROVE  \E f : Follows(f, g, a, m, n) /\ f \in [m .. n -> T]
<1> DEFINE Upto(k) == \E f \in [m .. m + k -> T] : Follows(f, g, a, m, m + k)
           S == {k \in Nat : m + k <= n => Upto(k)}
<1>0. m \in Nat /\ n \in Nat /\ m <= n /\ g \in [m .. n -> [T -> T]]
  BY DEF IsRule
<1>1. 0 \in S
  <2> DEFINE f == [i \in m .. m + 0 |-> a]
  <2>1. f \in [m .. m + 0 -> T] /\ f[m] = a /\ \A i \in m .. m + 0 : ~(i > m)
    BY <1>0
  <2> HIDE DEF f
  <2>2. Upto(0)
    BY <2>1 DEF Follows
  <2>3. QED
    BY <2>2
<1>2. ASSUME NEW k \in Nat, k \in S PROVE k + 1 \in S
  <2>1. SUFFICES ASSUME m + k + 1 <= n PROVE Upto(k + 1)
    BY <1>0
  <2>2. PICK f \in [m .. m + k -> T] : Follows(f, g, a, m, m + k)
    BY <1>0, <1>2, <2>1
  <2>3. PICK j \in m .. n : j = m + k + 1
    BY <1>0, <2>1
  <2>4. PICK t \in T : t = g[j][f[m + k]]
    BY <1>0, <2>2, <2>3
  <2> DEFINE h == [i \in m .. m + (k + 1) |-> IF i = j THEN t ELSE f[i]]
  <2>5. h \in [m .. m + (k + 1) -> T] /\ h[m] = a /\ h[j] = t
    BY <1>0, <2>2, <2>3, <2>4 DEF Follows
  <2>6. \A i \in m .. m + k : h[i] = f[i]
    BY <1>0, <2>3
  <2> HIDE DEF h
  <2>7. ASSUME NEW i \in m .. m + (k + 1), i > m PROVE h[i] = g[i][h[i - 1]]
    <3>1. CASE i = j
      <4>1. i - 1 = m + k /\ h[i - 1] = f[m + k]
        BY <1>0, <2>3, <2>6, <3>1
      <4>2. QED
        BY <2>4, <2>5, <3>1, <4>1
    <3>2. CASE i # j
      <4>1. i \in m .. m + k /\ i - 1 \in m .. m + k
        BY <1>0, <2>3, <2>7, <3>2
      <4>2. QED
        BY <2>2, <2>6, <2>7, <4>1 DEF Follows
    <3>3. QED
      BY <3>1, <3>2
  <2>8. QED
    BY <2>5, <2>7 DEF Follows
<1> HIDE DEF S
<1>3. Nat \subseteq S
  BY <1>1, <1>2, Induction
<1> USE DEF S
<1>4. PICK k \in Nat : m + k = n
  <2>1. n - m \in Nat /\ m + (n - m) = n
    BY <1>0
  <2>2. QED
    BY <2>1
<1>5. Upto(k)
  BY <1>0, <1>3, <1>4
<1>6. QED
  BY <1>4, <1>5

\* What a rule that keeps a type gives from a value of the type.
LEMMA TypedByRule ==
  ASSUME NEW T, NEW m \in Nat, NEW n \in Nat, NEW h, h[m] \in T,
         \A i \in m .. n : i > m /\ h[i - 1] \in T => h[i] \in T
  PROVE  \A i \in m .. n : h[i] \in T
<1> DEFINE S == {k \in Nat : m + k <= n => h[m + k] \in T}
<1>1. 0 \in S
  OBVIOUS
<1>2. ASSUME NEW k \in Nat, k \in S PROVE k + 1 \in S
  <2>1. SUFFICES ASSUME m + (k + 1) <= n PROVE h[m + (k + 1)] \in T
    OBVIOUS
  <2>2. PICK j \in m .. n : j = m + (k + 1) /\ j > m
    BY <2>1
  <2>3. h[j - 1] \in T
    BY <1>2, <2>1, <2>2
  <2>4. QED
    BY <2>2, <2>3
<1> HIDE DEF S
<1>3. Nat \subseteq S
  BY <1>1, <1>2, Induction
<1> USE DEF S
<1>4. ASSUME NEW i \in m .. n PROVE h[i] \in T
  <2>1. PICK k \in Nat : i = m + k
    <3>1. i - m \in Nat /\ i = m + (i - m)
      OBVIOUS
    <3>2. QED
      BY <3>1
  <2>2. QED
    BY <1>3, <2>1
<1>5. QED
  BY <1>4

\* next leads from each position further on, and past n in the end; f has a there, and at
\* i what g[i] makes of the value where i leads to.
LeadsOn(next, n) == next \in [0 .. n -> 1 .. n + 1] /\ \A i \in 0 .. n : next[i] > i
FollowsOn(f, g, next, a, n) == f[n + 1] = a /\ \A i \in 0 .. n : f[i] = g[i][f[next[i]]]

\* What holds at i if it holds where i leads to holds everywhere.
LEMMA InductionDown ==
  ASSUME NEW n \in Nat, NEW next, LeadsOn(next, n),
         NEW S, \A i \in 0 .. n : next[i] = n + 1 \/ next[i] \in S => i \in S
  PROVE  \A i \in 0 .. n : i \in S
<1>0. next \in [0 .. n -> 1 .. n + 1] /\ \A i \in 0 .. n : next[i] > i
  BY DEF LeadsOn
<1> DEFINE T == {k \in 0 .. n : n - k \notin S}
<1>1. SUFFICES ASSUME T # {} PROVE FALSE
  <2>1. ASSUME T = {}, NEW i \in 0 .. n PROVE i \in S
    <3>1. n - i \in 0 .. n /\ n - (n - i) = i
      OBVIOUS
    <3>2. QED
      BY <2>1, <3>1
  <2>2. QED
    BY <2>1
<1>2. T \subseteq Nat
  OBVIOUS
<1>3. PICK k \in T : \A m \in T : k <= m
  <2> HIDE DEF T
  <2>1. QED
    BY <1>1, <1>2, LeastNumber
<1>4. PICK i \in 0 .. n : i = n - k /\ i \notin S
  BY <1>3
<1>5. PICK j \in 1 .. n + 1 : j = next[i] /\ j > i /\ j # n + 1 /\ j \notin S
  BY <1>0, <1>4
<1>6. n - j \in T /\ n - j < k
  BY <1>3, <1>4, <1>5
<1>7. QED
  BY <1>3, <1>6

\* A function is there whose value at i is made from the one where i leads to.
LEMMA RecursionDown ==
  ASSUME NEW n \in Nat, NEW next, LeadsOn(next, n), NEW T, NEW a \in T, NEW g, IsRule(g, T, 0, n)
  PROVE  \E f : f \in [0 .. n + 1 -> T] /\ FollowsOn(f, g, next, a, n)
<1>0. /\ next \in [0 .. n -> 1 .. n + 1] /\ \A i \in 0 .. n : next[i] > i
      /\ g \in [0 .. n -> [T -> T]]
  BY DEF LeadsOn, IsRule
<1> DEFINE From(m) == \E f \in [0 .. n + 1 -> T] :
                        f[n + 1] = a /\ \A i \in 0 .. n : i + m > n => f[i] = g[i][f[next[i]]]
           S == {m \in Nat : m <= n + 1 => From(m)}
<1>1. 0 \in S
  <2> DEFINE f == [i \in 0 .. n + 1 |-> a]
  <2>1. f \in [0 .. n + 1 -> T] /\ f[n + 1] = a /\ \A i \in 0 .. n : ~(i + 0 > n)
    OBVIOUS
  <2> HIDE DEF f
  <2>2. From(0)
    BY <2>1
  <2>3. QED
    BY <2>2
<1>2. ASSUME NEW m \in Nat, m \in S PROVE m + 1 \in S
  <2> HIDE DEF From
  <2>1. SUFFICES ASSUME m + 1 <= n + 1 PROVE From(m + 1)
    OBVIOUS
  <2> USE DEF From
  <2>2. PICK f \in [0 .. n + 1 -> T] :
          f[n + 1] = a /\ \A i \in 0 .. n : i + m > n => f[i] = g[i][f[next[i]]]
    <3> HIDE DEF From
    <3>1. From(m)
      BY <1>2, <2>1
    <3> USE DEF From
    <3>2. QED
      BY <3>1, Zenon
  <2>3. PICK j \in 0 .. n : j = n - m
    BY <2>1
  <2>4. PICK t \in T : t = g[j][f[next[j]]]
    BY <1>0
  <2> DEFINE h == [f EXCEPT ![j] = t]
  <2>5. h \in [0 .. n + 1 -> T] /\ h[j] = t /\ \A i \in 0 .. n + 1 : i # j => h[i] = f[i]
    OBVIOUS
  <2> HIDE DEF h
  <2>6. ASSUME NEW i \in 0 .. n, i + (m + 1) > n PROVE h[i] = g[i][h[next[i]]]
    <3>1. PICK q \in 1 .. n + 1 : q = next[i] /\ q > i
      BY <1>0
    <3>2. i >= j /\ q # j
      BY <2>3, <2>6, <3>1
    <3>3. h[q] = f[q]
      BY <2>5, <3>2
    <3>4. CASE i = j
      BY <2>4, <2>5, <3>1, <3>3, <3>4
    <3>5. CASE i # j
      <4>1. i + m > n
        BY <2>3, <3>2, <3>5
      <4>2. QED
        BY <2>2, <2>5, <3>1, <3>3, <3>5, <4>1
    <3>6. QED
      BY <3>4, <3>5
  <2>7. h[n + 1] = a
    BY <2>2, <2>3, <2>5
  <2>8. QED
    BY <2>5, <2>6, <2>7
<1> HIDE DEF S
<1>3. Nat \subseteq S
  BY <1>1, <1>2, Induction
<1> USE DEF S
<1> HIDE DEF From
<1>4. From(n + 1)
  BY <1>3
<1> USE DEF From
<1>5. \A i \in 0 .. n : i + (n + 1) > n
  OBVIOUS
<1>6. QED
  BY <1>4, <1>5 DEF FollowsOn

-----------------------------------------------------------------------------
(* Sequences of sequences *)

\* Three sequences can be joined from either end.
Grouped(s, t, u) == (s \o t) \o u = s \o (t \o u)

LEMMA ThreeStrings ==
  ASSUME NEW C, NEW s \in Seq(C), NEW t \in Seq(C), NEW u \in Seq(C)
  PROVE  Grouped(s, t, u)
  BY ConcatAssociative DEF Grouped

\* FlattenSeq joins the sequences from the first one.
LEMMA FlattenJoins ==
  ASSUME NEW T, NEW w \in Seq(Seq(T)), Len(w) > 0
  PROVE  \E f : /\ FlattenSeq(w) = f[Len(w)] /\ f[1] = w[1]
                /\ \A i \in 1 .. Len(w) : f[i] \in Seq(T)
                /\ \A i \in 1 .. Len(w) : i > 1 => f[i] = f[i - 1] \o w[i]
<1> DEFINE n == Len(w)
           g == [i \in 1 .. n |-> [x \in Seq(T) |-> x \o w[i]]]
           J(h, i) == IF i = 1 THEN w[i] ELSE h[i - 1] \o w[i]
           F(h) == [i \in 1 .. n |-> J(h, i)]
           c == CHOOSE h : h = F(h)
<1>1. n \in Nat /\ 1 <= n /\ \A i \in 1 .. n : w[i] \in Seq(T)
  OBVIOUS
<1>2. FlattenSeq(w) = c[n]
  BY <1>1 DEF FlattenSeq
<1> HIDE DEF n
<1>3. IsRule(g, Seq(T), 1, n)
  <2>1. \A i \in 1 .. n : \A x \in Seq(T) : x \o w[i] \in Seq(T)
    BY <1>1
  <2>2. QED
    BY <1>1, <2>1 DEF IsRule
<1>4. PICK f \in [1 .. n -> Seq(T)] : Follows(f, g, w[1], 1, n)
  <2> HIDE DEF g
  <2>1. w[1] \in Seq(T)
    BY <1>1
  <2>2. QED
    BY <1>3, <2>1, Recursion
<1>5. \A i \in 1 .. n : i > 1 => f[i] = f[i - 1] \o w[i]
  <2>1. ASSUME NEW i \in 1 .. n, i > 1 PROVE f[i] = f[i - 1] \o w[i]
    <3>1. i - 1 \in 1 .. n /\ f[i - 1] \in Seq(T)
      BY <1>1, <2>1
    <3>2. f[i] = g[i][f[i - 1]]
      BY <1>4, <2>1 DEF Follows
    <3>3. QED
      BY <3>1, <3>2
  <2>2. QED
    BY <2>1
<1>6. f[1] = w[1]
  BY <1>4 DEF Follows
<1>7. f = F(f)
  <2>1. ASSUME NEW i \in 1 .. n PROVE f[i] = J(f, i)
    <3>1. CASE i = 1
      BY <1>6, <3>1
    <3>2. CASE i # 1
      <4>1. i > 1
        BY <1>1, <3>2
      <4>2. f[i] = f[i - 1] \o w[i]
        BY <1>5, <4>1
      <4>3. QED
        BY <3>2, <4>2, Zenon
    <3>3. QED
      BY <3>1, <3>2
  <2> HIDE DEF J
  <2>2. QED
    BY <1>4, <2>1
<1> HIDE DEF g
<1>8. c = F(c)
  BY <1>7
<1> HIDE DEF c
<1>9. c[1] = w[1] /\ \A i \in 1 .. n : i > 1 => c[i] = c[i - 1] \o w[i]
  <2> HIDE DEF J
  <2>1. \A i \in 1 .. n : c[i] = J(c, i)
    BY <1>8
  <2> USE DEF J
  <2>2. ASSUME NEW i \in 1 .. n, i > 1 PROVE c[i] = c[i - 1] \o w[i]
    <3>1. i # 1
      BY <1>1, <2>2
    <3>2. QED
      BY <2>1, <3>1, Zenon
  <2>3. 1 \in 1 .. n
    BY <1>1
  <2>4. c[1] = w[1]
    BY <2>1, <2>3, Zenon
  <2>5. QED
    BY <2>2, <2>4
<1>10. \A i \in 1 .. n : i > 1 /\ c[i - 1] \in Seq(T) => c[i] \in Seq(T)
  <2>1. ASSUME NEW i \in 1 .. n, i > 1, c[i - 1] \in Seq(T) PROVE c[i] \in Seq(T)
    <3>1. PICK x \in Seq(T), y \in Seq(T) : x = c[i - 1] /\ y = w[i]
      BY <1>1, <2>1
    <3>2. x \o y \in Seq(T)
      OBVIOUS
    <3>3. QED
      BY <1>9, <2>1, <3>1, <3>2, Zenon
  <2>2. QED
    BY <2>1
<1>11. \A i \in 1 .. n : c[i] \in Seq(T)
  <2>1. 1 \in Nat /\ c[1] \in Seq(T)
    BY <1>1, <1>9
  <2>2. QED
    BY <1>1, <1>10, <2>1, TypedByRule, Zenon
<1>12. QED
  BY <1>2, <1>9, <1>11 DEF n

\* What it makes is of the elements' elements.
LEMMA FlattenType ==
  ASSUME NEW T, NEW w \in Seq(Seq(T))
  PROVE  FlattenSeq(w) \in Seq(T)
<1>1. CASE Len(w) = 0
  <2>1. FlattenSeq(w) = w /\ w = <<>>
    BY <1>1 DEF FlattenSeq
  <2>2. QED
    BY <2>1
<1>2. CASE Len(w) > 0
  <2>1. Len(w) \in 1 .. Len(w)
    BY <1>2
  <2>2. QED
    BY <1>2, <2>1, FlattenJoins, Zenon
<1>3. QED
  BY <1>1, <1>2

\* One sequence more is put at the end.
LEMMA FlattenAppend ==
  ASSUME NEW T, NEW w \in Seq(Seq(T)), NEW x \in Seq(T)
  PROVE  FlattenSeq(Append(w, x)) = FlattenSeq(w) \o x
<1> DEFINE u == Append(w, x)
           n == Len(w)
<1>1. /\ u \in Seq(Seq(T)) /\ n \in Nat /\ Len(u) = n + 1 /\ u[n + 1] = x
      /\ \A i \in 1 .. n : u[i] = w[i]
  OBVIOUS
<1>2. PICK h : /\ FlattenSeq(u) = h[Len(u)] /\ h[1] = u[1]
               /\ \A i \in 1 .. Len(u) : h[i] \in Seq(T)
               /\ \A i \in 1 .. Len(u) : i > 1 => h[i] = h[i - 1] \o u[i]
  <2> HIDE DEF u
  <2>1. Len(u) > 0
    BY <1>1
  <2>2. QED
    BY <1>1, <2>1, FlattenJoins, ZenonT(30)
<1> HIDE DEF u
<1>3. CASE n = 0
  <2>1. FlattenSeq(u) = x
    BY <1>1, <1>2, <1>3
  <2>2. FlattenSeq(w) = <<>>
    BY <1>3 DEF FlattenSeq
  <2>3. QED
    BY <2>1, <2>2 DEF u
<1>4. CASE n > 0
  <2>1. PICK f : /\ FlattenSeq(w) = f[Len(w)] /\ f[1] = w[1]
                 /\ \A i \in 1 .. Len(w) : f[i] \in Seq(T)
                 /\ \A i \in 1 .. Len(w) : i > 1 => f[i] = f[i - 1] \o w[i]
    BY <1>4, FlattenJoins, Zenon
  <2> HIDE DEF n
  <2> DEFINE S == {k \in Nat : k + 1 <= n => h[k + 1] = f[k + 1]}
  <2>2. 0 \in S
    <3>1. h[1] = f[1]
      BY <1>1, <1>2, <1>4, <2>1
    <3>2. QED
      BY <3>1
  <2>3. ASSUME NEW k \in Nat, k \in S PROVE k + 1 \in S
    <3>1. SUFFICES ASSUME k + 1 + 1 <= n PROVE h[k + 1 + 1] = f[k + 1 + 1]
      OBVIOUS
    <3>2. PICK i \in 1 .. n : i = k + 1 + 1 /\ i > 1 /\ i - 1 = k + 1
      BY <1>1, <3>1
    <3>3. h[i - 1] = f[i - 1]
      <4>1. h[k + 1] = f[k + 1]
        BY <1>1, <2>3, <3>1 DEF n
      <4>2. QED
        BY <3>2, <4>1
    <3>4. h[i] = h[i - 1] \o u[i]
      <4>1. i \in 1 .. Len(u)
        BY <1>1, <3>2 DEF n
      <4>2. QED
        BY <1>2, <3>2, <4>1
    <3>5. f[i] = f[i - 1] \o w[i] /\ u[i] = w[i]
      BY <1>1, <2>1, <3>2 DEF n
    <3>6. h[i] = f[i]
      BY <3>3, <3>4, <3>5, Zenon
    <3>7. QED
      BY <3>2, <3>6
  <2> HIDE DEF S
  <2>4. Nat \subseteq S
    BY <2>2, <2>3, Induction
  <2> USE DEF S
  <2>5. PICK k \in Nat : n = k + 1
    <3>1. n - 1 \in Nat /\ n = (n - 1) + 1
      BY <1>1, <1>4
    <3>2. QED
      BY <3>1
  <2>6. h[n] = f[n]
    BY <2>4, <2>5
  <2>7. PICK i \in 1 .. Len(u) : i = n + 1 /\ i > 1 /\ i - 1 = n /\ i = Len(u)
    BY <1>1, <1>4
  <2>8. h[i] = h[n] \o u[i] /\ u[i] = x
    BY <1>1, <1>2, <2>7
  <2>9. QED
    BY <1>2, <2>1, <2>6, <2>7, <2>8, Zenon DEF n, u
<1>5. QED
  BY <1>1, <1>3, <1>4

\* The first m elements.
LEMMA FirstElements ==
  ASSUME NEW T, NEW w \in Seq(T), NEW m \in Nat, m <= Len(w)
  PROVE  /\ SubSeq(w, 1, m) \in Seq(T) /\ Len(SubSeq(w, 1, m)) = m
         /\ \A i \in 1 .. m : SubSeq(w, 1, m)[i] = w[i]
<1>1. \A i \in 1 .. m : w[i] \in T
  OBVIOUS
<1>2. QED
  BY <1>1, SubSeqProperties

\* The first m + 1 elements are the first m and one more.
LEMMA NextElement ==
  ASSUME NEW T, NEW w \in Seq(T), NEW m \in Nat, m < Len(w)
  PROVE  /\ SubSeq(w, 1, m) \in Seq(T) /\ SubSeq(w, 1, m + 1) \in Seq(T) /\ w[m + 1] \in T
         /\ SubSeq(w, 1, m + 1) = Append(SubSeq(w, 1, m), w[m + 1])
<1>1. w[m + 1] \in T /\ \A i \in 1 .. m + 1 : w[i] \in T
  OBVIOUS
<1>2. /\ SubSeq(w, 1, m) \in Seq(T) /\ Len(SubSeq(w, 1, m)) = m
      /\ \A i \in 1 .. m : SubSeq(w, 1, m)[i] = w[i]
  BY <1>1, SubSeqProperties
<1>3. /\ SubSeq(w, 1, m + 1) \in Seq(T) /\ Len(SubSeq(w, 1, m + 1)) = m + 1
      /\ \A i \in 1 .. m + 1 : SubSeq(w, 1, m + 1)[i] = w[i]
  BY <1>1, SubSeqProperties
<1>4. SubSeq(w, 1, m + 1) = Append(SubSeq(w, 1, m), w[m + 1])
  BY <1>1, <1>2, <1>3
<1>5. QED
  BY <1>1, <1>2, <1>3, <1>4

\* The first elements make a beginning of what all of them make.
LEMMA FlattenBeginning ==
  ASSUME NEW T, NEW w \in Seq(Seq(T)), NEW m \in Nat, m <= Len(w)
  PROVE  \E t \in Seq(T) : FlattenSeq(w) = FlattenSeq(SubSeq(w, 1, m)) \o t
<1> DEFINE Begins(k) == \E t \in Seq(T) :
                          FlattenSeq(SubSeq(w, 1, m + k)) = FlattenSeq(SubSeq(w, 1, m)) \o t
           S == {k \in Nat : m + k <= Len(w) => Begins(k)}
<1>1. SubSeq(w, 1, m) \in Seq(Seq(T))
  <2>1. \A i \in 1 .. m : w[i] \in Seq(T)
    OBVIOUS
  <2>2. QED
    BY <2>1, SubSeqProperties
<1>2. FlattenSeq(SubSeq(w, 1, m)) \in Seq(T)
  BY <1>1, FlattenType
<1>3. 0 \in S
  <2>1. FlattenSeq(SubSeq(w, 1, m)) = FlattenSeq(SubSeq(w, 1, m)) \o <<>>
    BY <1>2
  <2>2. m + 0 = m /\ <<>> \in Seq(T)
    OBVIOUS
  <2>3. QED
    BY <2>1, <2>2
<1>4. ASSUME NEW k \in Nat, k \in S PROVE k + 1 \in S
  <2> HIDE DEF Begins
  <2>1. SUFFICES ASSUME m + (k + 1) <= Len(w) PROVE Begins(k + 1)
    OBVIOUS
  <2>2. Begins(k)
    BY <1>4, <2>1
  <2> USE DEF Begins
  <2>3. PICK t \in Seq(T) : FlattenSeq(SubSeq(w, 1, m + k)) = FlattenSeq(SubSeq(w, 1, m)) \o t
    BY <2>2
  <2>4. PICK j \in Nat : j = m + k /\ j < Len(w)
    BY <2>1
  <2>5. /\ SubSeq(w, 1, j) \in Seq(Seq(T)) /\ w[j + 1] \in Seq(T)
        /\ SubSeq(w, 1, j + 1) = Append(SubSeq(w, 1, j), w[j + 1])
    BY <2>4, NextElement
  <2>6. FlattenSeq(SubSeq(w, 1, j + 1)) = FlattenSeq(SubSeq(w, 1, j)) \o w[j + 1]
    BY <2>5, FlattenAppend, Zenon
  <2>7. PICK z \in Seq(T), x \in Seq(T) : z = FlattenSeq(SubSeq(w, 1, m)) /\ x = w[j + 1]
    BY <1>2, <2>5
  <2>8. (z \o t) \o x = z \o (t \o x) /\ t \o x \in Seq(T)
    OBVIOUS
  <2>9. FlattenSeq(SubSeq(w, 1, j + 1)) = z \o (t \o x)
    BY <2>3, <2>4, <2>6, <2>7, <2>8, Zenon
  <2>10. m + (k + 1) = j + 1
    BY <2>4
  <2>11. QED
    BY <2>7, <2>8, <2>9, <2>10, Zenon
<1> HIDE DEF S
<1>5. Nat \subseteq S
  BY <1>3, <1>4, Induction
<1> USE DEF S
<1>6. PICK k \in Nat : m + k = Len(w)
  <2>1. Len(w) - m \in Nat /\ m + (Len(w) - m) = Len(w)
    OBVIOUS
  <2>2. QED
    BY <2>1
<1>7. SubSeq(w, 1, m + k) = w
  BY <1>6, SubSeqFull
<1> HIDE DEF Begins
<1>8. Begins(k)
  BY <1>5, <1>6
<1> USE DEF Begins
<1>9. QED
  BY <1>7, <1>8, Zenon

\* One sequence more is put at the beginning.
LEMMA FlattenPrepend ==
  ASSUME NEW T, NEW w \in Seq(Seq(T)), NEW x \in Seq(T)
  PROVE  <<x>> \o w \in Seq(Seq(T)) /\ FlattenSeq(<<x>> \o w) = x \o FlattenSeq(w)
<1>1. PICK U : U = Seq(T)
  OBVIOUS
<1>2. PICK o \in Seq(U) : o = <<x>> /\ Len(o) = 1 /\ o[1] = x
  <2>1. x \in U
    BY <1>1
  <2>2. <<x>> \in Seq(U) /\ Len(<<x>>) = 1 /\ <<x>>[1] = x
    BY <2>1
  <2>3. QED
    BY <2>2
<1> DEFINE Holds(v) == FlattenSeq(o \o v) = x \o FlattenSeq(v)
           S == {k \in Nat : k <= Len(w) => Holds(SubSeq(w, 1, k))}
<1>3. w \in Seq(U)
  BY <1>1, Zenon
<1>4. 0 \in S
  <2>1. SubSeq(w, 1, 0) = <<>> /\ o \o <<>> = o
    BY <1>3
  <2>2. FlattenSeq(<<>>) = <<>> /\ x \o <<>> = x
    BY DEF FlattenSeq
  <2>3. FlattenSeq(o) = x
    <3>1. o \in Seq(Seq(T)) /\ Len(o) > 0
      BY <1>1, <1>2
    <3>2. PICK f : FlattenSeq(o) = f[Len(o)] /\ f[1] = o[1]
      <4>1. \E f : /\ FlattenSeq(o) = f[Len(o)] /\ f[1] = o[1]
                   /\ \A i \in 1 .. Len(o) : f[i] \in Seq(T)
                   /\ \A i \in 1 .. Len(o) : i > 1 => f[i] = f[i - 1] \o o[i]
        BY <3>1, FlattenJoins, Zenon
      <4>2. QED
        BY <4>1, Zenon
    <3>3. QED
      BY <1>2, <3>2
  <2>4. Holds(SubSeq(w, 1, 0))
    BY <2>1, <2>2, <2>3, Zenon
  <2> HIDE DEF Holds
  <2>5. QED
    BY <2>4
<1>5. ASSUME NEW k \in Nat, k \in S PROVE k + 1 \in S
  <2> HIDE DEF Holds
  <2>1. SUFFICES ASSUME k + 1 <= Len(w) PROVE Holds(SubSeq(w, 1, k + 1))
    OBVIOUS
  <2>2. Holds(SubSeq(w, 1, k)) /\ k < Len(w)
    BY <1>5, <2>1
  <2>3. PICK u \in Seq(U), y \in U :
          u = SubSeq(w, 1, k) /\ y = w[k + 1] /\ SubSeq(w, 1, k + 1) = Append(u, y)
    <3>1. k < Len(w)
      BY <2>2
    <3>2. /\ SubSeq(w, 1, k) \in Seq(U) /\ w[k + 1] \in U
          /\ SubSeq(w, 1, k + 1) = Append(SubSeq(w, 1, k), w[k + 1])
      BY <1>3, <3>1, NextElement
    <3>3. QED
      BY <3>2, Zenon
  <2> USE DEF Holds
  <2>4. o \o u \in Seq(U) /\ o \o Append(u, y) = Append(o \o u, y)
    OBVIOUS
  <2>5. FlattenSeq(Append(u, y)) = FlattenSeq(u) \o y
    BY <1>1, FlattenAppend, Zenon
  <2>6. FlattenSeq(Append(o \o u, y)) = FlattenSeq(o \o u) \o y
    BY <1>1, <2>4, FlattenAppend, Zenon
  <2>7. PICK z \in Seq(T), v \in Seq(T) : z = FlattenSeq(u) /\ v = y
    BY <1>1, FlattenType
  <2>8. (x \o z) \o v = x \o (z \o v)
    <3>1. Grouped(x, z, v)
      BY ThreeStrings, Zenon
    <3>2. QED
      BY <3>1, Zenon DEF Grouped
  <2>9. FlattenSeq(o \o u) = x \o z
    BY <2>2, <2>3, <2>7, Zenon
  <2>10. FlattenSeq(o \o Append(u, y)) = x \o FlattenSeq(Append(u, y))
    BY <2>4, <2>5, <2>6, <2>7, <2>8, <2>9, Zenon
  <2>11. QED
    BY <2>3, <2>10, Zenon
<1> HIDE DEF S, Holds
<1>6. Nat \subseteq S
  BY <1>4, <1>5, Induction
<1> USE DEF S
<1>7. Holds(SubSeq(w, 1, Len(w)))
  BY <1>6
<1>8. SubSeq(w, 1, Len(w)) = w
  BY <1>3, SubSeqFull
<1> USE DEF Holds
<1>9. FlattenSeq(o \o w) = x \o FlattenSeq(w)
  BY <1>7, <1>8, Zenon
<1>10. o \o w \in Seq(U)
  BY <1>3
<1>11. QED
  BY <1>1, <1>2, <1>9, <1>10, Zenon

-----------------------------------------------------------------------------
(* stringSplit *)

OccursAt(str, part, i) == SubSeq(str, i + 1, i + Len(part)) = part

LEMMA OccursElements ==
  ASSUME NEW C, NEW str \in Seq(C), NEW part \in Seq(C), NEW i \in Nat, i + Len(part) <= Len(str)
  PROVE  OccursAt(str, part, i) <=> \A k \in 1 .. Len(part) : str[i + k] = part[k]
<1>1. PICK n \in Nat : n = Len(part)
  OBVIOUS
<1>2. PICK s \in Seq(C) :
        s = SubSeq(str, i + 1, i + n) /\ Len(s) = n /\ \A k \in 1 .. n : s[k] = str[i + k]
  <2>1. \A k \in i + 1 .. i + n : str[k] \in C
    BY <1>1
  <2>2. i + n - (i + 1) + 1 = n
    OBVIOUS
  <2>3. /\ SubSeq(str, i + 1, i + n) \in Seq(C) /\ Len(SubSeq(str, i + 1, i + n)) = n
        /\ \A k \in 1 .. n : SubSeq(str, i + 1, i + n)[k] = str[i + 1 + k - 1]
    BY <2>1, <2>2, SubSeqProperties
  <2>4. \A k \in 1 .. n : i + 1 + k - 1 = i + k
    OBVIOUS
  <2>5. QED
    BY <2>3, <2>4
<1>3. s = part <=> \A k \in 1 .. n : s[k] = part[k]
  BY <1>1, <1>2, SMTT(30)
<1>4. QED
  BY <1>1, <1>2, <1>3 DEF OccursAt

\* find gives the first place from which the part is there.
LEMMA FindFirst ==
  ASSUME NEW C, NEW str \in Seq(C), NEW part \in Seq(C), NEW from \in 0 .. Len(str)
  PROVE  LET it == Find(str, part, from) IN
           /\ it = NPos => \A i \in from .. Len(str) - Len(part) : ~OccursAt(str, part, i)
           /\ it # NPos =>
                /\ it \in from .. Len(str) - Len(part) /\ OccursAt(str, part, it)
                /\ \A i \in from .. Len(str) - Len(part) : OccursAt(str, part, i) => it <= i
<1> DEFINE at == {i \in from .. Len(str) - Len(part) : SubSeq(str, i + 1, i + Len(part)) = part}
<1>1. at \subseteq Nat /\ NPos \notin Nat
  BY DEF NPos
<1>2. at = {i \in from .. Len(str) - Len(part) : OccursAt(str, part, i)}
  BY DEF OccursAt
<1>3. Find(str, part, from) = IF at = {} THEN NPos ELSE CHOOSE i \in at : \A j \in at : i <= j
  BY DEF Find
<1> HIDE DEF at
<1>4. CASE at = {}
  <2>1. Find(str, part, from) = NPos
    BY <1>3, <1>4
  <2>2. \A i \in from .. Len(str) - Len(part) : ~OccursAt(str, part, i)
    BY <1>2, <1>4
  <2>3. QED
    BY <2>1, <2>2
<1>5. CASE at # {}
  <2>1. \E n \in at : \A m \in at : n <= m
    BY <1>1, <1>5, LeastNumber
  <2>2. PICK n \in at : n = Find(str, part, from) /\ \A m \in at : n <= m
    BY <1>3, <1>5, <2>1
  <2>3. n # NPos
    BY <1>1
  <2>4. /\ n \in from .. Len(str) - Len(part) /\ OccursAt(str, part, n)
        /\ \A i \in from .. Len(str) - Len(part) : OccursAt(str, part, i) => n <= i
    BY <1>2, <2>2
  <2>5. QED
    BY <2>2, <2>3, <2>4
<1>6. QED
  BY <1>4, <1>5

\* The field that begins at a position: up to the delimiter, or to the end.
FieldEnd(str, delim, from) ==
  IF Find(str, delim, from) = NPos THEN Len(str) ELSE Find(str, delim, from)
FieldAt(str, delim, from) == SubSeq(str, from + 1, FieldEnd(str, delim, from))

LEMMA EndOfField ==
  ASSUME NEW C, NEW str \in Seq(C), NEW delim \in Seq(C), Len(delim) > 0, NEW from \in 0 .. Len(str)
  PROVE  LET it == Find(str, delim, from) IN
           /\ FieldEnd(str, delim, from) \in from .. Len(str)
           /\ it = NPos => FieldEnd(str, delim, from) = Len(str)
           /\ it # NPos => /\ it = FieldEnd(str, delim, from) /\ it \in Nat
                           /\ it + Len(delim) \in from + 1 .. Len(str)
           /\ it \in Int
<1>1. Find(str, delim, from) # NPos => Find(str, delim, from) \in from .. Len(str) - Len(delim)
  BY FindFirst
<1>2. QED
  BY <1>1 DEF FieldEnd, NPos

\* It is what substr gives, and has no delimiter in it.
LEMMA FieldTaken ==
  ASSUME NEW C, NEW str \in Seq(C), NEW delim \in Seq(C), Len(delim) > 0, NEW from \in 0 .. Len(str)
  PROVE  /\ Substr(str, from, Find(str, delim, from) - from) = FieldAt(str, delim, from)
         /\ FieldAt(str, delim, from) \in Seq(C)
         /\ Len(FieldAt(str, delim, from)) = FieldEnd(str, delim, from) - from
         /\ \A k \in 1 .. FieldEnd(str, delim, from) - from :
              FieldAt(str, delim, from)[k] = str[from + k]
         /\ ~Includes(FieldAt(str, delim, from), delim)
<1>1. PICK n \in Nat, d \in Nat : n = Len(str) /\ d = Len(delim) /\ d > 0
  OBVIOUS
<1>2. PICK it \in Int, e \in from .. n :
        /\ it = Find(str, delim, from) /\ e = FieldEnd(str, delim, from)
        /\ it = NPos => e = n
        /\ it # NPos => it = e
  BY <1>1, EndOfField
<1>3. Substr(str, from, it - from) = SubSeq(str, from + 1, e)
  <2>1. CASE it = NPos
    <3>1. it - from < 0
      BY <2>1 DEF NPos
    <3>2. QED
      BY <1>1, <1>2, <2>1, <3>1 DEF Substr
  <2>2. CASE it # NPos
    <3>1. ~(it - from < 0) /\ from + (it - from) = e /\ ~(from + (it - from) > Len(str))
      BY <1>1, <1>2, <2>2
    <3>2. QED
      BY <3>1, Zenon DEF Substr
  <2>3. QED
    BY <2>1, <2>2
<1>4. PICK s \in Seq(C) :
        /\ s = SubSeq(str, from + 1, e) /\ Len(s) = e - from
        /\ \A k \in 1 .. e - from : s[k] = str[from + k]
  <2>1. \A k \in from + 1 .. e : str[k] \in C
    BY <1>1, <1>2
  <2>2. e - (from + 1) + 1 = e - from /\ from + 1 <= e + 1
    BY <1>2
  <2>3. /\ SubSeq(str, from + 1, e) \in Seq(C) /\ Len(SubSeq(str, from + 1, e)) = e - from
        /\ \A k \in 1 .. e - from : SubSeq(str, from + 1, e)[k] = str[from + 1 + k - 1]
    BY <2>1, <2>2, SubSeqProperties
  <2>4. \A k \in 1 .. e - from : from + 1 + k - 1 = from + k
    OBVIOUS
  <2>5. QED
    BY <2>3, <2>4
<1>5. s = FieldAt(str, delim, from)
  BY <1>2, <1>4 DEF FieldAt
<1>6. ~Includes(s, delim)
  <2>1. SUFFICES ASSUME Find(s, delim, 0) # NPos PROVE FALSE
    BY DEF Includes
  <2>2. PICK i \in Nat : i + d <= e - from /\ OccursAt(s, delim, i)
    <3>1. 0 \in 0 .. Len(s)
      BY <1>4
    <3>2. Find(s, delim, 0) \in 0 .. Len(s) - Len(delim) /\ OccursAt(s, delim, Find(s, delim, 0))
      BY <2>1, <3>1, FindFirst
    <3>3. QED
      BY <1>1, <1>4, <3>2
  <2>3. \A k \in 1 .. d : s[i + k] = delim[k]
    <3>1. Len(s) = e - from
      BY <1>4
    <3>2. i + Len(delim) <= Len(s)
      BY <1>1, <2>2, <3>1
    <3>3. OccursAt(s, delim, i) <=> \A k \in 1 .. Len(delim) : s[i + k] = delim[k]
      BY <3>2, OccursElements
    <3>4. QED
      BY <1>1, <2>2, <3>3
  <2>4. PICK j \in Nat : j = from + i /\ j + d <= e
    <3>1. from + i \in Nat /\ from + i + d <= e
      BY <1>2, <2>2
    <3>2. QED
      BY <3>1
  <2>5. \A k \in 1 .. d : str[j + k] = delim[k]
    <3>1. ASSUME NEW k \in 1 .. d PROVE str[j + k] = delim[k]
      <4>1. PICK h \in 1 .. e - from : h = i + k /\ from + h = j + k
        <5>1. i + k \in 1 .. e - from /\ from + (i + k) = j + k
          BY <1>2, <2>2, <2>4
        <5>2. QED
          BY <5>1
      <4>2. s[h] = str[from + h]
        BY <1>4
      <4>3. QED
        BY <2>3, <4>1, <4>2
    <3>2. QED
      BY <3>1
  <2>6. j + d <= n
    BY <1>2, <2>4
  <2>7. OccursAt(str, delim, j)
    BY <1>1, <2>5, <2>6, OccursElements
  <2>8. j \in from .. Len(str) - Len(delim)
    BY <1>1, <2>4, <2>6
  <2>9. it # NPos /\ it <= j
    BY <1>2, <2>7, <2>8, FindFirst
  <2>10. QED
    BY <1>1, <1>2, <2>4, <2>9
<1>7. QED
  BY <1>2, <1>3, <1>4, <1>5, <1>6

\* A field, and those that f has from its end on.
FieldsFrom(str, delim, f, from) ==
  <<FieldAt(str, delim, from)>>
    \o (IF Find(str, delim, from) = NPos THEN <<>> ELSE f[FieldEnd(str, delim, from) + Len(delim)])

\* Where the next field begins: past the end if there is none.
NextField(str, delim, from) ==
  IF Find(str, delim, from) = NPos THEN Len(str) + 1 ELSE FieldEnd(str, delim, from) + Len(delim)

LEMMA FieldsGoOn ==
  ASSUME NEW C, NEW str \in Seq(C), NEW delim \in Seq(C), Len(delim) > 0,
         NEW n \in Nat, n = Len(str)
  PROVE  LeadsOn([i \in 0 .. n |-> NextField(str, delim, i)], n)
<1>1. ASSUME NEW i \in 0 .. n
      PROVE  NextField(str, delim, i) \in 1 .. n + 1 /\ NextField(str, delim, i) > i
  <2>1. CASE Find(str, delim, i) = NPos
    <3>1. NextField(str, delim, i) = Len(str) + 1
      BY <2>1 DEF NextField
    <3>2. QED
      BY <3>1
  <2>2. CASE Find(str, delim, i) # NPos
    <3>1. NextField(str, delim, i) = FieldEnd(str, delim, i) + Len(delim)
      BY <2>2 DEF NextField
    <3>2. FieldEnd(str, delim, i) + Len(delim) \in i + 1 .. n
      BY <2>2, EndOfField
    <3>3. QED
      BY <3>1, <3>2
  <2>3. QED
    BY <2>1, <2>2
<1>2. QED
  BY <1>1 DEF LeadsOn

\* The loop's fields: what stringSplit gives is what one of its turns adds to the rest.
LEMMA SplitEquations ==
  ASSUME NEW C, NEW str \in Seq(C), NEW delim \in Seq(C), Len(delim) > 0
  PROVE  \E f : /\ StringSplit(str, delim) = f[0]
                /\ \A i \in 0 .. Len(str) : f[i] = FieldsFrom(str, delim, f, i)
<1> DEFINE E(h, prev) ==
             LET it == Find(str, delim, prev)
                 field == Substr(str, prev, it - prev)
             IN  <<field>> \o IF it = NPos THEN <<>> ELSE h[prev + Len(delim) + Len(field)]
           F(h) == [prev \in 0 .. Len(str) |-> E(h, prev)]
           c == CHOOSE h : h = F(h)
<1>1. PICK n \in Nat : n = Len(str)
  OBVIOUS
<1>2. ASSUME NEW i \in 0 .. n, NEW h PROVE E(h, i) = FieldsFrom(str, delim, h, i)
  <2>1. Substr(str, i, Find(str, delim, i) - i) = FieldAt(str, delim, i)
    BY <1>1, FieldTaken
  <2>2. i + Len(delim) + Len(FieldAt(str, delim, i)) = FieldEnd(str, delim, i) + Len(delim)
    <3>1. Len(FieldAt(str, delim, i)) = FieldEnd(str, delim, i) - i
      BY <1>1, FieldTaken
    <3>2. FieldEnd(str, delim, i) \in Nat
      BY <1>1, EndOfField
    <3>3. QED
      BY <3>1, <3>2
  <2>3. QED
    BY <2>1, <2>2, Zenon DEF FieldsFrom
<1> DEFINE next == [i \in 0 .. n |-> NextField(str, delim, i)]
           T == Seq(Seq(C))
           g == [i \in 0 .. n |-> [x \in T |-> <<FieldAt(str, delim, i)>> \o x]]
<1>3. LeadsOn(next, n)
  BY <1>1, FieldsGoOn
<1>4. <<>> \in T /\ IsRule(g, T, 0, n)
  <2>1. ASSUME NEW i \in 0 .. n, NEW x \in T PROVE <<FieldAt(str, delim, i)>> \o x \in T
    <3>1. FieldAt(str, delim, i) \in Seq(C)
      BY <1>1, FieldTaken
    <3>2. QED
      BY <3>1, FlattenPrepend
  <2>2. <<>> \in T
    OBVIOUS
  <2> HIDE DEF T
  <2>3. QED
    BY <2>1, <2>2 DEF IsRule
<1> HIDE DEF next, g, T
<1>5. PICK f : f \in [0 .. n + 1 -> T] /\ FollowsOn(f, g, next, <<>>, n)
  <2>1. PICK a \in T : a = <<>>
    BY <1>4
  <2>2. \E f : f \in [0 .. n + 1 -> T] /\ FollowsOn(f, g, next, a, n)
    BY <1>3, <1>4, RecursionDown
  <2>3. QED
    BY <2>1, <2>2
<1>6. ASSUME NEW i \in 0 .. n PROVE f[i] = FieldsFrom(str, delim, f, i)
  <2>1. next[i] \in 0 .. n + 1 /\ f[next[i]] \in T
    BY <1>3, <1>5 DEF LeadsOn
  <2>2. f[i] = <<FieldAt(str, delim, i)>> \o f[next[i]]
    <3>1. f[i] = g[i][f[next[i]]]
      BY <1>5 DEF FollowsOn
    <3>2. QED
      BY <2>1, <3>1 DEF g
  <2>3. next[i] = IF Find(str, delim, i) = NPos THEN n + 1 ELSE FieldEnd(str, delim, i) + Len(delim)
    BY <1>1 DEF next, NextField
  <2>4. f[next[i]] = IF Find(str, delim, i) = NPos THEN <<>>
                     ELSE f[FieldEnd(str, delim, i) + Len(delim)]
    BY <1>5, <2>3, Zenon DEF FollowsOn
  <2>5. QED
    BY <2>2, <2>4, Zenon DEF FieldsFrom
<1> HIDE DEF E
<1> DEFINE f0 == [i \in 0 .. n |-> f[i]]
<1>7. f0 = F(f0)
  <2>1. ASSUME NEW i \in 0 .. n PROVE f0[i] = E(f0, i)
    <3>1. f0[i] = FieldsFrom(str, delim, f, i)
      BY <1>6
    <3>2. Find(str, delim, i) # NPos => FieldEnd(str, delim, i) + Len(delim) \in 0 .. n
      BY <1>1, EndOfField
    <3>3. Find(str, delim, i) # NPos =>
            f0[FieldEnd(str, delim, i) + Len(delim)] = f[FieldEnd(str, delim, i) + Len(delim)]
      BY <3>2
    <3>4. FieldsFrom(str, delim, f, i) = FieldsFrom(str, delim, f0, i)
      <4> HIDE DEF f0
      <4>1. QED
        BY <3>3, Zenon DEF FieldsFrom
    <3>5. QED
      BY <1>2, <3>1, <3>4
  <2>2. QED
    BY <1>1, <2>1, Zenon
<1>8. c = F(c)
  <2> HIDE DEF f0
  <2>1. QED
    BY <1>7
<1> HIDE DEF F
<1>9. StringSplit(str, delim) = FieldsFrom(str, delim, c, 0)
  <2> DEFINE it == Find(str, delim, 0)
  <2>1. Substr(str, 0, it) = FieldAt(str, delim, 0)
    <3>1. it \in Int /\ 0 \in 0 .. Len(str)
      BY EndOfField
    <3>2. it - 0 = it
      BY <3>1
    <3>3. Substr(str, 0, it - 0) = FieldAt(str, delim, 0)
      BY <3>1, FieldTaken
    <3>4. QED
      BY <3>2, <3>3, Zenon
  <2>2. it # NPos => it = FieldEnd(str, delim, 0)
    BY EndOfField
  <2>3. StringSplit(str, delim) =
          <<Substr(str, 0, it)>> \o (IF it = NPos THEN <<>> ELSE c[it + Len(delim)])
    BY Zenon DEF StringSplit, F, E
  <2> HIDE DEF c, it
  <2>4. CASE it = NPos
    BY <2>1, <2>3, <2>4, Zenon DEF FieldsFrom, it
  <2>5. CASE it # NPos
    BY <2>1, <2>2, <2>3, <2>5, Zenon DEF FieldsFrom, it
  <2>6. QED
    BY <2>4, <2>5
<1>10. \A i \in 0 .. n : c[i] = FieldsFrom(str, delim, c, i)
  <2>1. ASSUME NEW i \in 0 .. n PROVE c[i] = FieldsFrom(str, delim, c, i)
    <3> HIDE DEF c
    <3>1. c[i] = E(c, i)
      BY <1>1, <1>8 DEF F
    <3>2. QED
      BY <1>2, <3>1
  <2>2. QED
    BY <2>1
<1>11. c[0] = FieldsFrom(str, delim, c, 0)
  <2> HIDE DEF c
  <2>1. 0 \in 0 .. n
    OBVIOUS
  <2>2. QED
    BY <1>10, <2>1
<1>12. PICK d : d = c
  OBVIOUS
<1> HIDE DEF c
<1>13. QED
  BY <1>1, <1>9, <1>10, <1>11, <1>12

\* A first element before a sequence.
LEMMA FirstAndRest ==
  ASSUME NEW U, NEW x \in U, NEW w \in Seq(U)
  PROVE  /\ <<x>> \o w \in Seq(U) /\ Len(<<x>> \o w) = 1 + Len(w) /\ (<<x>> \o w)[1] = x
         /\ \A k \in 1 .. Len(w) : (<<x>> \o w)[1 + k] = w[k]
<1>1. PICK o \in Seq(U) : o = <<x>> /\ Len(o) = 1 /\ o[1] = x
  <2>1. <<x>> \in Seq(U) /\ Len(<<x>>) = 1 /\ <<x>>[1] = x
    OBVIOUS
  <2>2. QED
    BY <2>1
<1>2. /\ o \o w \in Seq(U) /\ Len(o \o w) = Len(o) + Len(w)
      /\ \A i \in 1 .. Len(o) + Len(w) :
           (o \o w)[i] = IF i <= Len(o) THEN o[i] ELSE w[i - Len(o)]
  BY ConcatProperties, Zenon
<1>3. (o \o w)[1] = x
  BY <1>1, <1>2
<1>4. ASSUME NEW k \in 1 .. Len(w) PROVE (o \o w)[1 + k] = w[k]
  <2>1. 1 + k \in 1 .. Len(o) + Len(w) /\ ~(1 + k <= Len(o)) /\ 1 + k - Len(o) = k
    BY <1>1
  <2>2. QED
    BY <1>2, <2>1
<1>5. Len(o \o w) = 1 + Len(w)
  BY <1>1, <1>2
<1>6. QED
  BY <1>1, <1>2, <1>3, <1>4, <1>5, Zenon

\* The fields with the delimiter after each.
Ended(fields, delim) == [i \in DOMAIN fields |-> fields[i] \o delim]

LEMMA EndedFields ==
  ASSUME NEW C, NEW delim \in Seq(C), NEW w \in Seq(Seq(C))
  PROVE  /\ Ended(w, delim) \in Seq(Seq(C)) /\ Len(Ended(w, delim)) = Len(w)
         /\ \A i \in 1 .. Len(w) : Ended(w, delim)[i] = w[i] \o delim
<1>1. PICK n \in Nat : n = Len(w) /\ DOMAIN w = 1 .. n
  OBVIOUS
<1>2. \A i \in 1 .. n : w[i] \o delim \in Seq(C)
  <2>1. \A i \in 1 .. n : w[i] \in Seq(C)
    BY <1>1
  <2>2. QED
    BY <2>1
<1>3. Ended(w, delim) = [i \in 1 .. n |-> w[i] \o delim]
  BY <1>1, Zenon DEF Ended
<1>4. PICK U : U = Seq(C)
  OBVIOUS
<1>5. Ended(w, delim) \in Seq(U)
  BY <1>2, <1>3, <1>4, IsASeq
<1>6. Len(Ended(w, delim)) = n
  <2>1. DOMAIN Ended(w, delim) = 1 .. n
    BY <1>3
  <2>2. QED
    BY <2>1, <1>5, LenProperties
<1>7. QED
  BY <1>1, <1>3, <1>4, <1>5, <1>6

LEMMA EndedFirst ==
  ASSUME NEW C, NEW delim \in Seq(C), NEW x \in Seq(C), NEW w \in Seq(Seq(C))
  PROVE  Ended(<<x>> \o w, delim) = <<x \o delim>> \o Ended(w, delim)
<1>1. PICK U : U = Seq(C)
  OBVIOUS
<1>2. PICK y \in U : y = x \o delim
  <2>1. x \o delim \in Seq(C)
    OBVIOUS
  <2>2. QED
    BY <1>1, <2>1, Zenon
<1>3. PICK v \in Seq(U), n \in Nat :
        /\ v = Ended(w, delim) /\ Len(v) = n /\ n = Len(w)
        /\ \A i \in 1 .. n : v[i] = w[i] \o delim
  <2>1. /\ Ended(w, delim) \in Seq(Seq(C)) /\ Len(Ended(w, delim)) = Len(w)
        /\ \A i \in 1 .. Len(w) : Ended(w, delim)[i] = w[i] \o delim
    BY EndedFields
  <2>2. Len(w) \in Nat
    OBVIOUS
  <2>3. QED
    BY <1>1, <2>1, <2>2, Zenon
<1>4. PICK a \in Seq(U) :
        /\ a = <<x>> \o w /\ Len(a) = 1 + n /\ a[1] = x /\ \A k \in 1 .. n : a[1 + k] = w[k]
  <2>1. x \in U /\ w \in Seq(U)
    BY <1>1
  <2>2. /\ <<x>> \o w \in Seq(U) /\ Len(<<x>> \o w) = 1 + Len(w) /\ (<<x>> \o w)[1] = x
        /\ \A k \in 1 .. Len(w) : (<<x>> \o w)[1 + k] = w[k]
    BY <2>1, FirstAndRest
  <2>3. QED
    BY <1>3, <2>2, Zenon
<1>5. PICK b \in Seq(U) :
        /\ b = <<y>> \o v /\ Len(b) = 1 + n /\ b[1] = y /\ \A k \in 1 .. n : b[1 + k] = v[k]
  <2>1. /\ <<y>> \o v \in Seq(U) /\ Len(<<y>> \o v) = 1 + Len(v) /\ (<<y>> \o v)[1] = y
        /\ \A k \in 1 .. Len(v) : (<<y>> \o v)[1 + k] = v[k]
    BY FirstAndRest
  <2>2. QED
    BY <1>3, <2>1, Zenon
<1>6. PICK e \in Seq(U) : /\ e = Ended(a, delim) /\ Len(e) = 1 + n
                          /\ \A i \in 1 .. 1 + n : e[i] = a[i] \o delim
  <2>1. a \in Seq(Seq(C))
    BY <1>1, Zenon
  <2>2. /\ Ended(a, delim) \in Seq(Seq(C)) /\ Len(Ended(a, delim)) = Len(a)
        /\ \A i \in 1 .. Len(a) : Ended(a, delim)[i] = a[i] \o delim
    BY <2>1, EndedFields
  <2>3. QED
    BY <1>1, <1>4, <2>2, Zenon
<1>7. ASSUME NEW i \in 1 .. 1 + n PROVE e[i] = b[i]
  <2>1. CASE i = 1
    <3>1. e[i] = a[1] \o delim
      BY <1>6, <2>1
    <3>2. QED
      BY <1>2, <1>4, <1>5, <2>1, <3>1, Zenon
  <2>2. CASE i # 1
    <3>1. PICK k \in 1 .. n : i = 1 + k
      <4>1. i - 1 \in 1 .. n /\ i = 1 + (i - 1)
        BY <2>2
      <4>2. QED
        BY <4>1
    <3>2. e[i] = w[k] \o delim
      BY <1>4, <1>6, <3>1, Zenon
    <3>3. b[i] = w[k] \o delim
      BY <1>3, <1>5, <3>1, Zenon
    <3>4. QED
      BY <3>2, <3>3, Zenon
  <2>3. QED
    BY <2>1, <2>2
<1>8. e = b
  BY <1>5, <1>6, <1>7, SeqEqual
<1>9. QED
  BY <1>2, <1>3, <1>4, <1>5, <1>6, <1>8, Zenon

\* The fields w are all there is in r, and none of them has the delimiter.
Keeps(C, w, r, delim) ==
  /\ w \in Seq(Seq(C))
  /\ \A k \in 1 .. Len(w) : ~Includes(w[k], delim)
  /\ FlattenSeq(Ended(w, delim)) = r \o delim

LEMMA KeepsFirst ==
  ASSUME NEW C, NEW delim \in Seq(C), NEW x \in Seq(C), ~Includes(x, delim),
         NEW w \in Seq(Seq(C)), \A k \in 1 .. Len(w) : ~Includes(w[k], delim)
  PROVE  /\ <<x>> \o w \in Seq(Seq(C))
         /\ \A k \in 1 .. Len(<<x>> \o w) : ~Includes((<<x>> \o w)[k], delim)
         /\ FlattenSeq(Ended(<<x>> \o w, delim)) = (x \o delim) \o FlattenSeq(Ended(w, delim))
<1>1. PICK U : U = Seq(C)
  OBVIOUS
<1>2. PICK a \in Seq(U), n \in Nat :
        /\ a = <<x>> \o w /\ n = Len(w) /\ Len(a) = 1 + n
        /\ a[1] = x /\ \A k \in 1 .. n : a[1 + k] = w[k]
  <2>1. x \in U /\ w \in Seq(U)
    BY <1>1
  <2>2. /\ <<x>> \o w \in Seq(U) /\ Len(<<x>> \o w) = 1 + Len(w) /\ (<<x>> \o w)[1] = x
        /\ \A k \in 1 .. Len(w) : (<<x>> \o w)[1 + k] = w[k]
    BY <2>1, FirstAndRest
  <2>3. Len(w) \in Nat
    OBVIOUS
  <2>4. QED
    BY <2>2, <2>3, Zenon
<1>3. ASSUME NEW k \in 1 .. 1 + n PROVE ~Includes(a[k], delim)
  <2>1. CASE k = 1
    BY <1>2, <2>1
  <2>2. CASE k # 1
    <3>1. PICK j \in 1 .. n : k = 1 + j
      <4>1. k - 1 \in 1 .. n /\ k = 1 + (k - 1)
        BY <2>2
      <4>2. QED
        BY <4>1
    <3>2. a[k] = w[j]
      BY <1>2, <3>1, Zenon
    <3>3. QED
      BY <1>2, <3>2, Zenon
  <2>3. QED
    BY <2>1, <2>2
<1>4. PICK v \in Seq(Seq(C)) : v = Ended(w, delim)
  <2>1. Ended(w, delim) \in Seq(Seq(C))
    BY EndedFields
  <2>2. QED
    BY <2>1, Zenon
<1>5. PICK y \in Seq(C) : y = x \o delim
  <2>1. x \o delim \in Seq(C)
    OBVIOUS
  <2>2. QED
    BY <2>1, Zenon
<1>6. Ended(<<x>> \o w, delim) = <<y>> \o v
  <2>1. Ended(<<x>> \o w, delim) = <<x \o delim>> \o Ended(w, delim)
    BY EndedFirst
  <2>2. QED
    BY <1>4, <1>5, <2>1, Zenon
<1>7. FlattenSeq(<<y>> \o v) = y \o FlattenSeq(v)
  BY FlattenPrepend
<1>8. QED
  BY <1>1, <1>2, <1>3, <1>4, <1>5, <1>6, <1>7, Zenon

LEMMA KeepsLast ==
  ASSUME NEW C, NEW delim \in Seq(C), NEW x \in Seq(C), ~Includes(x, delim)
  PROVE  Keeps(C, <<x>> \o <<>>, x, delim)
<1>1. PICK w \in Seq(Seq(C)) : w = <<>> /\ Len(w) = 0
  <2>1. <<>> \in Seq(Seq(C)) /\ Len(<<>>) = 0
    BY EmptySeq
  <2>2. QED
    BY <2>1, Zenon
<1>2. \A k \in 1 .. Len(w) : ~Includes(w[k], delim)
  BY <1>1
<1>3. /\ <<x>> \o w \in Seq(Seq(C))
      /\ \A k \in 1 .. Len(<<x>> \o w) : ~Includes((<<x>> \o w)[k], delim)
      /\ FlattenSeq(Ended(<<x>> \o w, delim)) = (x \o delim) \o FlattenSeq(Ended(w, delim))
  BY <1>2, KeepsFirst, Zenon
<1>4. FlattenSeq(Ended(w, delim)) = <<>>
  <2>1. Ended(w, delim) \in Seq(Seq(C)) /\ Len(Ended(w, delim)) = 0
    BY <1>1, EndedFields, Zenon
  <2>2. Ended(w, delim) = <<>>
    BY <2>1, EmptySeq
  <2>3. FlattenSeq(<<>>) = <<>>
    BY DEF FlattenSeq
  <2>4. QED
    BY <2>2, <2>3, Zenon
<1>5. (x \o delim) \o <<>> = x \o delim
  <2>1. x \o delim \in Seq(C)
    OBVIOUS
  <2>2. QED
    BY <2>1, ConcatEmptySeq
<1>6. QED
  BY <1>1, <1>3, <1>4, <1>5, Zenon DEF Keeps

LEMMA KeepsMore ==
  ASSUME NEW C, NEW delim \in Seq(C), NEW x \in Seq(C), ~Includes(x, delim),
         NEW w, NEW r \in Seq(C), Keeps(C, w, r, delim)
  PROVE  Keeps(C, <<x>> \o w, (x \o delim) \o r, delim)
<1>1. /\ w \in Seq(Seq(C)) /\ \A k \in 1 .. Len(w) : ~Includes(w[k], delim)
      /\ FlattenSeq(Ended(w, delim)) = r \o delim
  BY Zenon DEF Keeps
<1>2. /\ <<x>> \o w \in Seq(Seq(C))
      /\ \A k \in 1 .. Len(<<x>> \o w) : ~Includes((<<x>> \o w)[k], delim)
      /\ FlattenSeq(Ended(<<x>> \o w, delim)) = (x \o delim) \o FlattenSeq(Ended(w, delim))
  BY <1>1, KeepsFirst, Zenon
<1>3. x \o delim \in Seq(C)
  OBVIOUS
<1>4. ((x \o delim) \o r) \o delim = (x \o delim) \o (r \o delim)
  <2>1. Grouped(x \o delim, r, delim)
    BY <1>3, ThreeStrings, Zenon
  <2>2. QED
    BY <2>1, Zenon DEF Grouped
<1>5. QED
  BY <1>1, <1>2, <1>4, Zenon DEF Keeps

\* What is left at a field is the field, the delimiter and what is left after them.
LEMMA RestOfLine ==
  ASSUME NEW C, NEW str \in Seq(C), NEW delim \in Seq(C), Len(delim) > 0, NEW i \in 0 .. Len(str)
  PROVE  /\ Find(str, delim, i) = NPos => FieldAt(str, delim, i) = SubSeq(str, i + 1, Len(str))
         /\ Find(str, delim, i) # NPos =>
              LET j == FieldEnd(str, delim, i) + Len(delim) IN
                /\ SubSeq(str, j + 1, Len(str)) \in Seq(C)
                /\ (FieldAt(str, delim, i) \o delim) \o SubSeq(str, j + 1, Len(str))
                     = SubSeq(str, i + 1, Len(str))
<1>1. CASE Find(str, delim, i) = NPos
  <2>1. FieldAt(str, delim, i) = SubSeq(str, i + 1, Len(str))
    BY <1>1 DEF FieldAt, FieldEnd
  <2>2. QED
    BY <1>1, <2>1
<1>2. CASE Find(str, delim, i) # NPos
  <2>1. PICK n \in Nat, e \in Nat, j \in Nat :
          /\ n = Len(str) /\ e = FieldEnd(str, delim, i) /\ j = e + Len(delim)
          /\ e = Find(str, delim, i) /\ i <= e /\ j <= n
    <3>1. /\ FieldEnd(str, delim, i) \in Nat /\ i <= FieldEnd(str, delim, i)
          /\ FieldEnd(str, delim, i) = Find(str, delim, i)
          /\ FieldEnd(str, delim, i) + Len(delim) \in Nat
          /\ FieldEnd(str, delim, i) + Len(delim) <= Len(str)
      BY <1>2, EndOfField
    <3>2. QED
      BY <3>1
  <2>2. delim = SubSeq(str, e + 1, j)
    <3>1. OccursAt(str, delim, e)
      BY <1>2, <2>1, FindFirst
    <3>2. QED
      BY <2>1, <3>1 DEF OccursAt
  <2>3. FieldAt(str, delim, i) \o delim = SubSeq(str, i + 1, j)
    <3>1. PICK m \in 1 .. Len(str) + 1 : m = i + 1
      OBVIOUS
    <3>2. e \in m - 1 .. Len(str) /\ j \in e .. Len(str)
      BY <2>1, <3>1
    <3>3. SubSeq(str, m, e) \o SubSeq(str, e + 1, j) = SubSeq(str, m, j)
      BY <3>2, ConcatAdjacentSubSeq
    <3>4. QED
      BY <2>1, <2>2, <3>1, <3>3, Zenon DEF FieldAt
  <2>4. SubSeq(str, i + 1, j) \o SubSeq(str, j + 1, Len(str)) = SubSeq(str, i + 1, Len(str))
    <3>1. PICK m \in 1 .. Len(str) + 1 : m = i + 1
      OBVIOUS
    <3>2. j \in m - 1 .. Len(str) /\ Len(str) \in j .. Len(str)
      BY <2>1, <3>1
    <3>3. SubSeq(str, m, j) \o SubSeq(str, j + 1, Len(str)) = SubSeq(str, m, Len(str))
      BY <3>2, ConcatAdjacentSubSeq
    <3>4. QED
      BY <3>1, <3>3, Zenon
  <2>5. SubSeq(str, j + 1, Len(str)) \in Seq(C)
    <3>1. \A k \in j + 1 .. Len(str) : str[k] \in C
      BY <2>1
    <3>2. QED
      BY <2>1, <3>1, SubSeqProperties
  <2>6. QED
    BY <1>2, <2>1, <2>3, <2>4, <2>5, Zenon
<1>3. QED
  BY <1>1, <1>2, Zenon

\* Each turn of the loop, and those after it, keep all that is left of the line.
LEMMA SplitKeeps ==
  ASSUME NEW C, NEW line \in Seq(C), NEW delim \in Seq(C), Len(delim) > 0
  PROVE  \E f : /\ StringSplit(line, delim) = f[0]
                /\ \A i \in 0 .. Len(line) :
                     /\ f[i] = FieldsFrom(line, delim, f, i)
                     /\ Keeps(C, f[i], SubSeq(line, i + 1, Len(line)), delim)
<1>1. PICK n \in Nat : n = Len(line)
  OBVIOUS
<1>2. PICK f : /\ StringSplit(line, delim) = f[0]
               /\ \A i \in 0 .. n : f[i] = FieldsFrom(line, delim, f, i)
  BY <1>1, SplitEquations
<1> DEFINE next == [i \in 0 .. n |-> NextField(line, delim, i)]
           Kept(i) == Keeps(C, f[i], SubSeq(line, i + 1, n), delim)
           S == {i \in 0 .. n : Kept(i)}
<1>3. LeadsOn(next, n)
  BY <1>1, FieldsGoOn
<1>4. ASSUME NEW i \in 0 .. n, next[i] = n + 1 \/ next[i] \in S PROVE i \in S
  <2>1. PICK x \in Seq(C) : x = FieldAt(line, delim, i) /\ ~Includes(x, delim)
    BY <1>1, FieldTaken
  <2>2. CASE Find(line, delim, i) = NPos
    <3>1. f[i] = <<x>> \o <<>>
      BY <1>2, <2>1, <2>2, Zenon DEF FieldsFrom
    <3>2. x = SubSeq(line, i + 1, n)
      BY <1>1, <2>1, <2>2, RestOfLine
    <3>3. Keeps(C, <<x>> \o <<>>, x, delim)
      BY <2>1, KeepsLast
    <3>4. Kept(i)
      BY <3>1, <3>2, <3>3, Zenon
    <3>5. QED
      BY <3>4
  <2>3. CASE Find(line, delim, i) # NPos
    <3>1. PICK j : j = FieldEnd(line, delim, i) + Len(delim)
      OBVIOUS
    <3>2. next[i] = j /\ j \in 0 .. n
      BY <1>1, <2>3, <3>1, EndOfField DEF NextField
    <3>3. Kept(j)
      <4> HIDE DEF next, Kept
      <4>1. j \in S
        BY <1>4, <3>2
      <4>2. QED
        BY <4>1
    <3>4. f[i] = <<x>> \o f[j]
      BY <1>2, <2>1, <2>3, <3>1, Zenon DEF FieldsFrom
    <3>5. PICK r \in Seq(C) :
            r = SubSeq(line, j + 1, n) /\ (x \o delim) \o r = SubSeq(line, i + 1, n)
      <4>1. /\ SubSeq(line, j + 1, n) \in Seq(C)
            /\ (x \o delim) \o SubSeq(line, j + 1, n) = SubSeq(line, i + 1, n)
        BY <1>1, <2>1, <2>3, <3>1, RestOfLine
      <4>2. QED
        BY <4>1, Zenon
    <3>6. Keeps(C, f[j], r, delim)
      BY <3>3, <3>5, Zenon
    <3>7. PICK w : w = f[j]
      OBVIOUS
    <3>8. Keeps(C, <<x>> \o w, (x \o delim) \o r, delim)
      BY <2>1, <3>6, <3>7, KeepsMore
    <3>9. Kept(i)
      BY <3>4, <3>5, <3>7, <3>8, Zenon
    <3>10. QED
      BY <3>9
  <2>4. QED
    BY <2>2, <2>3
<1>5. \A i \in 0 .. n : i \in S
  <2> HIDE DEF next, S
  <2>1. QED
    BY <1>3, <1>4, InductionDown
<1>6. \A i \in 0 .. n : Kept(i)
  <2> HIDE DEF Kept
  <2>1. QED
    BY <1>5
<1>7. QED
  BY <1>1, <1>2, <1>6, Zenon

\* StringSplit loses nothing of a line, for every line, delimiter and set of characters: no
\* field of stringSplit is lost, cut or doubled, whatever the delimiters are next to.
THEOREM SplitLossless ==
  ASSUME NEW C, NEW line \in Seq(C), NEW delim \in Seq(C), Len(delim) > 0
  PROVE  LosesNothing(line, delim)
<1>1. Keeps(C, StringSplit(line, delim), line, delim)
  <2>1. PICK f, z : /\ StringSplit(line, delim) = f[z] /\ z = 0
                    /\ \A i \in 0 .. Len(line) :
                         Keeps(C, f[i], SubSeq(line, i + 1, Len(line)), delim)
    BY SplitKeeps
  <2>2. z \in 0 .. Len(line) /\ z + 1 = 1
    BY <2>1
  <2>3. SubSeq(line, 1, Len(line)) = line
    BY SubSeqFull
  <2>4. QED
    BY <2>1, <2>2, <2>3, Zenon
<1>2. PICK w \in Seq(Seq(C)) :
        /\ w = StringSplit(line, delim) /\ \A k \in 1 .. Len(w) : ~Includes(w[k], delim)
        /\ FlattenSeq(Ended(w, delim)) = line \o delim
  BY <1>1 DEF Keeps
<1>3. DOMAIN w = 1 .. Len(w)
  OBVIOUS
<1>4. QED
  BY <1>2, <1>3, Zenon DEF LosesNothing, Ended

-----------------------------------------------------------------------------
(* Who is let in: the first two fields of a line *)

LEMMA OneCharacter ==
  ASSUME NEW C, NEW c \in C
  PROVE  <<c>> \in Seq(C) /\ Len(<<c>>) = 1
  OBVIOUS

Single(delim) == Len(delim) = 1

LEMMA CommaFacts ==
  ASSUME NEW C, "," \in C
  PROVE  Comma \in Seq(C) /\ Single(Comma)
  BY OneCharacter, Zenon DEF Comma, Single

\* A string without a delimiter of one character, element by element.
LEMMA WithoutDelim ==
  ASSUME NEW C, NEW delim \in Seq(C), Single(delim), NEW x \in Seq(C)
  PROVE  ~Includes(x, delim) <=> \A k \in 1 .. Len(x) : x[k] # delim[1]
<1>1. ASSUME NEW i \in Nat, i + 1 <= Len(x) PROVE OccursAt(x, delim, i) <=> x[i + 1] = delim[1]
  <2>1. OccursAt(x, delim, i) <=> \A k \in 1 .. Len(delim) : x[i + k] = delim[k]
    <3>1. i + Len(delim) <= Len(x)
      BY <1>1 DEF Single
    <3>2. QED
      BY <3>1, OccursElements
  <2>2. 1 \in 1 .. Len(delim) /\ \A k \in 1 .. Len(delim) : k = 1
    BY DEF Single
  <2>3. QED
    BY <2>1, <2>2, Zenon
<1>2. PICK z \in 0 .. Len(x) : z = 0
  OBVIOUS
<1>3. ASSUME Find(x, delim, z) = NPos, NEW k \in 1 .. Len(x) PROVE x[k] # delim[1]
  <2>1. k - 1 \in z .. Len(x) - Len(delim) /\ k - 1 \in Nat /\ k - 1 + 1 = k
    BY <1>2 DEF Single
  <2>2. ~OccursAt(x, delim, k - 1)
    BY <1>3, <2>1, FindFirst
  <2>3. QED
    BY <1>1, <2>1, <2>2
<1>4. ASSUME Find(x, delim, z) # NPos PROVE \E k \in 1 .. Len(x) : x[k] = delim[1]
  <2>1. PICK i : i \in z .. Len(x) - Len(delim) /\ OccursAt(x, delim, i)
    BY <1>4, FindFirst
  <2>2. i \in Nat /\ i + 1 <= Len(x) /\ i + 1 \in 1 .. Len(x)
    BY <1>2, <2>1 DEF Single
  <2>3. QED
    BY <1>1, <2>1, <2>2
<1>5. Includes(x, delim) <=> Find(x, delim, z) # NPos
  BY <1>2, Zenon DEF Includes
<1>6. QED
  BY <1>3, <1>4, <1>5

\* A string, such a delimiter and a string.
LEMMA AroundDelim ==
  ASSUME NEW C, NEW delim \in Seq(C), Single(delim), NEW x \in Seq(C), NEW u \in Seq(C)
  PROVE  /\ (x \o delim) \o u \in Seq(C)
         /\ Len((x \o delim) \o u) = Len(x) + 1 + Len(u)
         /\ \A k \in 1 .. Len(x) : ((x \o delim) \o u)[k] = x[k]
         /\ ((x \o delim) \o u)[Len(x) + 1] = delim[1]
<1>1. PICK p \in Nat, y \in Seq(C) :
        /\ p = Len(x) /\ y = x \o delim /\ Len(y) = p + 1 /\ y[p + 1] = delim[1]
        /\ \A k \in 1 .. p : y[k] = x[k]
  <2>1. PICK p \in Nat : p = Len(x)
    OBVIOUS
  <2>2. PICK y \in Seq(C), d \in Nat :
          /\ y = x \o delim /\ Len(y) = p + d /\ d = Len(delim)
          /\ \A k \in 1 .. p + d : y[k] = IF k <= p THEN x[k] ELSE delim[k - p]
    <3>1. /\ x \o delim \in Seq(C) /\ Len(x \o delim) = Len(x) + Len(delim)
          /\ \A k \in 1 .. Len(x) + Len(delim) :
               (x \o delim)[k] = IF k <= Len(x) THEN x[k] ELSE delim[k - Len(x)]
      BY ConcatProperties
    <3>2. Len(delim) \in Nat
      OBVIOUS
    <3>3. QED
      BY <2>1, <3>1, <3>2, Zenon
  <2>3. d = 1
    BY <2>2 DEF Single
  <2>4. y[p + 1] = delim[1]
    <3>1. PICK k \in 1 .. p + d, h \in Nat : k = p + 1 /\ ~(k <= p) /\ h = k - p /\ h = 1
      <4>1. p + 1 \in 1 .. p + d /\ ~(p + 1 <= p) /\ p + 1 - p = 1
        BY <2>3
      <4>2. QED
        BY <4>1
    <3>2. y[k] = delim[h]
      BY <2>2, <3>1, Zenon
    <3>3. QED
      BY <3>1, <3>2, Zenon
  <2>5. \A k \in 1 .. p : y[k] = x[k]
    BY <2>2
  <2>6. QED
    BY <2>1, <2>2, <2>3, <2>4, <2>5
<1>2. /\ y \o u \in Seq(C) /\ Len(y \o u) = Len(y) + Len(u)
      /\ \A k \in 1 .. Len(y) + Len(u) :
           (y \o u)[k] = IF k <= Len(y) THEN y[k] ELSE u[k - Len(y)]
  BY ConcatProperties
<1>3. \A k \in 1 .. p + 1 : (y \o u)[k] = y[k]
  BY <1>1, <1>2
<1>4. (y \o u)[p + 1] = delim[1] /\ \A k \in 1 .. p : (y \o u)[k] = x[k]
  BY <1>1, <1>3
<1>5. Len(y \o u) = p + 1 + Len(u)
  BY <1>1, <1>2
<1>6. QED
  BY <1>1, <1>2, <1>4, <1>5, Zenon

\* What is before the first delimiter, and after it, is one thing only.
LEMMA UniqueField ==
  ASSUME NEW C, NEW delim \in Seq(C), Single(delim),
         NEW x \in Seq(C), NEW u \in Seq(C), ~Includes(x, delim)
  PROVE  /\ Includes((x \o delim) \o u, delim)
         /\ \A y \in Seq(C), v \in Seq(C) :
              ~Includes(y, delim) /\ (x \o delim) \o u = (y \o delim) \o v => x = y /\ u = v
<1>1. PICK z \in Seq(C), p \in Nat :
        /\ z = (x \o delim) \o u /\ p = Len(x) /\ p + 1 <= Len(z)
        /\ z[p + 1] = delim[1] /\ \A k \in 1 .. p : z[k] = x[k]
  <2>1. PICK z \in Seq(C), p \in Nat, m \in Nat :
          /\ z = (x \o delim) \o u /\ p = Len(x) /\ m = Len(u) /\ Len(z) = p + 1 + m
          /\ z[p + 1] = delim[1] /\ \A k \in 1 .. p : z[k] = x[k]
    <3>1. /\ (x \o delim) \o u \in Seq(C)
          /\ Len((x \o delim) \o u) = Len(x) + 1 + Len(u)
          /\ \A k \in 1 .. Len(x) : ((x \o delim) \o u)[k] = x[k]
          /\ ((x \o delim) \o u)[Len(x) + 1] = delim[1]
      BY AroundDelim, Zenon
    <3>2. Len(x) \in Nat /\ Len(u) \in Nat
      OBVIOUS
    <3>3. QED
      BY <3>1, <3>2, Zenon
  <2>2. p + 1 <= p + 1 + m
    OBVIOUS
  <2>3. QED
    BY <2>1, <2>2, Zenon
<1>2. Includes(z, delim)
  <2>1. p + 1 \in 1 .. Len(z)
    BY <1>1
  <2>2. QED
    BY <1>1, <2>1, WithoutDelim, Zenon
<1>3. ASSUME NEW y \in Seq(C), NEW v \in Seq(C), ~Includes(y, delim),
             (x \o delim) \o u = (y \o delim) \o v
      PROVE  x = y /\ u = v
  <2>1. PICK q \in Nat : q = Len(y) /\ z[q + 1] = delim[1] /\ \A k \in 1 .. q : z[k] = y[k]
    <3>1. /\ (y \o delim) \o v \in Seq(C)
          /\ Len((y \o delim) \o v) = Len(y) + 1 + Len(v)
          /\ \A k \in 1 .. Len(y) : ((y \o delim) \o v)[k] = y[k]
          /\ ((y \o delim) \o v)[Len(y) + 1] = delim[1]
      BY AroundDelim, ZenonT(30)
    <3>2. (y \o delim) \o v = z /\ Len(y) \in Nat
      BY <1>1, <1>3
    <3>3. QED
      BY <3>1, <3>2, Zenon
  <2>2. /\ \A k \in 1 .. p : x[k] # delim[1]
        /\ \A k \in 1 .. q : y[k] # delim[1]
    BY <1>1, <1>3, <2>1, WithoutDelim, SMTT(30)
  <2>3. ~(p < q)
    <3>1. p < q => p + 1 \in 1 .. q
      OBVIOUS
    <3>2. QED
      BY <1>1, <2>1, <2>2, <3>1
  <2>4. ~(q < p)
    <3>1. q < p => q + 1 \in 1 .. p
      OBVIOUS
    <3>2. QED
      BY <1>1, <2>1, <2>2, <3>1
  <2>5. p = q
    BY <2>3, <2>4
  <2>6. x = y
    <3>1. Len(x) = Len(y) /\ \A k \in 1 .. Len(x) : x[k] = y[k]
      BY <1>1, <2>1, <2>5
    <3>2. QED
      BY <3>1, SeqEqual
  <2>7. u = v
    <3>1. PICK s \in Seq(C) : s = x \o delim
      <4>1. x \o delim \in Seq(C)
        OBVIOUS
      <4>2. QED
        BY <4>1, Zenon
    <3>2. s \o u = s \o v
      BY <1>3, <2>6, <3>1, Zenon
    <3>3. QED
      BY <3>2, ConcatSimplifications, Zenon
  <2>8. QED
    BY <2>6, <2>7
<1>4. QED
  BY <1>1, <1>2, <1>3, Zenon

\* A prefix leaves a rest.
LEMMA PrefixAndRest ==
  ASSUME NEW C, NEW s \in Seq(C), NEW t \in Seq(C)
  PROVE  IsPrefix(s, t) <=> \E u \in Seq(C) : t = s \o u
<1>1. ASSUME IsPrefix(s, t) PROVE \E u \in Seq(C) : t = s \o u
  <2>1. PICK m \in Nat, n \in Nat : /\ m = Len(s) /\ n = Len(t) /\ m <= n
                                   /\ SubSeq(s, 1, m) = SubSeq(t, 1, m)
    BY <1>1 DEF IsPrefix
  <2>2. SubSeq(s, 1, m) = s /\ SubSeq(t, 1, n) = t
    BY <2>1, SubSeqFull
  <2>3. SubSeq(t, m + 1, n) \in Seq(C)
    <3>1. \A k \in m + 1 .. n : t[k] \in C
      BY <2>1
    <3>2. QED
      BY <3>1, SubSeqProperties
  <2>4. SubSeq(t, 1, m) \o SubSeq(t, m + 1, n) = SubSeq(t, 1, n)
    <3>1. PICK o \in 1 .. Len(t) + 1 : o = 1
      OBVIOUS
    <3>2. m \in o - 1 .. Len(t) /\ n \in m .. Len(t)
      BY <2>1, <3>1
    <3>3. SubSeq(t, o, m) \o SubSeq(t, m + 1, n) = SubSeq(t, o, n)
      BY <3>2, ConcatAdjacentSubSeq
    <3>4. QED
      BY <3>1, <3>3
  <2>5. QED
    BY <2>1, <2>2, <2>3, <2>4, Zenon
<1>2. ASSUME NEW u \in Seq(C), t = s \o u PROVE IsPrefix(s, t)
  <2>1. Len(s) <= Len(t)
    <3>1. Len(t) = Len(s) + Len(u) /\ Len(s) \in Nat /\ Len(u) \in Nat
      BY <1>2, ConcatProperties
    <3>2. QED
      BY <3>1
  <2>2. CASE Len(s) = 0
    <3>1. SubSeq(s, 1, 0) = <<>> /\ SubSeq(t, 1, 0) = <<>>
      BY SubSeqEmpty
    <3>2. QED
      BY <2>1, <2>2, <3>1 DEF IsPrefix
  <2>3. CASE Len(s) # 0
    <3>1. PICK o \in 1 .. Len(s), m \in 1 .. Len(s) : o = 1 /\ m = Len(s)
      BY <2>3
    <3>2. SubSeq(s \o u, o, m) = SubSeq(s, o, m)
      BY SubSeqOfConcat1
    <3>3. QED
      BY <1>2, <2>1, <3>1, <3>2, Zenon DEF IsPrefix
  <2>4. QED
    BY <2>2, <2>3
<1>3. QED
  BY <1>1, <1>2, Zenon

\* A field of the line, and what is after it.
Turns(C, f, line, delim) ==
  \A i \in 0 .. Len(line) : /\ f[i] = FieldsFrom(line, delim, f, i)
                            /\ Keeps(C, f[i], SubSeq(line, i + 1, Len(line)), delim)

Rest(line, i) == SubSeq(line, i + 1, Len(line))

FieldThenRest(C, f, line, delim, i) ==
  \E x \in Seq(C) :
    /\ ~Includes(x, delim)
    /\ \/ f[i] = <<x>> \o <<>> /\ Rest(line, i) = x
       \/ \E j \in 0 .. Len(line) :
            /\ f[i] = <<x>> \o f[j] /\ Rest(line, j) \in Seq(C)
            /\ Rest(line, i) = (x \o delim) \o Rest(line, j)

LEMMA OneField ==
  ASSUME NEW C, NEW delim \in Seq(C), Single(delim), NEW line \in Seq(C),
         NEW f, Turns(C, f, line, delim), NEW i \in 0 .. Len(line)
  PROVE  f[i] \in Seq(Seq(C)) /\ FieldThenRest(C, f, line, delim, i)
<1>1. f[i] = FieldsFrom(line, delim, f, i) /\ f[i] \in Seq(Seq(C))
  BY Zenon DEF Turns, Keeps
<1>2. Len(delim) > 0
  BY DEF Single
<1>3. PICK x \in Seq(C) : x = FieldAt(line, delim, i) /\ ~Includes(x, delim)
  BY <1>2, FieldTaken
<1>4. CASE Find(line, delim, i) = NPos
  <2>1. f[i] = <<x>> \o <<>>
    BY <1>1, <1>3, <1>4, Zenon DEF FieldsFrom
  <2>2. SubSeq(line, i + 1, Len(line)) = x
    BY <1>2, <1>3, <1>4, RestOfLine
  <2>3. QED
    BY <1>1, <1>3, <2>1, <2>2, Zenon DEF FieldThenRest, Rest
<1>5. CASE Find(line, delim, i) # NPos
  <2>1. PICK j : j = FieldEnd(line, delim, i) + Len(delim)
    OBVIOUS
  <2>2. j \in 0 .. Len(line)
    BY <1>2, <1>5, <2>1, EndOfField
  <2>3. f[i] = <<x>> \o f[j]
    BY <1>1, <1>3, <1>5, <2>1, Zenon DEF FieldsFrom
  <2>4. /\ SubSeq(line, j + 1, Len(line)) \in Seq(C)
        /\ (x \o delim) \o SubSeq(line, j + 1, Len(line)) = SubSeq(line, i + 1, Len(line))
    BY <1>2, <1>3, <1>5, <2>1, RestOfLine
  <2>5. QED
    BY <1>1, <1>3, <2>2, <2>3, <2>4, Zenon DEF FieldThenRest, Rest
<1>6. QED
  BY <1>4, <1>5

\* The fields w of a line with a delimiter begin with x and y.
Begins(C, line, delim, w, x, y) ==
  /\ Len(w) >= 2 /\ w[1] = x /\ w[2] = y /\ ~Includes(x, delim) /\ ~Includes(y, delim)
  /\ \E r \in Seq(C) :
       line = (x \o delim) \o r /\ (r = y \/ \E u \in Seq(C) : r = (y \o delim) \o u)

LEMMA FirstFields ==
  ASSUME NEW C, NEW delim \in Seq(C), Single(delim), NEW line \in Seq(C)
  PROVE  LET w == StringSplit(line, delim) IN
           /\ w \in Seq(Seq(C))
           /\ \/ Len(w) = 1 /\ ~Includes(line, delim)
              \/ \E x \in Seq(C), y \in Seq(C) : Begins(C, line, delim, w, x, y)
<1>1. PICK f, z : StringSplit(line, delim) = f[z] /\ z = 0 /\ Turns(C, f, line, delim)
  <2>1. Len(delim) > 0
    BY DEF Single
  <2>2. PICK f : /\ StringSplit(line, delim) = f[0]
                 /\ \A i \in 0 .. Len(line) :
                      /\ f[i] = FieldsFrom(line, delim, f, i)
                      /\ Keeps(C, f[i], SubSeq(line, i + 1, Len(line)), delim)
    BY <2>1, SplitKeeps
  <2>3. Turns(C, f, line, delim)
    BY <2>2, Zenon DEF Turns
  <2>4. QED
    BY <2>2, <2>3
<1>2. z \in 0 .. Len(line)
  BY <1>1
<1>3. Rest(line, z) = line
  <2>1. z + 1 = 1
    BY <1>1
  <2>2. SubSeq(line, 1, Len(line)) = line
    BY SubSeqFull
  <2>3. QED
    BY <2>1, <2>2, Zenon DEF Rest
<1>4. PICK U : U = Seq(C)
  OBVIOUS
<1>5. PICK x \in Seq(C) :
        /\ ~Includes(x, delim)
        /\ \/ f[z] = <<x>> \o <<>> /\ Rest(line, z) = x
           \/ \E j \in 0 .. Len(line) :
                /\ f[z] = <<x>> \o f[j] /\ Rest(line, j) \in Seq(C)
                /\ Rest(line, z) = (x \o delim) \o Rest(line, j)
  <2>1. FieldThenRest(C, f, line, delim, z)
    BY <1>1, <1>2, OneField, Zenon
  <2>2. QED
    BY <2>1, Zenon DEF FieldThenRest
<1>6. f[z] \in Seq(Seq(C))
  BY <1>1, <1>2, OneField, Zenon
<1>7. CASE f[z] = <<x>> \o <<>> /\ Rest(line, z) = x
  <2>1. PICK v \in Seq(U) : v = <<>> /\ Len(v) = 0
    BY EmptySeq
  <2>2. x \in U
    BY <1>4
  <2>3. Len(<<x>> \o v) = 1 + Len(v)
    BY <2>2, FirstAndRest
  <2>4. Len(f[z]) = 1
    BY <1>7, <2>1, <2>3
  <2>5. QED
    BY <1>1, <1>3, <1>5, <1>6, <1>7, <2>4, Zenon
<1>8. ASSUME NEW j \in 0 .. Len(line),
             f[z] = <<x>> \o f[j], Rest(line, j) \in Seq(C),
             Rest(line, z) = (x \o delim) \o Rest(line, j)
      PROVE  \E y \in Seq(C) : Begins(C, line, delim, f[z], x, y)
  <2>1. PICK y \in Seq(C) :
          /\ ~Includes(y, delim)
          /\ \/ f[j] = <<y>> \o <<>> /\ Rest(line, j) = y
             \/ \E k \in 0 .. Len(line) :
                  /\ f[j] = <<y>> \o f[k] /\ Rest(line, k) \in Seq(C)
                  /\ Rest(line, j) = (y \o delim) \o Rest(line, k)
    <3>1. FieldThenRest(C, f, line, delim, j)
      BY <1>1, OneField, Zenon
    <3>2. QED
      BY <3>1, Zenon DEF FieldThenRest
  <2>2. PICK v \in Seq(U) : f[j] = <<y>> \o v
    <3>1. <<>> \in Seq(U)
      BY EmptySeq
    <3>2. \A k \in 0 .. Len(line) : f[k] \in Seq(U)
      BY <1>1, <1>4, OneField, Zenon
    <3>3. QED
      BY <2>1, <3>1, <3>2, Zenon
  <2>3. Rest(line, j) = y \/ \E u \in Seq(C) : Rest(line, j) = (y \o delim) \o u
    BY <2>1, Zenon
  <2>4. x \in U /\ y \in U
    BY <1>4
  <2>5. PICK a \in Seq(U) : a = f[j] /\ Len(a) = 1 + Len(v) /\ a[1] = y
    <3>1. <<y>> \o v \in Seq(U) /\ Len(<<y>> \o v) = 1 + Len(v) /\ (<<y>> \o v)[1] = y
      BY <2>4, FirstAndRest
    <3>2. QED
      BY <2>2, <3>1, Zenon
  <2>6. PICK b \in Seq(U) :
          b = f[z] /\ Len(b) = 1 + Len(a) /\ b[1] = x /\ \A k \in 1 .. Len(a) : b[1 + k] = a[k]
    <3>1. /\ <<x>> \o a \in Seq(U) /\ Len(<<x>> \o a) = 1 + Len(a) /\ (<<x>> \o a)[1] = x
          /\ \A k \in 1 .. Len(a) : (<<x>> \o a)[1 + k] = a[k]
      BY <2>4, FirstAndRest
    <3>2. QED
      BY <1>8, <2>5, <3>1, Zenon
  <2>7. Len(b) >= 2 /\ b[2] = y
    <3>1. Len(v) \in Nat
      OBVIOUS
    <3>2. PICK k \in 1 .. Len(a) : k = 1 /\ 1 + k = 2
      BY <2>5, <3>1
    <3>3. b[2] = y
      BY <2>5, <2>6, <3>2, Zenon
    <3>4. QED
      BY <2>5, <2>6, <3>1, <3>3
  <2>8. QED
    BY <1>3, <1>5, <1>8, <2>1, <2>3, <2>6, <2>7, ZenonT(30) DEF Begins
<1>9. QED
  BY <1>1, <1>5, <1>6, <1>7, <1>8, Zenon

\* The name of a line: its first field, if it has two.
LEMMA NameOfLine ==
  ASSUME NEW C, NEW delim \in Seq(C), Single(delim), NEW line \in Seq(C), NEW name \in Seq(C)
  PROVE  LET w == StringSplit(line, delim) IN
           Len(w) >= 2 /\ w[1] = name <=> ~Includes(name, delim) /\ IsPrefix(name \o delim, line)
<1>1. PICK w \in Seq(Seq(C)) :
        /\ w = StringSplit(line, delim)
        /\ \/ Len(w) = 1 /\ ~Includes(line, delim)
           \/ \E x \in Seq(C), y \in Seq(C) : Begins(C, line, delim, w, x, y)
  BY FirstFields, Zenon
<1>2. PICK a \in Seq(C) : a = name \o delim
  <2>1. name \o delim \in Seq(C)
    OBVIOUS
  <2>2. QED
    BY <2>1, Zenon
<1>3. IsPrefix(a, line) <=> \E u \in Seq(C) : line = a \o u
  BY PrefixAndRest
<1>4. ASSUME Len(w) >= 2, w[1] = name PROVE ~Includes(name, delim) /\ IsPrefix(a, line)
  <2>1. ~(Len(w) = 1)
    <3>1. \A l : l >= 2 => ~(l = 1)
      OBVIOUS
    <3>2. QED
      BY <1>4, <3>1, Zenon
  <2>2. PICK x \in Seq(C), y \in Seq(C) : Begins(C, line, delim, w, x, y)
    BY <1>1, <2>1, Zenon
  <2>3. x = name /\ ~Includes(x, delim) /\ \E r \in Seq(C) : line = (x \o delim) \o r
    BY <1>4, <2>2, Zenon DEF Begins
  <2>4. QED
    BY <1>2, <1>3, <2>3, Zenon
<1>5. ASSUME ~Includes(name, delim), IsPrefix(a, line) PROVE Len(w) >= 2 /\ w[1] = name
  <2>1. PICK u \in Seq(C) : line = (name \o delim) \o u
    BY <1>2, <1>3, <1>5, Zenon
  <2>2. Includes((name \o delim) \o u, delim)
    BY <1>5, UniqueField
  <2>3. PICK x \in Seq(C), y \in Seq(C) : Begins(C, line, delim, w, x, y)
    BY <1>1, <2>1, <2>2, Zenon
  <2>4. PICK r \in Seq(C) : line = (x \o delim) \o r
    BY <2>3, Zenon DEF Begins
  <2>5. Len(w) >= 2 /\ w[1] = x /\ ~Includes(x, delim)
    BY <2>3, Zenon DEF Begins
  <2>6. name = x
    <3>1. \A z \in Seq(C), v \in Seq(C) :
            ~Includes(z, delim) /\ (name \o delim) \o u = (z \o delim) \o v => name = z /\ u = v
      BY <1>5, UniqueField
    <3>2. QED
      BY <2>1, <2>4, <2>5, <3>1, Zenon
  <2>7. QED
    BY <2>5, <2>6, Zenon
<1>6. QED
  BY <1>1, <1>2, <1>4, <1>5, Zenon

Strings(C, s, t, d, v) == s \in Seq(C) /\ t \in Seq(C) /\ d \in Seq(C) /\ v \in Seq(C)
Regrouped(s, t, d, v) == ((s \o t) \o d) \o v = s \o ((t \o d) \o v)

LEMMA FourStrings ==
  ASSUME NEW C, NEW s, NEW t, NEW d, NEW v, Strings(C, s, t, d, v)
  PROVE  Regrouped(s, t, d, v)
<1>1. s \in Seq(C) /\ t \in Seq(C) /\ d \in Seq(C) /\ v \in Seq(C)
  BY DEF Strings
<1>2. t \o d \in Seq(C)
  BY <1>1
<1>3. Grouped(s, t, d) /\ Grouped(s, t \o d, v)
  BY <1>1, <1>2, ThreeStrings, Zenon
<1>4. QED
  BY <1>3, Zenon DEF Grouped, Regrouped

\* What Says says, with any delimiter.
SaysWith(line, name, password, delim) ==
  /\ ~Includes(name, delim) /\ ~Includes(password, delim)
  /\ \/ line = name \o delim \o password
     \/ IsPrefix(name \o delim \o password \o delim, line)

\* The password of a line: its second field.
LEMMA PasswordOfLine ==
  ASSUME NEW C, NEW delim \in Seq(C), Single(delim), NEW line \in Seq(C),
         NEW name \in Seq(C), NEW password \in Seq(C)
  PROVE  LET w == StringSplit(line, delim) IN
           Len(w) >= 2 /\ w[1] = name /\ w[2] = password <=> SaysWith(line, name, password, delim)
<1>1. PICK w \in Seq(Seq(C)) :
        /\ w = StringSplit(line, delim)
        /\ \/ Len(w) = 1 /\ ~Includes(line, delim)
           \/ \E x \in Seq(C), y \in Seq(C) : Begins(C, line, delim, w, x, y)
  BY FirstFields, Zenon
<1>2. PICK a \in Seq(C), b \in Seq(C) : a = name \o delim /\ b = password \o delim
  <2>1. name \o delim \in Seq(C) /\ password \o delim \in Seq(C)
    OBVIOUS
  <2>2. QED
    BY <2>1, Zenon
<1>3. PICK c \in Seq(C) : c = a \o b /\ c = (a \o password) \o delim
  <2>1. a \o b \in Seq(C)
    OBVIOUS
  <2>2. Grouped(a, password, delim)
    BY ThreeStrings, Zenon
  <2>3. QED
    BY <1>2, <2>1, <2>2, Zenon DEF Grouped
<1>4. IsPrefix(c, line) <=> \E u \in Seq(C) : line = c \o u
  BY PrefixAndRest
<1>5. \A u \in Seq(C) : c \o u = a \o (b \o u)
  <2>1. ASSUME NEW u \in Seq(C) PROVE c \o u = a \o (b \o u)
    <3>1. Strings(C, a, password, delim, u)
      BY DEF Strings
    <3>2. Regrouped(a, password, delim, u)
      BY <3>1, FourStrings, Zenon
    <3>3. QED
      BY <1>2, <1>3, <3>2, Zenon DEF Regrouped
  <2>2. QED
    BY <2>1
<1>6. SaysWith(line, name, password, delim) <=>
        /\ ~Includes(name, delim) /\ ~Includes(password, delim)
        /\ line = a \o password \/ \E u \in Seq(C) : line = a \o (b \o u)
  <2>1. name \o delim \o password = a \o password /\ name \o delim \o password \o delim = c
    BY <1>2, <1>3, Zenon
  <2>2. (\E u \in Seq(C) : line = c \o u) <=> (\E u \in Seq(C) : line = a \o (b \o u))
    BY <1>5, Zenon
  <2>3. SaysWith(line, name, password, delim) <=>
          /\ ~Includes(name, delim) /\ ~Includes(password, delim)
          /\ line = a \o password \/ IsPrefix(c, line)
    BY <2>1, Zenon DEF SaysWith
  <2>4. QED
    BY <1>4, <2>2, <2>3, Zenon
<1>7. ASSUME Len(w) >= 2, w[1] = name, w[2] = password PROVE SaysWith(line, name, password, delim)
  <2>1. ~(Len(w) = 1)
    <3>1. \A l : l >= 2 => ~(l = 1)
      OBVIOUS
    <3>2. QED
      BY <1>7, <3>1, Zenon
  <2>2. PICK x \in Seq(C), y \in Seq(C) : Begins(C, line, delim, w, x, y)
    BY <1>1, <2>1, Zenon
  <2>3. x = name /\ y = password /\ ~Includes(x, delim) /\ ~Includes(y, delim)
    BY <1>7, <2>2, Zenon DEF Begins
  <2>4. PICK r \in Seq(C) :
          line = (x \o delim) \o r /\ (r = y \/ \E u \in Seq(C) : r = (y \o delim) \o u)
    BY <2>2, Zenon DEF Begins
  <2>5. line = a \o r /\ (r = password \/ \E u \in Seq(C) : r = b \o u)
    BY <1>2, <2>3, <2>4, Zenon
  <2>6. QED
    BY <1>6, <2>3, <2>5, Zenon
<1>8. ASSUME SaysWith(line, name, password, delim)
      PROVE  Len(w) >= 2 /\ w[1] = name /\ w[2] = password
  <2>1. ~Includes(name, delim) /\ ~Includes(password, delim)
    BY <1>8, <1>6
  <2>2. PICK r \in Seq(C) :
          /\ line = (name \o delim) \o r
          /\ r = password \/ \E u \in Seq(C) : r = (password \o delim) \o u
    <3>1. \A u \in Seq(C) : b \o u \in Seq(C)
      OBVIOUS
    <3>2. QED
      BY <1>2, <1>6, <1>8, <3>1, Zenon
  <2>3. Includes((name \o delim) \o r, delim)
    BY <2>1, UniqueField
  <2>4. PICK x \in Seq(C), y \in Seq(C) : Begins(C, line, delim, w, x, y)
    BY <1>1, <2>2, <2>3, Zenon
  <2>5. /\ Len(w) >= 2 /\ w[1] = x /\ w[2] = y
        /\ ~Includes(x, delim) /\ ~Includes(y, delim)
    BY <2>4, Zenon DEF Begins
  <2>6. PICK s \in Seq(C) :
          line = (x \o delim) \o s /\ (s = y \/ \E u \in Seq(C) : s = (y \o delim) \o u)
    BY <2>4, Zenon DEF Begins
  <2>7. name = x /\ r = s
    <3>1. \A z \in Seq(C), v \in Seq(C) :
            ~Includes(z, delim) /\ (name \o delim) \o r = (z \o delim) \o v => name = z /\ r = v
      BY <2>1, UniqueField
    <3>2. QED
      BY <2>2, <2>5, <2>6, <3>1, Zenon
  <2>8. password = y
    <3>1. CASE r = password /\ s = y
      BY <2>7, <3>1
    <3>2. ASSUME r = password, NEW u \in Seq(C), s = (y \o delim) \o u PROVE FALSE
      <4>1. Includes((y \o delim) \o u, delim)
        BY <2>5, UniqueField
      <4>2. QED
        BY <2>1, <2>7, <3>2, <4>1, Zenon
    <3>3. ASSUME NEW u \in Seq(C), r = (password \o delim) \o u, s = y PROVE FALSE
      <4>1. Includes((password \o delim) \o u, delim)
        BY <2>1, UniqueField
      <4>2. QED
        BY <2>5, <2>7, <3>3, <4>1, Zenon
    <3>4. ASSUME NEW u \in Seq(C), r = (password \o delim) \o u,
                 NEW v \in Seq(C), s = (y \o delim) \o v
          PROVE  password = y
      <4>1. \A z \in Seq(C), t \in Seq(C) :
              ~Includes(z, delim) /\ (password \o delim) \o u = (z \o delim) \o t
                => password = z /\ u = t
        BY <2>1, UniqueField
      <4>2. QED
        BY <2>5, <2>7, <3>4, <4>1, Zenon
    <3>5. QED
      BY <2>2, <2>6, <3>1, <3>2, <3>3, <3>4, Zenon
  <2>9. QED
    BY <2>5, <2>7, <2>8, Zenon
<1>9. QED
  BY <1>1, <1>7, <1>8, Zenon

\* What a line with the fields w makes of the logins.
AfterLine(logins, w) == IF Len(w) < 2 THEN logins ELSE Stored(logins, w[1], w[2])

\* The loop of readFile, line by line.
LEMMA FileEquations ==
  ASSUME NEW C, Comma \in Seq(C), Single(Comma), NEW file \in Seq(Seq(C))
  PROVE  \E f : /\ ReadFile(file) = f[Len(file)] /\ f[0] = {}
                /\ \A i \in 0 .. Len(file) :
                     i > 0 => f[i] = AfterLine(f[i - 1], StringSplit(file[i], Comma))
<1> DEFINE E(h, n) == IF n = 0 THEN {}
                      ELSE LET fields == StringSplit(file[n], Comma)
                           IN  IF Len(fields) < 2 THEN h[n - 1]
                               ELSE Stored(h[n - 1], fields[1], fields[2])
           F(h) == [n \in 0 .. Len(file) |-> E(h, n)]
           c == CHOOSE h : h = F(h)
           T == SUBSET (Seq(C) \X Seq(C))
<1>1. PICK z \in Nat, m \in Nat : z = 0 /\ m = Len(file) /\ z <= m
  <2>1. 0 \in Nat /\ Len(file) \in Nat /\ 0 <= Len(file)
    OBVIOUS
  <2>2. QED
    BY <2>1, Zenon
<1>2. ReadFile(file) = c[Len(file)]
  BY Zenon DEF ReadFile
<1> DEFINE g == [i \in z .. m |-> [x \in T |-> IF i = z THEN x
                                               ELSE AfterLine(x, StringSplit(file[i], Comma))]]
<1>3. ASSUME NEW i \in z .. m, i # z, NEW x \in T
      PROVE  AfterLine(x, StringSplit(file[i], Comma)) \in T
  <2>1. PICK line \in Seq(C) : line = file[i]
    <3>1. i \in 1 .. Len(file)
      BY <1>1, <1>3
    <3>2. QED
      BY <3>1
  <2>2. PICK w : w \in Seq(Seq(C)) /\ w = StringSplit(line, Comma)
    BY FirstFields, Zenon
  <2>3. CASE Len(w) < 2
    BY <2>1, <2>2, <2>3, Zenon DEF AfterLine
  <2>4. CASE ~(Len(w) < 2)
    <3>1. PICK U : U = Seq(C)
      OBVIOUS
    <3>2. 1 \in 1 .. Len(w) /\ 2 \in 1 .. Len(w)
      BY <2>2, <2>4
    <3>3. w[1] \in U /\ w[2] \in U
      BY <2>2, <3>1, <3>2
    <3>4. Stored(x, w[1], w[2]) \in SUBSET (U \X U)
      BY <3>1, <3>3 DEF Stored
    <3>5. QED
      BY <2>1, <2>2, <2>4, <3>1, <3>4, Zenon DEF AfterLine
  <2>5. QED
    BY <2>3, <2>4
<1>4. IsRule(g, T, z, m) /\ {} \in T
  <2>1. {} \in T
    OBVIOUS
  <2> HIDE DEF T
  <2>2. QED
    BY <1>1, <1>3, <2>1 DEF IsRule
<1> HIDE DEF g, T
<1>5. PICK f : Follows(f, g, {}, z, m) /\ f \in [z .. m -> T]
  <2>1. PICK a \in T : a = {}
    BY <1>4
  <2>2. \E f : Follows(f, g, a, z, m) /\ f \in [z .. m -> T]
    BY <1>4, Recursion
  <2>3. QED
    BY <2>1, <2>2
<1>6. f[z] = {}
  BY <1>5 DEF Follows
<1>7. ASSUME NEW i \in z .. m, i > z
      PROVE  f[i] = AfterLine(f[i - 1], StringSplit(file[i], Comma))
  <2>1. i - 1 \in z .. m /\ i # z
    BY <1>1, <1>7
  <2>2. f[i - 1] \in T
    BY <1>5, <2>1
  <2>3. f[i] = g[i][f[i - 1]]
    BY <1>5, <1>7 DEF Follows
  <2>4. QED
    BY <2>1, <2>2, <2>3 DEF g
<1>8. \A h : \A n : n # 0 => E(h, n) = AfterLine(h[n - 1], StringSplit(file[n], Comma))
  BY Zenon DEF AfterLine
<1>9. \A h : E(h, 0) = {}
  OBVIOUS
<1> HIDE DEF E
<1>10. f = F(f)
  <2>1. ASSUME NEW n \in 0 .. Len(file) PROVE f[n] = E(f, n)
    <3>1. CASE n = 0
      BY <1>1, <1>6, <1>9, <3>1, Zenon
    <3>2. CASE n # 0
      <4>1. n \in z .. m /\ n > z
        BY <1>1, <3>2
      <4>2. QED
        BY <1>7, <1>8, <3>2, <4>1, Zenon
    <3>3. QED
      BY <3>1, <3>2
  <2>2. QED
    BY <1>1, <1>5, <2>1
<1>11. c = F(c)
  BY <1>10
<1>12. ASSUME NEW n \in 0 .. Len(file) PROVE c[n] = E(c, n)
  <2> HIDE DEF c
  <2>1. QED
    BY <1>11
<1> HIDE DEF F
<1>13. PICK d : d = c
  OBVIOUS
<1> HIDE DEF c
<1>14. \A n \in 0 .. Len(file) : d[n] = E(d, n)
  BY <1>12, <1>13, Zenon
<1>15. d[0] = {}
  <2>1. 0 \in 0 .. Len(file)
    BY <1>1
  <2>2. QED
    BY <1>9, <1>14, <2>1, Zenon
<1>16. \A i \in 0 .. Len(file) :
         i > 0 => d[i] = AfterLine(d[i - 1], StringSplit(file[i], Comma))
  <2>1. \A i \in 0 .. Len(file) : i > 0 => i # 0
    OBVIOUS
  <2>2. QED
    BY <1>8, <1>14, <2>1, Zenon
<1>17. ReadFile(file) = d[Len(file)]
  BY <1>2, <1>13, Zenon
<1>18. QED
  BY <1>15, <1>16, <1>17, Zenon

LEMMA AfterLineHas ==
  ASSUME NEW logins, NEW w, Len(w) \in Nat, NEW name, NEW password
  PROVE  <<name, password>> \in AfterLine(logins, w) <=>
           \/ Len(w) >= 2 /\ w[1] = name /\ w[2] = password
           \/ <<name, password>> \in logins /\ ~(Len(w) >= 2 /\ w[1] = name)
<1>1. CASE Len(w) < 2
  <2>1. AfterLine(logins, w) = logins
    BY <1>1 DEF AfterLine
  <2>2. QED
    BY <1>1, <2>1
<1>2. CASE ~(Len(w) < 2)
  <2>1. PICK x, y : x = w[1] /\ y = w[2]
    OBVIOUS
  <2>2. AfterLine(logins, w) = Stored(logins, x, y)
    BY <1>2, <2>1 DEF AfterLine
  <2>3. <<name, password>> \in Stored(logins, x, y) <=>
          \/ <<name, password>> \in logins /\ x # name
          \/ x = name /\ y = password
    BY DEF Stored
  <2>4. Len(w) >= 2
    BY <1>2
  <2>5. QED
    BY <2>1, <2>2, <2>3, <2>4, Zenon
<1>3. QED
  BY <1>1, <1>2

\* The line that counts among the first n.
LastSaysOf(file, n, name, password, delim) ==
  \E k \in 1 .. n : /\ SaysWith(file[k], name, password, delim)
                    /\ \A m \in k + 1 .. n : ~IsPrefix(name \o delim, file[m])

LEMMA LastOfMore ==
  ASSUME NEW file, NEW n \in Nat, NEW name, NEW password, NEW delim
  PROVE  LastSaysOf(file, n + 1, name, password, delim) <=>
           \/ SaysWith(file[n + 1], name, password, delim)
           \/ /\ LastSaysOf(file, n, name, password, delim)
              /\ ~(~Includes(name, delim) /\ IsPrefix(name \o delim, file[n + 1]))
<1> DEFINE Of(k) == SaysWith(file[k], name, password, delim)
           On(m) == IsPrefix(name \o delim, file[m])
<1>1. \A k : Of(k) => ~Includes(name, delim)
  BY Zenon DEF SaysWith
<1> HIDE DEF Of, On
<1>2. (\E k \in 1 .. n + 1 : Of(k) /\ \A m \in k + 1 .. n + 1 : ~On(m)) <=>
        \/ Of(n + 1)
        \/ (\E k \in 1 .. n : Of(k) /\ \A m \in k + 1 .. n : ~On(m)) /\ ~On(n + 1)
  <2>1. ASSUME NEW k \in 1 .. n + 1, Of(k), \A m \in k + 1 .. n + 1 : ~On(m), ~Of(n + 1)
        PROVE  (\E i \in 1 .. n : Of(i) /\ \A m \in i + 1 .. n : ~On(m)) /\ ~On(n + 1)
    <3>1. k # n + 1
      BY <2>1
    <3>2. k \in 1 .. n /\ n + 1 \in k + 1 .. n + 1 /\ \A m \in k + 1 .. n : m \in k + 1 .. n + 1
      BY <3>1
    <3>3. QED
      BY <2>1, <3>2
  <2>2. ASSUME Of(n + 1)
        PROVE  \E k \in 1 .. n + 1 : Of(k) /\ \A m \in k + 1 .. n + 1 : ~On(m)
    <3>1. n + 1 \in 1 .. n + 1 /\ \A m \in n + 1 + 1 .. n + 1 : FALSE
      OBVIOUS
    <3>2. QED
      BY <2>2, <3>1
  <2>3. ASSUME NEW k \in 1 .. n, Of(k), \A m \in k + 1 .. n : ~On(m), ~On(n + 1)
        PROVE  \E i \in 1 .. n + 1 : Of(i) /\ \A m \in i + 1 .. n + 1 : ~On(m)
    <3>1. k \in 1 .. n + 1 /\ \A m \in k + 1 .. n + 1 : m = n + 1 \/ m \in k + 1 .. n
      OBVIOUS
    <3>2. QED
      BY <2>3, <3>1
  <2>4. QED
    BY <2>1, <2>2, <2>3
<1> USE DEF Of, On
<1>3. LastSaysOf(file, n, name, password, delim) => ~Includes(name, delim)
  BY <1>1, Zenon DEF LastSaysOf
<1>4. QED
  BY <1>2, <1>3, Zenon DEF LastSaysOf

LEMMA LastLine ==
  ASSUME NEW C, Comma \in Seq(C), Single(Comma), NEW file \in Seq(Seq(C)),
         NEW name \in Seq(C), NEW password \in Seq(C)
  PROVE  <<name, password>> \in ReadFile(file) <=> LastSays(file, name, password)
<1>1. PICK f : /\ ReadFile(file) = f[Len(file)] /\ f[0] = {}
               /\ \A i \in 0 .. Len(file) :
                    i > 0 => f[i] = AfterLine(f[i - 1], StringSplit(file[i], Comma))
  BY FileEquations
<1> DEFINE Right(n) == <<name, password>> \in f[n] <=> LastSaysOf(file, n, name, password, Comma)
           S == {n \in Nat : n <= Len(file) => Right(n)}
<1>2. Right(0)
  <2>1. \A k \in 1 .. 0 : FALSE
    OBVIOUS
  <2>2. QED
    BY <1>1, <2>1, Zenon DEF LastSaysOf
<1>3. ASSUME NEW n \in Nat, n + 1 <= Len(file), Right(n) PROVE Right(n + 1)
  <2>1. PICK k \in 1 .. Len(file), line \in Seq(C) : k = n + 1 /\ line = file[k]
    <3>1. n + 1 \in 1 .. Len(file)
      BY <1>3
    <3>2. file[n + 1] \in Seq(C)
      BY <3>1
    <3>3. QED
      BY <3>1, <3>2
  <2>2. f[k] = AfterLine(f[n], StringSplit(line, Comma))
    <3>1. k \in 0 .. Len(file) /\ k > 0 /\ k - 1 = n
      BY <2>1
    <3>2. QED
      BY <1>1, <2>1, <3>1, Zenon
  <2>3. PICK w : w \in Seq(Seq(C)) /\ w = StringSplit(line, Comma)
    BY FirstFields, Zenon
  <2>4. Len(w) >= 2 /\ w[1] = name <=> ~Includes(name, Comma) /\ IsPrefix(name \o Comma, line)
    BY <2>3, NameOfLine, Zenon
  <2>5. Len(w) >= 2 /\ w[1] = name /\ w[2] = password <=> SaysWith(line, name, password, Comma)
    BY <2>3, PasswordOfLine, Zenon
  <2>6. <<name, password>> \in AfterLine(f[n], w) <=>
          \/ Len(w) >= 2 /\ w[1] = name /\ w[2] = password
          \/ <<name, password>> \in f[n] /\ ~(Len(w) >= 2 /\ w[1] = name)
    <3>1. Len(w) \in Nat
      BY <2>3
    <3>2. PICK logins : logins = f[n]
      OBVIOUS
    <3>3. <<name, password>> \in AfterLine(logins, w) <=>
            \/ Len(w) >= 2 /\ w[1] = name /\ w[2] = password
            \/ <<name, password>> \in logins /\ ~(Len(w) >= 2 /\ w[1] = name)
      BY <3>1, AfterLineHas
    <3>4. QED
      BY <3>2, <3>3, Zenon
  <2>7. LastSaysOf(file, n + 1, name, password, Comma) <=>
          \/ SaysWith(file[n + 1], name, password, Comma)
          \/ /\ LastSaysOf(file, n, name, password, Comma)
             /\ ~(~Includes(name, Comma) /\ IsPrefix(name \o Comma, file[n + 1]))
    BY LastOfMore, Zenon
  <2>8. QED
    BY <1>3, <2>1, <2>2, <2>3, <2>4, <2>5, <2>6, <2>7, Zenon
<1>4. Right(Len(file))
  <2> HIDE DEF Right
  <2>1. 0 \in S
    BY <1>2
  <2>2. ASSUME NEW n \in Nat, n \in S PROVE n + 1 \in S
    BY <1>3, <2>2
  <2> HIDE DEF S
  <2>3. Nat \subseteq S
    BY <2>1, <2>2, Induction
  <2> USE DEF S
  <2>4. QED
    BY <2>3
<1>5. DOMAIN file = 1 .. Len(file)
  OBVIOUS
<1>6. LastSaysOf(file, Len(file), name, password, Comma) <=> LastSays(file, name, password)
  BY <1>5, Zenon DEF LastSaysOf, LastSays, SaysWith, Says
<1>7. QED
  BY <1>1, <1>4, <1>6, Zenon

\* ReadFile gives a user the password of the last line that begins with the user and a
\* comma, and no other, for every file, name and password.
THEOREM LoginsOfLastLine ==
  ASSUME NEW C, "," \in C, NEW file \in Seq(Seq(C)), NEW name \in Seq(C), NEW password \in Seq(C)
  PROVE  <<name, password>> \in ReadFile(file) <=> LastSays(file, name, password)
  BY CommaFacts, LastLine, Zenon

-----------------------------------------------------------------------------
(* Lemmas about the arithmetic of a size_t *)

\* A sum that fits a size_t is itself.
LEMMA ModOfSmall == \A a \in 0 .. M - 1 : a % M = a
  BY SizesAssumption

\* Below 0 and from M on it wraps.
LEMMA ModOfWrapped == \A a \in 0 .. M - 1 : (a - M) % M = a /\ (a + M) % M = a
  BY SizesAssumption, Z3

\* A field that passes the check and is in the buffer, or its sum with the cursor wraps.
LEMMA FitsOrWraps ==
  ASSUME NEW p \in 0 .. N, NEW n \in Nat, Fits(p, n)
  PROVE  p + n <= N \/ p + n >= M
<1>1. CASE p + n < M
  <2>1. (p + n) % M = p + n
    BY <1>1, ModOfSmall, SizesAssumption
  <2>2. QED
    BY <2>1 DEF Fits
<1>2. QED
  BY <1>1, SizesAssumption

\* What the code itself asks for never wraps: the sizes are too small.
LEMMA SmallFits ==
  ASSUME NEW p \in 0 .. N, NEW n \in Nat, p + n < M, Fits(p, n)
  PROVE  p + n \in 0 .. N
  BY FitsOrWraps, SizesAssumption

\* A product of natural numbers grows with either.
LEMMA TimesByte == \A x \in Byte : x * B \in 0 .. B * B - B
<1> SUFFICES ASSUME NEW x \in Byte PROVE x * B \in 0 .. B * B - B
  OBVIOUS
<1>1. x \in Nat /\ B \in Nat /\ x <= B - 1
  BY SizesAssumption DEF Byte
<1>2. x * B \in Nat /\ x * B <= (B - 1) * B
  BY <1>1, Z3
<1>3. (B - 1) * B = B * B - B
  BY <1>1
<1>4. QED
  BY <1>1, <1>2, <1>3

\* A size of two bytes, read inside the buffer.
LEMMA SizeRead ==
  ASSUME data \in [1 .. N -> Byte], NEW p \in 0 .. N, p + 2 <= N
  PROVE  Uint16At(p) \in 0 .. B * B - 1
<1>1. data[p + 1] \in Byte /\ data[p + 2] \in Byte
  BY SizesAssumption
<1>2. data[p + 2] * B \in 0 .. B * B - B
  BY <1>1, TimesByte
<1>3. data[p + 1] \in 0 .. B - 1 /\ B \in Nat /\ B * B \in Nat
  BY <1>1, SizesAssumption DEF Byte
<1>4. QED
  BY <1>2, <1>3 DEF Uint16At

\* Two bytes more than a cursor are within a size_t.
LEMMA RoomForSizes == B * B >= 4 /\ B * B + N <= M
<1>1. B \in Nat /\ B >= 2
  BY SizesAssumption
<1>2. B * B >= 4
  BY <1>1, Z3
<1>3. QED
  BY <1>2, SizesAssumption

\* A string, whole or not, leaves the cursor in the buffer.
LEMMA StringStays ==
  ASSUME data \in [1 .. N -> Byte], NEW p \in 0 .. N
  PROVE  StringAt(p).pos \in 0 .. N
<1> DEFINE size == Uint16At(p)
<1>1. CASE ~Fits(p, 2)
  BY <1>1 DEF StringAt
<1>2. CASE Fits(p, 2)
  <2>1. p + 2 \in 0 .. N
    BY <1>2, SmallFits, RoomForSizes, SizesAssumption
  <2>2. size \in 0 .. B * B - 1
    BY <2>1, SizeRead
  <2> HIDE DEF size
  <2>3. CASE ~Fits(p + 2, size)
    BY <1>2, <2>1, <2>3 DEF StringAt, size
  <2>4. CASE Fits(p + 2, size)
    <3>1. p + 2 + size \in 0 .. N
      BY <2>1, <2>2, <2>4, SmallFits, SizesAssumption
    <3>2. StringAt(p).pos = p + 2 + size
      BY <1>2, <2>4 DEF StringAt, size
    <3>3. QED
      BY <3>1, <3>2
  <2>5. QED
    BY <2>3, <2>4
<1>3. QED
  BY <1>1, <1>2

-----------------------------------------------------------------------------
(* What the encodings are *)

\* A value of several bytes is its last byte and the rest.
LEMMA LastByte ==
  ASSUME NEW a \in Byte, NEW x \in Nat
  PROVE  /\ a + B * x \in Nat
         /\ (a + B * x) \div B = x
         /\ (a + B * x) % B = a
<1>1. B \in Nat /\ B >= 2 /\ a \in 0 .. B - 1
  BY SizesAssumption DEF Byte
<1>2. B * x \in Nat
  BY <1>1, Z3
<1>3. (a + B * x) \div B = x
  BY <1>1, Z3
<1>4. (a + B * x) % B = a
  BY <1>1, Z3
<1>5. QED
  BY <1>1, <1>2, <1>3, <1>4

\* And the other way round.
LEMMA ByteAndRest ==
  ASSUME NEW x \in Nat
  PROVE  /\ x \div B \in Nat /\ x % B \in Byte
         /\ x = (x % B) + B * (x \div B)
<1>1. B \in Nat /\ B >= 2
  BY SizesAssumption
<1>2. x \div B \in Nat /\ x % B \in 0 .. B - 1
  BY <1>1, Z3
<1>3. x = (x % B) + B * (x \div B)
  BY <1>1, Z3
<1>4. QED
  BY <1>2, <1>3 DEF Byte

\* LittleEndian adds up the bytes from the last one.
LEMMA LittleEndianSums ==
  ASSUME NEW s \in Seq(Byte)
  PROVE  \E f : /\ LittleEndian(s) = f[Len(s)] /\ f[0] = 0
                /\ \A i \in 0 .. Len(s) : f[i] \in Nat
                /\ \A i \in 1 .. Len(s) : f[i] = s[Len(s) + 1 - i] + B * f[i - 1]
<1> DEFINE n == Len(s)
           g == [i \in 0 .. n |-> [x \in Nat |-> IF i = 0 THEN 0 ELSE s[n + 1 - i] + B * x]]
           F(h) == [i \in 0 .. n |-> IF i = 0 THEN 0 ELSE s[n + 1 - i] + B * h[i - 1]]
           c == CHOOSE h : h = F(h)
<1>1. n \in Nat
  OBVIOUS
<1>2. \A i \in 1 .. n : s[n + 1 - i] \in Byte
  BY <1>1
<1>3. \A i \in 1 .. n : \A x \in Nat : s[n + 1 - i] + B * x \in Nat
  BY <1>2, LastByte
<1> HIDE DEF n
<1>4. IsRule(g, Nat, 0, n)
  BY <1>1, <1>3 DEF IsRule
<1>5. PICK f \in [0 .. n -> Nat] : Follows(f, g, 0, 0, n)
  <2> HIDE DEF g
  <2>1. 0 \in Nat
    OBVIOUS
  <2>2. QED
    BY <1>4, <2>1, Recursion
<1>6. \A i \in 1 .. n : f[i] = s[n + 1 - i] + B * f[i - 1]
  <2>1. ASSUME NEW i \in 1 .. n PROVE f[i] = s[n + 1 - i] + B * f[i - 1]
    <3>1. i - 1 \in 0 .. n /\ i \in 0 .. n /\ i > 0 /\ i # 0 /\ f[i - 1] \in Nat
      BY <1>1
    <3>2. f[i] = g[i][f[i - 1]]
      BY <1>5, <3>1 DEF Follows
    <3>3. QED
      BY <3>1, <3>2
  <2>2. QED
    BY <2>1
<1>7. f = F(f)
  BY <1>1, <1>5, <1>6 DEF Follows
<1> HIDE DEF g
<1>8. c = F(c)
  BY <1>7
<1>9. LittleEndian(s) = c[n]
  BY DEF LittleEndian, n
<1> HIDE DEF c
<1>10. /\ c[0] = 0
       /\ \A i \in 1 .. n : c[i] = s[n + 1 - i] + B * c[i - 1]
  BY <1>1, <1>8
<1>11. \A i \in 0 .. n : i > 0 /\ c[i - 1] \in Nat => c[i] \in Nat
  <2>1. ASSUME NEW i \in 0 .. n, i > 0, c[i - 1] \in Nat PROVE c[i] \in Nat
    <3>1. i \in 1 .. n
      BY <1>1, <2>1
    <3>2. QED
      BY <1>3, <1>10, <2>1, <3>1
  <2>2. QED
    BY <2>1
<1>12. \A i \in 0 .. n : c[i] \in Nat
  <2>1. 0 \in Nat /\ c[0] \in Nat
    BY <1>10
  <2>2. QED
    BY <1>1, <1>11, <2>1, TypedByRule, Zenon
<1>13. QED
  BY <1>9, <1>10, <1>12 DEF n

\* Bytes divides by B again and again.
LEMMA BytesDivide ==
  ASSUME NEW v \in Nat, NEW w \in Nat
  PROVE  \E f : /\ f[0] = v
                /\ \A i \in 0 .. w : f[i] \in Nat
                /\ \A i \in 1 .. w : f[i] = f[i - 1] \div B
                /\ Bytes(v, w) = [i \in 1 .. w |-> f[i - 1] % B]
<1> DEFINE g == [i \in 0 .. w |-> [x \in Nat |-> x \div B]]
           F(h) == [i \in 0 .. w |-> IF i = 0 THEN v ELSE h[i - 1] \div B]
           c == CHOOSE h : h = F(h)
<1>1. \A x \in Nat : x \div B \in Nat
  BY ByteAndRest
<1>2. IsRule(g, Nat, 0, w)
  BY <1>1 DEF IsRule
<1>3. PICK f \in [0 .. w -> Nat] : Follows(f, g, v, 0, w)
  <2> HIDE DEF g
  <2>1. QED
    BY <1>2, Recursion
<1>4. \A i \in 1 .. w : f[i] = f[i - 1] \div B
  <2>1. ASSUME NEW i \in 1 .. w PROVE f[i] = f[i - 1] \div B
    <3>1. i - 1 \in 0 .. w /\ i \in 0 .. w /\ i > 0 /\ f[i - 1] \in Nat
      OBVIOUS
    <3>2. f[i] = g[i][f[i - 1]]
      BY <1>3, <3>1 DEF Follows
    <3>3. QED
      BY <3>1, <3>2
  <2>2. QED
    BY <2>1
<1>5. f = F(f)
  BY <1>3, <1>4 DEF Follows
<1> HIDE DEF g
<1>6. c = F(c)
  BY <1>5
<1>7. Bytes(v, w) = [i \in 1 .. w |-> c[i - 1] % B]
  BY DEF Bytes
<1> HIDE DEF c
<1>8. c[0] = v /\ \A i \in 1 .. w : c[i] = c[i - 1] \div B
  BY <1>6
<1>9. \A i \in 0 .. w : i > 0 /\ c[i - 1] \in Nat => c[i] \in Nat
  <2>1. ASSUME NEW i \in 0 .. w, i > 0, c[i - 1] \in Nat PROVE c[i] \in Nat
    <3>1. i \in 1 .. w
      BY <2>1
    <3>2. QED
      BY <1>1, <1>8, <2>1, <3>1
  <2>2. QED
    BY <2>1
<1>10. \A i \in 0 .. w : c[i] \in Nat
  <2>1. 0 \in Nat /\ c[0] \in Nat
    BY <1>8
  <2>2. QED
    BY <1>9, <2>1, TypedByRule, Zenon
<1>11. QED
  BY <1>7, <1>8, <1>10

\* So the bytes of what LittleEndian makes of some bytes are those bytes.
LEMMA BytesOfScalar ==
  ASSUME NEW s \in Seq(Byte)
  PROVE  Bytes(LittleEndian(s), Len(s)) = s
<1> DEFINE n == Len(s)
           v == LittleEndian(s)
<1>1. PICK f : /\ LittleEndian(s) = f[Len(s)] /\ f[0] = 0
               /\ \A i \in 0 .. Len(s) : f[i] \in Nat
               /\ \A i \in 1 .. Len(s) : f[i] = s[Len(s) + 1 - i] + B * f[i - 1]
  BY LittleEndianSums
<1>2. n \in Nat /\ v \in Nat /\ \A i \in 1 .. n : s[i] \in Byte
  BY <1>1
<1> HIDE DEF n, v
<1>3. PICK h : /\ h[0] = v
               /\ \A i \in 0 .. n : h[i] \in Nat
               /\ \A i \in 1 .. n : h[i] = h[i - 1] \div B
               /\ Bytes(v, n) = [i \in 1 .. n |-> h[i - 1] % B]
  BY <1>2, BytesDivide
<1>4. ASSUME NEW k \in Nat, k < n, h[k] = f[n - k]
      PROVE  h[k + 1] = f[n - (k + 1)] /\ h[k] % B = s[k + 1]
  <2>1. PICK i \in 1 .. n : i = n - k
    BY <1>2, <1>4
  <2>2. PICK x \in Nat : x = f[i - 1]
    BY <1>1, <1>2 DEF n
  <2>3. PICK a \in Byte : a = s[n + 1 - i]
    BY <1>2
  <2>4. h[k] = a + B * x
    BY <1>1, <1>4, <2>1, <2>2, <2>3 DEF n
  <2>5. h[k] \div B = x /\ h[k] % B = a
    BY <2>4, LastByte
  <2>6. k + 1 \in 1 .. n /\ (k + 1) - 1 = k /\ n - (k + 1) = i - 1 /\ n + 1 - i = k + 1
    BY <1>2, <1>4, <2>1
  <2>7. h[k + 1] = h[k] \div B
    BY <1>3, <2>6
  <2>8. QED
    BY <2>2, <2>3, <2>5, <2>6, <2>7
<1> DEFINE S == {k \in Nat : k <= n => h[k] = f[n - k]}
<1>5. 0 \in S
  BY <1>1, <1>2, <1>3 DEF n, v
<1>6. ASSUME NEW k \in Nat, k \in S PROVE k + 1 \in S
  BY <1>2, <1>4, <1>6
<1> HIDE DEF S
<1>7. Nat \subseteq S
  BY <1>5, <1>6, Induction
<1> USE DEF S
<1>8. ASSUME NEW i \in 1 .. n PROVE h[i - 1] % B = s[i]
  <2>1. PICK k \in Nat : i = k + 1 /\ k < n /\ i - 1 = k
    <3>1. i - 1 \in Nat /\ i = (i - 1) + 1 /\ i - 1 < n
      BY <1>2
    <3>2. QED
      BY <3>1
  <2>2. QED
    BY <1>2, <1>4, <1>7, <2>1
<1>9. Bytes(v, n) = [i \in 1 .. n |-> s[i]]
  BY <1>3, <1>8
<1>10. QED
  BY <1>9 DEF n, v

\* The two bytes of a number.
LEMMA TwoBytes ==
  ASSUME NEW v \in Nat
  PROVE  Bytes(v, 2) = <<v % B, (v \div B) % B>>
<1>1. PICK w \in Nat : w = 2
  OBVIOUS
<1>2. PICK h : /\ h[0] = v
               /\ \A i \in 0 .. w : h[i] \in Nat
               /\ \A i \in 1 .. w : h[i] = h[i - 1] \div B
               /\ Bytes(v, w) = [i \in 1 .. w |-> h[i - 1] % B]
  BY BytesDivide, Zenon
<1>3. h[1] = v \div B
  BY <1>1, <1>2
<1>4. Bytes(v, w) = [i \in 1 .. 2 |-> IF i = 1 THEN v % B ELSE (v \div B) % B]
  BY <1>1, <1>2, <1>3
<1>5. QED
  BY <1>1, <1>4

\* And of one that was read from two bytes.
LEMMA TwoBytesRead ==
  ASSUME NEW a \in Byte, NEW b \in Byte
  PROVE  Bytes(a + b * B, 2) = <<a, b>> /\ a + b * B \in Nat
<1>1. b \in Nat /\ B \in Nat /\ b * B = B * b
  BY SizesAssumption DEF Byte
<1>2. PICK v \in Nat : v = a + b * B /\ v % B = a /\ v \div B = b
  BY <1>1, LastByte
<1>3. b % B = b
  BY SizesAssumption DEF Byte
<1>4. QED
  BY <1>2, <1>3, TwoBytes

\* A number below B * B is what its two bytes are read as; a larger one is not smaller.
LEMMA SizeOfTwoBytes ==
  ASSUME NEW v \in Nat, NEW a \in Byte, NEW b \in Byte, Bytes(v, 2) = <<a, b>>, v < B * B
  PROVE  v = a + b * B
<1>1. a = v % B /\ b = (v \div B) % B
  BY TwoBytes
<1>2. PICK x \in Nat : x = v \div B
  BY ByteAndRest
<1>3. v = a + B * x /\ a \in Nat /\ B \in Nat
  BY <1>1, <1>2, ByteAndRest, SizesAssumption DEF Byte
<1>4. x < B
  <2>1. B * x < B * B
    BY <1>3
  <2>2. QED
    BY <1>2, <1>3, <2>1, Z3
<1>5. x % B = x
  BY <1>2, <1>3, <1>4
<1>6. QED
  BY <1>1, <1>2, <1>3, <1>5

-----------------------------------------------------------------------------
(* Where bytes are in the buffer *)

Buffered == data \in [1 .. N -> Byte]

\* The bytes e are in the buffer from p on.
IsAt(e, p) == p + Len(e) <= N /\ Field(p, Len(e)) = e

LEMMA FieldBytes ==
  ASSUME Buffered, NEW p \in Nat, NEW n \in Nat, p + n <= N
  PROVE  /\ Field(p, n) \in Seq(Byte) /\ Len(Field(p, n)) = n
         /\ \A i \in 1 .. n : Field(p, n)[i] = data[p + i]
<1>1. \A i \in p + 1 .. p + n : data[i] \in Byte
  BY SizesAssumption DEF Buffered
<1>2. p + n - (p + 1) + 1 = n
  OBVIOUS
<1>3. /\ Field(p, n) \in Seq(Byte) /\ Len(Field(p, n)) = n
      /\ \A i \in 1 .. n : Field(p, n)[i] = data[p + 1 + i - 1]
  BY <1>1, <1>2, SubSeqProperties DEF Field
<1>4. \A i \in 1 .. n : p + 1 + i - 1 = p + i
  OBVIOUS
<1>5. QED
  BY <1>3, <1>4

\* e is at p if each of its bytes is.
LEMMA BytesAt ==
  ASSUME Buffered, NEW p \in Nat, NEW e \in Seq(Byte)
  PROVE  IsAt(e, p) <=> p + Len(e) <= N /\ \A i \in 1 .. Len(e) : data[p + i] = e[i]
<1>1. PICK n \in Nat : n = Len(e)
  OBVIOUS
<1>2. CASE p + n <= N
  <2>1. /\ Field(p, n) \in Seq(Byte) /\ Len(Field(p, n)) = n
        /\ \A i \in 1 .. n : Field(p, n)[i] = data[p + i]
    BY <1>2, FieldBytes
  <2>2. Field(p, n) = e <=> \A i \in 1 .. n : Field(p, n)[i] = e[i]
    BY <1>1, <2>1
  <2>3. Field(p, n) = e <=> \A i \in 1 .. n : data[p + i] = e[i]
    BY <2>1, <2>2
  <2>4. QED
    BY <1>1, <1>2, <2>3 DEF IsAt
<1>3. CASE ~(p + n <= N)
  BY <1>1, <1>3 DEF IsAt
<1>4. QED
  BY <1>2, <1>3, SizesAssumption

\* What is joined is there one after the other.
LEMMA JoinedAt ==
  ASSUME Buffered, NEW p \in Nat, NEW x \in Seq(Byte), NEW y \in Seq(Byte)
  PROVE  /\ IsAt(x \o y, p) <=> IsAt(x, p) /\ IsAt(y, p + Len(x))
         /\ x \o y \in Seq(Byte) /\ Len(x \o y) = Len(x) + Len(y)
<1>1. PICK m \in Nat, n \in Nat : m = Len(x) /\ n = Len(y)
  OBVIOUS
<1>2. PICK e \in Seq(Byte) : e = x \o y
  <2>1. x \o y \in Seq(Byte)
    BY ConcatProperties
  <2>2. QED
    BY <2>1
<1>3. /\ Len(e) = m + n
      /\ \A i \in 1 .. m : e[i] = x[i]
      /\ \A i \in 1 .. n : e[m + i] = y[i]
  BY <1>1, <1>2
<1>4. /\ IsAt(e, p) <=> p + (m + n) <= N /\ \A i \in 1 .. m + n : data[p + i] = e[i]
      /\ IsAt(x, p) <=> p + m <= N /\ \A i \in 1 .. m : data[p + i] = x[i]
      /\ IsAt(y, p + m) <=> (p + m) + n <= N /\ \A i \in 1 .. n : data[(p + m) + i] = y[i]
  <2>1. IsAt(e, p) <=> p + Len(e) <= N /\ \A i \in 1 .. Len(e) : data[p + i] = e[i]
    BY BytesAt
  <2>2. IsAt(x, p) <=> p + Len(x) <= N /\ \A i \in 1 .. Len(x) : data[p + i] = x[i]
    BY BytesAt
  <2>3. PICK q \in Nat : q = p + m
    OBVIOUS
  <2>4. IsAt(y, q) <=> q + Len(y) <= N /\ \A i \in 1 .. Len(y) : data[q + i] = y[i]
    BY BytesAt
  <2>5. QED
    BY <1>1, <1>3, <2>1, <2>2, <2>3, <2>4, Zenon
<1>5. ASSUME IsAt(e, p) PROVE IsAt(x, p) /\ IsAt(y, p + m)
  <2>1. p + (m + n) <= N /\ \A i \in 1 .. m + n : data[p + i] = e[i]
    BY <1>4, <1>5
  <2>2. \A i \in 1 .. m : data[p + i] = x[i]
    BY <1>3, <2>1
  <2>3. ASSUME NEW i \in 1 .. n PROVE data[(p + m) + i] = y[i]
    <3>1. m + i \in 1 .. m + n /\ p + (m + i) = (p + m) + i
      OBVIOUS
    <3>2. data[p + (m + i)] = e[m + i]
      BY <2>1, <3>1
    <3>3. QED
      BY <1>3, <3>1, <3>2
  <2>4. p + m <= N /\ (p + m) + n <= N
    BY <2>1, SizesAssumption
  <2>5. QED
    BY <1>4, <2>2, <2>3, <2>4
<1>6. ASSUME IsAt(x, p), IsAt(y, p + m) PROVE IsAt(e, p)
  <2>1. p + (m + n) <= N
    BY <1>4, <1>6, SizesAssumption
  <2>2. ASSUME NEW i \in 1 .. m + n PROVE data[p + i] = e[i]
    <3>1. CASE i <= m
      <4>1. i \in 1 .. m
        BY <3>1
      <4>2. QED
        BY <1>3, <1>4, <1>6, <4>1
    <3>2. CASE i > m
      <4>1. PICK j \in 1 .. n : i = m + j
        <5>1. i - m \in 1 .. n /\ i = m + (i - m)
          BY <3>2
        <5>2. QED
          BY <5>1
      <4>2. data[(p + m) + j] = y[j] /\ e[m + j] = y[j]
        BY <1>3, <1>4, <1>6, <4>1
      <4>3. (p + m) + j = p + i
        BY <4>1
      <4>4. QED
        BY <4>1, <4>2, <4>3
    <3>3. QED
      BY <3>1, <3>2
  <2>3. QED
    BY <1>4, <2>1, <2>2
<1>7. QED
  BY <1>1, <1>2, <1>3, <1>5, <1>6

\* A beginning of the rest of the buffer is at its start.
LEMMA PrefixAt ==
  ASSUME Buffered, NEW p \in 0 .. N, NEW e \in Seq(Byte), IsPrefix(e, SubSeq(data, p + 1, N))
  PROVE  IsAt(e, p)
<1>1. PICK n \in Nat : n = N - p /\ p + n = N
  <2>1. N - p \in Nat /\ p + (N - p) = N
    BY SizesAssumption
  <2>2. QED
    BY <2>1
<1>2. PICK r \in Seq(Byte) : /\ r = SubSeq(data, p + 1, N) /\ Len(r) = n
                             /\ \A i \in 1 .. n : r[i] = data[p + i]
  <2>1. /\ Field(p, n) \in Seq(Byte) /\ Len(Field(p, n)) = n
        /\ \A i \in 1 .. n : Field(p, n)[i] = data[p + i]
    <3>1. p \in Nat /\ p + n <= N
      BY <1>1, SizesAssumption
    <3>2. QED
      BY <3>1, FieldBytes
  <2>2. Field(p, n) = SubSeq(data, p + 1, N)
    BY <1>1 DEF Field
  <2>3. QED
    BY <2>1, <2>2
<1>3. PICK m \in Nat : m = Len(e)
  OBVIOUS
<1>4. m <= n /\ SubSeq(e, 1, m) = SubSeq(r, 1, m)
  BY <1>2, <1>3 DEF IsPrefix
<1>5. SubSeq(e, 1, m) = e
  BY <1>3, SubSeqFull
<1>6. \A i \in 1 .. m : SubSeq(r, 1, m)[i] = r[i]
  <2>1. \A i \in 1 .. m : r[i] \in Byte
    BY <1>2, <1>4
  <2>2. QED
    BY <2>1, SubSeqProperties
<1>7. \A i \in 1 .. m : data[p + i] = e[i]
  BY <1>2, <1>4, <1>5, <1>6
<1>8. p + m <= N
  BY <1>1, <1>4
<1>9. QED
  BY <1>3, <1>7, <1>8, BytesAt

\* What lies between two cursors.
LEMMA BetweenAt ==
  ASSUME Buffered, NEW p \in 0 .. N, NEW e \in Seq(Byte), IsAt(e, p)
  PROVE  SubSeq(data, p + 1, p + Len(e)) = e
  BY DEF IsAt, Field

-----------------------------------------------------------------------------
(* Strings and vectors in the buffer *)

\* The bytes of a string.
LEMMA StringBytesType ==
  ASSUME NEW s \in Seq(Byte)
  PROVE  /\ Bytes(Len(s), 2) \in Seq(Byte) /\ Len(Bytes(Len(s), 2)) = 2
         /\ StringBytes(s) \in Seq(Byte) /\ Len(StringBytes(s)) = 2 + Len(s)
<1>1. PICK n \in Nat : n = Len(s)
  OBVIOUS
<1>2. PICK a \in Byte, b \in Byte : a = n % B /\ b = (n \div B) % B
  BY ByteAndRest
<1>3. Bytes(n, 2) = <<a, b>>
  BY <1>2, TwoBytes
<1>4. <<a, b>> \in Seq(Byte) /\ Len(<<a, b>>) = 2
  OBVIOUS
<1>5. /\ <<a, b>> \o s \in Seq(Byte)
      /\ Len(<<a, b>> \o s) = 2 + n
  BY <1>1, <1>4, ConcatProperties
<1>6. QED
  BY <1>1, <1>3, <1>4, <1>5 DEF StringBytes

\* Two bytes at a cursor, as bytes and as a size.
LEMMA SizeAt ==
  ASSUME Buffered, NEW p \in Nat, p + 2 <= N
  PROVE  /\ Field(p, 2) = <<data[p + 1], data[p + 2]>>
         /\ data[p + 1] \in Byte /\ data[p + 2] \in Byte
         /\ Uint16At(p) \in 0 .. B * B - 1
         /\ Bytes(Uint16At(p), 2) = Field(p, 2)
<1>1. data[p + 1] \in Byte /\ data[p + 2] \in Byte
  BY SizesAssumption DEF Buffered
<1>2. /\ Field(p, 2) \in Seq(Byte) /\ Len(Field(p, 2)) = 2
      /\ \A i \in 1 .. 2 : Field(p, 2)[i] = data[p + i]
  BY FieldBytes
<1>3. Field(p, 2) = <<data[p + 1], data[p + 2]>>
  BY <1>2
<1>4. Bytes(Uint16At(p), 2) = <<data[p + 1], data[p + 2]>>
  BY <1>1, TwoBytesRead DEF Uint16At
<1>5. Uint16At(p) \in 0 .. B * B - 1
  BY SizeRead, SizesAssumption DEF Buffered
<1>6. QED
  BY <1>1, <1>3, <1>4, <1>5

\* What ends in the buffer fits.
LEMMA InsideFits ==
  ASSUME NEW p \in Nat, NEW n \in Nat, p + n <= N
  PROVE  Fits(p, n)
<1>1. p + n \in 0 .. M - 1
  BY RoomForSizes, SizesAssumption
<1>2. QED
  BY <1>1, ModOfSmall DEF Fits

\* A string that is read is where it was read from, and the cursor behind it.
LEMMA StringRead ==
  ASSUME Buffered, NEW p \in 0 .. N, StringAt(p).ok
  PROVE  /\ StringAt(p).val \in Seq(Byte) /\ Len(StringAt(p).val) < B * B
         /\ IsAt(StringBytes(StringAt(p).val), p)
         /\ StringAt(p).pos = p + Len(StringBytes(StringAt(p).val))
<1> DEFINE size == Uint16At(p)
<1>1. /\ Fits(p, 2) /\ Fits(p + 2, size)
      /\ StringAt(p) = [ok |-> TRUE, pos |-> p + 2 + size, val |-> Field(p + 2, size)]
  BY DEF StringAt
<1>2. p \in Nat /\ p + 2 <= N
  BY <1>1, SmallFits, RoomForSizes, SizesAssumption
<1>3. size \in 0 .. B * B - 1 /\ Bytes(size, 2) = Field(p, 2)
  BY <1>2, SizeAt
<1> HIDE DEF size
<1>4. PICK q \in 0 .. N : q = p + 2
  BY <1>2
<1>5. size \in Nat /\ q + size <= N
  <2>1. q + size < M
    BY <1>3, <1>4, RoomForSizes, SizesAssumption
  <2>2. size \in Nat /\ Fits(q, size)
    BY <1>1, <1>3, <1>4
  <2>3. QED
    BY <2>1, <2>2, SmallFits
<1>6. PICK v \in Seq(Byte) : v = Field(q, size) /\ Len(v) = size
  <2>1. Field(q, size) \in Seq(Byte) /\ Len(Field(q, size)) = size
    BY <1>4, <1>5, FieldBytes
  <2>2. QED
    BY <2>1
<1>7. IsAt(v, q)
  BY <1>5, <1>6 DEF IsAt
<1>8. PICK e \in Seq(Byte) : e = Bytes(Len(v), 2) /\ Len(e) = 2
  BY StringBytesType
<1>9. IsAt(e, p)
  BY <1>2, <1>3, <1>6, <1>8 DEF IsAt
<1>10. IsAt(e \o v, p) /\ Len(e \o v) = 2 + size
  <2>1. q = p + Len(e)
    BY <1>4, <1>8
  <2>2. IsAt(v, p + Len(e))
    BY <1>7, <2>1, Zenon
  <2>3. IsAt(e \o v, p) /\ Len(e \o v) = Len(e) + Len(v)
    BY <1>2, <1>9, <2>2, JoinedAt, Zenon
  <2>4. QED
    BY <1>6, <1>8, <2>3
<1>11. StringBytes(v) = e \o v
  BY <1>8 DEF StringBytes
<1>12. StringAt(p).val = v /\ StringAt(p).pos = p + 2 + size
  BY <1>1, <1>4, <1>6
<1>13. size < B * B /\ p + 2 + size = p + (2 + size)
  BY <1>3, <1>5, RoomForSizes, SizesAssumption
<1>14. QED
  BY <1>6, <1>10, <1>11, <1>12, <1>13

\* A string that is there is read, and no other.
LEMMA StringThere ==
  ASSUME Buffered, NEW p \in 0 .. N, NEW s \in Seq(Byte), Len(s) < B * B, IsAt(StringBytes(s), p)
  PROVE  /\ StringAt(p).ok /\ StringAt(p).val = s
         /\ StringAt(p).pos = p + Len(StringBytes(s))
<1>1. PICK n \in Nat : n = Len(s)
  OBVIOUS
<1>2. PICK e \in Seq(Byte) : e = Bytes(n, 2) /\ Len(e) = 2 /\ StringBytes(s) = e \o s
  BY <1>1, StringBytesType DEF StringBytes
<1>3. p \in Nat /\ IsAt(e, p) /\ IsAt(s, p + 2)
  <2>1. p \in Nat
    BY SizesAssumption
  <2>2. IsAt(e \o s, p)
    BY <1>2, Zenon
  <2>3. IsAt(e, p) /\ IsAt(s, p + Len(e))
    BY <2>1, <2>2, JoinedAt, Zenon
  <2>4. QED
    BY <1>2, <2>1, <2>3, Zenon
<1>4. p + 2 <= N /\ Field(p, 2) = e /\ p + 2 + n <= N /\ Field(p + 2, n) = s
  BY <1>1, <1>2, <1>3 DEF IsAt
<1>5. e = <<data[p + 1], data[p + 2]>> /\ data[p + 1] \in Byte /\ data[p + 2] \in Byte
  BY <1>3, <1>4, SizeAt
<1>6. n = Uint16At(p)
  BY <1>1, <1>2, <1>5, SizeOfTwoBytes DEF Uint16At
<1>7. Fits(p, 2) /\ Fits(p + 2, n)
  BY <1>3, <1>4, InsideFits
<1>8. StringAt(p) = [ok |-> TRUE, pos |-> p + 2 + n, val |-> s]
  BY <1>4, <1>6, <1>7 DEF StringAt
<1>9. p + 2 + n = p + Len(StringBytes(s))
  <2>1. Len(StringBytes(s)) = 2 + n
    BY <1>1, StringBytesType
  <2>2. QED
    BY <1>3, <2>1
<1>10. QED
  BY <1>8, <1>9

\* A vector's elements one after the other.
Encoded(v) == [i \in DOMAIN v |-> StringBytes(v[i])]
Joined(v) == FlattenSeq(Encoded(v))

\* The vectors of strings whose sizes have two bytes.
Vectors == {v \in Seq(Seq(Byte)) : Len(v) < B * B /\ \A i \in 1 .. Len(v) : Len(v[i]) < B * B}

\* Any number has two bytes, if only the lower ones.
LEMMA SizeBytes ==
  ASSUME NEW n \in Nat
  PROVE  Bytes(n, 2) \in Seq(Byte) /\ Len(Bytes(n, 2)) = 2
<1>1. PICK a \in Byte, b \in Byte : a = n % B /\ b = (n \div B) % B
  BY ByteAndRest
<1>2. Bytes(n, 2) = <<a, b>>
  BY <1>1, TwoBytes
<1>3. <<a, b>> \in Seq(Byte) /\ Len(<<a, b>>) = 2
  OBVIOUS
<1>4. QED
  BY <1>2, <1>3, Zenon

LEMMA EncodedType ==
  ASSUME NEW v \in Seq(Seq(Byte))
  PROVE  /\ Encoded(v) \in Seq(Seq(Byte)) /\ Len(Encoded(v)) = Len(v) /\ Joined(v) \in Seq(Byte)
         /\ \A i \in 1 .. Len(v) : Encoded(v)[i] = StringBytes(v[i])
<1>1. PICK T : T = Seq(Byte)
  OBVIOUS
<1>2. \A i \in 1 .. Len(v) : StringBytes(v[i]) \in T
  BY <1>1, StringBytesType
<1>3. PICK n \in Nat : n = Len(v) /\ DOMAIN v = 1 .. n
  OBVIOUS
<1>4. /\ [i \in 1 .. n |-> StringBytes(v[i])] \in Seq(T)
      /\ Len([i \in 1 .. n |-> StringBytes(v[i])]) = n
  BY <1>2, <1>3
<1>5. Encoded(v) = [i \in 1 .. n |-> StringBytes(v[i])]
  BY <1>3 DEF Encoded
<1>6. Encoded(v) \in Seq(Seq(Byte)) /\ Len(Encoded(v)) = Len(v)
  BY <1>1, <1>3, <1>4, <1>5, Zenon
<1>7. \A i \in 1 .. Len(v) : Encoded(v)[i] = StringBytes(v[i])
  BY <1>3, <1>5
<1>8. QED
  BY <1>6, <1>7, FlattenType DEF Joined

LEMMA JoinedNone == Joined(<<>>) = <<>>
<1>1. Encoded(<<>>) = <<>>
  BY DEF Encoded
<1>2. FlattenSeq(<<>>) = <<>>
  BY DEF FlattenSeq
<1>3. QED
  BY <1>1, <1>2, Zenon DEF Joined

LEMMA JoinedAppend ==
  ASSUME NEW v \in Seq(Seq(Byte)), NEW x \in Seq(Byte)
  PROVE  Joined(Append(v, x)) = Joined(v) \o StringBytes(x)
<1>1. PICK u \in Seq(Seq(Byte)) : u = Append(v, x)
  <2>1. Append(v, x) \in Seq(Seq(Byte))
    BY AppendProperties
  <2>2. QED
    BY <2>1
<1>2. PICK w \in Seq(Seq(Byte)), z \in Seq(Byte) :
        /\ w = Encoded(v) /\ z = StringBytes(x) /\ Len(w) = Len(v)
        /\ \A i \in 1 .. Len(v) : w[i] = StringBytes(v[i])
  BY EncodedType, StringBytesType
<1>3. PICK y \in Seq(Seq(Byte)) :
        /\ y = Encoded(u) /\ Len(y) = Len(u)
        /\ \A i \in 1 .. Len(u) : y[i] = StringBytes(u[i])
  BY EncodedType
<1>4. Len(u) = Len(v) + 1 /\ u[Len(v) + 1] = x /\ \A i \in 1 .. Len(v) : u[i] = v[i]
  BY <1>1
<1>5. y = Append(w, z)
  <2>1. Len(y) = Len(w) + 1 /\ y[Len(w) + 1] = z
    BY <1>2, <1>3, <1>4
  <2>2. \A i \in 1 .. Len(w) : y[i] = w[i]
    BY <1>2, <1>3, <1>4
  <2>3. QED
    BY <2>1, <2>2
<1>6. FlattenSeq(Append(w, z)) = FlattenSeq(w) \o z
  BY FlattenAppend
<1>7. QED
  BY <1>1, <1>2, <1>3, <1>5, <1>6, Zenon DEF Joined

LEMMA VectorBytesType ==
  ASSUME NEW v \in Seq(Seq(Byte))
  PROVE  /\ VectorBytes(v) = Bytes(Len(v), 2) \o Joined(v) /\ VectorBytes(v) \in Seq(Byte)
         /\ Joined(v) \in Seq(Byte) /\ Len(VectorBytes(v)) = 2 + Len(Joined(v))
<1>1. VectorBytes(v) = Bytes(Len(v), 2) \o Joined(v)
  BY DEF VectorBytes, Joined, Encoded
<1>2. PICK e \in Seq(Byte), j \in Seq(Byte) : e = Bytes(Len(v), 2) /\ j = Joined(v) /\ Len(e) = 2
  BY SizeBytes, EncodedType
<1>3. e \o j \in Seq(Byte) /\ Len(e \o j) = Len(e) + Len(j)
  BY ConcatProperties
<1>4. QED
  BY <1>1, <1>2, <1>3

\* A vector begins with its first elements, and these with the ones before the last.
LEMMA JoinedBeginning ==
  ASSUME NEW v \in Seq(Seq(Byte)), NEW k \in Nat, k < Len(v)
  PROVE  /\ SubSeq(v, 1, k) \in Seq(Seq(Byte)) /\ v[k + 1] \in Seq(Byte)
         /\ \E t \in Seq(Byte) :
              Joined(v) = (Joined(SubSeq(v, 1, k)) \o StringBytes(v[k + 1])) \o t
<1>1. PICK u \in Seq(Seq(Byte)), x \in Seq(Byte) :
        u = SubSeq(v, 1, k) /\ x = v[k + 1] /\ SubSeq(v, 1, k + 1) = Append(u, x)
  <2>1. /\ SubSeq(v, 1, k) \in Seq(Seq(Byte)) /\ v[k + 1] \in Seq(Byte)
        /\ SubSeq(v, 1, k + 1) = Append(SubSeq(v, 1, k), v[k + 1])
    BY NextElement
  <2>2. QED
    BY <2>1, Zenon
<1>2. PICK m \in Nat : m = k + 1 /\ m <= Len(v)
  OBVIOUS
<1>3. PICK w \in Seq(Seq(Byte)) :
        /\ w = Encoded(v) /\ Len(w) = Len(v)
        /\ \A i \in 1 .. Len(v) : w[i] = StringBytes(v[i])
  BY EncodedType
<1>4. PICK y \in Seq(Seq(Byte)) : y = SubSeq(v, 1, m) /\ Len(y) = m /\ \A i \in 1 .. m : y[i] = v[i]
  <2>1. m \in Nat /\ m <= Len(v)
    BY <1>2
  <2>2. /\ SubSeq(v, 1, m) \in Seq(Seq(Byte)) /\ Len(SubSeq(v, 1, m)) = m
        /\ \A i \in 1 .. m : SubSeq(v, 1, m)[i] = v[i]
    BY <2>1, FirstElements
  <2>3. QED
    BY <2>2, Zenon
<1>5. PICK z \in Seq(Seq(Byte)) :
        /\ z = Encoded(y) /\ Len(z) = m
        /\ \A i \in 1 .. m : z[i] = StringBytes(y[i])
  <2>1. /\ Encoded(y) \in Seq(Seq(Byte)) /\ Len(Encoded(y)) = Len(y)
        /\ \A i \in 1 .. Len(y) : Encoded(y)[i] = StringBytes(y[i])
    BY EncodedType, Zenon
  <2>2. QED
    BY <1>4, <2>1, Zenon
<1>6. SubSeq(w, 1, m) = z
  <2>1. m \in Nat /\ m <= Len(w)
    BY <1>2, <1>3
  <2>2. PICK b \in Seq(Seq(Byte)) :
          b = SubSeq(w, 1, m) /\ Len(b) = m /\ \A i \in 1 .. m : b[i] = w[i]
    <3>1. /\ SubSeq(w, 1, m) \in Seq(Seq(Byte)) /\ Len(SubSeq(w, 1, m)) = m
          /\ \A i \in 1 .. m : SubSeq(w, 1, m)[i] = w[i]
      BY <2>1, FirstElements
    <3>2. QED
      BY <3>1, Zenon
  <2>3. \A i \in 1 .. m : b[i] = z[i]
    BY <1>2, <1>3, <1>4, <1>5, <2>2
  <2>4. b = z
    BY <1>5, <2>2, <2>3
  <2>5. QED
    BY <2>2, <2>4
<1>7. PICK t \in Seq(Byte) : FlattenSeq(w) = FlattenSeq(SubSeq(w, 1, m)) \o t
  <2>1. m <= Len(w)
    BY <1>2, <1>3
  <2>2. QED
    BY <2>1, FlattenBeginning, Zenon
<1>8. Joined(v) = Joined(y) \o t
  BY <1>3, <1>5, <1>6, <1>7, Zenon DEF Joined
<1>9. y = Append(u, x)
  BY <1>1, <1>2, <1>4
<1>10. Joined(y) = Joined(u) \o StringBytes(x)
  BY <1>9, JoinedAppend
<1>11. Joined(v) = (Joined(u) \o StringBytes(x)) \o t
  BY <1>8, <1>10, Zenon
<1>12. QED
  BY <1>1, <1>11

\* A vector that is there has the size that is read.
LEMMA SizeThere ==
  ASSUME Buffered, NEW p \in Nat, NEW v \in Seq(Seq(Byte)), IsAt(VectorBytes(v), p)
  PROVE  /\ p + 2 <= N /\ IsAt(Joined(v), p + 2)
         /\ Len(v) < B * B => Len(v) = Uint16At(p)
<1>1. PICK n \in Nat : n = Len(v)
  OBVIOUS
<1>2. PICK e \in Seq(Byte), j \in Seq(Byte) :
        e = Bytes(n, 2) /\ j = Joined(v) /\ Len(e) = 2 /\ VectorBytes(v) = e \o j
  BY <1>1, SizeBytes, VectorBytesType
<1>3. IsAt(e, p) /\ IsAt(j, p + Len(e))
  <2>1. IsAt(e \o j, p)
    BY <1>2, Zenon
  <2>2. QED
    BY <2>1, JoinedAt, Zenon
<1>4. p + 2 <= N /\ Field(p, 2) = e
  BY <1>2, <1>3 DEF IsAt
<1>5. e = <<data[p + 1], data[p + 2]>> /\ data[p + 1] \in Byte /\ data[p + 2] \in Byte
  BY <1>4, SizeAt
<1>6. n < B * B => n = Uint16At(p)
  BY <1>2, <1>5, SizeOfTwoBytes DEF Uint16At
<1>7. IsAt(Joined(v), p + 2)
  BY <1>2, <1>3, Zenon
<1>8. QED
  BY <1>1, <1>4, <1>6, <1>7

\* Behind the first elements of a vector that is there, the next one is read.
LEMMA NextThere ==
  ASSUME Buffered, NEW p \in Nat, NEW v \in Vectors, IsAt(VectorBytes(v), p),
         NEW k \in Nat, k < Len(v), NEW q \in 0 .. N,
         q = (p + 2) + Len(Joined(SubSeq(v, 1, k)))
  PROVE  StringAt(q).ok /\ StringAt(q).val = v[k + 1]
<1>1. v \in Seq(Seq(Byte)) /\ Len(v[k + 1]) < B * B
  BY DEF Vectors
<1>2. PICK t \in Seq(Byte) :
        Joined(v) = (Joined(SubSeq(v, 1, k)) \o StringBytes(v[k + 1])) \o t
  BY <1>1, JoinedBeginning
<1>3. PICK u \in Seq(Byte), x \in Seq(Byte), s \in Seq(Byte) :
        u = Joined(SubSeq(v, 1, k)) /\ x = v[k + 1] /\ s = StringBytes(x)
  BY <1>1, JoinedBeginning, EncodedType, StringBytesType
<1>4. PICK r \in Nat : r = p + 2
  OBVIOUS
<1>5. IsAt((u \o s) \o t, r)
  <2>1. IsAt(Joined(v), p + 2)
    BY <1>1, SizeThere
  <2>2. QED
    BY <1>2, <1>3, <1>4, <2>1, Zenon
<1>6. PICK us \in Seq(Byte) : us = u \o s
  BY JoinedAt
<1>7. IsAt(us, r)
  BY <1>5, <1>6, JoinedAt, Zenon
<1>8. IsAt(s, r + Len(u))
  BY <1>6, <1>7, JoinedAt, Zenon
<1>9. IsAt(StringBytes(x), q)
  BY <1>3, <1>4, <1>8, Zenon
<1>10. QED
  BY <1>1, <1>3, <1>9, StringThere

-----------------------------------------------------------------------------
(* What the reads give *)

LEMMA BoundedType ==
  ASSUME NEW T, NEW n \in Int, NEW v \in BoundedSeq(T, n)
  PROVE  v \in Seq(T)
<1>1. PICK m \in 0 .. n : v \in [1 .. m -> T]
  BY DEF BoundedSeq, SeqOf
<1>2. QED
  BY <1>1

\* The values that EncodedIsRead looks for have sizes of two bytes.
LEMMA ValuesAreSized ==
  /\ \A v \in Values("string") : v \in Seq(Byte) /\ Len(v) < B * B
  /\ \A v \in Values("vector") : v \in Vectors
<1>1. \A n \in Int : \A v \in Sized(Byte, n) : v \in Seq(Byte) /\ Len(v) < B * B
  BY BoundedType DEF Sized
<1>2. N \in Int /\ N - 2 \in Int /\ N \div 2 \in Int
  BY SizesAssumption
<1>3. ASSUME NEW v \in Sized(Sized(Byte, N - 2), N \div 2) PROVE v \in Vectors
  <2>1. PICK T : T = Sized(Byte, N - 2)
    OBVIOUS
  <2>2. v \in Seq(T) /\ Len(v) < B * B
    BY <1>2, <1>3, <2>1, BoundedType DEF Sized
  <2>3. \A s \in T : s \in Seq(Byte) /\ Len(s) < B * B
    BY <1>1, <1>2, <2>1
  <2>4. PICK S : S = Seq(Byte)
    OBVIOUS
  <2>5. v \in Seq(S) /\ \A i \in 1 .. Len(v) : Len(v[i]) < B * B
    BY <2>2, <2>3, <2>4
  <2>6. QED
    BY <2>2, <2>4, <2>5, Zenon DEF Vectors
<1>4. QED
  BY <1>1, <1>2, <1>3 DEF Values

\* The answer of a call that is over, in terms of the state before it.
Missing(op, v) ==
  IF op = "scalar" THEN rpos + v > N
  ELSE \A x \in Values(op) : \A e \in Encodings(op, x) : ~IsPrefix(e, SubSeq(data, rpos + 1, N))

LEMMA AnswerIsExact ==
  ASSUME NEW op, NEW ok, NEW p, NEW v, Returns(op, ok, p, v),
         ok => SubSeq(data, rpos + 1, p) \in Encodings(op, v),
         ~ok => Missing(op, v)
  PROVE  ReadsAreExact'
<1>1. /\ last'.op = op /\ last'.from = rpos /\ last'.ok = ok /\ last'.val = v
      /\ rpos' = p /\ data' = data
  BY DEF Returns
<1>2. ReadIsEncoded'
  BY <1>1, Zenon DEF ReadIsEncoded
<1>3. EncodedIsRead'
  BY <1>1, Zenon DEF EncodedIsRead, Missing
<1>4. QED
  BY <1>2, <1>3 DEF ReadsAreExact

\* A call that is no read has nothing to answer.
LEMMA OthersAreExact ==
  ASSUME last'.op \notin Reads
  PROVE  ReadsAreExact'
  BY DEF ReadsAreExact, ReadIsEncoded, EncodedIsRead

\* What does not fit is not there.
LEMMA TooShort ==
  ASSUME Buffered, NEW p \in 0 .. N, NEW n \in Nat, ~Fits(p, n),
         NEW e \in Seq(Byte), n <= Len(e)
  PROVE  ~IsPrefix(e, SubSeq(data, p + 1, N))
<1>1. SUFFICES ASSUME IsPrefix(e, SubSeq(data, p + 1, N)) PROVE FALSE
  OBVIOUS
<1>2. PICK m \in Nat : m = Len(e)
  OBVIOUS
<1>3. IsAt(e, p)
  BY <1>1, PrefixAt
<1>4. p \in Nat /\ p + m <= N
  BY <1>2, <1>3, SizesAssumption DEF IsAt
<1>5. p + n <= N
  BY <1>2, <1>4, SizesAssumption
<1>6. QED
  BY <1>4, <1>5, InsideFits

\* One byte at a cursor.
LEMMA ByteAt ==
  ASSUME Buffered, NEW p \in 0 .. N, Fits(p, 1)
  PROVE  /\ p + 1 \in 0 .. N /\ data[p + 1] \in Byte /\ Field(p, 1) = <<data[p + 1]>>
<1>1. PICK n \in Nat : n = 1
  OBVIOUS
<1>2. p \in Nat /\ p + n <= N /\ p + 1 \in 1 .. N
  BY <1>1, SmallFits, RoomForSizes, SizesAssumption
<1>3. /\ Field(p, n) \in Seq(Byte) /\ Len(Field(p, n)) = n
      /\ \A i \in 1 .. n : Field(p, n)[i] = data[p + i]
  BY <1>2, FieldBytes
<1>4. Field(p, 1) = <<data[p + 1]>>
  BY <1>1, <1>3
<1>5. QED
  BY <1>2, <1>4, SizesAssumption DEF Buffered

\* readUint8 to readUint64.
LEMMA ScalarIsExact ==
  ASSUME Buffered, rpos \in 0 .. N, NEW w \in Widths, ReadScalar(w)
  PROVE  ReadsAreExact'
<1>1. w \in Nat /\ w <= 8 /\ rpos \in Nat
  BY SizesAssumption DEF Widths
<1>2. CASE Fits(rpos, w)
  <2>1. Returns("scalar", TRUE, rpos + w, LittleEndian(Field(rpos, w)))
    BY <1>2 DEF ReadScalar
  <2>2. rpos + w <= N
    BY <1>1, <1>2, SmallFits, RoomForSizes, SizesAssumption
  <2>3. PICK s \in Seq(Byte) : s = Field(rpos, w) /\ Len(s) = w
    <3>1. Field(rpos, w) \in Seq(Byte) /\ Len(Field(rpos, w)) = w
      BY <1>1, <2>2, FieldBytes
    <3>2. QED
      BY <3>1
  <2>4. Bytes(LittleEndian(s), w) = s
    BY <2>3, BytesOfScalar
  <2>5. SubSeq(data, rpos + 1, rpos + w) \in Encodings("scalar", LittleEndian(s))
    <3>1. SubSeq(data, rpos + 1, rpos + w) = Bytes(LittleEndian(s), w)
      BY <2>3, <2>4 DEF Field
    <3>2. QED
      BY <3>1 DEF Encodings
  <2>6. SubSeq(data, rpos + 1, rpos + w) \in Encodings("scalar", LittleEndian(Field(rpos, w)))
    BY <2>3, <2>5, Zenon
  <2>7. QED
    BY <2>1, <2>6, AnswerIsExact, Zenon
<1>3. CASE ~Fits(rpos, w)
  <2>1. Returns("scalar", FALSE, rpos, w)
    BY <1>3 DEF ReadScalar
  <2>2. ~(rpos + w <= N)
    BY <1>1, <1>3, InsideFits
  <2>3. Missing("scalar", w)
    BY <1>1, <2>2, SizesAssumption DEF Missing
  <2>4. QED
    BY <2>1, <2>3, AnswerIsExact, Zenon
<1>4. QED
  BY <1>2, <1>3

\* read(bool).
LEMMA BoolIsExact ==
  ASSUME Buffered, rpos \in 0 .. N, ReadBool
  PROVE  ReadsAreExact'
<1>1. CASE Fits(rpos, 1)
  <2> DEFINE v == Field(rpos, 1) # <<0>>
             b == data[rpos + 1]
  <2>1. Returns("bool", TRUE, rpos + 1, v)
    BY <1>1 DEF ReadBool
  <2>2. b \in Byte /\ Field(rpos, 1) = <<b>>
    BY <1>1, ByteAt
  <2>3. <<b>> \in Encodings("bool", v)
    <3>1. v <=> b # 0
      BY <2>2
    <3>2. QED
      BY <2>2, <3>1 DEF Encodings
  <2>4. SubSeq(data, rpos + 1, rpos + 1) = <<b>>
    BY <2>2 DEF Field
  <2> HIDE DEF v, b
  <2>5. SubSeq(data, rpos + 1, rpos + 1) \in Encodings("bool", v)
    BY <2>3, <2>4, Zenon
  <2>6. QED
    BY <2>1, <2>5, AnswerIsExact, Zenon
<1>2. CASE ~Fits(rpos, 1)
  <2>1. Returns("bool", FALSE, rpos, None)
    BY <1>2 DEF ReadBool
  <2>2. ASSUME NEW x \in BOOLEAN, NEW e \in Encodings("bool", x)
        PROVE  ~IsPrefix(e, SubSeq(data, rpos + 1, N))
    <3>1. PICK b \in Byte : e = <<b>>
      BY <2>2, SizesAssumption DEF Encodings, Byte
    <3>2. e \in Seq(Byte) /\ 1 <= Len(e)
      BY <3>1
    <3>3. QED
      BY <1>2, <3>2, TooShort
  <2>3. Missing("bool", None)
    BY <2>2 DEF Missing, Values
  <2>4. QED
    BY <2>1, <2>3, AnswerIsExact, Zenon
<1>3. QED
  BY <1>1, <1>2

\* A flag and a byte.
LEMMA Pair ==
  ASSUME NEW b \in Byte, NEW c \in Byte
  PROVE  <<b>> \o <<c>> = <<b, c>>
<1>1. ASSUME NEW x \in Seq(Byte), NEW y \in Seq(Byte), Len(x) = 1, Len(y) = 1
      PROVE  x \o y = <<x[1], y[1]>>
  <2>1. PICK z \in Seq(Byte) : z = x \o y
    <3>1. x \o y \in Seq(Byte)
      BY ConcatProperties
    <3>2. QED
      BY <3>1
  <2>2. Len(z) = 2 /\ z[1] = x[1] /\ z[2] = y[1]
    <3>1. PICK m \in Nat, n \in Nat : m = Len(x) /\ n = Len(y)
      OBVIOUS
    <3>2. /\ Len(z) = m + n
          /\ \A i \in 1 .. m : z[i] = x[i]
          /\ \A i \in 1 .. n : z[m + i] = y[i]
      BY <2>1, <3>1
    <3>3. m = 1 /\ n = 1
      BY <1>1, <3>1
    <3>4. QED
      BY <3>2, <3>3
  <2>3. z = <<x[1], y[1]>>
    BY <2>2
  <2>4. QED
    BY <2>1, <2>3, Zenon
<1>2. /\ <<b>> \in Seq(Byte) /\ Len(<<b>>) = 1 /\ <<b>>[1] = b
      /\ <<c>> \in Seq(Byte) /\ Len(<<c>>) = 1 /\ <<c>>[1] = c
  OBVIOUS
<1>3. <<b>> \o <<c>> = << <<b>>[1], <<c>>[1] >>
  BY <1>1, <1>2, Zenon
<1>4. QED
  BY <1>2, <1>3, Zenon

\* read(Optional): a flag and, if it is set, the value.
LEMMA OptionalIsExact ==
  ASSUME Buffered, rpos \in 0 .. N, ReadOptional
  PROVE  ReadsAreExact'
<1>1. ASSUME NEW x \in Values("optional"), NEW e \in Encodings("optional", x)
      PROVE  e \in Seq(Byte) /\ Len(e) = 2 /\ e[1] # 0
  <2>1. PICK c \in Byte : c = x[1] /\ x = <<c>>
    <3>1. x \in [1 .. 1 -> Byte]
      BY DEF Values
    <3>2. QED
      BY <3>1
  <2>2. PICK b \in Byte : b # 0 /\ e = <<b>> \o <<c>>
    BY <2>1 DEF Encodings
  <2>3. e = <<b, c>>
    BY <2>2, Pair, Zenon
  <2>4. <<b, c>> \in Seq(Byte) /\ Len(<<b, c>>) = 2 /\ <<b, c>>[1] = b
    OBVIOUS
  <2>5. QED
    BY <2>2, <2>3, <2>4, Zenon
<1>2. CASE ~Fits(rpos, 1) /\ Returns("optional", FALSE, rpos, <<>>)
  <2>1. Missing("optional", <<>>)
    <3>1. ASSUME NEW x \in Values("optional"), NEW e \in Encodings("optional", x)
          PROVE  ~IsPrefix(e, SubSeq(data, rpos + 1, N))
      <4>1. e \in Seq(Byte) /\ 1 <= Len(e)
        BY <1>1
      <4>2. QED
        BY <1>2, <4>1, TooShort
    <3>2. QED
      BY <3>1 DEF Missing
  <2>2. QED
    BY <1>2, <2>1, AnswerIsExact, Zenon
<1>3. CASE Fits(rpos, 1) /\ Field(rpos, 1) = <<0>> /\ Returns("optional", FALSE, rpos + 1, <<>>)
  <2>1. Missing("optional", <<>>)
    <3>1. ASSUME NEW x \in Values("optional"), NEW e \in Encodings("optional", x),
                 IsPrefix(e, SubSeq(data, rpos + 1, N))
          PROVE  FALSE
      <4>1. e \in Seq(Byte) /\ Len(e) = 2 /\ e[1] # 0
        BY <1>1
      <4>2. IsAt(e, rpos)
        BY <3>1, <4>1, PrefixAt
      <4>3. data[rpos + 1] = e[1]
        <5>1. rpos \in Nat
          BY SizesAssumption
        <5>2. \A i \in 1 .. Len(e) : data[rpos + i] = e[i]
          BY <4>1, <4>2, <5>1, BytesAt
        <5>3. 1 \in 1 .. Len(e)
          BY <4>1
        <5>4. QED
          BY <5>2, <5>3
      <4>4. data[rpos + 1] = 0
        BY <1>3, ByteAt
      <4>5. QED
        BY <4>1, <4>3, <4>4
    <3>2. QED
      BY <3>1 DEF Missing
  <2>2. QED
    BY <1>3, <2>1, AnswerIsExact, Zenon
<1>4. CASE /\ Fits(rpos, 1) /\ Field(rpos, 1) # <<0>> /\ Fits(rpos + 1, 1)
           /\ Returns("optional", TRUE, rpos + 2, Field(rpos + 1, 1))
  <2>1. PICK q \in 0 .. N, b \in Byte : q = rpos + 1 /\ b = data[rpos + 1] /\ b # 0
    BY <1>4, ByteAt
  <2>2. PICK c \in Byte : c = data[q + 1] /\ q + 1 <= N /\ Field(q, 1) = <<c>>
    <3>1. Fits(q, 1)
      BY <1>4, <2>1
    <3>2. QED
      BY <3>1, ByteAt
  <2>3. rpos \in Nat /\ rpos + 2 = q + 1
    BY <2>1, SizesAssumption
  <2>4. Field(rpos, 2) = <<b, c>>
    <3>1. rpos + 2 <= N
      BY <2>2, <2>3
    <3>2. Field(rpos, 2) = <<data[rpos + 1], data[rpos + 2]>>
      BY <2>3, <3>1, SizeAt
    <3>3. QED
      BY <2>1, <2>2, <2>3, <3>2
  <2>5. <<b>> \o <<c>> = <<b, c>>
    BY Pair
  <2>6. <<b>> \o <<c>> \in Encodings("optional", <<c>>)
    BY <2>1 DEF Encodings
  <2>7. SubSeq(data, rpos + 1, rpos + 2) \in Encodings("optional", Field(rpos + 1, 1))
    BY <2>1, <2>2, <2>4, <2>5, <2>6, Zenon DEF Field
  <2>8. QED
    BY <1>4, <2>7, AnswerIsExact, Zenon
<1>5. CASE /\ Fits(rpos, 1) /\ Field(rpos, 1) # <<0>> /\ ~Fits(rpos + 1, 1)
           /\ \E b \in Byte : Returns("optional", FALSE, rpos + 1, <<b>>)
  <2>1. PICK d \in Byte : Returns("optional", FALSE, rpos + 1, <<d>>)
    BY <1>5
  <2>2. Missing("optional", <<d>>)
    <3>1. ASSUME NEW x \in Values("optional"), NEW e \in Encodings("optional", x),
                 IsPrefix(e, SubSeq(data, rpos + 1, N))
          PROVE  FALSE
      <4>1. e \in Seq(Byte) /\ Len(e) = 2
        BY <1>1
      <4>2. IsAt(e, rpos)
        BY <3>1, <4>1, PrefixAt
      <4>3. PICK q \in Nat : q = rpos + 1
        BY SizesAssumption
      <4>4. q + 1 <= N
        BY <4>1, <4>2, <4>3, SizesAssumption DEF IsAt
      <4>5. Fits(q, 1)
        BY <4>4, InsideFits
      <4>6. QED
        BY <1>5, <4>3, <4>5
    <3>2. QED
      BY <3>1 DEF Missing
  <2>3. QED
    BY <2>1, <2>2, AnswerIsExact, Zenon
<1>6. QED
  BY <1>2, <1>3, <1>4, <1>5, Zenon DEF ReadOptional

\* read(string).
LEMMA StringIsExact ==
  ASSUME Buffered, rpos \in 0 .. N, ReadString
  PROVE  ReadsAreExact'
<1> DEFINE s == StringAt(rpos)
<1>1. Returns("string", s.ok, s.pos, s.val)
  BY DEF ReadString
<1>2. s.ok => SubSeq(data, rpos + 1, s.pos) \in Encodings("string", s.val)
  <2>1. SUFFICES ASSUME s.ok PROVE SubSeq(data, rpos + 1, s.pos) \in Encodings("string", s.val)
    OBVIOUS
  <2>2. PICK e \in Seq(Byte) : e = StringBytes(s.val) /\ IsAt(e, rpos) /\ s.pos = rpos + Len(e)
    BY <2>1, StringRead, StringBytesType
  <2>3. SubSeq(data, rpos + 1, rpos + Len(e)) = e
    BY <2>2, BetweenAt
  <2>4. e \in Encodings("string", s.val)
    BY <2>2 DEF Encodings
  <2>5. QED
    BY <2>2, <2>3, <2>4, Zenon
<1>3. ~s.ok => Missing("string", s.val)
  <2>1. SUFFICES ASSUME ~s.ok, NEW x \in Values("string"), NEW e \in Encodings("string", x),
                        IsPrefix(e, SubSeq(data, rpos + 1, N))
                 PROVE  FALSE
    BY DEF Missing
  <2>2. x \in Seq(Byte) /\ Len(x) < B * B /\ e = StringBytes(x)
    BY <2>1, ValuesAreSized DEF Encodings
  <2>3. e \in Seq(Byte)
    BY <2>2, StringBytesType
  <2>4. IsAt(StringBytes(x), rpos)
    BY <2>1, <2>2, <2>3, PrefixAt
  <2>5. QED
    BY <2>1, <2>2, <2>4, StringThere
<1> HIDE DEF s
<1>4. QED
  BY <1>1, <1>2, <1>3, AnswerIsExact, Zenon

\* A loop over a vector of count elements that began at from: the elements it keeps
\* lie behind the size, one after the other, and pos is where the next should be.
Loop(from, items, count, pos) ==
  /\ from \in Nat /\ from + 2 <= N /\ items \in Seq(Seq(Byte))
  /\ count = Uint16At(from)
  /\ IsAt(Joined(items), from + 2)
  /\ pos = (from + 2) + Len(Joined(items))

\* Only vectors of that size and with those first elements can be there.
Alone(from, items, count) ==
  \A v \in Vectors : IsAt(VectorBytes(v), from) =>
    Len(v) = count /\ SubSeq(v, 1, Len(items)) = items

LoopInvariant ==
  vec.left > 0 =>
    /\ DOMAIN last = {"op", "from", "ok", "val"} /\ last.op = "vector" /\ ~last.ok
    /\ Loop(last.from, vec.items, Len(vec.items) + vec.left, rpos)
    /\ Alone(last.from, vec.items, Len(vec.items) + vec.left)

\* A step of the loop that goes on.
LEMMA LoopGoesOn ==
  ASSUME NEW from, NEW items, NEW count, NEW pos,
         Loop(from, items, count, pos), Alone(from, items, count), data' = data,
         DOMAIN last' = {"op", "from", "ok", "val"}, last'.op = "vector", ~last'.ok,
         last'.from = from, vec'.items = items, Len(items) + vec'.left = count, rpos' = pos
  PROVE  LoopInvariant'
<1>1. Loop(last'.from, vec'.items, Len(vec'.items) + vec'.left, rpos')
  BY Zenon
<1>2. Alone(last'.from, vec'.items, Len(vec'.items) + vec'.left)
  BY Zenon
<1>3. Loop(last.from, vec.items, Len(vec.items) + vec.left, rpos)'
  BY <1>1, Zenon DEF Loop, IsAt, Field, Uint16At
<1>4. Alone(last.from, vec.items, Len(vec.items) + vec.left)'
  BY <1>2, Zenon DEF Alone, IsAt, Field
<1>5. QED
  BY <1>3, <1>4, Zenon DEF LoopInvariant

\* The size of a vector is read.
LEMMA VectorStarts ==
  ASSUME Buffered, rpos \in 0 .. N, ReadVector
  PROVE  ReadsAreExact' /\ LoopInvariant'
<1>1. rpos \in Nat /\ vec.left = 0
  BY SizesAssumption DEF ReadVector, Free
<1>2. CASE ~Fits(rpos, 2)
  <2>1. Returns("vector", FALSE, rpos, <<>>) /\ vec' = vec
    BY <1>2 DEF ReadVector
  <2>2. Missing("vector", <<>>)
    <3>1. SUFFICES ASSUME NEW x \in Values("vector"), NEW e \in Encodings("vector", x)
                   PROVE  ~IsPrefix(e, SubSeq(data, rpos + 1, N))
      BY DEF Missing
    <3>2. e = VectorBytes(x) /\ x \in Seq(Seq(Byte))
      BY ValuesAreSized DEF Encodings, Vectors
    <3>3. e \in Seq(Byte) /\ Len(e) = 2 + Len(Joined(x)) /\ Len(Joined(x)) \in Nat
      BY <3>2, VectorBytesType
    <3>4. 2 <= Len(e)
      BY <3>3
    <3>5. QED
      BY <1>2, <3>3, <3>4, TooShort
  <2>3. ReadsAreExact'
    BY <2>1, <2>2, AnswerIsExact, Zenon
  <2>4. LoopInvariant'
    BY <1>1, <2>1 DEF LoopInvariant
  <2>5. QED
    BY <2>3, <2>4
<1>3. CASE Fits(rpos, 2)
  <2> DEFINE size == Uint16At(rpos)
  <2>1. /\ Returns("vector", size = 0, rpos + 2, <<>>)
        /\ vec' = [left |-> size, items |-> <<>>]
    BY <1>3 DEF ReadVector
  <2>2. rpos + 2 <= N
    BY <1>1, <1>3, SmallFits, RoomForSizes, SizesAssumption
  <2>3. size \in Nat /\ Bytes(size, 2) = Field(rpos, 2)
    BY <1>1, <2>2, SizeAt
  <2>4. CASE size = 0
    <3>1. PICK e \in Seq(Byte) : e = Bytes(size, 2) /\ Len(e) = 2
      BY <2>3, SizeBytes
    <3>2. e \o <<>> = e
      BY <3>1, ConcatEmptySeq
    <3>3. <<>> \in Seq(Seq(Byte)) /\ Len(<<>>) = 0
      BY EmptySeq
    <3>4. VectorBytes(<<>>) = Bytes(Len(<<>>), 2) \o Joined(<<>>)
      BY <3>3, VectorBytesType, Zenon
    <3>5. VectorBytes(<<>>) = e
      BY <2>4, <3>1, <3>2, <3>3, <3>4, JoinedNone, Zenon
    <3>6. SubSeq(data, rpos + 1, rpos + 2) \in Encodings("vector", <<>>)
      BY <2>3, <3>1, <3>5 DEF Encodings, Field
    <3>7. ReadsAreExact'
      BY <2>1, <2>4, <3>6, AnswerIsExact
    <3>8. LoopInvariant'
      BY <2>1, <2>4 DEF LoopInvariant
    <3>9. QED
      BY <3>7, <3>8
  <2>5. CASE size # 0
    <3>1. /\ last' = [op |-> "vector", from |-> rpos, ok |-> FALSE, val |-> <<>>]
          /\ data' = data /\ rpos' = rpos + 2 /\ vec'.left = size /\ vec'.items = <<>>
      BY <2>1, <2>5 DEF Returns
    <3>2. size > 0
      BY <2>3, <2>5
    <3>3. ReadsAreExact'
      BY <3>1, <3>2 DEF ReadsAreExact, ReadIsEncoded, EncodedIsRead
    <3>4. Loop(rpos, <<>>, size, rpos + 2)
      <4>1. PICK q \in Nat, e \in Seq(Byte) : q = rpos + 2 /\ e = <<>> /\ Len(e) = 0 /\ q <= N
        <5>1. rpos + 2 \in Nat /\ <<>> \in Seq(Byte) /\ Len(<<>>) = 0
          BY <1>1
        <5>2. QED
          BY <2>2, <5>1
      <4>2. q + Len(e) <= N /\ \A i \in 1 .. Len(e) : data[q + i] = e[i]
        BY <4>1
      <4>3. IsAt(e, q)
        BY <4>2, BytesAt
      <4>4. IsAt(Joined(<<>>), rpos + 2)
        BY <4>1, <4>3, JoinedNone, Zenon
      <4>5. Len(Joined(<<>>)) = 0
        BY <4>1, JoinedNone, Zenon
      <4>6. rpos + 2 = (rpos + 2) + Len(Joined(<<>>))
        BY <1>1, <4>5
      <4>7. <<>> \in Seq(Seq(Byte))
        BY EmptySeq
      <4>8. QED
        BY <1>1, <2>2, <4>4, <4>6, <4>7, Zenon DEF Loop
    <3>5. Alone(rpos, <<>>, size)
      <4>1. SUFFICES ASSUME NEW v \in Vectors, IsAt(VectorBytes(v), rpos)
                     PROVE  Len(v) = size /\ SubSeq(v, 1, Len(<<>>)) = <<>>
        BY Zenon DEF Alone
      <4>2. v \in Seq(Seq(Byte)) /\ Len(v) < B * B
        BY DEF Vectors
      <4>3. Len(v) = size
        BY <1>1, <4>1, <4>2, SizeThere
      <4>4. PICK S : S = Seq(Byte)
        OBVIOUS
      <4>5. v \in Seq(S)
        BY <4>2, <4>4, Zenon
      <4>6. SubSeq(v, 1, 0) = <<>> /\ Len(<<>>) = 0
        BY <4>5
      <4>7. QED
        BY <4>3, <4>6, Zenon
    <3>6. Len(<<>>) + vec'.left = size
      BY <2>3, <3>1
    <3>7. /\ DOMAIN last' = {"op", "from", "ok", "val"} /\ last'.op = "vector"
          /\ ~last'.ok /\ last'.from = rpos
      BY <3>1
    <3>8. LoopInvariant'
      <4>1. data' = data /\ vec'.items = <<>> /\ rpos' = rpos + 2
        BY <3>1
      <4>2. QED
        BY <3>4, <3>5, <3>6, <3>7, <4>1, LoopGoesOn, Zenon
    <3>9. QED
      BY <3>3, <3>8
  <2>6. QED
    BY <2>4, <2>5
<1>4. QED
  BY <1>2, <1>3

\* An element is read.
LEMMA ElementIsExact ==
  ASSUME Buffered, rpos \in 0 .. N, vec.left \in Nat, LoopInvariant, ReadElement
  PROVE  ReadsAreExact' /\ LoopInvariant'
<1> DEFINE s == StringAt(rpos)
           from == last.from
           items == vec.items
           k == Len(vec.items)
           count == k + vec.left
<1>1. /\ DOMAIN last = {"op", "from", "ok", "val"} /\ last.op = "vector" /\ ~last.ok
      /\ vec.left > 0 /\ data' = data /\ rpos' = s.pos
      /\ Loop(from, items, count, rpos) /\ Alone(from, items, count)
  BY DEF LoopInvariant, ReadElement
<1>2. /\ from \in Nat /\ from + 2 <= N /\ items \in Seq(Seq(Byte))
      /\ count = Uint16At(from) /\ IsAt(Joined(items), from + 2)
      /\ rpos = (from + 2) + Len(Joined(items))
  BY <1>1 DEF Loop
<1>3. /\ vec' = IF s.ok THEN [left |-> vec.left - 1, items |-> Append(items, s.val)] ELSE NoVector
      /\ last' = [last EXCEPT !.ok = s.ok /\ vec.left = 1, !.val = IF s.ok THEN vec'.items ELSE @]
  BY DEF ReadElement
<1>4. k \in Nat /\ count \in Nat /\ k < count /\ count = k + vec.left /\ k = Len(items)
  BY <1>1, <1>2
<1> HIDE DEF s, from, items, k, count
<1>5. /\ DOMAIN last' = {"op", "from", "ok", "val"} /\ last'.op = "vector" /\ last'.from = from
      /\ last'.ok = (s.ok /\ vec.left = 1)
      /\ s.ok => last'.val = vec'.items
  BY <1>1, <1>3 DEF from
<1>6. ASSUME NEW v \in Vectors, IsAt(VectorBytes(v), from)
      PROVE  /\ v \in Seq(Seq(Byte)) /\ Len(v) = count /\ SubSeq(v, 1, k) = items
             /\ s.ok /\ s.val = v[k + 1]
  <2>1. v \in Seq(Seq(Byte))
    BY DEF Vectors
  <2>2. Len(v) = count /\ SubSeq(v, 1, k) = items
    BY <1>1, <1>4, <1>6, Zenon DEF Alone
  <2>3. rpos = (from + 2) + Len(Joined(SubSeq(v, 1, k)))
    BY <1>2, <2>2, Zenon
  <2>4. k < Len(v)
    BY <1>4, <2>2
  <2>5. s.ok /\ s.val = v[k + 1]
    <3>1. from \in Nat /\ k \in Nat
      BY <1>2, <1>4
    <3>2. StringAt(rpos).ok /\ StringAt(rpos).val = v[k + 1]
      BY <1>6, <2>3, <2>4, <3>1, NextThere
    <3>3. QED
      BY <3>2 DEF s
  <2>6. QED
    BY <2>1, <2>2, <2>5
<1>7. CASE ~s.ok
  <2>1. vec'.left = 0 /\ ~last'.ok
    BY <1>3, <1>5, <1>7 DEF NoVector
  <2>2. ReadIsEncoded'
    BY <2>1 DEF ReadIsEncoded
  <2>3. from \in 0 .. N
    BY <1>2, SizesAssumption
  <2>4. ASSUME NEW x \in Values("vector"), NEW e \in Encodings("vector", x),
               IsPrefix(e, SubSeq(data, from + 1, N))
        PROVE  FALSE
    <3>1. x \in Vectors /\ x \in Seq(Seq(Byte)) /\ e = VectorBytes(x)
      BY <2>4, ValuesAreSized DEF Encodings, Vectors
    <3>2. VectorBytes(x) \in Seq(Byte)
      BY <3>1, VectorBytesType
    <3>3. IsAt(VectorBytes(x), from)
      BY <2>3, <2>4, <3>1, <3>2, PrefixAt
    <3>4. QED
      BY <1>6, <1>7, <3>1, <3>3
  <2>5. EncodedIsRead'
    BY <1>1, <1>5, <2>4, Zenon DEF EncodedIsRead
  <2>6. LoopInvariant'
    BY <2>1 DEF LoopInvariant
  <2>7. QED
    BY <2>2, <2>5, <2>6 DEF ReadsAreExact
<1>8. CASE s.ok
  <2>1. PICK x \in Seq(Byte), e \in Seq(Byte) :
          x = s.val /\ e = StringBytes(x) /\ IsAt(e, rpos) /\ s.pos = rpos + Len(e)
    BY <1>8, StringRead, StringBytesType DEF s
  <2>2. PICK u \in Seq(Seq(Byte)) : u = Append(items, x) /\ Len(u) = k + 1
    <3>1. Append(items, x) \in Seq(Seq(Byte)) /\ Len(Append(items, x)) = Len(items) + 1
      BY <1>2, AppendProperties
    <3>2. QED
      BY <1>4, <3>1
  <2>3. vec'.items = u /\ vec'.left = vec.left - 1 /\ last'.val = u
    BY <1>3, <1>5, <1>8, <2>1, <2>2
  <2>4. PICK j \in Seq(Byte) : j = Joined(items)
    BY <1>2, EncodedType
  <2>5. Joined(u) = j \o e
    BY <1>2, <2>1, <2>2, <2>4, JoinedAppend, Zenon
  <2>6. PICK q \in Nat : q = from + 2
    BY <1>2
  <2>7. IsAt(j \o e, q) /\ Len(j \o e) = Len(j) + Len(e) /\ j \o e \in Seq(Byte)
    <3>1. IsAt(j, q) /\ IsAt(e, q + Len(j))
      BY <1>2, <2>1, <2>4, <2>6, Zenon
    <3>2. QED
      BY <3>1, JoinedAt, Zenon
  <2>8. IsAt(Joined(u), from + 2) /\ s.pos = (from + 2) + Len(Joined(u))
    <3>1. IsAt(Joined(u), from + 2)
      BY <2>5, <2>6, <2>7, Zenon
    <3>2. Len(Joined(u)) = Len(j) + Len(e)
      BY <2>5, <2>7, Zenon
    <3>3. rpos = q + Len(j)
      BY <1>2, <2>4, <2>6, Zenon
    <3>4. s.pos = q + (Len(j) + Len(e))
      BY <2>1, <3>3
    <3>5. QED
      BY <2>6, <3>1, <3>2, <3>4, Zenon
  <2>9. Loop(from, u, count, s.pos)
    BY <1>2, <2>8 DEF Loop
  <2>10. CASE vec.left = 1
    <3>1. vec'.left = 0 /\ last'.ok /\ count = k + 1
      <4>1. vec'.left = 0 /\ count = k + 1
        BY <1>4, <2>3, <2>10
      <4>2. last'.ok
        BY <1>5, <1>8, <2>10, Zenon
      <4>3. QED
        BY <4>1, <4>2
    <3>2. PICK b \in Seq(Byte) : b = Bytes(count, 2) /\ Len(b) = 2
      BY <1>4, SizeBytes
    <3>3. IsAt(b, from)
      <4>1. Field(from, 2) = b
        BY <1>2, <3>2, SizeAt
      <4>2. QED
        BY <1>2, <3>2, <4>1 DEF IsAt
    <3>4. PICK w \in Seq(Byte) : w = Joined(u)
      BY EncodedType
    <3>5. IsAt(b \o w, from) /\ b \o w \in Seq(Byte) /\ Len(b \o w) = Len(b) + Len(w)
      <4>1. IsAt(w, from + Len(b))
        BY <2>8, <3>2, <3>4, Zenon
      <4>2. QED
        BY <1>2, <3>3, <4>1, JoinedAt, Zenon
    <3>6. VectorBytes(u) = b \o w
      <4>1. Len(u) = count
        BY <2>2, <3>1
      <4>2. QED
        BY <3>2, <3>4, <4>1, VectorBytesType, Zenon
    <3>7. PICK y \in Seq(Byte) : y = VectorBytes(u) /\ IsAt(y, from) /\ Len(y) = 2 + Len(w)
      <4>1. Len(b) + Len(w) = 2 + Len(w)
        BY <3>2
      <4>2. QED
        BY <3>5, <3>6, <4>1, Zenon
    <3>8. s.pos = from + Len(y)
      BY <1>2, <2>8, <3>4, <3>7
    <3>9. SubSeq(data, from + 1, s.pos) = y
      <4>1. from \in 0 .. N
        BY <1>2, SizesAssumption
      <4>2. SubSeq(data, from + 1, from + Len(y)) = y
        BY <3>7, <4>1, BetweenAt
      <4>3. QED
        BY <3>8, <4>2, Zenon
    <3>10. SubSeq(data, from + 1, s.pos) \in Encodings("vector", u)
      BY <3>7, <3>9 DEF Encodings
    <3>11. ReadIsEncoded'
      BY <1>1, <1>5, <2>3, <3>10, Zenon DEF ReadIsEncoded
    <3>12. EncodedIsRead' /\ LoopInvariant'
      BY <3>1 DEF EncodedIsRead, LoopInvariant
    <3>13. QED
      BY <3>11, <3>12 DEF ReadsAreExact
  <2>11. CASE vec.left # 1
    <3>1. vec'.left > 0 /\ ~last'.ok
      <4>1. vec'.left > 0
        BY <1>1, <2>3, <2>11
      <4>2. ~last'.ok
        BY <1>5, <2>11, Zenon
      <4>3. QED
        BY <4>1, <4>2
    <3>2. ReadsAreExact'
      BY <3>1 DEF ReadsAreExact, ReadIsEncoded, EncodedIsRead
    <3>3. Len(u) + vec'.left = count
      <4>1. PICK l \in Nat, m \in Nat : l = vec.left /\ m = k
        BY <1>4, Zenon
      <4>2. Len(u) = m + 1 /\ count = m + l
        BY <1>4, <2>2, <4>1, Zenon
      <4>3. (m + 1) + (l - 1) = m + l
        OBVIOUS
      <4>4. QED
        BY <2>3, <4>1, <4>2, <4>3, Zenon
    <3>4. Alone(from, u, count)
      <4>1. SUFFICES ASSUME NEW v \in Vectors, IsAt(VectorBytes(v), from)
                     PROVE  Len(v) = count /\ SubSeq(v, 1, Len(u)) = u
        BY Zenon DEF Alone
      <4>2. /\ v \in Seq(Seq(Byte)) /\ Len(v) = count /\ SubSeq(v, 1, k) = items
            /\ s.val = v[k + 1]
        BY <1>6, <4>1
      <4>3. k < Len(v)
        BY <1>4, <4>2
      <4>4. SubSeq(v, 1, k + 1) = Append(SubSeq(v, 1, k), v[k + 1])
        BY <1>4, <4>2, <4>3, NextElement, Zenon
      <4>5. QED
        BY <2>1, <2>2, <4>2, <4>4, Zenon
    <3>5. rpos' = s.pos /\ data' = data
      BY <1>1
    <3>6. QED
      BY <1>5, <2>3, <2>9, <3>1, <3>2, <3>3, <3>4, <3>5, LoopGoesOn, Zenon
  <2>12. QED
    BY <2>10, <2>11
<1>9. QED
  BY <1>7, <1>8

-----------------------------------------------------------------------------
(* The cursors *)

\* The inductive invariant of the proofs: the cursors, and that nothing follows a
\* memcpy outside the buffer.
CursorInvariant ==
  /\ data \in [1 .. N -> Byte]
  /\ rpos \in 0 .. N /\ wpos \in 0 .. N
  /\ vec.left \in Nat
  /\ overrun \in BOOLEAN /\ (overrun => vec.left = 0)
  /\ OverrunNeedsWrap

\* A call that leaves the reader in the buffer keeps the invariant.
LEMMA ReturnKeepsCursors ==
  ASSUME CursorInvariant, ~overrun, NEW op, NEW ok, NEW p \in 0 .. N, NEW v, Returns(op, ok, p, v),
         vec'.left \in Nat
  PROVE  CursorInvariant'
  BY DEF CursorInvariant, OverrunNeedsWrap, Returns

\* MemReader's calls.
LEMMA ReaderStep ==
  ASSUME CursorInvariant,
         \/ \E p \in 0 .. N + 1 : SetPos(p) \/ ShiftFromStart(p)
         \/ \E v \in -(N + 1) .. N + 1 : Shift(v)
         \/ \E n \in Sizes : ReadData(n)
         \/ \E w \in Widths : ReadScalar(w)
  PROVE  CursorInvariant'
<1> USE SizesAssumption
<1>0. N \in Nat /\ rpos \in 0 .. N
  BY DEF CursorInvariant
<1>1. ASSUME NEW p \in 0 .. N + 1, SetPos(p) \/ ShiftFromStart(p) PROVE CursorInvariant'
  <2>1. ~overrun /\ vec'.left \in Nat
    BY <1>1 DEF SetPos, ShiftFromStart, Free, CursorInvariant
  <2>2. CASE SetPos(p)
    <3>1. CASE p > N
      <4>1. Returns("setPos", FALSE, rpos, p)
        BY <2>2, <3>1 DEF SetPos
      <4>2. QED
        BY <1>0, <2>1, <4>1, ReturnKeepsCursors
    <3>2. CASE ~(p > N)
      <4>1. p \in 0 .. N
        BY <1>0, <3>2
      <4>2. Returns("setPos", TRUE, p, p)
        BY <2>2, <3>2 DEF SetPos
      <4>3. QED
        BY <2>1, <4>1, <4>2, ReturnKeepsCursors
    <3>3. QED
      BY <3>1, <3>2
  <2>3. CASE ShiftFromStart(p)
    <3>1. CASE p >= N
      <4>1. Returns("shiftFromStart", FALSE, rpos, p)
        BY <2>3, <3>1 DEF ShiftFromStart
      <4>2. QED
        BY <1>0, <2>1, <4>1, ReturnKeepsCursors
    <3>2. CASE ~(p >= N)
      <4>1. p \in 0 .. N
        BY <1>0, <3>2
      <4>2. Returns("shiftFromStart", TRUE, p, p)
        BY <2>3, <3>2 DEF ShiftFromStart
      <4>3. QED
        BY <2>1, <4>1, <4>2, ReturnKeepsCursors
    <3>3. QED
      BY <3>1, <3>2
  <2>4. QED
    BY <1>1, <2>2, <2>3
<1>2. ASSUME NEW v \in -(N + 1) .. N + 1, Shift(v) PROVE CursorInvariant'
  <2>1. ~overrun /\ vec'.left \in Nat
    BY <1>2 DEF Shift, Free, CursorInvariant
  <2>2. CASE (rpos + v) % M >= N
    <3>1. Returns("shift", FALSE, rpos, v)
      BY <1>2, <2>2 DEF Shift
    <3>2. QED
      BY <1>0, <2>1, <3>1, ReturnKeepsCursors
  <2>3. CASE ~((rpos + v) % M >= N)
    <3>1. Returns("shift", TRUE, rpos + v, v)
      BY <1>2, <2>3 DEF Shift
    <3>2. rpos + v \in 0 .. N
      <4>1. CASE rpos + v < 0
        <5>1. rpos + v + M \in 0 .. M - 1 /\ rpos + v + M >= N
          BY <1>0, <4>1, RoomForSizes
        <5>2. (rpos + v) % M = rpos + v + M
          BY <5>1, <1>0, ModOfWrapped
        <5>3. QED
          BY <2>3, <5>1, <5>2
      <4>2. CASE rpos + v >= 0
        <5>1. CASE rpos + v < M
          BY <1>0, <2>3, <4>2, <5>1, ModOfSmall
        <5>2. CASE rpos + v >= M
          <6>1. rpos + v - M \in 0 .. M - 1
            BY <1>0, <5>2, RoomForSizes
          <6>2. (rpos + v) % M = rpos + v - M
            BY <1>0, <6>1, ModOfWrapped
          <6>3. QED
            BY <1>0, <2>3, <5>2, <6>1, <6>2
        <5>3. QED
          BY <1>0, <5>1, <5>2
      <4>3. QED
        BY <1>0, <4>1, <4>2
    <3>3. QED
      BY <2>1, <3>1, <3>2, ReturnKeepsCursors
  <2>4. QED
    BY <2>2, <2>3
<1>3. ASSUME NEW n \in Sizes, ReadData(n) PROVE CursorInvariant'
  <2>1. n \in Nat /\ ~overrun /\ vec.left = 0 /\ vec' = vec /\ vec'.left \in Nat
    BY <1>3 DEF ReadData, Free
  <2>2. CASE Returns("data", FALSE, rpos, n)
    BY <1>0, <2>1, <2>2, ReturnKeepsCursors
  <2>3. CASE rpos + n <= N /\ Returns("data", TRUE, rpos + n, n)
    <3>1. rpos + n \in 0 .. N
      BY <1>0, <2>1, <2>3
    <3>2. QED
      BY <2>1, <2>3, <3>1, ReturnKeepsCursors
  <2>4. CASE /\ Fits(rpos, n) /\ rpos + n > N
             /\ overrun' = TRUE
             /\ last' = [op |-> "data", from |-> rpos, ok |-> FALSE, val |-> n]
             /\ UNCHANGED <<data, rpos, wpos>>
    <3>1. rpos + n >= M
      BY <1>0, <2>1, <2>4, FitsOrWraps
    <3>2. QED
      BY <2>1, <2>4, <3>1 DEF CursorInvariant, OverrunNeedsWrap
  <2>5. QED
    BY <1>3, <2>2, <2>3, <2>4 DEF ReadData
<1>4. ASSUME NEW w \in Widths, ReadScalar(w) PROVE CursorInvariant'
  <2>1. w \in 0 .. 8 /\ ~overrun /\ vec'.left \in Nat
    BY <1>4 DEF ReadScalar, Free, Widths, CursorInvariant
  <2>2. CASE Fits(rpos, w)
    <3>1. rpos + w \in 0 .. N
      BY <1>0, <2>1, <2>2, SmallFits
    <3>2. Returns("scalar", TRUE, rpos + w, LittleEndian(Field(rpos, w)))
      BY <1>4, <2>2 DEF ReadScalar
    <3>3. QED
      BY <2>1, <3>1, <3>2, ReturnKeepsCursors
  <2>3. CASE ~Fits(rpos, w)
    <3>1. Returns("scalar", FALSE, rpos, w)
      BY <1>4, <2>3 DEF ReadScalar
    <3>2. QED
      BY <1>0, <2>1, <3>1, ReturnKeepsCursors
  <2>4. QED
    BY <2>2, <2>3
<1>5. QED
  BY <1>1, <1>2, <1>3, <1>4

\* MemWriter's calls.
LEMMA WriterStep ==
  ASSUME CursorInvariant,
         \/ \E bytes \in Contents : Write(bytes)
         \/ \E n \in Sizes : WriteHuge(n)
         \/ \E v \in 0 .. N + 1 : WriterShiftFromStart(v)
  PROVE  CursorInvariant'
<1> USE SizesAssumption
<1>0. N \in Nat /\ wpos \in 0 .. N
  BY DEF CursorInvariant
<1>1. ASSUME NEW bytes \in Contents, Write(bytes) PROVE CursorInvariant'
  <2>1. bytes \in Seq(Byte) /\ Len(bytes) \in Nat /\ wpos + Len(bytes) < M
    BY <1>0, ContentsAssumption
  <2>2. CASE Fits(wpos, Len(bytes))
    <3>1. wpos + Len(bytes) \in 0 .. N
      BY <1>0, <2>1, <2>2, SmallFits
    <3>2. /\ data' = [i \in 1 .. N |->
                        IF i - wpos \in DOMAIN bytes THEN bytes[i - wpos] ELSE data[i]]
          /\ wpos' = wpos + Len(bytes)
          /\ ~overrun /\ UNCHANGED <<rpos, vec, overrun>>
      BY <1>1, <2>2 DEF Write, Free
    <3>3. \A i \in 1 .. N : i - wpos \in DOMAIN bytes => bytes[i - wpos] \in Byte
      BY <2>1
    <3>4. \A i \in 1 .. N : data[i] \in Byte
      BY DEF CursorInvariant
    <3>5. data' \in [1 .. N -> Byte]
      BY <3>2, <3>3, <3>4
    <3>6. QED
      BY <3>1, <3>2, <3>5 DEF CursorInvariant, OverrunNeedsWrap
  <2>3. CASE ~Fits(wpos, Len(bytes))
    BY <1>1, <2>3 DEF Write, Free, CursorInvariant, OverrunNeedsWrap
  <2>4. QED
    BY <2>2, <2>3
<1>2. ASSUME NEW n \in Sizes, WriteHuge(n) PROVE CursorInvariant'
  <2>1. n \in Nat /\ wpos + n > N /\ overrun' = Fits(wpos, n)
    BY <1>2 DEF WriteHuge
  <2>2. Fits(wpos, n) => wpos + n >= M
    BY <1>0, <2>1, FitsOrWraps
  <2>3. Fits(wpos, n) \in BOOLEAN
    BY DEF Fits
  <2>4. QED
    BY <1>2, <2>1, <2>2, <2>3 DEF WriteHuge, Free, CursorInvariant, OverrunNeedsWrap
<1>3. ASSUME NEW v \in 0 .. N + 1, WriterShiftFromStart(v) PROVE CursorInvariant'
  <2>1. wpos' \in 0 .. N
    BY <1>0, <1>3 DEF WriterShiftFromStart
  <2>2. QED
    BY <1>3, <2>1 DEF WriterShiftFromStart, Free, CursorInvariant, OverrunNeedsWrap
<1>4. QED
  BY <1>1, <1>2, <1>3

\* Serialize's reads.
LEMMA SerializeStep ==
  ASSUME CursorInvariant, ReadBool \/ ReadString \/ ReadOptional \/ ReadVector \/ ReadElement
  PROVE  CursorInvariant'
<1> USE SizesAssumption
<1>0. N \in Nat /\ rpos \in 0 .. N /\ data \in [1 .. N -> Byte]
  BY DEF CursorInvariant
<1>1. CASE ReadBool
  <2>1. ~overrun /\ vec'.left \in Nat
    BY <1>1 DEF ReadBool, Free, CursorInvariant
  <2>2. Fits(rpos, 1) => rpos + 1 \in 0 .. N
    BY <1>0, SmallFits
  <2>3. \/ rpos + 1 \in 0 .. N /\ Returns("bool", TRUE, rpos + 1, Field(rpos, 1) # <<0>>)
        \/ Returns("bool", FALSE, rpos, None)
    BY <1>1, <2>2 DEF ReadBool
  <2>4. QED
    BY <1>0, <2>1, <2>3, ReturnKeepsCursors
<1>2. CASE ReadString
  <2>1. ~overrun /\ vec'.left \in Nat
    BY <1>2 DEF ReadString, Free, CursorInvariant
  <2>2. StringAt(rpos).pos \in 0 .. N
    BY <1>0, StringStays
  <2>3. QED
    BY <1>2, <2>1, <2>2, ReturnKeepsCursors DEF ReadString
<1>3. CASE ReadOptional
  <2>1. ~overrun /\ vec'.left \in Nat
    BY <1>3 DEF ReadOptional, Free, CursorInvariant
  <2>2. Fits(rpos, 1) => rpos + 1 \in 0 .. N
    BY <1>0, SmallFits
  <2>3. Fits(rpos, 1) /\ Fits(rpos + 1, 1) => rpos + 2 \in 0 .. N
    BY <1>0, <2>2, SmallFits
  <2>4. \/ Returns("optional", FALSE, rpos, <<>>)
        \/ rpos + 1 \in 0 .. N /\ Returns("optional", FALSE, rpos + 1, <<>>)
        \/ rpos + 2 \in 0 .. N /\ Returns("optional", TRUE, rpos + 2, Field(rpos + 1, 1))
        \/ rpos + 1 \in 0 .. N /\ \E b \in Byte : Returns("optional", FALSE, rpos + 1, <<b>>)
    BY <1>3, <2>2, <2>3 DEF ReadOptional
  <2>5. QED
    BY <1>0, <2>1, <2>4, ReturnKeepsCursors
<1>4. CASE ReadVector
  <2>1. CASE Fits(rpos, 2)
    <3>1. rpos + 2 \in 0 .. N
      BY <1>0, <2>1, SmallFits
    <3>2. Uint16At(rpos) \in 0 .. B * B - 1
      BY <1>0, <3>1, SizeRead
    <3>3. Uint16At(rpos) \in Nat
      BY <3>2
    <3>4. /\ ~overrun
          /\ Returns("vector", Uint16At(rpos) = 0, rpos + 2, <<>>)
          /\ vec' = [left |-> Uint16At(rpos), items |-> <<>>]
      BY <1>4, <2>1 DEF ReadVector, Free
    <3>5. vec'.left \in Nat
      BY <3>3, <3>4
    <3>6. QED
      BY <3>1, <3>4, <3>5, ReturnKeepsCursors
  <2>2. CASE ~Fits(rpos, 2)
    <3>1. ~overrun /\ vec'.left \in Nat /\ Returns("vector", FALSE, rpos, <<>>)
      BY <1>4, <2>2 DEF ReadVector, Free, CursorInvariant
    <3>2. QED
      BY <1>0, <3>1, ReturnKeepsCursors
  <2>3. QED
    BY <2>1, <2>2
<1>5. CASE ReadElement
  <2>1. vec.left > 0 /\ vec.left \in Nat /\ ~overrun
    BY <1>5 DEF ReadElement, CursorInvariant
  <2>2. rpos' = StringAt(rpos).pos /\ StringAt(rpos).pos \in 0 .. N
    BY <1>0, <1>5, StringStays DEF ReadElement
  <2>3. vec'.left \in Nat
    BY <1>5, <2>1 DEF ReadElement, NoVector
  <2>4. QED
    BY <1>5, <2>1, <2>2, <2>3 DEF ReadElement, CursorInvariant, OverrunNeedsWrap
<1>6. QED
  BY <1>1, <1>2, <1>3, <1>4, <1>5

-----------------------------------------------------------------------------
(* The theorems *)

\* The cursors of reader and writer are in the buffer or at its end, whatever is
\* read, written, shifted or half read, and no call follows one that left the buffer.
THEOREM CursorsStay == Spec => []CursorInvariant
<1>1. Init => CursorInvariant
  <2> SUFFICES ASSUME Init PROVE CursorInvariant
    OBVIOUS
  <2>1. vec.left = 0
    BY DEF Init, NoVector
  <2>2. 0 \in 0 .. N /\ rpos = 0 /\ wpos = 0 /\ ~overrun /\ overrun = FALSE
    BY SizesAssumption DEF Init
  <2>3. OverrunNeedsWrap
    BY <2>2 DEF OverrunNeedsWrap
  <2>4. data \in [1 .. N -> Byte] /\ vec.left \in Nat /\ rpos \in 0 .. N /\ wpos \in 0 .. N
    BY <2>1, <2>2 DEF Init
  <2>5. overrun \in BOOLEAN /\ (overrun => vec.left = 0)
    BY <2>2
  <2>6. QED
    BY <2>3, <2>4, <2>5 DEF CursorInvariant
<1>2. CursorInvariant /\ [Next]_vars => CursorInvariant'
  <2> SUFFICES ASSUME CursorInvariant, [Next]_vars PROVE CursorInvariant'
    OBVIOUS
  <2>1. CASE UNCHANGED vars
    BY <2>1 DEF vars, CursorInvariant, OverrunNeedsWrap
  <2>2. CASE Next
    <3>1. CASE \E p \in 0 .. N + 1 : SetPos(p) \/ ShiftFromStart(p)
      BY <3>1, ReaderStep
    <3>2. CASE \E p \in 0 .. N + 1 : WriterShiftFromStart(p)
      BY <3>2, WriterStep
    <3>3. CASE \E v \in -(N + 1) .. N + 1 : Shift(v)
      BY <3>3, ReaderStep
    <3>4. CASE \E n \in Sizes : ReadData(n)
      BY <3>4, ReaderStep
    <3>5. CASE \E n \in Sizes : WriteHuge(n)
      BY <3>5, WriterStep
    <3>6. CASE \E w \in Widths : ReadScalar(w)
      BY <3>6, ReaderStep
    <3>7. CASE \E bytes \in Contents : Write(bytes)
      BY <3>7, WriterStep
    <3>8. CASE ReadBool \/ ReadString \/ ReadOptional \/ ReadVector \/ ReadElement
      BY <3>8, SerializeStep
    <3>9. QED
      BY <2>2, <3>1, <3>2, <3>3, <3>4, <3>5, <3>6, <3>7, <3>8, Zenon DEF Next
  <2>3. QED
    BY <2>1, <2>2
<1>3. QED
  BY <1>1, <1>2, PTL DEF Spec

\* Only readData and writeData of a size whose sum with the cursor is not a size_t
\* leave the buffer: readUint8 to readUint64, strings, optionals and vectors never.
THEOREM OverrunsWrap == Spec => []OverrunNeedsWrap
<1>1. CursorInvariant => OverrunNeedsWrap
  BY DEF CursorInvariant
<1>2. QED
  BY <1>1, CursorsStay, PTL

\* A read gives what is encoded at the cursor and moves it behind; it fails only if no
\* encoding is there (or an Optional is absent): reading and writing are inverses, for
\* any contents of the buffer, any size of it and vectors and strings of any length.
THEOREM ReadsExact == Spec => []ReadsAreExact
<1> DEFINE Invariant == ReadsAreExact /\ LoopInvariant
<1>1. Init => Invariant
  <2> SUFFICES ASSUME Init PROVE Invariant
    OBVIOUS
  <2>1. last.op = "none" /\ vec.left = 0
    BY DEF Init, NoVector
  <2>2. QED
    BY <2>1 DEF ReadsAreExact, ReadIsEncoded, EncodedIsRead, Reads, LoopInvariant
<1>2. CursorInvariant /\ Invariant /\ [Next]_vars => Invariant'
  <2> SUFFICES ASSUME CursorInvariant, Invariant, [Next]_vars PROVE Invariant'
    OBVIOUS
  <2>1. Buffered /\ rpos \in 0 .. N /\ vec.left \in Nat
    BY DEF CursorInvariant, Buffered
  <2>2. CASE UNCHANGED vars
    <3>1. ReadsAreExact'
      BY <2>2, Zenon DEF vars, ReadsAreExact, ReadIsEncoded, EncodedIsRead
    <3>2. LoopInvariant'
      BY <2>2, Zenon DEF vars, LoopInvariant, Loop, Alone, IsAt, Field, Uint16At
    <3>3. QED
      BY <3>1, <3>2
  <2>3. CASE last'.op \notin Reads /\ vec'.left = 0
    <3>1. ReadsAreExact'
      BY <2>3, OthersAreExact
    <3>2. LoopInvariant'
      BY <2>3 DEF LoopInvariant
    <3>3. QED
      BY <3>1, <3>2
  <2>4. ASSUME NEW p \in 0 .. N + 1, SetPos(p) \/ ShiftFromStart(p) PROVE Invariant'
    BY <2>3, <2>4 DEF SetPos, ShiftFromStart, Free, Returns, Reads
  <2>5. ASSUME NEW p \in 0 .. N + 1, WriterShiftFromStart(p) PROVE Invariant'
    BY <2>3, <2>5 DEF WriterShiftFromStart, Free, Reads
  <2>6. ASSUME NEW v \in -(N + 1) .. N + 1, Shift(v) PROVE Invariant'
    BY <2>3, <2>6 DEF Shift, Free, Returns, Reads
  <2>7. ASSUME NEW n \in Sizes, ReadData(n) \/ WriteHuge(n) PROVE Invariant'
    BY <2>3, <2>7 DEF ReadData, WriteHuge, Free, Returns, Reads
  <2>8. ASSUME NEW bytes \in Contents, Write(bytes) PROVE Invariant'
    BY <2>3, <2>8 DEF Write, Free, Reads
  <2>9. vec'.left = 0 => LoopInvariant'
    BY DEF LoopInvariant
  <2>10. ASSUME NEW w \in Widths, ReadScalar(w) PROVE Invariant'
    <3>1. vec'.left = 0
      BY <2>10 DEF ReadScalar, Free
    <3>2. QED
      BY <2>1, <2>9, <2>10, <3>1, ScalarIsExact
  <2>11. ASSUME ReadBool \/ ReadString \/ ReadOptional PROVE Invariant'
    <3>1. vec'.left = 0
      BY <2>11 DEF ReadBool, ReadString, ReadOptional, Free
    <3>2. QED
      BY <2>1, <2>9, <2>11, <3>1, BoolIsExact, StringIsExact, OptionalIsExact
  <2>12. CASE ReadVector
    BY <2>1, <2>12, VectorStarts
  <2>13. CASE ReadElement
    BY <2>1, <2>13, ElementIsExact
  <2> HIDE DEF Invariant
  <2>14. CASE Next
    BY <2>14, <2>4, <2>5, <2>6, <2>7, <2>8, <2>10, <2>11, <2>12, <2>13, Zenon DEF Next
  <2>15. QED
    BY <2>2, <2>14
<1>3. Invariant => ReadsAreExact
  OBVIOUS
<1> HIDE DEF Invariant
<1>4. QED
  BY <1>1, <1>2, <1>3, CursorsStay, PTL DEF Spec
=============================================================================
