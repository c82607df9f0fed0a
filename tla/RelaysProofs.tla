---------------------------- MODULE RelaysProofs ----------------------------
(***************************************************************************)
(* Lemmas about names, for every catalog: induction and recursion over the *)
(* naturals, then what numbering and UniqueNames yield.                    *)
(***************************************************************************)
EXTENDS Relays, FiniteSetTheorems, TLAPS

-----------------------------------------------------------------------------
(* Induction and recursion, with sets where the library has predicates.     *)

\* A set of naturals has a least one.
LEMMA Least ==
  ASSUME NEW S \in SUBSET Nat, S # {}
  PROVE  \E n \in S : \A m \in S : n <= m
<1> DEFINE R == OpToRel(<, Nat)
<1>1. IsWellFoundedOn(R, Nat) BY NatLessThanWellFounded
<1>2. \A m, n \in Nat : m < n => <<m, n>> \in R BY Zenon DEF OpToRel
<1> HIDE DEF R
<1>3. PICK n \in S : \A m \in S : ~(<<m, n>> \in R) BY <1>1, WFMin
<1>4. \A m \in S : ~(m < n) BY <1>2, <1>3, Zenon
<1> QED BY <1>4

\* A set with 0 and the successors of its elements has every natural.
LEMMA Induction ==
  ASSUME NEW S, 0 \in S, \A n \in Nat : n \in S => n + 1 \in S
  PROVE  Nat \subseteq S
<1> DEFINE T == {n \in Nat : n \notin S}
<1>1. SUFFICES ASSUME T # {} PROVE FALSE OBVIOUS
<1>2. PICK n \in T : \A m \in T : n <= m BY <1>1, Least
<1>3. n # 0 /\ n - 1 \in Nat /\ n - 1 \notin T BY <1>2
<1> QED BY <1>2, <1>3

\* step[n] leads from V[n - 1] to V[n]; f is made by following it from e.
Leads(V, N, e, step) ==
  /\ N \in Nat /\ e \in V[0]
  /\ \A n \in 1..N : \A v \in V[n - 1] : step[n][v] \in V[n]
Follows(f, V, N, e, step) ==
  /\ f[0] = e /\ \A k \in 1..N : f[k] = step[k][f[k - 1]]
  /\ \A k \in 0..N : f[k] \in V[k]

\* There is a function each value of which is made from the one before.
LEMMA Recursion ==
  ASSUME NEW V, NEW N, NEW e, NEW step, Leads(V, N, e, step)
  PROVE  \E f : Follows(f, V, N, e, step)
<1> USE DEF Leads
<1> DEFINE Made(f, n) == /\ f[0] = e /\ \A k \in 1..n : f[k] = step[k][f[k - 1]]
                         /\ \A k \in 0..n : f[k] \in V[k]
           S == {n \in Nat : n <= N => \E f : Made(f, n)}
<1>1. 0 \in S
  <2> DEFINE f == [k \in 0..0 |-> e]
  <2>1. f[0] = e OBVIOUS
  <2>2. \A k \in 0..0 : f[k] \in V[k] OBVIOUS
  <2> HIDE DEF f
  <2>3. Made(f, 0) BY <2>1, <2>2
  <2> HIDE DEF Made
  <2> QED BY <2>3
<1>2. ASSUME NEW n \in Nat, n \in S PROVE n + 1 \in S
  <2>1. SUFFICES ASSUME n + 1 <= N PROVE \E f : Made(f, n + 1) OBVIOUS
  <2>2. PICK f : Made(f, n) BY <1>2, <2>1
  <2> DEFINE g == [k \in 0..(n + 1) |-> IF k <= n THEN f[k] ELSE step[n + 1][f[n]]]
  <2>3. /\ \A k \in 0..n : g[k] = f[k]
        /\ g[n + 1] = step[n + 1][f[n]]
    OBVIOUS
  <2>4. step[n + 1][f[n]] \in V[n + 1]
    <3>1. n + 1 \in 1..N /\ (n + 1) - 1 = n /\ f[n] \in V[n] BY <2>1, <2>2
    <3> QED BY <3>1
  <2>5. \A k \in 0..(n + 1) : g[k] \in V[k] BY <2>2, <2>3, <2>4
  <2>6. g[0] = e /\ \A k \in 1..(n + 1) : g[k] = step[k][g[k - 1]]
    <3> HIDE DEF g
    <3> QED BY <2>2, <2>3
  <2> HIDE DEF g
  <2>8. Made(g, n + 1) BY <2>5, <2>6
  <2> HIDE DEF Made
  <2> QED BY <2>8
<1> HIDE DEF Made
<1>3. N \in S
  <2> HIDE DEF S
  <2> QED BY <1>1, <1>2, Induction
<1>4. PICK f : Made(f, N) BY <1>3
<1> QED BY <1>4 DEF Made, Follows

\* Whatever is made so goes through these sets.
LEMMA StaysWithin ==
  ASSUME NEW V, NEW N \in Nat, NEW f, f[0] \in V[0],
         \A n \in 1..N : f[n - 1] \in V[n - 1] => f[n] \in V[n]
  PROVE  \A n \in 0..N : f[n] \in V[n]
<1> DEFINE S == {n \in Nat : n <= N => f[n] \in V[n]}
<1>1. 0 \in S OBVIOUS
<1>2. ASSUME NEW n \in Nat, n \in S PROVE n + 1 \in S
  <2>1. SUFFICES ASSUME n + 1 <= N PROVE f[n + 1] \in V[n + 1] OBVIOUS
  <2>2. f[n] \in V[n] /\ n + 1 \in 1..N /\ (n + 1) - 1 = n BY <1>2, <2>1
  <2> QED BY <2>2
<1> HIDE DEF S
<1>3. Nat \subseteq S BY <1>1, <1>2, Induction
<1> QED BY <1>3 DEF S

-----------------------------------------------------------------------------
(* Names.  A name is a sequence of tokens, a numeral among them; that       *)
(* different numbers have different numerals is all that is used of these.  *)

NumeralsDiffer == \A m, n \in Nat : ToString(m) = ToString(n) => m = n

Names == Seq(STRING \cup {ToString(n) : n \in Nat})

LEMMA WordsAreNames == Seq(STRING) \subseteq Names
<1> DEFINE T == STRING \cup {ToString(n) : n \in Nat}
           S == STRING
<1>1. S \subseteq T BY Zenon
<1> HIDE DEF S, T
<1>2. ASSUME NEW s \in Seq(S) PROVE s \in Seq(T)
  <2>1. \A i \in 1..Len(s) : s[i] \in T BY <1>1
  <2>2. s = [i \in 1..Len(s) |-> s[i]] /\ Len(s) \in Nat OBVIOUS
  <2> QED BY <2>1, <2>2
<1> QED BY <1>2 DEF S, T, Names

\* A suffix makes a name of a name, and different suffixes different ones.
LEMMA SuffixedName ==
  ASSUME NEW base \in Names, NEW n \in Nat
  PROVE  /\ Suffixed(base, n) \in Names
         /\ Len(base) \in Nat /\ Suffixed(base, n)[Len(base) + 1] = ToString(n)
<1> DEFINE T == STRING \cup {ToString(k) : k \in Nat}
           t == ToString(n)
<1>1. t \in T BY Zenon
<1>2. base \in Seq(T) BY DEF Names
<1> HIDE DEF T, t
<1>3. Append(base, t) \in Seq(T) /\ Len(base) \in Nat /\ Append(base, t)[Len(base) + 1] = t
  BY <1>1, <1>2
<1> QED BY <1>3, Zenon DEF Suffixed, Names, T, t

LEMMA SuffixesDiffer ==
  ASSUME NumeralsDiffer, NEW base \in Names, NEW m \in Nat, NEW n \in Nat,
         Suffixed(base, m) = Suffixed(base, n)
  PROVE  m = n
BY SuffixedName, ZenonT(60) DEF NumeralsDiffer

\* The number that is looked for is found: there are more candidates than names.
LEMMA NumberedIsFree ==
  ASSUME NumeralsDiffer, NEW base \in Names, NEW used, IsFiniteSet(used)
  PROVE  /\ Numbered(base, used) \notin used
         /\ Numbered(base, used) \in Names
         /\ base \notin used => Numbered(base, used) = base
<1>1. CASE base \notin used BY <1>1 DEF Numbered
<1>2. CASE base \in used
  <2> DEFINE c == Cardinality(used)
             Free == {k \in 2..(c + 2) : Suffixed(base, k) \notin used}
  <2>1. c \in Nat BY FS_CardinalityType
  <2>2. Free # {}
    <3>1. SUFFICES ASSUME Free = {} PROVE FALSE OBVIOUS
    <3> DEFINE g == [k \in 2..(c + 2) |-> Suffixed(base, k)]
    <3>2. g \in [2..(c + 2) -> used] BY <3>1
    <3>3. IsFiniteSet(2..(c + 2)) /\ Cardinality(2..(c + 2)) = c + 1
      <4> HIDE DEF c
      <4> QED BY <2>1, FS_Interval
    <3>4. c < Cardinality(2..(c + 2)) BY <2>1, <3>3
    <3> HIDE DEF g
    <3>5. PICK x, y \in 2..(c + 2) : x # y /\ g[x] = g[y]
      BY <3>2, <3>3, <3>4, FS_PigeonHole
    <3>6. Suffixed(base, x) = Suffixed(base, y) BY <3>5 DEF g
    <3>7. x \in Nat /\ y \in Nat
      <4> HIDE DEF c
      <4> QED BY <2>1, <3>5
    <3> QED BY <3>5, <3>6, <3>7, SuffixesDiffer
  <2>3. PICK k \in Free : \A m \in Free : k <= m
    <3>1. Free \in SUBSET Nat
      <4> HIDE DEF c
      <4> QED BY <2>1
    <3> HIDE DEF Free
    <3> QED BY <2>2, <3>1, Least
  <2>4. /\ k \in 2..(c + 2) /\ Suffixed(base, k) \notin used
        /\ \A m \in 2..(k - 1) : Suffixed(base, m) \in used
    <3> HIDE DEF c
    <3> QED BY <2>1, <2>3
  <2> DEFINE n == CHOOSE j \in 2..(c + 2) : /\ Suffixed(base, j) \notin used
                                            /\ \A m \in 2..(j - 1) : Suffixed(base, m) \in used
  <2>5. n \in 2..(c + 2) /\ Suffixed(base, n) \notin used
    <3> HIDE DEF c
    <3> QED BY <2>4
  <2>6. Numbered(base, used) = Suffixed(base, n) BY <1>2, Zenon DEF Numbered
  <2>7. n \in Nat
    <3> HIDE DEF c, n
    <3> QED BY <2>1, <2>5
  <2> HIDE DEF c, n
  <2> QED BY <1>2, <2>5, <2>6, <2>7, SuffixedName
<1> QED BY <1>1, <1>2

\* The names of a list are all different, and where its first m names are different
\* already, they stay.
LEMMA UniqueNamesKeep ==
  ASSUME NumeralsDiffer, NEW n \in Nat, NEW c \in [1..n -> Names], NEW m \in 0..n,
         \A i, j \in 1..m : c[i] = c[j] => i = j
  PROVE  /\ UniqueNames(c) \in [1..n -> Names]
         /\ \A i, j \in 1..n : UniqueNames(c)[i] = UniqueNames(c)[j] => i = j
         /\ \A i \in 1..m : UniqueNames(c)[i] = c[i]
<1>1. Len(c) = n /\ c \in Seq(Names) OBVIOUS
<1> DEFINE Good(s, k) == /\ \A i, j \in 1..k : s[i] = s[j] => i = j
                         /\ \A i \in 1..k : i <= m => s[i] = c[i]
           V == [k \in 0..n |-> {s \in Seq(Names) : Len(s) = k /\ Good(s, k)}]
           Used(s, k) == {s[j] : j \in 1..(k - 1)}
           step == [k \in 1..n |-> [s \in V[k - 1] |-> Append(s, Numbered(c[k], Used(s, k)))]]
<1>2. <<>> \in V[0]
  <2>1. <<>> \in Seq(Names) /\ Len(<<>>) = 0 OBVIOUS
  <2> QED BY <2>1
<1>3. ASSUME NEW k \in 1..n, NEW s \in V[k - 1]
      PROVE  Append(s, Numbered(c[k], Used(s, k))) \in V[k]
  <2>1. s \in Seq(Names) /\ Len(s) = k - 1 /\ k \in Nat /\ Good(s, k - 1) BY <1>3
  <2> DEFINE x == Numbered(c[k], Used(s, k))
             t == Append(s, x)
  <2>2. IsFiniteSet(Used(s, k))
    <3>1. IsFiniteSet(1..(k - 1)) BY FS_Interval
    <3> DEFINE h == [j \in 1..(k - 1) |-> s[j]]
    <3>2. h \in Surjection(1..(k - 1), Used(s, k)) BY DEF Surjection
    <3> QED BY <3>1, <3>2, FS_Surjection
  <2>3. x \notin Used(s, k) /\ x \in Names /\ (c[k] \notin Used(s, k) => x = c[k])
    <3>1. c[k] \in Names OBVIOUS
    <3> HIDE DEF Used
    <3> QED BY <2>2, <3>1, NumberedIsFree
  <2>4. \A j \in 1..(k - 1) : s[j] # x BY <2>3
  <2>5. k <= m => x = c[k]
    <3>1. SUFFICES ASSUME k <= m PROVE c[k] \notin Used(s, k) BY <2>3
    <3>2. \A j \in 1..(k - 1) : s[j] = c[j] /\ c[j] # c[k] BY <2>1, <3>1
    <3> QED BY <3>2
  <2> HIDE DEF x
  <2>6. /\ t \in Seq(Names) /\ Len(t) = k /\ t[k] = x
        /\ \A j \in 1..(k - 1) : t[j] = s[j]
    BY <2>1, <2>3
  <2> HIDE DEF t, V
  <2>7. Good(t, k)
    <3>1. \A j \in 1..k : j = k \/ j \in 1..(k - 1) BY <2>1
    <3> QED BY <2>1, <2>4, <2>5, <2>6, <3>1
  <2> HIDE DEF Good
  <2>8. t \in V[k] BY <2>6, <2>7 DEF V
  <2> QED BY <2>8 DEF t, x
<1> DEFINE Longer(k, s) == Append(s, Numbered(c[k], Used(s, k)))
           Body(f) == [k \in 0..n |-> IF k = 0 THEN <<>> ELSE Longer(k, f[k - 1])]
           names == CHOOSE f : f = Body(f)
           none == <<>>
<1>4. \A k \in 1..n : \A s \in V[k - 1] : step[k][s] \in V[k]
  <2> HIDE DEF V, Used
  <2> QED BY <1>3
<1>5. \A k \in 1..n : \A s \in V[k - 1] : step[k][s] = Longer(k, s)
  <2> HIDE DEF V, Used
  <2> QED OBVIOUS
<1>6. \A k \in 1..n : \A s \in V[k - 1] : Longer(k, s) \in V[k]
  <2> HIDE DEF V, Used
  <2> QED BY <1>3
<1> HIDE DEF V, step, Longer
<1>7. \E f : f = Body(f)
  <2>0. none \in V[0] BY <1>2
  <2> HIDE DEF none
  <2>1. PICK f : Follows(f, V, n, none, step)
    <3>1. Leads(V, n, none, step) BY <1>4, <2>0 DEF Leads
    <3> QED BY <3>1, Recursion
  <2> DEFINE g == [k \in 0..n |-> f[k]]
  <2>2. \A k \in 1..n : step[k][f[k - 1]] = Longer(k, f[k - 1])
    <3>1. SUFFICES ASSUME NEW k \in 1..n PROVE step[k][f[k - 1]] = Longer(k, f[k - 1])
      OBVIOUS
    <3>2. k - 1 \in 0..n OBVIOUS
    <3>3. f[k - 1] \in V[k - 1] BY <2>1, <3>2 DEF Follows
    <3> QED BY <1>5, <3>3
  <2>3. g = Body(g) BY <2>1, <2>2 DEF none, Follows
  <2> HIDE DEF g, Body
  <2> QED BY <2>3
<1>8. names = Body(names) BY <1>7
<1> HIDE DEF names
<1>9. names[0] = <<>> /\ \A k \in 1..n : names[k] = Longer(k, names[k - 1])
  BY <1>8
<1>10. names[n] \in V[n]
  <2>1. \A k \in 1..n : names[k - 1] \in V[k - 1] => names[k] \in V[k]
    BY <1>6, <1>9
  <2>2. \A k \in 0..n : names[k] \in V[k] BY <1>2, <1>9, <2>1, StaysWithin, Zenon
  <2> QED BY <2>2
<1>11. UniqueNames(c) = names[n] BY <1>1, Zenon DEF UniqueNames, Used, Longer, names
<1>12. names[n] \in Seq(Names) /\ Len(names[n]) = n /\ Good(names[n], n) BY <1>10 DEF V
<1> QED BY <1>11, <1>12
=============================================================================
