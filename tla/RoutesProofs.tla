---------------------------- MODULE RoutesProofs ----------------------------
(***************************************************************************)
(* Theorems about Routes, for every set of terminals, commands, catalogs,  *)
(* pings and configurations.                                               *)
(***************************************************************************)
EXTENDS Routes, RelaysProofs

-----------------------------------------------------------------------------
(* Orders.  A list made by counting, for each place, the elements before it    *)
(* has every element once.                                                     *)

\* pred[r] is what comes before r.
Orders(pred, S) ==
  /\ pred \in [S -> SUBSET S]
  /\ \A r \in S : r \notin pred[r]
  /\ \A r, s \in S : r # s => r \in pred[s] \/ s \in pred[r]
  /\ \A r, s \in S : r \in pred[s] => pred[r] \subseteq pred[s]

\* f[i] has i - 1 elements before it, if any has.
Lists(f, pred, S) ==
  \A i \in 1..Cardinality(S) :
    (\E r \in S : Cardinality(pred[r]) = i - 1) => f[i] \in S /\ Cardinality(pred[f[i]]) = i - 1

LEMMA PlacesDiffer ==
  ASSUME NEW S, IsFiniteSet(S), NEW pred, Orders(pred, S)
  PROVE  /\ \A r \in S : Cardinality(pred[r]) \in 0..(Cardinality(S) - 1)
         /\ \A r, s \in S : Cardinality(pred[r]) = Cardinality(pred[s]) => r = s
<1>0. Cardinality(S) \in Nat BY FS_CardinalityType
<1>1. ASSUME NEW r \in S
      PROVE  IsFiniteSet(pred[r]) /\ Cardinality(pred[r]) \in 0..(Cardinality(S) - 1)
  <2>1. pred[r] \in SUBSET S /\ pred[r] # S BY DEF Orders
  <2>2. IsFiniteSet(pred[r]) /\ Cardinality(pred[r]) <= Cardinality(S)
        /\ Cardinality(pred[r]) # Cardinality(S)
    BY <2>1, FS_Subset
  <2>3. Cardinality(pred[r]) \in Nat BY <2>2, FS_CardinalityType
  <2> QED BY <1>0, <2>2, <2>3
<1>2. ASSUME NEW r \in S, NEW s \in S, r \in pred[s]
      PROVE  Cardinality(pred[r]) # Cardinality(pred[s])
  <2>1. pred[r] \in SUBSET pred[s] /\ pred[r] # pred[s] BY <1>2 DEF Orders
  <2> QED BY <1>1, <2>1, FS_Subset
<1> QED BY <1>1, <1>2 DEF Orders

LEMMA ListHasAll ==
  ASSUME NEW S, IsFiniteSet(S), NEW pred, Orders(pred, S), NEW f, Lists(f, pred, S)
  PROVE  /\ \A i \in 1..Cardinality(S) : f[i] \in S
         /\ \A i, j \in 1..Cardinality(S) : f[i] = f[j] => i = j
         /\ \A r \in S : \E i \in 1..Cardinality(S) : f[i] = r
<1> DEFINE n == Cardinality(S)
<1>1. n \in Nat BY FS_CardinalityType
<1>2. ASSUME NEW i \in 1..n PROVE \E r \in S : Cardinality(pred[r]) = i - 1
  <2>1. SUFFICES ASSUME \A r \in S : Cardinality(pred[r]) # i - 1 PROVE FALSE OBVIOUS
  <2> DEFINE T == 0..(n - 1) \ {i - 1}
             g == [r \in S |-> Cardinality(pred[r])]
  <2>2. IsFiniteSet(T) /\ Cardinality(T) < n
    <3>1. IsFiniteSet(0..(n - 1)) /\ Cardinality(0..(n - 1)) = n
      <4>1. 0 \in Int /\ n - 1 \in Int BY <1>1
      <4>2. /\ IsFiniteSet(0..(n - 1))
            /\ Cardinality(0..(n - 1)) = IF 0 > n - 1 THEN 0 ELSE (n - 1) - 0 + 1
        BY <4>1, FS_Interval
      <4> HIDE DEF n
      <4> QED BY <1>1, <4>2
    <3>2. i - 1 \in 0..(n - 1) BY <1>1
    <3> HIDE DEF n
    <3>3. IsFiniteSet(T) /\ Cardinality(T) = Cardinality(0..(n - 1)) - 1
      BY <3>1, <3>2, FS_RemoveElement
    <3> QED BY <1>1, <3>1, <3>3
  <2>3. g \in [S -> T] BY <2>1, PlacesDiffer
  <2> HIDE DEF g, T
  <2>4. PICK x, y \in S : x # y /\ g[x] = g[y] BY <2>2, <2>3, FS_PigeonHole
  <2>5. Cardinality(pred[x]) = Cardinality(pred[y]) BY <2>4 DEF g
  <2> QED BY <2>4, <2>5, PlacesDiffer
<1>3. \A i \in 1..n : f[i] \in S /\ Cardinality(pred[f[i]]) = i - 1
  BY <1>2 DEF Lists
<1>4. \A i, j \in 1..n : f[i] = f[j] => i = j
  <2> SUFFICES ASSUME NEW i \in 1..n, NEW j \in 1..n, f[i] = f[j] PROVE i = j OBVIOUS
  <2>1. i - 1 = j - 1 BY <1>3
  <2> HIDE DEF n
  <2> QED BY <1>1, <2>1
<1>5. ASSUME NEW r \in S PROVE \E i \in 1..n : f[i] = r
  <2>1. Cardinality(pred[r]) \in 0..(n - 1) BY PlacesDiffer
  <2>2. Cardinality(pred[r]) + 1 \in 1..n /\ (Cardinality(pred[r]) + 1) - 1 = Cardinality(pred[r])
    <3> HIDE DEF n
    <3> QED BY <1>1, <2>1
  <2>3. f[Cardinality(pred[r]) + 1] = r BY <1>3, <2>2, PlacesDiffer
  <2> QED BY <2>2, <2>3
<1> QED BY <1>3, <1>4, <1>5
-----------------------------------------------------------------------------
(* Lists of relays.                                                            *)

\* Relays are told apart by their hosts, and ranked by them.
Listed(relays) ==
  /\ IsFiniteSet(relays)
  /\ \A r \in relays : /\ r.host \in DOMAIN Rank /\ r.host # <<>>
                       /\ r.owned \in BOOLEAN /\ r.speed \in Nat
                       /\ \A s \in relays : s.host = r.host => s = r

LEMMA CatalogsAreListed == \A relays \in Catalogs : Listed(relays)
<1> SUFFICES ASSUME NEW relays \in Catalogs PROVE Listed(relays) OBVIOUS
<1>1. /\ IsFiniteSet(relays)
      /\ \A r \in relays :
           /\ r.host \in Seq(STRING) \ {<<>>} /\ r.host \in DOMAIN Rank
           /\ r.owned \in BOOLEAN /\ r.speed \in Nat
           /\ \A s \in relays : s.host = r.host => s = r
  BY CatalogsAssumption
<1> QED BY <1>1 DEF Listed

\* f has every element of S, once.
Enumerates(f, S) ==
  /\ Cardinality(S) \in Nat /\ f \in [1..Cardinality(S) -> S]
  /\ \A i, j \in 1..Cardinality(S) : f[i] = f[j] => i = j
  /\ \A r \in S : \E i \in 1..Cardinality(S) : f[i] = r

LEMMA OrderedEnumerates ==
  ASSUME NEW S, IsFiniteSet(S), NEW pred, Orders(pred, S)
  PROVE  Enumerates(Ordered(S, pred), S)
<1> DEFINE f == Ordered(S, pred)
<1>1. Lists(f, pred, S) BY DEF Lists, Ordered
<1>2. Cardinality(S) \in Nat BY FS_CardinalityType
<1>3. f = [i \in 1..Cardinality(S) |-> f[i]] BY DEF Ordered
<1> HIDE DEF f
<1>4. /\ \A i \in 1..Cardinality(S) : f[i] \in S
      /\ \A i, j \in 1..Cardinality(S) : f[i] = f[j] => i = j
      /\ \A r \in S : \E i \in 1..Cardinality(S) : f[i] = r
  BY <1>1, ListHasAll
<1>5. f \in [1..Cardinality(S) -> S] BY <1>3, <1>4
<1> QED BY <1>2, <1>4, <1>5 DEF Enumerates, f

LEMMA BestFirstEnumerates ==
  ASSUME NEW relays, Listed(relays), NEW S \in SUBSET relays
  PROVE  Enumerates(BestFirst(S), S)
<1> DEFINE pred == [r \in S |-> {s \in S : BestBefore(s, r)}]
<1>1. IsFiniteSet(S) BY FS_Subset DEF Listed
<1>2. \A r, s \in S : /\ Rank[r.host] \in Nat /\ r.speed \in Nat /\ r.owned \in BOOLEAN
                      /\ Rank[r.host] = Rank[s.host] => r = s
  BY RanksDiffer DEF Listed
<1>3. Orders(pred, S)
  <2>1. \A r \in S : ~BestBefore(r, r) BY <1>2 DEF BestBefore, Precedes
  <2>2. \A r, s \in S : r # s => BestBefore(r, s) \/ BestBefore(s, r)
    BY <1>2 DEF BestBefore, Precedes
  <2>3. \A r, s, t \in S : BestBefore(t, r) /\ BestBefore(r, s) => BestBefore(t, s)
    BY <1>2 DEF BestBefore, Precedes
  <2> QED BY <2>1, <2>2, <2>3 DEF Orders
<1>4. BestFirst(S) = Ordered(S, pred) BY DEF BestFirst
<1> HIDE DEF pred
<1> QED BY <1>1, <1>3, <1>4, OrderedEnumerates

\* FastestFirst is BestFirst where pings tie.
LEMMA FastestFirstEnumerates ==
  ASSUME NEW relays, Listed(relays), NEW S \in SUBSET relays, NEW latency,
         \A r \in relays : latency[r.host] \in Nat
  PROVE  Enumerates(FastestFirst(S, latency), S)
<1> DEFINE Faster(r, q) == \/ latency[r.host] < latency[q.host]
                           \/ latency[r.host] = latency[q.host] /\ BestBefore(r, q)
           pred == [r \in S |-> {q \in S : Faster(q, r)}]
<1>1. IsFiniteSet(S) BY FS_Subset DEF Listed
<1>2. \A r, s \in S : /\ Rank[r.host] \in Nat /\ r.speed \in Nat /\ r.owned \in BOOLEAN
                      /\ Rank[r.host] = Rank[s.host] => r = s
  BY RanksDiffer DEF Listed
<1>3. \A r \in S : latency[r.host] \in Nat OBVIOUS
<1>4. Orders(pred, S)
  <2>1. \A r \in S : ~Faster(r, r) BY <1>2, <1>3 DEF BestBefore, Precedes
  <2>2. \A r, s \in S : r # s => Faster(r, s) \/ Faster(s, r)
    BY <1>2, <1>3 DEF BestBefore, Precedes
  <2>3. \A r, s, t \in S : Faster(t, r) /\ Faster(r, s) => Faster(t, s)
    BY <1>2, <1>3 DEF BestBefore, Precedes
  <2> HIDE DEF Faster
  <2> QED BY <2>1, <2>2, <2>3 DEF Orders
<1>5. FastestFirst(S, latency) = Ordered(S, pred) BY DEF FastestFirst
<1> HIDE DEF pred
<1> QED BY <1>1, <1>4, <1>5, OrderedEnumerates

\* Spread picks candidates, each at most once, as many as it is asked for.
Some(count, n) == IF count < n THEN count ELSE n
Picks(t, m, n) ==
  /\ \A k \in 1..m : t[k] \in 1..n
  /\ \A k, l \in 1..m : t[k] = t[l] => k = l

Draws(t, s, candidates, count, n) ==
  /\ Picks(t, Some(count, n), n)
  /\ Spread(s, candidates, count) = [k \in 1..Some(count, n) |-> candidates[t[k]]]

Ranked(candidates, n) ==
  /\ n \in Nat /\ Len(candidates) = n /\ DOMAIN candidates = 1..n
  /\ \A i \in 1..n : candidates[i].host \in DOMAIN Rank
  /\ \A i, j \in 1..n : candidates[i].host = candidates[j].host => i = j

LEMMA SpreadPicks ==
  ASSUME NEW n, NEW candidates, Ranked(candidates, n), NEW s, NEW count \in Int
  PROVE  \E t : Draws(t, s, candidates, count, n)
<1> DEFINE Round(i) == Cardinality({j \in 1..(i - 1) :
                                 SpreadKey(s, candidates[j]) = SpreadKey(s, candidates[i])})
           Sooner(i, j) == \/ Round(i) < Round(j)
                           \/ /\ Round(i) = Round(j)
                              /\ Precedes(candidates[i], candidates[j])
           pred == [i \in 1..n |-> {j \in 1..n : Sooner(j, i)}]
           turn == Ordered(1..n, pred)
<1> USE DEF Ranked
<1>1. \A i \in 1..n : Round(i) \in Nat
  <2> TAKE i \in 1..n
  <2> DEFINE T == {j \in 1..(i - 1) : SpreadKey(s, candidates[j]) = SpreadKey(s, candidates[i])}
  <2>1. IsFiniteSet(1..(i - 1)) BY FS_Interval
  <2>2. T \in SUBSET (1..(i - 1)) OBVIOUS
  <2> HIDE DEF T
  <2>3. Cardinality(T) \in Nat BY <2>1, <2>2, FS_Subset, FS_CardinalityType
  <2> QED BY <2>3 DEF T
<1> HIDE DEF Round
<1>2. \A i, j \in 1..n : /\ Rank[candidates[i].host] \in Nat
                         /\ Rank[candidates[i].host] = Rank[candidates[j].host] => i = j
  BY RanksDiffer
<1>3. Orders(pred, 1..n)
  <2>1. \A i \in 1..n : ~Sooner(i, i) BY <1>1, <1>2 DEF Precedes
  <2>2. \A i, j \in 1..n : i # j => Sooner(i, j) \/ Sooner(j, i) BY <1>1, <1>2 DEF Precedes
  <2>3. \A i, j, k \in 1..n : Sooner(k, i) /\ Sooner(i, j) => Sooner(k, j)
    BY <1>1, <1>2 DEF Precedes
  <2> HIDE DEF Sooner
  <2> QED BY <2>1, <2>2, <2>3 DEF Orders
<1>4. IsFiniteSet(1..n) /\ Cardinality(1..n) = n BY FS_Interval
<1>5. Spread(s, candidates, count) = [k \in 1..Some(count, n) |-> candidates[turn[k]]]
  BY Zenon DEF Spread, Some, Round
<1> HIDE DEF pred
<1>6. Enumerates(turn, 1..n) BY <1>3, <1>4, OrderedEnumerates
<1> HIDE DEF turn
<1>7. turn \in [1..n -> 1..n] /\ \A i, j \in 1..n : turn[i] = turn[j] => i = j
  BY <1>4, <1>6 DEF Enumerates
<1>8. \A k \in 1..Some(count, n) : k \in 1..n BY DEF Some
<1>9. Picks(turn, Some(count, n), n) BY <1>7, <1>8 DEF Picks
<1>10. Draws(turn, s, candidates, count, n) BY <1>5, <1>9 DEF Draws
<1> QED BY <1>10

\* A list of relays in S, none of them twice; one at least where one is asked
\* for and there is one.
PicksFrom(g, S, count) ==
  /\ g \in Seq(S)
  /\ \A i, j \in 1..Len(g) : g[i] = g[j] => i = j
  /\ count <= 0 => Len(g) = 0
  /\ count >= 1 /\ S # {} => Len(g) >= 1

\* As many as are asked for, or all.
Exhausts(g, S, count) ==
  /\ count >= 0 => Len(g) <= count
  /\ Len(g) < count \/ Cardinality(S) <= count => \A r \in S : \E k \in 1..Len(g) : g[k] = r

LEMMA SpreadLists ==
  ASSUME NEW relays, Listed(relays), NEW S \in SUBSET relays, NEW f, Enumerates(f, S),
         NEW s, NEW count \in Int
  PROVE  /\ PicksFrom(Spread(s, f, count), S, count)
         /\ Exhausts(Spread(s, f, count), S, count)
<1> DEFINE n == Cardinality(S)
           m == IF Some(count, n) < 0 THEN 0 ELSE Some(count, n)
           g == Spread(s, f, count)
<1>1. /\ n \in Nat /\ f \in [1..n -> S]
      /\ \A i, j \in 1..n : f[i] = f[j] => i = j
      /\ \A r \in S : \E i \in 1..n : f[i] = r
  BY DEF Enumerates
<1> HIDE DEF n
<1>2. Len(f) = n /\ DOMAIN f = 1..n BY <1>1
<1>3. \A i \in 1..n : f[i].host \in DOMAIN Rank BY <1>1 DEF Listed
<1>4. \A i, j \in 1..n : f[i].host = f[j].host => i = j BY <1>1 DEF Listed
<1>14. Ranked(f, n) BY <1>1, <1>2, <1>3, <1>4 DEF Ranked
<1>15. PICK t : Draws(t, s, f, count, n) BY <1>14, SpreadPicks
<1>5. Picks(t, Some(count, n), n) /\ g = [k \in 1..Some(count, n) |-> f[t[k]]]
  BY <1>15 DEF Draws
<1> HIDE DEF g
<1>6. m \in Nat /\ 1..m = 1..Some(count, n) BY <1>1 DEF Some
<1>7. g = [k \in 1..m |-> f[t[k]]] BY <1>5, <1>6
<1>8. \A k \in 1..m : t[k] \in 1..n /\ f[t[k]] \in S BY <1>1, <1>5, <1>6 DEF Picks
<1>9. m = 0 <=> count <= 0 \/ n = 0 BY <1>1 DEF Some
<1>10. S # {} => n # 0 BY <1>1
<1> HIDE DEF m
<1>11. g \in Seq(S) /\ Len(g) = m BY <1>6, <1>7, <1>8
<1>12. \A i, j \in 1..m : g[i] = g[j] => i = j
  <2>1. \A i \in 1..m : g[i] = f[t[i]] BY <1>7
  <2>2. \A i, j \in 1..m : t[i] = t[j] => i = j BY <1>5, <1>6 DEF Picks
  <2> QED BY <1>1, <1>8, <2>1, <2>2
<1>13. count >= 1 => ~(count <= 0) OBVIOUS
<1>16. PicksFrom(g, S, count) BY <1>6, <1>9, <1>10, <1>11, <1>12, <1>13 DEF PicksFrom
<1>17. count >= 0 => m <= count BY <1>1 DEF Some, m
<1>18. ASSUME m < count \/ n <= count, NEW r \in S PROVE \E k \in 1..m : g[k] = r
  <2>1. m = n BY <1>1, <1>18 DEF Some, m
  <2> DEFINE turn == [k \in 1..n |-> t[k]]
  <2>2. turn \in Injection(1..n, 1..n)
    <3>1. /\ \A k \in 1..n : t[k] \in 1..n
          /\ \A k, l \in 1..n : t[k] = t[l] => k = l
      BY <1>5, <1>6, <2>1 DEF Picks
    <3> QED BY <3>1 DEF Injection, IsInjective
  <2>3. turn \in Surjection(1..n, 1..n)
    <3>1. IsFiniteSet(1..n) BY <1>1, FS_Interval
    <3> HIDE DEF turn
    <3> QED BY <2>2, <3>1, FS_Injection
  <2>4. PICK i \in 1..n : f[i] = r BY <1>1
  <2>5. PICK k \in 1..n : turn[k] = i BY <2>3, <2>4 DEF Surjection
  <2>6. g[k] = f[t[k]] BY <1>7, <2>1, <2>5
  <2> QED BY <2>1, <2>4, <2>5, <2>6
<1>19. Exhausts(g, S, count) BY <1>11, <1>17, <1>18 DEF Exhausts, n
<1> QED BY <1>16, <1>19 DEF g

LEMMA ChosenAreFree ==
  ASSUME NEW relays, Listed(relays), NEW s, NEW count \in Int, NEW taken
  PROVE  LET free == {r \in ActiveMatches(s, relays) : r.host \notin taken}
             added == ChooseRelays(s, relays, count, taken)
         IN PicksFrom(added, free, count) /\ Exhausts(added, free, count)
<1> DEFINE S == {r \in ActiveMatches(s, relays) : r.host \notin taken}
<1>1. S \in SUBSET relays BY DEF ActiveMatches
<1>2. ChooseRelays(s, relays, count, taken) = Spread(s, BestFirst(S), count) BY DEF ChooseRelays
<1> HIDE DEF S
<1>3. Enumerates(BestFirst(S), S) BY <1>1, BestFirstEnumerates
<1>4. /\ PicksFrom(Spread(s, BestFirst(S), count), S, count)
      /\ Exhausts(Spread(s, BestFirst(S), count), S, count)
  BY <1>1, <1>3, SpreadLists
<1> QED BY <1>2, <1>4 DEF S

-----------------------------------------------------------------------------
(* The plan of an export.                                                      *)

\* Where fewer than n are taken, all are.
LEMMA FirstOfAll ==
  ASSUME NEW S \in SUBSET Nat, IsFiniteSet(S), NEW n \in Nat
  PROVE  /\ FirstOf(S, n) \in SUBSET S /\ IsFiniteSet(FirstOf(S, n))
         /\ Cardinality(FirstOf(S, n)) \in Nat
         /\ Cardinality(FirstOf(S, n)) < n => FirstOf(S, n) = S
         /\ n > 0 /\ S # {} => FirstOf(S, n) # {}
<1> DEFINE F == FirstOf(S, n)
           Below(i) == {j \in S : j < i}
<1>1. F = {i \in S : Cardinality(Below(i)) < n} BY DEF FirstOf
<1> HIDE DEF F
<1>2. F \in SUBSET S /\ IsFiniteSet(F) /\ Cardinality(F) \in Nat
  BY <1>1, FS_Subset, FS_CardinalityType
<1>3. ASSUME F # S PROVE Cardinality(F) >= n
  <2> DEFINE T == S \ F
  <2>1. PICK x \in T : \A y \in T : x <= y
    <3>1. T \in SUBSET Nat /\ T # {} BY <1>2, <1>3
    <3> HIDE DEF T
    <3> QED BY <3>1, Least
  <2>2. \A j \in S : j < x => j \in F BY <2>1
  <2>4. Below(x) \in SUBSET F BY <2>2
  <2>3. ~(Cardinality(Below(x)) < n) BY <1>1, <2>1
  <2> HIDE DEF Below
  <2>5. Cardinality(Below(x)) <= Cardinality(F) /\ Cardinality(Below(x)) \in Nat
    BY <1>2, <2>4, FS_Subset, FS_CardinalityType
  <2> QED BY <1>2, <2>3, <2>5
<1>4. ASSUME n > 0, S # {} PROVE F # {}
  <2>1. PICK x \in S : \A y \in S : x <= y BY <1>4, Least
  <2>2. \A j \in S : ~(j < x) BY <2>1
  <2>4. Below(x) = {} BY <2>2
  <2>3. Cardinality(Below(x)) = 0 BY <2>4, FS_EmptySet
  <2> HIDE DEF Below
  <2> QED BY <1>1, <1>4, <2>3
<1> QED BY <1>2, <1>3, <1>4 DEF F

\* One list after another.
LEMMA Joined ==
  ASSUME NEW S, NEW s \in Seq(S), NEW t \in Seq(S)
  PROVE  /\ s \o t \in Seq(S) /\ Len(s \o t) = Len(s) + Len(t)
         /\ Len(s) \in Nat /\ Len(t) \in Nat
         /\ \A n \in 1..Len(s) : n \in 1..Len(s \o t) /\ (s \o t)[n] = s[n]
         /\ \A k \in 1..Len(t) :
              Len(s) + k \in 1..Len(s \o t) /\ (s \o t)[Len(s) + k] = t[k]
         /\ \A n \in 1..Len(s \o t) :
              n \in 1..Len(s) \/ \E k \in 1..Len(t) : n = Len(s) + k
<1>1. s \o t \in Seq(S) /\ Len(s \o t) = Len(s) + Len(t) OBVIOUS
<1>2. Len(s) \in Nat /\ Len(t) \in Nat OBVIOUS
<1>3. \A n \in 1..Len(s) : (s \o t)[n] = s[n] OBVIOUS
<1>4. \A k \in 1..Len(t) : (s \o t)[Len(s) + k] = t[k] OBVIOUS
<1>5. \A n \in 1..(Len(s) + Len(t)) : n \in 1..Len(s) \/ \E k \in 1..Len(t) : n = Len(s) + k
  <2> SUFFICES ASSUME NEW n \in 1..(Len(s) + Len(t)), n \notin 1..Len(s)
               PROVE  \E k \in 1..Len(t) : n = Len(s) + k
    OBVIOUS
  <2>1. n - Len(s) \in 1..Len(t) /\ n = Len(s) + (n - Len(s)) BY <1>2
  <2> QED BY <2>1
<1> QED BY <1>1, <1>2, <1>3, <1>4, <1>5

\* A route and its relay are described alike.
LEMMA DescribedByRelay ==
  ASSUME NEW relays, Listed(relays), NEW routes, NEW i \in DOMAIN routes
  PROVE  /\ Described(routes, relays)[i].host = routes[i].exit
         /\ \A r \in relays : r.host = routes[i].exit =>
              Described(routes, relays)[i] = AsEntry(r)
<1> DEFINE known == {r \in relays : r.host = routes[i].exit}
           d == Described(routes, relays)[i]
<1>1. d = IF known = {} THEN Forgotten(routes[i]) ELSE AsEntry(CHOOSE r \in known : TRUE)
  BY DEF Described
<1> HIDE DEF d
<1>2. CASE known = {}
  <2>1. d = Forgotten(routes[i]) BY <1>1, <1>2
  <2>2. d.host = routes[i].exit BY <2>1 DEF Forgotten
  <2> QED BY <1>2, <2>2 DEF d
<1>3. CASE known # {}
  <2>1. PICK r \in known : r = CHOOSE q \in known : TRUE BY <1>3
  <2>2. d = AsEntry(r) /\ r \in relays /\ r.host = routes[i].exit BY <1>1, <1>3, <2>1
  <2>3. d.host = routes[i].exit BY <2>2 DEF AsEntry
  <2>4. \A q \in relays : q.host = routes[i].exit => q = r BY <2>2 DEF Listed
  <2> QED BY <2>2, <2>3, <2>4 DEF d
<1> QED BY <1>2, <1>3

HostsOf(targets) == {targets[n].relay.host : n \in DOMAIN targets}

\* The plan's relays are active, all different and no route's; what it has taken are
\* the exits of routes and its own.
SoundPlan(plan, routes, relays, selectors) ==
  /\ plan \in [taken : SUBSET (ExitsOf(routes) \cup {r.host : r \in relays}),
               targets : Seq([relay : relays, selector : {selectors[i] : i \in DOMAIN selectors}])]
  /\ \A n \in 1..Len(plan.targets) :
       /\ plan.targets[n].relay.host \in plan.taken \ ExitsOf(routes)
       /\ plan.targets[n].relay.active
  /\ \A m, n \in 1..Len(plan.targets) :
       plan.targets[m].relay.host = plan.targets[n].relay.host => m = n
  /\ plan.taken \subseteq ExitsOf(routes) \cup HostsOf(plan.targets)

LEMMA TakeForKeeps ==
  ASSUME NEW relays, Listed(relays), NEW routes, IsList(routes), NEW selectors,
         NEW c \in DOMAIN selectors, selectors[c].count \in Nat,
         NEW plan, SoundPlan(plan, routes, relays, selectors)
  PROVE  LET more == TakeFor(plan, selectors[c], Described(routes, relays), relays)
         IN /\ SoundPlan(more, routes, relays, selectors)
            /\ HostsOf(plan.targets) \subseteq HostsOf(more.targets)
<1> DEFINE s == selectors[c]
           d == Described(routes, relays)
           existing == Unreserved(plan, s, d)
           desired == Desired(s, existing, relays, plan.taken)
           kept == FirstOf(existing, desired)
           lacking == Lacking(desired, kept)
           taken == Reserved(plan, kept, d)
           added == ChooseRelays(s, relays, lacking, taken)
           free == {r \in ActiveMatches(s, relays) : r.host \notin taken}
           extra == [k \in DOMAIN added |-> [relay |-> added[k], selector |-> s]]
           Exits == ExitsOf(routes)
           Tgt == [relay : relays, selector : {selectors[i] : i \in DOMAIN selectors}]
           targets == plan.targets \o extra
           more == TakeFor(plan, s, d, relays)
<1>1. more = [taken |-> taken \cup {added[k].host : k \in DOMAIN added}, targets |-> targets]
  BY Zenon DEF TakeFor
<1>2. /\ DOMAIN d = DOMAIN routes
      /\ DOMAIN routes = 1..Len(routes) /\ Len(routes) \in Nat
  BY DEF IsList, Described
<1>3. \A i \in DOMAIN routes :
        /\ d[i].host = routes[i].exit
        /\ \A r \in relays : r.host = routes[i].exit => d[i] = AsEntry(r)
  BY DescribedByRelay
<1>4. existing = {i \in DOMAIN routes : d[i].host \notin plan.taken /\ Matches(s, d[i])}
  BY <1>2 DEF Unreserved
<1>5. taken = plan.taken \cup {d[i].host : i \in kept} BY DEF Reserved
<1> HIDE DEF more, d, existing
<1>6. existing \in SUBSET Nat /\ IsFiniteSet(existing) /\ Cardinality(existing) \in Nat
  <2>1. existing \in SUBSET (1..Len(routes)) BY <1>2, <1>4
  <2>2. IsFiniteSet(1..Len(routes)) BY <1>2, FS_Interval
  <2>3. IsFiniteSet(existing) BY <2>1, <2>2, FS_Subset
  <2>4. \A i \in existing : i \in Nat BY <1>2, <2>1
  <2> QED BY <2>3, <2>4, FS_CardinalityType
<1>7. desired \in Nat
  <2> DEFINE R == {r \in relays : r.host \notin plan.taken /\ Matches(s, AsEntry(r))}
  <2>1. R \in SUBSET relays OBVIOUS
  <2> HIDE DEF R
  <2>2. Cardinality(R) \in Nat BY <2>1, FS_Subset, FS_CardinalityType DEF Listed
  <2>3. desired = CASE s.count = All -> Cardinality(existing) + Cardinality(R)
                    [] s.count = Uncounted -> IF existing = {} THEN 1 ELSE Cardinality(existing)
                    [] OTHER -> s.count
    BY DEF Desired, R
  <2> HIDE DEF desired
  <2> QED BY <1>6, <2>2, <2>3 DEF All, Uncounted
<1> HIDE DEF desired
<1>8. /\ kept \in SUBSET existing /\ Cardinality(kept) \in Nat
      /\ Cardinality(kept) < desired => kept = existing
  BY <1>6, <1>7, FirstOfAll
<1>9. lacking = desired - Cardinality(kept) /\ lacking \in Int BY <1>7, <1>8 DEF Lacking
<1> HIDE DEF kept, lacking, taken
<1>10. PicksFrom(added, free, lacking) BY <1>9, ChosenAreFree
<1> HIDE DEF added
<1>11. /\ added \in Seq(free) /\ free \subseteq relays
       /\ \A i, j \in 1..Len(added) : added[i] = added[j] => i = j
       /\ DOMAIN added = 1..Len(added) /\ Len(added) \in Nat
       /\ \A k \in 1..Len(added) : added[k] \in free /\ added[k].active
  BY <1>10 DEF PicksFrom, ActiveMatches
<1>12. 1..Len(added) # {} => kept = existing BY <1>7, <1>8, <1>9, <1>10, <1>11 DEF PicksFrom
<1>13. \A k \in 1..Len(added) : added[k].host \notin taken /\ added[k].host \notin Exits
  <2> SUFFICES ASSUME NEW k \in 1..Len(added), added[k].host \in Exits PROVE FALSE
    BY <1>11
  <2>1. PICK i \in DOMAIN routes : added[k].host = routes[i].exit BY DEF ExitsOf
  <2>2. d[i] = AsEntry(added[k]) /\ d[i].host = added[k].host BY <1>3, <1>11, <2>1
  <2>3. Matches(s, d[i]) /\ added[k].host \notin taken BY <1>11, <2>2 DEF ActiveMatches
  <2>4. i \in existing BY <1>4, <1>5, <2>2, <2>3
  <2> QED BY <1>5, <1>12, <2>2, <2>3, <2>4
<1>14. plan.taken \subseteq taken /\ taken \subseteq plan.taken \cup Exits
  <2>1. \A i \in kept : d[i].host \in Exits BY <1>3, <1>4, <1>8 DEF ExitsOf
  <2> QED BY <1>5, <2>1
<1>15. /\ plan.targets \in Seq(Tgt) /\ Len(plan.targets) \in Nat
       /\ plan.taken \in SUBSET (Exits \cup {r.host : r \in relays})
       /\ \A n \in 1..Len(plan.targets) : /\ plan.targets[n].relay.host \in plan.taken \ Exits
                                           /\ plan.targets[n].relay.active
       /\ \A m, n \in 1..Len(plan.targets) :
            plan.targets[m].relay.host = plan.targets[n].relay.host => m = n
       /\ plan.taken \subseteq Exits \cup HostsOf(plan.targets)
  BY DEF SoundPlan
<1>16. /\ extra \in Seq(Tgt) /\ Len(extra) = Len(added)
       /\ \A k \in 1..Len(added) : extra[k].relay = added[k]
  BY <1>11
<1> HIDE DEF extra, Tgt
<1>17. /\ targets \in Seq(Tgt)
       /\ \A n \in 1..Len(plan.targets) : n \in 1..Len(targets) /\ targets[n] = plan.targets[n]
       /\ \A k \in 1..Len(added) : /\ Len(plan.targets) + k \in 1..Len(targets)
                                   /\ targets[Len(plan.targets) + k].relay = added[k]
       /\ \A n \in 1..Len(targets) :
            n \in 1..Len(plan.targets) \/ \E k \in 1..Len(added) : n = Len(plan.targets) + k
  <2> DEFINE st == targets
  <2>1. st = plan.targets \o extra OBVIOUS
  <2>2. extra \in Seq(Tgt) /\ Len(extra) = Len(added) BY <1>16
  <2> HIDE DEF st
  <2>3. /\ st \in Seq(Tgt)
        /\ \A n \in 1..Len(plan.targets) : n \in 1..Len(st) /\ st[n] = plan.targets[n]
        /\ \A k \in 1..Len(extra) :
             Len(plan.targets) + k \in 1..Len(st) /\ st[Len(plan.targets) + k] = extra[k]
        /\ \A n \in 1..Len(st) :
             n \in 1..Len(plan.targets) \/ \E k \in 1..Len(extra) : n = Len(plan.targets) + k
    BY <1>15, <2>1, <2>2, Joined
  <2>4. st = targets BY DEF st
  <2> HIDE DEF targets
  <2> QED BY <1>11, <1>16, <2>2, <2>3, <2>4
<1>18. /\ more.taken = taken \cup {added[k].host : k \in 1..Len(added)}
       /\ more.targets = targets
       /\ more = [taken |-> more.taken, targets |-> more.targets]
  BY <1>1, <1>11
<1> HIDE DEF targets, Exits
<1>20. \A n \in 1..Len(targets) : /\ targets[n].relay.host \in more.taken \ Exits
                                  /\ targets[n].relay.active
  <2> TAKE n \in 1..Len(targets)
  <2>1. CASE n \in 1..Len(plan.targets) BY <1>14, <1>15, <1>17, <1>18, <2>1
  <2>2. ASSUME NEW k \in 1..Len(added), n = Len(plan.targets) + k
        PROVE  targets[n].relay.host \in more.taken \ Exits /\ targets[n].relay.active
    BY <1>11, <1>13, <1>17, <1>18, <2>2
  <2> QED BY <1>17, <2>1, <2>2
<1>21. \A m, n \in 1..Len(targets) : targets[m].relay.host = targets[n].relay.host => m = n
  <2>1. \A m, n \in 1..Len(plan.targets) :
          targets[m].relay.host = targets[n].relay.host => m = n
    BY <1>15, <1>17
  <2>2. \A k, l \in 1..Len(added) : added[k].host = added[l].host => k = l
    BY <1>11 DEF Listed
  <2>3. \A n \in 1..Len(plan.targets) : \A k \in 1..Len(added) :
          targets[n].relay.host # targets[Len(plan.targets) + k].relay.host
    BY <1>13, <1>14, <1>15, <1>17
  <2>4. \A k, l \in 1..Len(added) :
          targets[Len(plan.targets) + k].relay.host = targets[Len(plan.targets) + l].relay.host
            => k = l
    BY <1>17, <2>2
  <2>5. SUFFICES ASSUME NEW m \in 1..Len(targets), NEW n \in 1..Len(targets),
                        targets[m].relay.host = targets[n].relay.host
                 PROVE  m = n
    OBVIOUS
  <2>6. CASE m \in 1..Len(plan.targets)
    <3>1. n \in 1..Len(plan.targets)
      <4>1. ASSUME NEW k \in 1..Len(added), n = Len(plan.targets) + k PROVE FALSE
        <5>1. targets[m].relay.host # targets[Len(plan.targets) + k].relay.host BY <2>3, <2>6
        <5> QED BY <2>5, <4>1, <5>1
      <4> QED BY <1>17, <4>1
    <3> QED BY <2>1, <2>5, <2>6, <3>1
  <2>7. ASSUME NEW k \in 1..Len(added), m = Len(plan.targets) + k PROVE m = n
    <3>1. PICK l \in 1..Len(added) : n = Len(plan.targets) + l BY <1>17, <2>3, <2>5, <2>7
    <3> QED BY <2>4, <2>5, <2>7, <3>1
  <2> QED BY <1>17, <2>6, <2>7
<1>22. HostsOf(targets) = HostsOf(plan.targets) \cup {added[k].host : k \in 1..Len(added)}
  <2>1. DOMAIN targets = 1..Len(targets) /\ DOMAIN plan.targets = 1..Len(plan.targets)
    BY <1>15, <1>17
  <2>2. ASSUME NEW n \in 1..Len(targets)
        PROVE  \/ targets[n].relay.host \in HostsOf(plan.targets)
               \/ \E k \in 1..Len(added) : targets[n].relay.host = added[k].host
    <3>1. CASE n \in 1..Len(plan.targets) BY <1>17, <2>1, <3>1 DEF HostsOf
    <3>2. ASSUME NEW k \in 1..Len(added), n = Len(plan.targets) + k
          PROVE  targets[n].relay.host = added[k].host
      BY <1>17, <3>2
    <3> QED BY <1>17, <3>1, <3>2
  <2>3. \A h \in HostsOf(plan.targets) : h \in HostsOf(targets) BY <1>17, <2>1 DEF HostsOf
  <2>4. \A k \in 1..Len(added) : added[k].host \in HostsOf(targets)
    BY <1>17, <2>1 DEF HostsOf
  <2>5. \A h \in HostsOf(targets) : \E n \in 1..Len(targets) : h = targets[n].relay.host
    BY <2>1 DEF HostsOf
  <2> QED BY <2>2, <2>3, <2>4, <2>5
<1>23. more.taken \subseteq Exits \cup HostsOf(targets) BY <1>14, <1>15, <1>18, <1>22
<1>24. more.taken \in SUBSET (Exits \cup {r.host : r \in relays})
  <2>1. \A k \in 1..Len(added) : added[k] \in relays BY <1>11
  <2> QED BY <1>14, <1>15, <1>18, <2>1
<1>25. more \in [taken : SUBSET (Exits \cup {r.host : r \in relays}), targets : Seq(Tgt)]
  BY <1>17, <1>18, <1>24
<1>26. SoundPlan(more, routes, relays, selectors)
  BY <1>18, <1>20, <1>21, <1>23, <1>25 DEF SoundPlan, Tgt, Exits
<1> QED BY <1>18, <1>22, <1>26 DEF more, d

\* A pinned relay has a route, or gets one.
LEMMA PinnedFields ==
  ASSUME NEW x
  PROVE  /\ DOMAIN Pinned(x) = SelectorFields
         /\ Pinned(x).kind = "country" /\ Pinned(x).value = <<x.country>>
         /\ Pinned(x).city = <<x.city>> /\ Pinned(x).server = x.host
         /\ Pinned(x).providers = {} /\ Pinned(x).owner = "all" /\ Pinned(x).runMode = "all"
         /\ Pinned(x).minSpeed = 0 /\ Pinned(x).count = 1
<1> DEFINE b == Bare("country", <<x.country>>)
<1>1. /\ DOMAIN b = SelectorFields /\ b.kind = "country" /\ b.value = <<x.country>>
      /\ b.providers = {} /\ b.owner = "all" /\ b.runMode = "all" /\ b.minSpeed = 0
  BY DEF Bare, SelectorFields
<1>2. Pinned(x) = [b EXCEPT !.city = <<x.city>>, !.server = x.host, !.count = 1] BY DEF Pinned
<1> HIDE DEF b
<1> QED BY <1>1, <1>2 DEF SelectorFields

LEMMA PinnedMatches ==
  ASSUME NEW x, x.host # <<>>, x.speed \in Nat
  PROVE  /\ Matches(Pinned(x), AsEntry(x))
         /\ \A e : Matches(Pinned(x), e) => e.host = x.host
<1>1. /\ AsEntry(x).country = x.country /\ AsEntry(x).city = x.city /\ AsEntry(x).host = x.host
      /\ AsEntry(x).speed = x.speed
  BY DEF AsEntry
<1>2. InSelectedPlace(Pinned(x), AsEntry(x)) BY <1>1, PinnedFields DEF InSelectedPlace
<1>3. AsEntry(x).speed >= 0 BY <1>1
<1>4. Matches(Pinned(x), AsEntry(x)) BY <1>2, <1>3, PinnedFields DEF Matches
<1>5. \A e : Matches(Pinned(x), e) => e.host = x.host
  <2>1. "country" # "region" OBVIOUS
  <2> QED BY <2>1, PinnedFields, Zenon DEF Matches, InSelectedPlace
<1> QED BY <1>4, <1>5

LEMMA PinnedIsReached ==
  ASSUME NEW relays, Listed(relays), NEW routes, IsList(routes), NEW selectors,
         NEW c \in DOMAIN selectors, NEW x \in relays, x.active, selectors[c] = Pinned(x),
         NEW plan, SoundPlan(plan, routes, relays, selectors)
  PROVE  LET more == TakeFor(plan, selectors[c], Described(routes, relays), relays)
         IN x.host \in ExitsOf(routes) \cup HostsOf(more.targets)
<1> DEFINE s == selectors[c]
           d == Described(routes, relays)
           existing == Unreserved(plan, s, d)
           desired == Desired(s, existing, relays, plan.taken)
           kept == FirstOf(existing, desired)
           lacking == Lacking(desired, kept)
           taken == Reserved(plan, kept, d)
           added == ChooseRelays(s, relays, lacking, taken)
           free == {r \in ActiveMatches(s, relays) : r.host \notin taken}
           more == TakeFor(plan, s, d, relays)
<1> SUFFICES x.host \in ExitsOf(routes) \cup HostsOf(more.targets) OBVIOUS
<1>1. more.taken = taken \cup {added[k].host : k \in DOMAIN added}
  <2> DEFINE rest == plan.targets \o [k \in DOMAIN added |-> [relay |-> added[k], selector |-> s]]
             all == taken \cup {added[k].host : k \in DOMAIN added}
  <2>1. more = [taken |-> all, targets |-> rest] BY Zenon DEF TakeFor
  <2> HIDE DEF more, rest, all
  <2>2. more.taken = all BY <2>1
  <2> QED BY <2>2 DEF all
<1>2. /\ DOMAIN d = DOMAIN routes
      /\ DOMAIN routes = 1..Len(routes) /\ Len(routes) \in Nat
  BY DEF IsList, Described
<1>3. \A i \in DOMAIN routes : d[i].host = routes[i].exit BY DescribedByRelay
<1>4. s = Pinned(x) /\ x.host # <<>> /\ x.speed \in Nat BY DEF Listed
<1>5. Matches(s, AsEntry(x)) /\ \A e : Matches(s, e) => e.host = x.host BY <1>4, PinnedMatches
<1>6. desired = 1 BY <1>4, PinnedFields DEF Desired, All, Uncounted
<1>7. existing = {i \in DOMAIN routes : d[i].host \notin plan.taken /\ Matches(s, d[i])}
  BY <1>2 DEF Unreserved
<1>8. taken = plan.taken \cup {d[i].host : i \in kept} BY DEF Reserved
<1>9. /\ SoundPlan(more, routes, relays, selectors)
      /\ HostsOf(plan.targets) \subseteq HostsOf(more.targets)
  <2>1. selectors[c].count \in Nat BY <1>4, PinnedFields
  <2> HIDE DEF existing, desired, kept, lacking, taken, added, free
  <2> QED BY <2>1, TakeForKeeps
<1>10. /\ more.taken \subseteq ExitsOf(routes) \cup HostsOf(more.targets)
       /\ plan.taken \subseteq ExitsOf(routes) \cup HostsOf(plan.targets)
  BY <1>9 DEF SoundPlan
<1> HIDE DEF more, d, existing, s, desired
<1>11. existing \in SUBSET Nat /\ IsFiniteSet(existing)
  <2>1. existing \in SUBSET (1..Len(routes)) BY <1>2, <1>7
  <2>2. IsFiniteSet(1..Len(routes)) BY <1>2, FS_Interval
  <2>3. IsFiniteSet(existing) BY <2>1, <2>2, FS_Subset
  <2>4. \A i \in existing : i \in Nat BY <1>2, <2>1
  <2> QED BY <2>3, <2>4
<1>12. CASE existing # {}
  <2>1. PICK i \in existing : TRUE BY <1>12
  <2>2. d[i].host = x.host /\ i \in DOMAIN routes BY <1>5, <1>7, <2>1
  <2> QED BY <1>3, <2>2 DEF ExitsOf
<1>13. CASE existing = {}
  <2>1. kept = {} BY <1>6, <1>11, <1>13, FirstOfAll
  <2>2. lacking = 1 BY <1>6, <2>1, FS_EmptySet DEF Lacking
  <2>3. taken = plan.taken BY <1>8, <2>1
  <2> HIDE DEF kept, lacking, taken
  <2>4. CASE x.host \in taken BY <1>9, <1>10, <2>3, <2>4
  <2>5. CASE x.host \notin taken
    <3>1. PicksFrom(added, free, lacking) BY <2>2, ChosenAreFree
    <3>2. x \in free BY <1>5, <2>5 DEF ActiveMatches
    <3> HIDE DEF added
    <3>3. added \in Seq(free) /\ Len(added) >= 1 BY <2>2, <3>1, <3>2 DEF PicksFrom
    <3>4. 1 \in DOMAIN added /\ added[1] \in free BY <3>3
    <3>5. Matches(s, AsEntry(added[1])) BY <3>4 DEF ActiveMatches
    <3>6. AsEntry(added[1]).host = added[1].host BY DEF AsEntry
    <3>7. added[1].host = x.host BY <1>5, <3>5, <3>6
    <3>8. x.host \in more.taken BY <1>1, <3>4, <3>7
    <3> QED BY <1>10, <3>8
  <2> QED BY <2>4, <2>5
<1> QED BY <1>12, <1>13

\* The relays that the first k selectors pin are reached.
Reaches(plan, routes, relays, selectors, k) ==
  \A j \in 1..k : \A x \in relays : x.active /\ selectors[j] = Pinned(x) =>
    x.host \in ExitsOf(routes) \cup HostsOf(plan.targets)

SoundTargets(targets, routes, relays, selectors) ==
  \E plan : /\ SoundPlan(plan, routes, relays, selectors) /\ plan.targets = targets
            /\ Reaches(plan, routes, relays, selectors, Len(selectors))

\* The plans that PlanTargets makes, selector by selector.
PlannedBy(plans, selectors, routes, relays) ==
  /\ plans[0] = [taken |-> {}, targets |-> <<>>]
  /\ \A k \in 1..Len(selectors) :
       plans[k] = TakeFor(plans[k - 1], selectors[k], Described(routes, relays), relays)
  /\ \A k \in 0..Len(selectors) : /\ SoundPlan(plans[k], routes, relays, selectors)
                                  /\ Reaches(plans[k], routes, relays, selectors, k)
  /\ PlanTargets(selectors, routes, relays) = plans[Len(selectors)].targets

LEMMA PlanUnfolds ==
  ASSUME NEW relays, Listed(relays), NEW routes, IsList(routes),
         NEW selectors, AreSelectors(selectors)
  PROVE  \E plans : PlannedBy(plans, selectors, routes, relays)
<1> DEFINE N == Len(selectors)
           d == Described(routes, relays)
           Plans == [taken : SUBSET (ExitsOf(routes) \cup {r.host : r \in relays}),
                     targets : Seq([relay : relays,
                                    selector : {selectors[i] : i \in DOMAIN selectors}])]
           V == [k \in 0..N |-> {plan \in Plans : /\ SoundPlan(plan, routes, relays, selectors)
                                                  /\ Reaches(plan, routes, relays, selectors, k)}]
           More(k, plan) == TakeFor(plan, selectors[k], d, relays)
           none == [taken |-> {}, targets |-> <<>>]
           step == [k \in 1..N |-> [plan \in V[k - 1] |-> More(k, plan)]]
           Body(f) == [k \in 0..N |-> IF k = 0 THEN none ELSE More(k, f[k - 1])]
           plans == CHOOSE f : f = Body(f)
<1>1. N \in Nat /\ DOMAIN selectors = 1..N /\ \A k \in 1..N : selectors[k].count \in Nat
  BY DEF AreSelectors, IsList
<1>2. none \in V[0]
  <2>1. none \in Plans OBVIOUS
  <2>2. Len(none.targets) = 0 /\ none.taken = {} OBVIOUS
  <2> HIDE DEF none
  <2>3. SoundPlan(none, routes, relays, selectors) BY <2>1, <2>2 DEF SoundPlan
  <2>4. Reaches(none, routes, relays, selectors, 0) BY DEF Reaches
  <2> HIDE DEF Plans, N
  <2> QED BY <1>1, <2>1, <2>3, <2>4
<1>3. ASSUME NEW k \in 1..N, NEW plan \in V[k - 1] PROVE More(k, plan) \in V[k]
  <2>1. /\ plan \in Plans /\ SoundPlan(plan, routes, relays, selectors)
        /\ Reaches(plan, routes, relays, selectors, k - 1)
    <3> HIDE DEF Plans, N
    <3> QED BY <1>1
  <2>2. /\ SoundPlan(More(k, plan), routes, relays, selectors)
        /\ HostsOf(plan.targets) \subseteq HostsOf(More(k, plan).targets)
    BY <1>1, <2>1, TakeForKeeps
  <2>3. More(k, plan) \in Plans BY <2>2 DEF SoundPlan
  <2>4. Reaches(More(k, plan), routes, relays, selectors, k)
    <3> SUFFICES ASSUME NEW j \in 1..k, NEW x \in relays, x.active, selectors[j] = Pinned(x)
                 PROVE  x.host \in ExitsOf(routes) \cup HostsOf(More(k, plan).targets)
      BY Zenon DEF Reaches
    <3>1. CASE j = k
      <4>1. k \in DOMAIN selectors /\ selectors[k] = Pinned(x) BY <1>1, <3>1
      <4> QED BY <2>1, <4>1, PinnedIsReached
    <3>2. CASE j # k
      <4>1. j \in 1..(k - 1) BY <1>1, <3>2
      <4>2. x.host \in ExitsOf(routes) \cup HostsOf(plan.targets) BY <2>1, <4>1 DEF Reaches
      <4> HIDE DEF More
      <4> QED BY <2>2, <4>2
    <3> QED BY <3>1, <3>2
  <2> HIDE DEF Plans, More, N
  <2> QED BY <1>1, <2>2, <2>3, <2>4
<1> HIDE DEF N, V, More, none
<1>4. /\ \A k \in 1..N : \A plan \in V[k - 1] : step[k][plan] \in V[k]
      /\ \A k \in 1..N : \A plan \in V[k - 1] : step[k][plan] = More(k, plan)
  BY <1>3
<1> HIDE DEF step
<1>5. \E f : f = Body(f)
  <2>1. PICK f : Follows(f, V, N, none, step)
    <3>1. Leads(V, N, none, step) BY <1>1, <1>2, <1>4 DEF Leads
    <3> QED BY <3>1, Recursion
  <2> DEFINE g == [k \in 0..N |-> f[k]]
  <2>2. \A k \in 1..N : step[k][f[k - 1]] = More(k, f[k - 1])
    <3>1. SUFFICES ASSUME NEW k \in 1..N PROVE step[k][f[k - 1]] = More(k, f[k - 1]) OBVIOUS
    <3>2. k - 1 \in 0..N BY <1>1
    <3>3. f[k - 1] \in V[k - 1] BY <2>1, <3>2 DEF Follows
    <3> QED BY <1>4, <3>3
  <2>3. g = Body(g) BY <1>1, <2>1, <2>2 DEF Follows
  <2> HIDE DEF g, Body
  <2> QED BY <2>3
<1>6. plans = Body(plans) BY <1>5
<1> HIDE DEF plans
<1>7. plans[0] = none /\ \A k \in 1..N : plans[k] = More(k, plans[k - 1]) BY <1>1, <1>6
<1>8. \A k \in 0..N : plans[k] \in V[k]
  <2>1. plans[0] \in V[0] BY <1>2, <1>7
  <2>2. \A k \in 1..N : plans[k - 1] \in V[k - 1] => plans[k] \in V[k] BY <1>3, <1>7
  <2> QED BY <1>1, <2>1, <2>2, StaysWithin, Zenon
<1>9. PlanTargets(selectors, routes, relays) = plans[N].targets
  BY Zenon DEF PlanTargets, plans, none, More, N
<1>10. \A k \in 0..N : /\ SoundPlan(plans[k], routes, relays, selectors)
                       /\ Reaches(plans[k], routes, relays, selectors, k)
  <2> HIDE DEF Plans
  <2> QED BY <1>1, <1>8 DEF V
<1>11. PlannedBy(plans, selectors, routes, relays)
  BY <1>7, <1>9, <1>10 DEF PlannedBy, N, More, none, d
<1> QED BY <1>11

LEMMA PlanIsSound ==
  ASSUME NEW relays, Listed(relays), NEW routes, IsList(routes),
         NEW selectors, AreSelectors(selectors)
  PROVE  SoundTargets(PlanTargets(selectors, routes, relays), routes, relays, selectors)
<1>1. PICK plans : PlannedBy(plans, selectors, routes, relays) BY PlanUnfolds
<1>2. Len(selectors) \in Nat BY DEF AreSelectors, IsList
<1> QED BY <1>1, <1>2 DEF PlannedBy, SoundTargets

-----------------------------------------------------------------------------
(* Selectors.                                                                  *)

\* What the command line spells out; a count is a number.
AreTokens(tokens) ==
  /\ IsList(tokens)
  /\ \A i \in DOMAIN tokens :
       tokens[i].flag \in Flags /\ (tokens[i].flag = "count" => tokens[i].value \in Nat)

\* A value for every option, from values P given on the command line.
Options(P) == P \cup (SUBSET P) \cup Nat \cup {"country", "region", "all", <<>>}
Selectors(P) == {s \in [SelectorFields -> Options(P)] : s.count \in Nat /\ s.providers \in SUBSET P}

LEMMA BareIsSelector ==
  ASSUME NEW P, NEW kind \in {"country", "region"}, NEW value \in P
  PROVE  Bare(kind, value) \in Selectors(P)
<1> DEFINE b == Bare(kind, value)
<1>1. /\ DOMAIN b = SelectorFields /\ b = [f \in SelectorFields |-> b[f]]
      /\ b.kind = kind /\ b.value = value /\ b.city = <<>> /\ b.server = <<>>
      /\ b.providers = {} /\ b.owner = "all" /\ b.runMode = "all" /\ b.minSpeed = 0
      /\ b.count = 0
  BY DEF Bare, SelectorFields, Uncounted
<1> HIDE DEF b
<1>2. \A f \in SelectorFields : b[f] \in Options(P) BY <1>1 DEF Options, SelectorFields
<1>3. b \in [SelectorFields -> Options(P)] BY <1>1, <1>2
<1>4. b.count \in Nat /\ b.providers \in SUBSET P
  <2>1. 0 \in Nat /\ {} \in SUBSET P OBVIOUS
  <2> QED BY <1>1, <2>1, Zenon
<1>5. b \in Selectors(P) BY <1>3, <1>4 DEF Selectors
<1> QED BY <1>5 DEF b

LEMMA FilteredIsSelector ==
  ASSUME NEW P, NEW s \in Selectors(P), NEW flag \in Flags \ {"country", "region"},
         NEW value \in P, flag = "count" => value \in Nat
  PROVE  Filtered(s, flag, value) \in Selectors(P)
<1> DEFINE new == IF flag = "providers" THEN s[flag] \cup {value} ELSE value
           t == [s EXCEPT ![flag] = new]
<1>1. flag \in SelectorFields BY DEF Flags, SelectorFields
<1>2. s \in [SelectorFields -> Options(P)] /\ s.count \in Nat /\ s.providers \in SUBSET P
  BY DEF Selectors
<1>3. new \in Options(P) /\ (flag = "count" => new \in Nat) /\ (flag = "providers" => new \in SUBSET P)
  BY <1>2 DEF Options
<1> HIDE DEF new
<1>4. t \in [SelectorFields -> Options(P)] BY <1>1, <1>2, <1>3
<1>5. t.count \in Nat /\ t.providers \in SUBSET P BY <1>2, <1>3 DEF SelectorFields
<1>6. t \in Selectors(P)
  <2> HIDE DEF t
  <2> QED BY <1>4, <1>5 DEF Selectors
<1> QED BY <1>6 DEF Filtered, new

LEMMA TokenKeeps ==
  ASSUME NEW P, NEW parsed \in [ok : BOOLEAN, selectors : Seq(Selectors(P))],
         NEW token, token.flag \in Flags, token.value \in P,
         token.flag = "count" => token.value \in Nat
  PROVE  ReadToken(parsed, token) \in [ok : BOOLEAN, selectors : Seq(Selectors(P))]
<1> DEFINE S == Selectors(P)
           Type == [ok : BOOLEAN, selectors : Seq(S)]
           last == Len(parsed.selectors)
           old == parsed.selectors[last]
           bare == Bare(token.flag, token.value)
           more == Filtered(old, token.flag, token.value)
<1>1. parsed \in Type /\ parsed.selectors \in Seq(S) /\ last \in Nat OBVIOUS
<1>2. CASE ~parsed.ok BY <1>1, <1>2 DEF ReadToken
<1>3. CASE parsed.ok /\ token.flag \in {"country", "region"}
  <2>1. bare \in S BY <1>3, BareIsSelector
  <2>2. ReadToken(parsed, token) = [parsed EXCEPT !.selectors = Append(parsed.selectors, bare)]
    BY <1>3 DEF ReadToken
  <2> HIDE DEF S, bare
  <2>3. Append(parsed.selectors, bare) \in Seq(S) BY <1>1, <2>1
  <2> QED BY <1>1, <2>2, <2>3 DEF S
<1>4. CASE parsed.ok /\ token.flag \notin {"country", "region"}
           /\ (last = 0 \/ Misplaced(old, token.flag))
  <2>1. ReadToken(parsed, token) = [parsed EXCEPT !.ok = FALSE] BY <1>4 DEF ReadToken
  <2> HIDE DEF S
  <2> QED BY <1>1, <2>1 DEF S
<1>5. CASE parsed.ok /\ token.flag \notin {"country", "region"}
           /\ last # 0 /\ ~Misplaced(old, token.flag)
  <2>1. ReadToken(parsed, token) = [parsed EXCEPT !.selectors = [parsed.selectors EXCEPT ![last] = more]]
    BY <1>5 DEF ReadToken
  <2>2. old \in S BY <1>1, <1>5
  <2>3. more \in S BY <1>5, <2>2, FilteredIsSelector
  <2> DEFINE list == [parsed.selectors EXCEPT ![last] = more]
  <2> HIDE DEF S, more
  <2>4. list \in [1..last -> S] BY <1>1, <1>5, <2>3
  <2>5. list \in Seq(S)
    <3> HIDE DEF list
    <3> QED BY <1>1, <2>4
  <2> QED BY <1>1, <2>1, <2>5 DEF S
<1> QED BY <1>2, <1>3, <1>4, <1>5

LEMMA ParsedAreSelectors ==
  ASSUME NEW tokens, AreTokens(tokens)
  PROVE  AreSelectors(ParseSelectors(tokens).selectors)
<1> DEFINE N == Len(tokens)
           P == {tokens[i].value : i \in DOMAIN tokens}
           Type == [ok : BOOLEAN, selectors : Seq(Selectors(P))]
           V == [k \in 0..N |-> Type]
           More(k, parsed) == ReadToken(parsed, tokens[k])
           none == [ok |-> TRUE, selectors |-> <<>>]
           step == [k \in 1..N |-> [parsed \in V[k - 1] |-> More(k, parsed)]]
           Body(f) == [k \in 0..N |-> IF k = 0 THEN none ELSE More(k, f[k - 1])]
           made == CHOOSE f : f = Body(f)
<1>1. /\ N \in Nat /\ DOMAIN tokens = 1..N
      /\ \A k \in 1..N : /\ tokens[k].flag \in Flags /\ tokens[k].value \in P
                         /\ tokens[k].flag = "count" => tokens[k].value \in Nat
  BY DEF AreTokens, IsList
<1> HIDE DEF N, P
<1>2. none \in Type OBVIOUS
<1>3. ASSUME NEW k \in 1..N, NEW parsed \in V[k - 1] PROVE More(k, parsed) \in V[k]
  <2>1. parsed \in Type
    <3> HIDE DEF Type
    <3> QED BY <1>1
  <2>2. More(k, parsed) \in Type BY <1>1, <2>1, TokenKeeps
  <2> HIDE DEF Type, More
  <2> QED BY <1>1, <2>2
<1>4. none \in V[0]
  <2> HIDE DEF Type, none
  <2> QED BY <1>1, <1>2
<1> HIDE DEF V, More, none
<1>5. /\ \A k \in 1..N : \A parsed \in V[k - 1] : step[k][parsed] \in V[k]
      /\ \A k \in 1..N : \A parsed \in V[k - 1] : step[k][parsed] = More(k, parsed)
  BY <1>3
<1> HIDE DEF step
<1>6. \E f : f = Body(f)
  <2>1. PICK f : Follows(f, V, N, none, step)
    <3>1. Leads(V, N, none, step) BY <1>1, <1>4, <1>5 DEF Leads
    <3> QED BY <3>1, Recursion
  <2> DEFINE g == [k \in 0..N |-> f[k]]
  <2>2. \A k \in 1..N : step[k][f[k - 1]] = More(k, f[k - 1])
    <3>1. SUFFICES ASSUME NEW k \in 1..N PROVE step[k][f[k - 1]] = More(k, f[k - 1]) OBVIOUS
    <3>2. k - 1 \in 0..N BY <1>1
    <3>3. f[k - 1] \in V[k - 1] BY <2>1, <3>2 DEF Follows
    <3> QED BY <1>5, <3>3
  <2>3. g = Body(g) BY <1>1, <2>1, <2>2 DEF Follows
  <2> HIDE DEF g, Body
  <2> QED BY <2>3
<1>7. made = Body(made) BY <1>6
<1> HIDE DEF made
<1>8. made[0] = none /\ \A k \in 1..N : made[k] = More(k, made[k - 1]) BY <1>1, <1>7
<1>9. made[N] \in V[N]
  <2>1. made[0] \in V[0] BY <1>4, <1>8
  <2>2. \A k \in 1..N : made[k - 1] \in V[k - 1] => made[k] \in V[k] BY <1>3, <1>8
  <2>3. \A k \in 0..N : made[k] \in V[k] BY <1>1, <2>1, <2>2, StaysWithin, Zenon
  <2> QED BY <1>1, <2>3
<1>10. ParseSelectors(tokens) = made[N] BY Zenon DEF ParseSelectors, made, none, More, N
<1>11. made[N].selectors \in Seq(Selectors(P))
  <2>1. made[N] \in Type
    <3> HIDE DEF Type
    <3> QED BY <1>1, <1>9 DEF V
  <2> QED BY <2>1
<1> DEFINE list == made[N].selectors
<1>12. list \in Seq(Selectors(P)) BY <1>11
<1> HIDE DEF list
<1>13. DOMAIN list = 1..Len(list) /\ Len(list) \in Nat /\ \A i \in 1..Len(list) : list[i] \in Selectors(P)
  BY <1>12
<1>14. \A i \in DOMAIN list : DOMAIN list[i] = SelectorFields /\ list[i].count \in Nat
  BY <1>13 DEF Selectors
<1>15. IsList(list)
  <2>1. list = [i \in 1..Len(list) |-> list[i]] BY <1>12
  <2> QED BY <1>13, <2>1 DEF IsList
<1> QED BY <1>10, <1>14, <1>15 DEF AreSelectors, list

\* A recommendation is a list of active relays of the catalog.
Recommendations(relays) == [ok : BOOLEAN, chosen : Seq({r \in relays : r.active})]

LEMMA RecommendStepKeeps ==
  ASSUME NEW relays, Listed(relays), NEW latency, \A r \in relays : latency[r.host] \in Nat,
         NEW s, s.count \in Nat, NEW sofar \in Recommendations(relays)
  PROVE  RecommendStep(sofar, s, relays, latency) \in Recommendations(relays)
<1> DEFINE A == {r \in relays : r.active}
           matching == {r \in ActiveMatches(s, relays) :
                          \A k \in DOMAIN sofar.chosen : sofar.chosen[k].host # r.host}
           answering == Answering(matching, latency)
           spread == Spread(s, FastestFirst(answering, latency), Wanted(s))
           T == {spread[k] : k \in DOMAIN spread}
           more == FastestFirst(T, latency)
           made == RecommendStep(sofar, s, relays, latency)
<1>1. made = IF ~sofar.ok \/ answering = {} THEN [sofar EXCEPT !.ok = FALSE]
             ELSE [sofar EXCEPT !.chosen = sofar.chosen \o more]
  BY DEF RecommendStep
<1>2. answering \in SUBSET A /\ A \in SUBSET relays BY DEF Answering, ActiveMatches
<1> HIDE DEF made, answering, A
<1>3. Enumerates(FastestFirst(answering, latency), answering)
  BY <1>2, FastestFirstEnumerates
<1>4. Wanted(s) \in Int BY DEF Wanted, Uncounted
<1>5. PicksFrom(spread, answering, Wanted(s)) BY <1>2, <1>3, <1>4, SpreadLists
<1> HIDE DEF spread
<1>6. T \in SUBSET A BY <1>2, <1>5 DEF PicksFrom
<1> HIDE DEF T
<1>7. Enumerates(more, T) BY <1>2, <1>6, FastestFirstEnumerates
<1> HIDE DEF more
<1>8. more \in Seq(A) BY <1>6, <1>7 DEF Enumerates
<1>9. sofar \in [ok : BOOLEAN, chosen : Seq(A)] BY DEF Recommendations, A
<1>10. sofar.chosen \o more \in Seq(A) BY <1>8, <1>9, Joined
<1>11. made \in [ok : BOOLEAN, chosen : Seq(A)] BY <1>1, <1>9, <1>10
<1> QED BY <1>11 DEF Recommendations, A, made

LEMMA RecommendedAreActive ==
  ASSUME NEW relays, Listed(relays), NEW latency, \A r \in relays : latency[r.host] \in Nat,
         NEW selectors, AreSelectors(selectors)
  PROVE  Recommend(selectors, relays, latency) \in Recommendations(relays)
<1> DEFINE N == Len(selectors)
           Type == Recommendations(relays)
           V == [k \in 0..N |-> Type]
           More(k, sofar) == RecommendStep(sofar, selectors[k], relays, latency)
           none == [ok |-> TRUE, chosen |-> <<>>]
           step == [k \in 1..N |-> [sofar \in V[k - 1] |-> More(k, sofar)]]
           Body(f) == [k \in 0..N |-> IF k = 0 THEN none ELSE More(k, f[k - 1])]
           made == CHOOSE f : f = Body(f)
<1>1. N \in Nat /\ \A k \in 1..N : selectors[k].count \in Nat BY DEF AreSelectors, IsList
<1> HIDE DEF N
<1>2. none \in Type BY DEF Recommendations
<1> HIDE DEF Type
<1>3. ASSUME NEW k \in 1..N, NEW sofar \in V[k - 1] PROVE More(k, sofar) \in V[k]
  <2>1. sofar \in Type BY <1>1
  <2>2. More(k, sofar) \in Type BY <1>1, <2>1, RecommendStepKeeps DEF Type
  <2> HIDE DEF More
  <2> QED BY <1>1, <2>2
<1>4. none \in V[0]
  <2> HIDE DEF none
  <2> QED BY <1>1, <1>2
<1> HIDE DEF V, More, none
<1>5. /\ \A k \in 1..N : \A sofar \in V[k - 1] : step[k][sofar] \in V[k]
      /\ \A k \in 1..N : \A sofar \in V[k - 1] : step[k][sofar] = More(k, sofar)
  BY <1>3
<1> HIDE DEF step
<1>6. \E f : f = Body(f)
  <2>1. PICK f : Follows(f, V, N, none, step)
    <3>1. Leads(V, N, none, step) BY <1>1, <1>4, <1>5 DEF Leads
    <3> QED BY <3>1, Recursion
  <2> DEFINE g == [k \in 0..N |-> f[k]]
  <2>2. \A k \in 1..N : step[k][f[k - 1]] = More(k, f[k - 1])
    <3>1. SUFFICES ASSUME NEW k \in 1..N PROVE step[k][f[k - 1]] = More(k, f[k - 1]) OBVIOUS
    <3>2. k - 1 \in 0..N BY <1>1
    <3>3. f[k - 1] \in V[k - 1] BY <2>1, <3>2 DEF Follows
    <3> QED BY <1>5, <3>3
  <2>3. g = Body(g) BY <1>1, <2>1, <2>2 DEF Follows
  <2> HIDE DEF g, Body
  <2> QED BY <2>3
<1>7. made = Body(made) BY <1>6
<1> HIDE DEF made
<1>8. made[0] = none /\ \A k \in 1..N : made[k] = More(k, made[k - 1]) BY <1>1, <1>7
<1>9. made[N] \in V[N]
  <2>1. made[0] \in V[0] BY <1>4, <1>8
  <2>2. \A k \in 1..N : made[k - 1] \in V[k - 1] => made[k] \in V[k] BY <1>3, <1>8
  <2>3. \A k \in 0..N : made[k] \in V[k] BY <1>1, <2>1, <2>2, StaysWithin, Zenon
  <2> QED BY <1>1, <2>3
<1>10. Recommend(selectors, relays, latency) = made[N]
  BY Zenon DEF Recommend, made, none, More, N
<1> QED BY <1>1, <1>9, <1>10 DEF V, Type

-----------------------------------------------------------------------------
(* Configurations.                                                             *)

\* n is c but for the names of its routes and its phase.
Alike(c, n) ==
  /\ DOMAIN n.routes = DOMAIN c.routes
  /\ \A f \in ConfigFields \ {"routes", "phase"} : n[f] = c[f]
  /\ \A i \in DOMAIN c.routes : \A f \in RouteFields \ {"id"} : n.routes[i][f] = c.routes[i][f]

LEMMA PostureAlike ==
  ASSUME NEW c, Typed(c), NEW n, Typed(n), Alike(c, n), Postured(c)
  PROVE  Postured(n)
<1>1. /\ n.mode = c.mode /\ n.access = c.access /\ n.domain = c.domain /\ n.byHand = c.byHand
      /\ n.password = c.password /\ n.unsafe = c.unsafe
  BY DEF Alike, ConfigFields
<1>2. /\ DOMAIN n.routes = DOMAIN c.routes
      /\ \A i \in DOMAIN c.routes : /\ n.routes[i].bindIp = c.routes[i].bindIp
                                    /\ n.routes[i].alias = c.routes[i].alias
                                    /\ n.routes[i].hostname = c.routes[i].hostname
  BY DEF Alike, RouteFields
<1>3. Len(n.routes) = Len(c.routes) /\ 1 \in DOMAIN c.routes BY <1>2 DEF Typed, IsList
<1>4. BindIps(n) = BindIps(c) /\ BindHost(n) = BindHost(c) BY <1>2, <1>3 DEF BindIps, BindHost
<1>5. NamePosture(n) BY <1>1, <1>2 DEF Postured, NamePosture
<1>6. BindPosture(c) => BindPosture(n) BY <1>1, <1>2, <1>3, <1>4, Zenon DEF BindPosture
<1> QED BY <1>1, <1>5, <1>6 DEF Postured

\* The names of a normal configuration.
IdsOf(c) == [i \in DOMAIN c.routes |-> c.routes[i].id]

LEMMA NormalKeeps ==
  ASSUME NEW c, Typed(c)
  PROVE  /\ Typed(Normal(c)) /\ Alike(c, Normal(c))
         /\ Postured(c) => Postured(Normal(c))
         /\ \A i \in DOMAIN c.routes : Normal(c).routes[i].id = UniqueNames(IdsOf(c))[i]
<1> DEFINE n == Normal(c)
           ids == UniqueNames(IdsOf(c))
           Renamed(i) == [c.routes[i] EXCEPT !.id = ids[i]]
           routes == [i \in DOMAIN c.routes |-> Renamed(i)]
<1>1. n = [c EXCEPT !.routes = routes, !.phase = "unvalidated"] BY DEF Normal, IdsOf
<1>2. /\ DOMAIN c = ConfigFields /\ DOMAIN c.routes = 1..Len(c.routes) /\ Len(c.routes) \in Nat
      /\ \A i \in DOMAIN c.routes : c.routes[i] = [f \in RouteFields |-> c.routes[i][f]]
  BY DEF Typed, IsList
<1> HIDE DEF n, ids
<1>3. \A i \in DOMAIN c.routes : /\ Renamed(i) = [f \in RouteFields |-> Renamed(i)[f]]
                                 /\ Renamed(i).id = ids[i]
                                 /\ \A f \in RouteFields \ {"id"} : Renamed(i)[f] = c.routes[i][f]
  BY <1>2 DEF RouteFields
<1> HIDE DEF Renamed
<1>4. IsList(routes) /\ Len(routes) = Len(c.routes) /\ DOMAIN routes = DOMAIN c.routes
  BY <1>2 DEF IsList
<1>5. \A i \in DOMAIN c.routes : routes[i] = Renamed(i) OBVIOUS
<1> HIDE DEF routes
<1>6. /\ DOMAIN n = ConfigFields /\ n.routes = routes /\ n.phase = "unvalidated"
      /\ \A f \in ConfigFields \ {"routes", "phase"} : n[f] = c[f]
  BY <1>1, <1>2 DEF ConfigFields
<1>7. Alike(c, n) BY <1>3, <1>4, <1>5, <1>6 DEF Alike
<1>8. Typed(n)
  <2>1. /\ n.mode = c.mode /\ n.access = c.access /\ n.unsafe = c.unsafe /\ n.byHand = c.byHand
        /\ n.https = c.https
    BY <1>6 DEF ConfigFields
  <2>2. \A i \in DOMAIN n.routes : n.routes[i] = [f \in RouteFields |-> n.routes[i][f]]
    BY <1>3, <1>4, <1>5, <1>6
  <2> QED BY <1>4, <1>6, <2>1, <2>2 DEF Typed
<1>9. Postured(c) => Postured(n) BY <1>7, <1>8, PostureAlike
<1>10. \A i \in DOMAIN c.routes : n.routes[i].id = ids[i] BY <1>3, <1>5, <1>6
<1> QED BY <1>7, <1>8, <1>9, <1>10 DEF n, ids

\* A route that goes by the name of a relay goes through it, and names differ.
NamesRelays(c) ==
  \A i \in DOMAIN c.routes : \A relays \in Catalogs : \A r \in relays :
    c.routes[i].alias = r.host => c.routes[i].exit = r.host
AliasesDiffer(c) ==
  \A i, j \in DOMAIN c.routes : c.routes[i].alias = c.routes[j].alias => i = j
IdsDiffer(c) == \A i, j \in DOMAIN c.routes : c.routes[i].id = c.routes[j].id => i = j
IdsAreNames(c) == \A i \in DOMAIN c.routes : c.routes[i].id \in Names

Identified(c) == NamesRelays(c) /\ AliasesDiffer(c) /\ IdsDiffer(c) /\ IdsAreNames(c)

Good(c) == Typed(c) /\ Postured(c) /\ (NumeralsDiffer => Identified(c))

\* Ids are made different in their order: those in front that differ already stay.
LEMMA NormalIdentifies ==
  ASSUME NumeralsDiffer, NEW c, Typed(c), NamesRelays(c), AliasesDiffer(c), IdsAreNames(c),
         NEW m \in 0..Len(c.routes),
         \A i, j \in 1..m : c.routes[i].id = c.routes[j].id => i = j
  PROVE  /\ Identified(Normal(c))
         /\ \A i \in 1..m : Normal(c).routes[i] = c.routes[i]
<1> DEFINE n == Normal(c)
           ids == IdsOf(c)
           N == Len(c.routes)
<1>1. /\ N \in Nat /\ DOMAIN c.routes = 1..N
      /\ m \in 0..N
      /\ \A i \in 1..N : c.routes[i] = [f \in RouteFields |-> c.routes[i][f]]
  <2>1. N \in Nat /\ DOMAIN c.routes = 1..N BY DEF Typed, IsList
  <2>2. \A i \in DOMAIN c.routes : c.routes[i] = [f \in RouteFields |-> c.routes[i][f]]
    BY Zenon DEF Typed
  <2> HIDE DEF ids, n
  <2> QED BY <2>1, <2>2
<1>2. /\ Typed(n) /\ Alike(c, n)
      /\ \A i \in DOMAIN c.routes : n.routes[i].id = UniqueNames(ids)[i]
  BY NormalKeeps
<1>3. ids \in [1..N -> Names] /\ \A i, j \in 1..m : ids[i] = ids[j] => i = j
  BY <1>1 DEF IdsOf, IdsAreNames
<1> HIDE DEF n
<1>4. \A i \in 1..N : ids[i] = c.routes[i].id BY <1>1 DEF IdsOf
<1> HIDE DEF ids
<1>5. /\ UniqueNames(ids) \in [1..N -> Names]
      /\ \A i, j \in 1..N : UniqueNames(ids)[i] = UniqueNames(ids)[j] => i = j
      /\ \A i \in 1..m : UniqueNames(ids)[i] = ids[i]
  <2> HIDE DEF N
  <2> QED BY <1>1, <1>3, UniqueNamesKeep, ZenonT(30)
<1>6. DOMAIN n.routes = 1..N BY <1>1, <1>2 DEF Alike
<1>7. \A i \in 1..N : /\ n.routes[i].alias = c.routes[i].alias
                      /\ n.routes[i].exit = c.routes[i].exit
                      /\ n.routes[i].id = UniqueNames(ids)[i]
  BY <1>1, <1>2 DEF Alike, RouteFields
<1>8. Identified(n)
  BY <1>1, <1>5, <1>6, <1>7 DEF Identified, NamesRelays, AliasesDiffer, IdsDiffer, IdsAreNames
<1>9. ASSUME NEW i \in 1..m PROVE n.routes[i] = c.routes[i]
  <2>1. i \in 1..N BY <1>1
  <2>2. n.routes[i].id = c.routes[i].id BY <1>4, <1>5, <1>7, <2>1
  <2>3. \A f \in RouteFields \ {"id"} : n.routes[i][f] = c.routes[i][f]
    BY <1>1, <1>2, <2>1 DEF Alike
  <2>4. \A f \in RouteFields : n.routes[i][f] = c.routes[i][f] BY <2>2, <2>3
  <2>5. n.routes[i] = [f \in RouteFields |-> n.routes[i][f]] BY <1>2, <1>6, <2>1 DEF Typed
  <2>6. c.routes[i] = [f \in RouteFields |-> c.routes[i][f]] BY <1>1, <2>1
  <2>7. [f \in RouteFields |-> n.routes[i][f]] = [f \in RouteFields |-> c.routes[i][f]]
    BY <2>4
  <2> QED BY <2>5, <2>6, <2>7
<1> QED BY <1>8, <1>9 DEF n

LEMMA NormalGood ==
  ASSUME NEW c, Good(c)
  PROVE  Good(Normal(c))
<1>1. Typed(Normal(c)) /\ Postured(Normal(c)) BY NormalKeeps DEF Good
<1>2. ASSUME NumeralsDiffer PROVE Identified(Normal(c))
  <2>1. Len(c.routes) \in 0..Len(c.routes) /\ DOMAIN c.routes = 1..Len(c.routes)
    BY DEF Good, Typed, IsList
  <2>2. \A i, j \in 1..Len(c.routes) : c.routes[i].id = c.routes[j].id => i = j
    BY <1>2, <2>1 DEF Good, Identified, IdsDiffer
  <2> QED BY <1>2, <2>1, <2>2, NormalIdentifies DEF Good, Identified
<1> QED BY <1>1, <1>2 DEF Good

LEMMA StatusGood ==
  ASSUME NEW c, Good(c), NEW phase \in {"unvalidated", "validated", "error"}
  PROVE  Good(WithStatus(c, phase)) /\ WithStatus(c, phase).routes = c.routes
<1> DEFINE n == WithStatus(c, phase)
<1>1. /\ DOMAIN n = ConfigFields /\ n.phase = phase
      /\ \A f \in ConfigFields \ {"phase"} : n[f] = c[f]
  BY DEF WithStatus, Good, Typed, ConfigFields
<1> HIDE DEF n
<1>2. /\ n.mode = c.mode /\ n.access = c.access /\ n.unsafe = c.unsafe /\ n.byHand = c.byHand
      /\ n.https = c.https /\ n.routes = c.routes
  BY <1>1 DEF ConfigFields
<1>3. Typed(n) BY <1>1, <1>2 DEF Good, Typed
<1>4. Alike(c, n) BY <1>1, <1>2 DEF Alike
<1>5. Postured(n) BY <1>3, <1>4, PostureAlike DEF Good
<1>6. Identified(c) => Identified(n)
  BY <1>2 DEF Identified, NamesRelays, AliasesDiffer, IdsDiffer, IdsAreNames
<1> QED BY <1>2, <1>3, <1>5, <1>6 DEF Good, n

\* What a field may change: the routes stay, and so do mode and domain.
LEMMA ChangedGood ==
  ASSUME NEW c, Good(c), NEW n, Typed(n), n.routes = c.routes, n.mode = c.mode, n.domain = c.domain,
         ~n.byHand => /\ ~c.byHand /\ n.access = c.access
                      /\ n.password = c.password /\ n.unsafe = c.unsafe
  PROVE  Good(n)
<1>1. NamePosture(n) BY DEF Good, Postured, NamePosture
<1>2. ~n.byHand => BindPosture(n) /\ AccessAllowed(n.mode, n.access, n.password, n.unsafe)
  <2> SUFFICES ASSUME ~n.byHand
               PROVE  BindPosture(n) /\ AccessAllowed(n.mode, n.access, n.password, n.unsafe)
    OBVIOUS
  <2>1. BindPosture(c) /\ AccessAllowed(c.mode, c.access, c.password, c.unsafe)
    BY DEF Good, Postured
  <2>2. BindHost(n) = BindHost(c) /\ BindIps(n) = BindIps(c) BY DEF BindHost, BindIps
  <2>3. BindPosture(n) BY <2>1, <2>2, Zenon DEF BindPosture
  <2> QED BY <2>1, <2>3
<1>3. Identified(c) => Identified(n)
  BY DEF Identified, NamesRelays, AliasesDiffer, IdsDiffer, IdsAreNames
<1> QED BY <1>1, <1>2, <1>3 DEF Good, Postured

Https == [port : BOOLEAN, enabled : BOOLEAN, cert : BOOLEAN, key : BOOLEAN]

LEMMA HttpsKept ==
  ASSUME NEW https \in Https, NEW ask
  PROVE  /\ WithHttps(https, ask) \in Https
         /\ Startable(https) => Startable(WithHttps(https, ask))
<1>1. /\ NoHttps \in Https /\ Enabled(https) \in Https
      /\ [Enabled(https) EXCEPT !.cert = TRUE] \in Https
      /\ [Enabled(https) EXCEPT !.key = TRUE] \in Https
  BY DEF Https, NoHttps, Enabled
<1>2. Startable(NoHttps) BY DEF NoHttps, Startable, AssetsPass, BundleRenders
<1>3. \A h \in Https : h.port /\ h.enabled => Startable(h)
  BY DEF Https, Startable, AssetsPass, BundleRenders
<1>4. /\ Startable(Enabled(https)) /\ Startable([Enabled(https) EXCEPT !.cert = TRUE])
      /\ Startable([Enabled(https) EXCEPT !.key = TRUE])
  <2>1. Enabled(https).port /\ Enabled(https).enabled BY DEF Https, Enabled
  <2>2. /\ [Enabled(https) EXCEPT !.cert = TRUE].port /\ [Enabled(https) EXCEPT !.cert = TRUE].enabled
        /\ [Enabled(https) EXCEPT !.key = TRUE].port /\ [Enabled(https) EXCEPT !.key = TRUE].enabled
    BY DEF Https, Enabled
  <2> QED BY <1>1, <1>3, <2>1, <2>2
<1> HIDE DEF Https
<1>5. \/ WithHttps(https, ask) = NoHttps \/ WithHttps(https, ask) = Enabled(https)
      \/ WithHttps(https, ask) = [Enabled(https) EXCEPT !.cert = TRUE]
      \/ WithHttps(https, ask) = [Enabled(https) EXCEPT !.key = TRUE]
  BY DEF WithHttps
<1> QED BY <1>1, <1>2, <1>4, <1>5

LEMMA FieldGood ==
  ASSUME NEW c, Good(c), NEW ask, FieldVerdict(ask) = "ok",
         ask.key = "setup.access.mode" => ask.value \in Accesses \cup {"malformed"}
  PROVE  /\ Good(WithField(c, ask))
         /\ Startable(c.https) => Startable(WithField(c, ask).https)
<1>1. /\ ask.key \in EditableFields /\ ask.value # "malformed"
  BY DEF FieldVerdict
<1>2. DOMAIN c = ConfigFields /\ c.https \in Https BY DEF Good, Typed, Https
<1>3. ASSUME NEW n, Good(n), WithField(c, ask) = Normal(n),
             n.https = c.https \/ n.https = WithHttps(c.https, ask)
      PROVE  /\ Good(WithField(c, ask))
             /\ Startable(c.https) => Startable(WithField(c, ask).https)
  <2>1. Good(Normal(n)) /\ Alike(n, Normal(n)) BY <1>3, NormalGood, NormalKeeps DEF Good
  <2>2. Normal(n).https = n.https BY <2>1 DEF Alike, ConfigFields
  <2> QED BY <1>2, <1>3, <2>1, <2>2, HttpsKept
<1>4. CASE ask.key = "setup.access.mode"
  <2> DEFINE n == [c EXCEPT !.access = ask.value, !.byHand = TRUE]
  <2>1. WithField(c, ask) = Normal(n) BY <1>4 DEF WithField
  <2>2. /\ DOMAIN n = ConfigFields /\ n.access = ask.value /\ n.byHand /\ n.byHand \in BOOLEAN
        /\ \A f \in ConfigFields \ {"access", "byHand"} : n[f] = c[f]
    BY <1>2 DEF ConfigFields
  <2> HIDE DEF n
  <2>3. /\ n.mode = c.mode /\ n.domain = c.domain /\ n.unsafe = c.unsafe /\ n.https = c.https
        /\ n.phase = c.phase /\ n.routes = c.routes
    BY <2>2 DEF ConfigFields
  <2>4. n.access \in Accesses BY <1>1, <1>4, <2>2
  <2>5. Typed(n) BY <2>2, <2>3, <2>4 DEF Good, Typed
  <2>6. Good(n) BY <2>2, <2>3, <2>5, ChangedGood
  <2> QED BY <1>3, <2>1, <2>3, <2>6
<1>5. CASE ask.key = "setup.auth.password"
  <2> DEFINE n == [c EXCEPT !.password = ask.value, !.byHand = TRUE]
  <2>1. WithField(c, ask) = Normal(n) BY <1>5 DEF WithField
  <2>2. /\ DOMAIN n = ConfigFields /\ n.byHand /\ n.byHand \in BOOLEAN
        /\ \A f \in ConfigFields \ {"password", "byHand"} : n[f] = c[f]
    BY <1>2 DEF ConfigFields
  <2> HIDE DEF n
  <2>3. /\ n.mode = c.mode /\ n.domain = c.domain /\ n.unsafe = c.unsafe /\ n.https = c.https
        /\ n.phase = c.phase /\ n.routes = c.routes /\ n.access = c.access
    BY <2>2 DEF ConfigFields
  <2>5. Typed(n) BY <2>2, <2>3 DEF Good, Typed
  <2>6. Good(n) BY <2>2, <2>3, <2>5, ChangedGood
  <2> QED BY <1>3, <2>1, <2>3, <2>6
<1>6. CASE ask.key = "setup.access.allowUnsafePublicEmptyPassword"
  <2> DEFINE n == [c EXCEPT !.unsafe = (ask.value = "true"), !.byHand = TRUE]
  <2>1. WithField(c, ask) = Normal(n) BY <1>6 DEF WithField
  <2>2. /\ DOMAIN n = ConfigFields /\ n.byHand /\ n.byHand \in BOOLEAN /\ n.unsafe \in BOOLEAN
        /\ \A f \in ConfigFields \ {"unsafe", "byHand"} : n[f] = c[f]
    BY <1>2 DEF ConfigFields
  <2> HIDE DEF n
  <2>3. /\ n.mode = c.mode /\ n.domain = c.domain /\ n.https = c.https
        /\ n.phase = c.phase /\ n.routes = c.routes /\ n.access = c.access
    BY <2>2 DEF ConfigFields
  <2>4. Typed(c) BY DEF Good
  <2>5. Typed(n)
    <3>1. DOMAIN n = ConfigFields /\ n.unsafe \in BOOLEAN /\ n.byHand \in BOOLEAN BY <2>2, Zenon
    <3>2. /\ n.mode \in Modes /\ n.access \in Accesses /\ n.https \in Https
          /\ n.phase \in {"unvalidated", "validated", "error"}
      BY <2>3, <2>4 DEF Typed, Https
    <3>3. /\ IsList(n.routes) /\ Len(n.routes) > 0
          /\ \A i \in DOMAIN n.routes : n.routes[i] = [f \in RouteFields |-> n.routes[i][f]]
      BY <2>3, <2>4 DEF Typed
    <3> QED BY <3>1, <3>2, <3>3 DEF Typed, Https
  <2>6. Good(n) BY <2>2, <2>3, <2>5, ChangedGood
  <2> QED BY <1>3, <2>1, <2>3, <2>6
<1>7. CASE ask.key \in {"setup.bind.httpsPort", "setup.https.enabled",
                        "setup.https.certPath", "setup.https.keyPath"}
  <2> DEFINE n == [c EXCEPT !.https = WithHttps(c.https, ask)]
  <2>1. WithField(c, ask) = Normal(n) BY <1>7 DEF WithField
  <2>2. /\ DOMAIN n = ConfigFields /\ n.https = WithHttps(c.https, ask)
        /\ \A f \in ConfigFields \ {"https"} : n[f] = c[f]
    BY <1>2 DEF ConfigFields
  <2> HIDE DEF n
  <2>3. /\ n.mode = c.mode /\ n.domain = c.domain /\ n.unsafe = c.unsafe
        /\ n.byHand = c.byHand /\ n.password = c.password
        /\ n.phase = c.phase /\ n.routes = c.routes /\ n.access = c.access
    BY <2>2 DEF ConfigFields
  <2>4. n.https \in Https BY <1>2, <2>2, HttpsKept
  <2>5. Typed(n) BY <2>2, <2>3, <2>4 DEF Good, Typed, Https
  <2>6. Good(n) BY <2>3, <2>5, ChangedGood
  <2> QED BY <1>3, <2>1, <2>2, <2>6
<1>8. CASE ask.key \in {"setup.bind.host", "mullvad.deviceName"}
  <2>1. WithField(c, ask) = Normal(c) BY <1>8 DEF WithField
  <2> QED BY <1>3, <2>1
<1> QED BY <1>1, <1>4, <1>5, <1>6, <1>7, <1>8 DEF EditableFields

\* Addresses that are accepted are still accepted once routes have them.
LEMMA AddressesAccepted ==
  ASSUME NEW c, Typed(c), NEW requested,
         ExposureVerdict(Len(c.routes), c.mode, c.access, c.domain, requested) = "ok",
         \A i \in DOMAIN c.routes :
           c.routes[i].bindIp = RouteBindIps(Len(c.routes), c.mode, c.access, requested)[i]
  PROVE  BindPosture(c)
<1> DEFINE n == Len(c.routes)
           verdict == ExposureVerdict(n, c.mode, c.access, c.domain,
                        IF SharedHost(c.mode, c.access) THEN <<BindHost(c)>> ELSE BindIps(c))
<1>1. n \in Nat \ {0} /\ DOMAIN c.routes = 1..n BY DEF Typed, IsList
<1> HIDE DEF n
<1>2. CASE c.mode = "loopback" /\ c.access = "published-routes"
  <2>1. ~SharedHost(c.mode, c.access) BY <1>2 DEF SharedHost
  <2>2. \A i \in DOMAIN c.routes : c.routes[i].bindIp = DeriveLoopbackBindIp(i - 1)
    BY <1>1, <1>2 DEF RouteBindIps, n
  <2> QED BY <1>2, <2>1, <2>2 DEF BindPosture
<1>3. CASE SharedHost(c.mode, c.access) /\ ~(c.mode = "loopback" /\ c.access = "published-routes")
  <2>1. \A i \in 1..n : c.routes[i].bindIp = requested[1] BY <1>1, <1>3 DEF RouteBindIps, n
  <2>2. BindHost(c) = requested[1] BY <1>1, <2>1 DEF BindHost
  <2>3. /\ c.domain # <<"not a domain">> /\ SharedHostVerdict(c.mode, requested) = "ok"
    BY <1>3 DEF ExposureVerdict
  <2>4. AddressVerdict(c.mode, requested[1]) = "ok" BY <2>3 DEF SharedHostVerdict
  <2>5. SharedHostVerdict(c.mode, <<BindHost(c)>>) = "ok" BY <2>2, <2>4 DEF SharedHostVerdict
  <2>6. verdict = "ok" BY <1>3, <2>3, <2>5 DEF ExposureVerdict
  <2> QED BY <1>1, <1>3, <2>1, <2>2, <2>6 DEF BindPosture, n
<1>4. CASE ~SharedHost(c.mode, c.access) /\ ~(c.mode = "loopback" /\ c.access = "published-routes")
  <2>1. \A i \in 1..n : c.routes[i].bindIp = requested[i] BY <1>1, <1>4 DEF RouteBindIps, n
  <2>2. c.domain # <<"not a domain">> /\ PublicVerdict(n, requested) = "ok"
    BY <1>4 DEF ExposureVerdict, n
  <2> DEFINE ips == BindIps(c)
  <2>3. Len(ips) = n /\ \A i \in 1..n : ips[i] = requested[i] BY <1>1, <2>1 DEF BindIps
  <2> HIDE DEF ips
  <2>4. /\ ~\E i, j \in 1..n : i # j /\ requested[i] = requested[j]
        /\ \A i \in 1..n : AddressVerdict("public", requested[i]) = "ok"
    <3> DEFINE bad == {i \in 1..n : AddressVerdict("public", requested[i]) # "ok"}
    <3>1. ~\E i, j \in 1..n : i # j /\ requested[i] = requested[j] BY <2>2 DEF PublicVerdict
    <3>2. SUFFICES ASSUME bad # {} PROVE FALSE BY <3>1
    <3> DEFINE first == CHOOSE i \in bad : \A j \in bad : i <= j
    <3>3. PICK i \in bad : \A j \in bad : i <= j
      <4>1. bad \in SUBSET Nat BY <1>1
      <4> HIDE DEF bad
      <4> QED BY <3>2, <4>1, Least
    <3>4. first \in bad BY <3>3
    <3>5. PublicVerdict(n, requested) = AddressVerdict("public", requested[first])
          \/ PublicVerdict(n, requested) \in {"BIND_IP_COUNT_MISMATCH", "AMBIGUOUS_SHARED_BIND_IP"}
      BY <3>2 DEF PublicVerdict
    <3>6. AddressVerdict("public", requested[first]) # "ok" BY <3>4
    <3> HIDE DEF first, bad
    <3> QED BY <2>2, <3>5, <3>6
  <2>5. PublicVerdict(n, ips) = "ok"
    <3>1. {i \in 1..n : AddressVerdict("public", ips[i]) # "ok"} = {} BY <2>3, <2>4
    <3>2. ~\E i, j \in 1..n : i # j /\ ips[i] = ips[j] BY <2>3, <2>4
    <3> QED BY <2>3, <3>1, <3>2 DEF PublicVerdict
  <2>6. verdict = "ok" BY <1>4, <2>2, <2>5 DEF ExposureVerdict, ips
  <2> QED BY <1>4, <2>6 DEF BindPosture, n
<1> QED BY <1>2, <1>3, <1>4

LEMMA ListDomain ==
  ASSUME NEW s, IsList(s)
  PROVE  DOMAIN s = 1..Len(s) /\ Len(s) \in Nat
BY DEF IsList

LEMMA FunctionIsList ==
  ASSUME NEW n \in Nat, NEW f, f = [i \in 1..n |-> f[i]]
  PROVE  IsList(f) /\ Len(f) = n /\ DOMAIN f = 1..n
<1>1. DOMAIN f = 1..n OBVIOUS
<1>2. f \in [1..n -> {f[i] : i \in DOMAIN f}] BY <1>1
<1>3. f \in Seq({f[i] : i \in DOMAIN f}) /\ Len(f) = n BY <1>2
<1> QED BY <1>1, <1>3 DEF IsList

LEMMA AccessGood ==
  ASSUME NEW c, Good(c), NEW ask, AccessVerdict(c, ask) = "ok",
         ask.mode \in Modes \cup {""}, ask.access \in Accesses \cup {""}, ask.unsafe \in BOOLEAN
  PROVE  Good(WithExposure(c, ask)) /\ WithExposure(c, ask).https = c.https
<1> DEFINE mode == NextMode(c, ask)
           access == NextAccess(c, ask)
           domain == NextDomain(c, ask)
           requested == RequestedBindIps(c, ask)
           ips == RouteBindIps(Len(c.routes), mode, access, requested)
           Moved(i) == [c.routes[i] EXCEPT !.bindIp = ips[i],
                          !.hostname = DeriveHostname(c.routes[i].alias, ips[i], domain, mode)]
           routes == [i \in DOMAIN c.routes |-> Moved(i)]
           n == [c EXCEPT !.mode = mode, !.access = access, !.domain = domain,
                   !.unsafe = c.unsafe \/ ask.unsafe, !.byHand = FALSE, !.routes = routes]
<1>1. WithExposure(c, ask) = Normal(n) BY Zenon DEF WithExposure
<1>2. /\ Typed(c) /\ DOMAIN c = ConfigFields
      /\ DOMAIN c.routes = 1..Len(c.routes) /\ Len(c.routes) \in Nat
      /\ \A i \in DOMAIN c.routes : c.routes[i] = [f \in RouteFields |-> c.routes[i][f]]
  <2>1. Typed(c) BY DEF Good
  <2> HIDE DEF n, routes, Moved, ips, mode, access, domain, requested
  <2>4. DOMAIN c = ConfigFields /\ IsList(c.routes) BY <2>1, Zenon DEF Typed
  <2>2. DOMAIN c.routes = 1..Len(c.routes) /\ Len(c.routes) \in Nat
    BY <2>4, ListDomain
  <2>3. \A i \in DOMAIN c.routes : c.routes[i] = [f \in RouteFields |-> c.routes[i][f]]
    BY <2>1, Zenon DEF Typed
  <2> QED BY <2>1, <2>2, <2>3, <2>4
<1>3. mode \in Modes /\ access \in Accesses BY <1>2 DEF NextMode, NextAccess, Typed
<1>4. /\ ExposureVerdict(Len(c.routes), mode, access, domain, requested) = "ok"
      /\ AccessAllowed(mode, access, c.password, ask.unsafe \/ c.unsafe)
  BY DEF AccessVerdict
<1> HIDE DEF mode, access, domain, requested, ips
<1>5. \A i \in DOMAIN c.routes :
        /\ Moved(i) = [f \in RouteFields |-> Moved(i)[f]]
        /\ Moved(i).bindIp = ips[i]
        /\ Moved(i).hostname = DeriveHostname(c.routes[i].alias, ips[i], domain, mode)
        /\ Moved(i).alias = c.routes[i].alias /\ Moved(i).exit = c.routes[i].exit
        /\ Moved(i).id = c.routes[i].id
  BY <1>2, ZenonT(30) DEF RouteFields
<1> HIDE DEF Moved
<1>6. IsList(routes) /\ Len(routes) = Len(c.routes) /\ DOMAIN routes = DOMAIN c.routes
  <2> HIDE DEF n
  <2>1. routes = [i \in 1..Len(c.routes) |-> routes[i]] BY <1>2
  <2> HIDE DEF routes
  <2> QED BY <1>2, <2>1, FunctionIsList
<1>7. \A i \in DOMAIN c.routes : routes[i] = Moved(i) OBVIOUS
<1> HIDE DEF routes
<1>8. /\ DOMAIN n = ConfigFields /\ n.routes = routes /\ n.mode = mode /\ n.access = access
      /\ n.domain = domain /\ ~n.byHand /\ n.byHand \in BOOLEAN
      /\ n.unsafe = (c.unsafe \/ ask.unsafe) /\ n.unsafe \in BOOLEAN
      /\ \A f \in ConfigFields \ {"mode", "access", "domain", "unsafe", "byHand", "routes"} :
           n[f] = c[f]
  BY <1>2 DEF ConfigFields
<1> HIDE DEF n
<1>9. n.password = c.password /\ n.https = c.https /\ n.phase = c.phase
  BY <1>8 DEF ConfigFields
<1>11. n.routes = routes /\ n.mode = mode /\ n.access = access /\ n.domain = domain
  BY <1>8, Zenon
<1>19. DOMAIN n.routes = DOMAIN c.routes /\ \A i \in DOMAIN c.routes : n.routes[i] = Moved(i)
  BY <1>6, <1>7, <1>11
<1>21. \A i \in DOMAIN c.routes : n.routes[i] = [f \in RouteFields |-> n.routes[i][f]]
  BY <1>5, <1>19
<1>20. \A i \in DOMAIN c.routes :
         /\ n.routes[i].bindIp = ips[i]
         /\ n.routes[i].hostname = DeriveHostname(c.routes[i].alias, ips[i], domain, mode)
         /\ n.routes[i].alias = c.routes[i].alias /\ n.routes[i].exit = c.routes[i].exit
         /\ n.routes[i].id = c.routes[i].id
  BY <1>5, <1>19
<1>10. Typed(n)
  <2>1. DOMAIN n = ConfigFields /\ n.unsafe \in BOOLEAN /\ n.byHand \in BOOLEAN BY <1>8, Zenon
  <2>2. /\ n.mode \in Modes /\ n.access \in Accesses /\ n.https \in Https
        /\ n.phase \in {"unvalidated", "validated", "error"}
    <3>1. n.mode = mode /\ n.access = access BY <1>8, Zenon
    <3> QED BY <1>2, <1>3, <1>9, <3>1 DEF Typed, Https
  <2>3. /\ IsList(n.routes) /\ Len(n.routes) > 0
        /\ \A i \in DOMAIN n.routes : n.routes[i] = [f \in RouteFields |-> n.routes[i][f]]
    <3>1. IsList(n.routes) /\ Len(n.routes) > 0 BY <1>2, <1>6, <1>11 DEF Typed
    <3> QED BY <1>19, <1>21, <3>1
  <2> QED BY <2>1, <2>2, <2>3 DEF Typed, Https
<1>12. NamePosture(n) BY <1>11, <1>19, <1>20 DEF NamePosture
<1>13. BindPosture(n)
  <2>1. \A i \in DOMAIN n.routes :
          n.routes[i].bindIp = RouteBindIps(Len(n.routes), n.mode, n.access, requested)[i]
    BY <1>6, <1>11, <1>19, <1>20 DEF ips
  <2>2. ExposureVerdict(Len(n.routes), n.mode, n.access, n.domain, requested) = "ok"
    BY <1>4, <1>6, <1>11
  <2> QED BY <1>10, <2>1, <2>2, AddressesAccepted
<1>14. AccessAllowed(n.mode, n.access, n.password, n.unsafe)
  <2>1. n.unsafe = (c.unsafe \/ ask.unsafe) BY <1>8, Zenon
  <2> QED BY <1>4, <1>9, <1>11, <2>1 DEF AccessAllowed
<1>15. Identified(c) => Identified(n)
  <2>1. \A i \in DOMAIN c.routes : /\ n.routes[i].alias = c.routes[i].alias
                                   /\ n.routes[i].exit = c.routes[i].exit
                                   /\ n.routes[i].id = c.routes[i].id
    BY <1>20
  <2>2. NamesRelays(c) => NamesRelays(n) BY <1>19, <2>1 DEF NamesRelays
  <2>3. AliasesDiffer(c) => AliasesDiffer(n) BY <1>19, <2>1 DEF AliasesDiffer
  <2>4. IdsDiffer(c) => IdsDiffer(n) BY <1>19, <2>1 DEF IdsDiffer
  <2>5. IdsAreNames(c) => IdsAreNames(n) BY <1>19, <2>1 DEF IdsAreNames
  <2> QED BY <2>2, <2>3, <2>4, <2>5 DEF Identified
<1>16. Good(n) BY <1>10, <1>12, <1>13, <1>14, <1>15 DEF Good, Postured
<1>17. Alike(n, Normal(n)) BY <1>10, NormalKeeps
<1>18. Normal(n).https = n.https BY <1>17 DEF Alike, ConfigFields
<1> QED BY <1>1, <1>9, <1>16, <1>18, NormalGood DEF n, routes, Moved, ips, mode, access, domain,
  requested

\* One list after another, whatever they are lists of.
LEMMA JoinedLists ==
  ASSUME NEW s, IsList(s), NEW t, IsList(t)
  PROVE  /\ IsList(s \o t) /\ Len(s \o t) = Len(s) + Len(t)
         /\ Len(s) \in Nat /\ Len(t) \in Nat
         /\ \A n \in 1..Len(s) : n \in 1..Len(s \o t) /\ (s \o t)[n] = s[n]
         /\ \A k \in 1..Len(t) :
              Len(s) + k \in 1..Len(s \o t) /\ (s \o t)[Len(s) + k] = t[k]
         /\ \A n \in 1..Len(s \o t) :
              n \in 1..Len(s) \/ \E k \in 1..Len(t) : n = Len(s) + k
<1> DEFINE Ss == {s[i] : i \in DOMAIN s}
           Tt == {t[i] : i \in DOMAIN t}
           S == Ss \cup Tt
           st == s \o t
<1>1. s \in Seq(Ss) /\ t \in Seq(Tt) BY DEF IsList
<1> HIDE DEF Ss, Tt
<1>2. s \in Seq(S) /\ t \in Seq(S) BY <1>1
<1> HIDE DEF S
<1>3. st \in Seq(S) BY <1>2
<1> HIDE DEF st
<1>4. st = [i \in 1..Len(st) |-> st[i]] /\ Len(st) \in Nat BY <1>3
<1>5. IsList(st) BY <1>4, FunctionIsList
<1> QED BY <1>2, <1>5, Joined DEF st

\* What is behind, by the name of the whole.
LEMMA JoinedBehind ==
  ASSUME NEW s, IsList(s), NEW t, IsList(t), NEW st, st = s \o t, NEW k \in 1..Len(t)
  PROVE  Len(s) + k \in 1..Len(st) /\ st[Len(s) + k] = t[k]
BY JoinedLists

\* New addresses are made and checked for the routes that get them.
LEMMA AddedIpsAreList ==
  ASSUME NEW c, NEW count \in Nat
  PROVE  LET ips == AddedIps(c, count) IN ips = [n \in 1..count |-> ips[n]]
<1>1. \A ip : NextIps(ip, count) = [n \in 1..count |-> NextIps(ip, count)[n]] BY DEF NextIps
<1> QED BY <1>1, Zenon DEF AddedIps

LEMMA AddedPosture ==
  ASSUME NEW c, Typed(c), BindPosture(c), NEW count \in Nat, AddedIpsVerdict(c, count) = "ok",
         NEW m, Typed(m), m.mode = c.mode, m.access = c.access, m.domain = c.domain,
         Len(m.routes) = Len(c.routes) + count,
         \A i \in 1..Len(c.routes) : m.routes[i].bindIp = c.routes[i].bindIp,
         \A k \in 1..count : m.routes[Len(c.routes) + k].bindIp = AddedIps(c, count)[k]
  PROVE  BindPosture(m)
<1> DEFINE N == Len(c.routes)
           ips == AddedIps(c, count)
<1>1. /\ IsList(c.routes) /\ IsList(m.routes) /\ N > 0 BY Zenon DEF Typed
<1>2. /\ DOMAIN c.routes = 1..N /\ N \in Nat /\ DOMAIN m.routes = 1..(N + count)
  BY <1>1, ListDomain
<1> HIDE DEF N
<1>3. \A i \in DOMAIN m.routes : i \in 1..N \/ \E k \in 1..count : i = N + k
  <2> SUFFICES ASSUME NEW i \in 1..(N + count), i \notin 1..N PROVE \E k \in 1..count : i = N + k
    BY <1>2
  <2>1. i - N \in 1..count /\ i = N + (i - N) BY <1>2
  <2> QED BY <2>1
<1>4. /\ \A i \in 1..N : m.routes[i].bindIp = c.routes[i].bindIp
      /\ \A k \in 1..count : m.routes[N + k].bindIp = ips[k]
  BY DEF N
<1>5. CASE c.mode = "loopback" /\ c.access = "published-routes"
  <2>1. ~SharedHost(c.mode, c.access) BY <1>5 DEF SharedHost
  <2>2. \A k \in 1..count : ips[k] = DeriveLoopbackBindIp(N + k - 1)
    BY <1>5, <2>1 DEF AddedIps, N
  <2>3. \A i \in 1..N : c.routes[i].bindIp = DeriveLoopbackBindIp(i - 1)
    BY <1>2, <1>5 DEF BindPosture
  <2>4. \A i \in DOMAIN m.routes : m.routes[i].bindIp = DeriveLoopbackBindIp(i - 1)
    <3> SUFFICES ASSUME NEW i \in DOMAIN m.routes
                 PROVE  m.routes[i].bindIp = DeriveLoopbackBindIp(i - 1)
      OBVIOUS
    <3>1. CASE i \in 1..N BY <1>4, <2>3, <3>1
    <3>2. ASSUME NEW k \in 1..count, i = N + k
          PROVE  m.routes[i].bindIp = DeriveLoopbackBindIp(i - 1)
      <4>1. i - 1 = N + k - 1 BY <1>2, <3>2
      <4>2. m.routes[N + k].bindIp = DeriveLoopbackBindIp(N + k - 1) BY <1>4, <2>2
      <4> QED BY <3>2, <4>1, <4>2, Zenon
    <3> QED BY <1>3, <3>1, <3>2
  <2> QED BY <1>5, <2>1, <2>4 DEF BindPosture
<1>6. CASE SharedHost(c.mode, c.access) /\ ~(c.mode = "loopback" /\ c.access = "published-routes")
  <2>1. \A k \in 1..count : ips[k] = BindHost(c) BY <1>6 DEF AddedIps
  <2>2. \A i \in 1..N : c.routes[i].bindIp = BindHost(c) BY <1>2, <1>6 DEF BindPosture
  <2>3. \A i \in DOMAIN m.routes : m.routes[i].bindIp = BindHost(c) BY <1>3, <1>4, <2>1, <2>2, ZenonT(30)
  <2>4. BindHost(m) = BindHost(c) BY <1>1, <1>2, <2>3 DEF BindHost
  <2>5. ExposureVerdict(N, c.mode, c.access, c.domain, <<BindHost(c)>>) = "ok"
    BY <1>6 DEF BindPosture, N
  <2>6. c.domain # <<"not a domain">> /\ SharedHostVerdict(c.mode, <<BindHost(c)>>) = "ok"
    BY <1>6, <2>5 DEF ExposureVerdict
  <2>7. ExposureVerdict(Len(m.routes), m.mode, m.access, m.domain, <<BindHost(m)>>) = "ok"
    BY <1>6, <2>4, <2>6 DEF ExposureVerdict
  <2> QED BY <1>6, <2>3, <2>4, <2>7 DEF BindPosture
<1>7. CASE ~SharedHost(c.mode, c.access) /\ ~(c.mode = "loopback" /\ c.access = "published-routes")
  <2> DEFINE old == BindIps(c)
  <2>1. ExposureVerdict(N + count, c.mode, c.access, c.domain, old \o ips) = "ok"
    BY <1>7 DEF AddedIpsVerdict, N
  <2>2. old = [i \in 1..N |-> c.routes[i].bindIp] BY <1>2 DEF BindIps
  <2>3. ips = [n \in 1..count |-> ips[n]] BY AddedIpsAreList
  <2> HIDE DEF old, ips
  <2>4. old = [i \in 1..N |-> old[i]] /\ \A i \in 1..N : old[i] = c.routes[i].bindIp BY <2>2
  <2>5. IsList(old) /\ Len(old) = N BY <1>2, <2>4, FunctionIsList
  <2>6. IsList(ips) /\ Len(ips) = count BY <2>3, FunctionIsList
  <2>7. /\ \A i \in 1..N : (old \o ips)[i] = old[i]
        /\ \A k \in 1..count : (old \o ips)[N + k] = ips[k]
    <3>1. IsList(old) /\ IsList(ips) BY <2>5, <2>6
    <3>2. \A i \in 1..Len(old) : i \in 1..Len(old \o ips) /\ (old \o ips)[i] = old[i]
      BY <3>1, JoinedLists
    <3>3. \A k \in 1..Len(ips) : /\ Len(old) + k \in 1..Len(old \o ips)
                                  /\ (old \o ips)[Len(old) + k] = ips[k]
      BY <3>1, JoinedLists
    <3>4. Len(old) = N /\ Len(ips) = count BY <2>5, <2>6
    <3> QED BY <3>2, <3>3, <3>4
  <2> DEFINE both == old \o ips
  <2> HIDE DEF both
  <2>12. /\ \A i \in 1..N : both[i] = old[i]
         /\ \A k \in 1..count : both[N + k] = ips[k]
    BY <2>7 DEF both
  <2>8. \A i \in 1..(N + count) : m.routes[i].bindIp = both[i]
    <3> SUFFICES ASSUME NEW i \in 1..(N + count) PROVE m.routes[i].bindIp = both[i] OBVIOUS
    <3>1. CASE i \in 1..N BY <1>4, <2>4, <2>12, <3>1
    <3>2. ASSUME NEW k \in 1..count, i = N + k PROVE m.routes[i].bindIp = both[i]
      <4>1. m.routes[N + k].bindIp = ips[k] /\ both[N + k] = ips[k] BY <1>4, <2>12
      <4> QED BY <3>2, <4>1
    <3> QED BY <1>2, <1>3, <3>1, <3>2
  <2>9. \A i \in DOMAIN m.routes :
          m.routes[i].bindIp = RouteBindIps(Len(m.routes), m.mode, m.access, both)[i]
    BY <1>2, <1>7, <2>8 DEF RouteBindIps, N
  <2>10. ExposureVerdict(Len(m.routes), m.mode, m.access, m.domain, both) = "ok"
    BY <2>1 DEF N, both
  <2> QED BY <2>9, <2>10, AddressesAccepted
<1> QED BY <1>5, <1>6, <1>7

-----------------------------------------------------------------------------
(* Routes added for the targets of a plan.                                    *)

LEMMA TargetsFacts ==
  ASSUME NEW relays \in Catalogs, NEW routes, NEW selectors, NEW targets,
         SoundTargets(targets, routes, relays, selectors)
  PROVE  /\ Len(targets) \in Nat /\ DOMAIN targets = 1..Len(targets)
         /\ \A k \in 1..Len(targets) : /\ targets[k].relay \in relays
                                       /\ targets[k].relay.host \in Seq(STRING)
                                       /\ targets[k].relay.host \notin ExitsOf(routes)
         /\ \A j, k \in 1..Len(targets) : targets[j].relay.host = targets[k].relay.host => j = k
<1>1. PICK plan : SoundPlan(plan, routes, relays, selectors) /\ plan.targets = targets
  BY DEF SoundTargets
<1> DEFINE T == [relay : relays, selector : {selectors[i] : i \in DOMAIN selectors}]
<1>2. targets \in Seq(T) BY <1>1 DEF SoundPlan
<1>3. \A t \in T : t.relay \in relays OBVIOUS
<1>4. \A r \in relays : r.host \in Seq(STRING) BY CatalogsAssumption
<1> HIDE DEF T
<1>5. Len(targets) \in Nat /\ DOMAIN targets = 1..Len(targets) BY <1>2
<1>6. \A k \in 1..Len(targets) : targets[k] \in T BY <1>2
<1> QED BY <1>1, <1>3, <1>4, <1>5, <1>6 DEF SoundPlan

LabelsOf(targets) == UniqueNames([n \in DOMAIN targets |-> targets[n].relay.host])

\* More routes with these names and addresses, through the targets.
AreRoutes(more, c, targets, labels, ips) ==
  /\ IsList(more) /\ Len(more) = Len(targets)
  /\ \A k \in 1..Len(targets) :
       /\ more[k] = [f \in RouteFields |-> more[k][f]]
       /\ more[k].id = labels[k] /\ more[k].alias = labels[k] /\ more[k].bindIp = ips[k]
       /\ more[k].hostname = DeriveHostname(labels[k], ips[k], c.domain, c.mode)
       /\ more[k].exit = targets[k].relay.host

LEMMA AddedFacts ==
  ASSUME NEW c, NEW targets, Len(targets) \in Nat, DOMAIN targets = 1..Len(targets)
  PROVE  AreRoutes(AddedRoutes(c, targets), c, targets,
                   LabelsOf(targets), AddedIps(c, Len(targets)))
<1> DEFINE more == AddedRoutes(c, targets)
           labels == LabelsOf(targets)
           ips == AddedIps(c, Len(targets))
           Route(k) == [id |-> labels[k], alias |-> labels[k], bindIp |-> ips[k],
                        hostname |-> DeriveHostname(labels[k], ips[k], c.domain, c.mode),
                        exit |-> targets[k].relay.host, country |-> targets[k].relay.country,
                        city |-> targets[k].relay.city,
                        preferred |-> <<targets[k].relay.country, targets[k].relay.city>>,
                        providers |-> targets[k].selector.providers]
<1>1. more = [k \in DOMAIN targets |-> Route(k)] BY DEF AddedRoutes, LabelsOf
<1> HIDE DEF more, labels, ips
<1>2. \A k : /\ Route(k) = [f \in RouteFields |-> Route(k)[f]]
             /\ Route(k).id = labels[k] /\ Route(k).alias = labels[k] /\ Route(k).bindIp = ips[k]
             /\ Route(k).hostname = DeriveHostname(labels[k], ips[k], c.domain, c.mode)
             /\ Route(k).exit = targets[k].relay.host
  BY DEF RouteFields
<1> HIDE DEF Route
<1>3. /\ more = [k \in 1..Len(targets) |-> more[k]]
      /\ \A k \in 1..Len(targets) : more[k] = Route(k)
  BY <1>1
<1>4. IsList(more) /\ Len(more) = Len(targets)
  <2>1. Len(targets) \in Nat OBVIOUS
  <2> QED BY <1>3, <2>1, FunctionIsList
<1>5. AreRoutes(more, c, targets, labels, ips) BY <1>2, <1>3, <1>4 DEF AreRoutes
<1> QED BY <1>5 DEF more, labels, ips

\* A configuration with more routes behind those it has.
Longer(m, c, more, count) ==
  /\ Typed(m) /\ Len(c.routes) \in Nat \ {0} /\ DOMAIN c.routes = 1..Len(c.routes)
  /\ \A f \in ConfigFields \ {"routes"} : m[f] = c[f]
  /\ Len(m.routes) = Len(c.routes) + count /\ DOMAIN m.routes = 1..(Len(c.routes) + count)
  /\ \A i \in 1..Len(c.routes) : m.routes[i] = c.routes[i]
  /\ \A k \in 1..count : m.routes[Len(c.routes) + k] = more[k]
  /\ \A i \in 1..(Len(c.routes) + count) :
       i \in 1..Len(c.routes) \/ \E k \in 1..count : i = Len(c.routes) + k

LEMMA Lengthened ==
  ASSUME NEW c, Typed(c), NEW count \in Nat, NEW more, IsList(more), Len(more) = count,
         \A k \in 1..count : more[k] = [f \in RouteFields |-> more[k][f]]
  PROVE  Longer([c EXCEPT !.routes = @ \o more], c, more, count)
<1> DEFINE m == [c EXCEPT !.routes = c.routes \o more]
           N == Len(c.routes)
           routes == c.routes \o more
<1>1. DOMAIN c = ConfigFields /\ IsList(c.routes) /\ N > 0 BY Zenon DEF Typed
<1>2. N \in Nat \ {0} /\ DOMAIN c.routes = 1..N BY <1>1, ListDomain
<1>3. IsList(more) /\ Len(more) = count OBVIOUS
<1>4. /\ IsList(routes) /\ Len(routes) = Len(c.routes) + Len(more) BY <1>1, <1>3, JoinedLists
<1>5. \A i \in 1..N : routes[i] = c.routes[i] BY <1>1, <1>3, JoinedLists
<1>6. \A k \in 1..Len(more) : /\ Len(c.routes) + k \in 1..Len(routes)
                              /\ routes[Len(c.routes) + k] = more[k]
  <2> DEFINE old == c.routes
  <2>1. IsList(old) /\ IsList(more) BY <1>1, <1>3
  <2>2. routes = old \o more OBVIOUS
  <2> HIDE DEF old, m, N, routes
  <2>3. \A k \in 1..Len(more) : /\ Len(old) + k \in 1..Len(routes)
                                /\ routes[Len(old) + k] = more[k]
    BY <2>1, <2>2, JoinedBehind
  <2> QED BY <2>3 DEF old
<1>7. /\ DOMAIN m = ConfigFields /\ m.routes = routes
      /\ \A f \in ConfigFields \ {"routes"} : m[f] = c[f]
  BY <1>1 DEF ConfigFields
<1> HIDE DEF m, routes, N
<1>8. Len(routes) = N + count /\ DOMAIN routes = 1..(N + count)
  BY <1>3, <1>4, ListDomain DEF N
<1>9. \A k \in 1..count : routes[N + k] = more[k] BY <1>3, <1>6 DEF N
<1>10. \A i \in 1..(N + count) : i \in 1..N \/ \E k \in 1..count : i = N + k
  <2> SUFFICES ASSUME NEW i \in 1..(N + count), i \notin 1..N PROVE \E k \in 1..count : i = N + k
    OBVIOUS
  <2>1. i - N \in 1..count /\ i = N + (i - N) BY <1>2
  <2> QED BY <2>1
<1>11. \A i \in DOMAIN routes : routes[i] = [f \in RouteFields |-> routes[i][f]]
  <2> SUFFICES ASSUME NEW i \in 1..(N + count)
               PROVE  routes[i] = [f \in RouteFields |-> routes[i][f]]
    BY <1>8
  <2>1. CASE i \in 1..N
    <3>1. c.routes[i] = [f \in RouteFields |-> c.routes[i][f]] BY <1>2, <2>1, Zenon DEF Typed
    <3> QED BY <1>5, <2>1, <3>1
  <2>2. ASSUME NEW k \in 1..count, i = N + k
        PROVE  routes[i] = [f \in RouteFields |-> routes[i][f]]
    <3>1. routes[N + k] = more[k] BY <1>9
    <3>2. more[k] = [f \in RouteFields |-> more[k][f]] OBVIOUS
    <3> QED BY <2>2, <3>1, <3>2, Zenon
  <2> QED BY <1>10, <2>1, <2>2
<1>12. Typed(m)
  <2>1. /\ m.mode = c.mode /\ m.access = c.access /\ m.unsafe = c.unsafe /\ m.byHand = c.byHand
        /\ m.https = c.https /\ m.phase = c.phase
    BY <1>7 DEF ConfigFields
  <2>2. /\ IsList(m.routes) /\ Len(m.routes) > 0
        /\ \A i \in DOMAIN m.routes : m.routes[i] = [f \in RouteFields |-> m.routes[i][f]]
    <3>1. IsList(m.routes) /\ Len(m.routes) > 0 BY <1>2, <1>4, <1>7, <1>8
    <3> QED BY <1>7, <1>11, <3>1
  <2>3. m.unsafe \in BOOLEAN /\ m.byHand \in BOOLEAN BY <2>1, Zenon DEF Typed
  <2>4. m.mode \in Modes /\ m.access \in Accesses BY <2>1, Zenon DEF Typed
  <2>5. m.https \in Https /\ m.phase \in {"unvalidated", "validated", "error"}
    BY <2>1, Zenon DEF Typed, Https
  <2> QED BY <1>7, <2>2, <2>3, <2>4, <2>5, Zenon DEF Typed, Https
<1>14. Longer(m, c, more, count)
  BY <1>2, <1>5, <1>7, <1>8, <1>9, <1>10, <1>12, Zenon DEF Longer, N
<1> QED BY <1>14 DEF m

\* What an export makes of the configuration it holds.
LEMMA RoutesGood ==
  ASSUME NEW c, Good(c), NEW relays \in Catalogs, NEW selectors, NEW targets,
         SoundTargets(targets, c.routes, relays, selectors),
         ~c.byHand => AddedIpsVerdict(c, Len(targets)) = "ok"
  PROVE  LET n == WithRoutes(c, targets)
         IN /\ Good(n) /\ (NumeralsDiffer => HoldsOnlyMore(c.routes, n.routes))
            /\ ExitsOf(c.routes) \cup HostsOf(targets) \subseteq ExitsOf(n.routes)
<1> DEFINE count == Len(targets)
           N == Len(c.routes)
           L == N + count
           more == AddedRoutes(c, targets)
           m == [c EXCEPT !.routes = @ \o more]
           n == Normal(m)
           labels == LabelsOf(targets)
           ips == AddedIps(c, count)
<1>1. n = WithRoutes(c, targets) BY DEF WithRoutes
<1>2. /\ count \in Nat /\ DOMAIN targets = 1..count
      /\ \A k \in 1..count : /\ targets[k].relay \in relays
                             /\ targets[k].relay.host \in Seq(STRING)
                             /\ targets[k].relay.host \notin ExitsOf(c.routes)
      /\ \A j, k \in 1..count : targets[j].relay.host = targets[k].relay.host => j = k
  BY TargetsFacts
<1>3. /\ IsList(more) /\ Len(more) = count
      /\ \A k \in 1..count :
           /\ more[k] = [f \in RouteFields |-> more[k][f]]
           /\ more[k].id = labels[k] /\ more[k].alias = labels[k] /\ more[k].bindIp = ips[k]
           /\ more[k].hostname = DeriveHostname(labels[k], ips[k], c.domain, c.mode)
           /\ more[k].exit = targets[k].relay.host
  <2>1. AreRoutes(more, c, targets, labels, ips) BY <1>2, AddedFacts
  <2> HIDE DEF more, labels, ips
  <2> QED BY <2>1 DEF AreRoutes
<1> HIDE DEF count, labels, ips, more
<1>4. /\ Typed(m) /\ N \in Nat \ {0} /\ DOMAIN c.routes = 1..N
      /\ \A f \in ConfigFields \ {"routes"} : m[f] = c[f]
      /\ Len(m.routes) = L /\ DOMAIN m.routes = 1..L
      /\ \A i \in 1..N : m.routes[i] = c.routes[i]
      /\ \A k \in 1..count : m.routes[N + k] = more[k]
      /\ \A i \in 1..L : i \in 1..N \/ \E k \in 1..count : i = N + k
  <2>1. Typed(c) BY DEF Good
  <2>2. Longer(m, c, more, count) BY <1>2, <1>3, <2>1, Lengthened
  <2> HIDE DEF m
  <2> QED BY <2>2 DEF Longer
<1> HIDE DEF m, N, n
<1>5. /\ m.mode = c.mode /\ m.access = c.access /\ m.domain = c.domain /\ m.byHand = c.byHand
      /\ m.password = c.password /\ m.unsafe = c.unsafe
  BY <1>4 DEF ConfigFields
<1>6. Typed(n) /\ Alike(m, n) /\ (Postured(m) => Postured(n)) BY <1>4, NormalKeeps DEF n
<1>7. NamePosture(m)
  <2> SUFFICES ASSUME NEW i \in 1..L
               PROVE  m.routes[i].hostname =
                        DeriveHostname(m.routes[i].alias, m.routes[i].bindIp, c.domain, c.mode)
    BY <1>4, <1>5 DEF NamePosture
  <2>1. CASE i \in 1..N
    <3>1. c.routes[i].hostname =
            DeriveHostname(c.routes[i].alias, c.routes[i].bindIp, c.domain, c.mode)
      BY <1>4, <2>1 DEF Good, Postured, NamePosture
    <3> QED BY <1>4, <2>1, <3>1
  <2>2. ASSUME NEW k \in 1..count, i = N + k
        PROVE  m.routes[i].hostname =
                 DeriveHostname(m.routes[i].alias, m.routes[i].bindIp, c.domain, c.mode)
    <3>1. m.routes[i] = more[k] BY <1>4, <2>2
    <3>2. more[k].hostname = DeriveHostname(more[k].alias, more[k].bindIp, c.domain, c.mode)
      BY <1>3
    <3> QED BY <3>1, <3>2, Zenon
  <2> QED BY <1>4, <2>1, <2>2
<1>8. ~m.byHand => BindPosture(m) /\ AccessAllowed(m.mode, m.access, m.password, m.unsafe)
  <2> SUFFICES ASSUME ~c.byHand
               PROVE  BindPosture(m) /\ AccessAllowed(c.mode, c.access, c.password, c.unsafe)
    BY <1>5
  <2>1. BindPosture(c) /\ AccessAllowed(c.mode, c.access, c.password, c.unsafe)
    BY DEF Good, Postured
  <2>2. Typed(c) /\ AddedIpsVerdict(c, count) = "ok" BY DEF Good, count
  <2>3. /\ \A i \in 1..Len(c.routes) : m.routes[i].bindIp = c.routes[i].bindIp
        /\ \A k \in 1..count : m.routes[Len(c.routes) + k].bindIp = AddedIps(c, count)[k]
        /\ Len(m.routes) = Len(c.routes) + count
    BY <1>3, <1>4, SMTT(30) DEF ips, N
  <2>4. Typed(m) /\ count \in Nat BY <1>2, <1>4
  <2>5. BindPosture(m) BY ONLY <1>5, <2>1, <2>2, <2>3, <2>4, AddedPosture
  <2> QED BY <2>1, <2>5
<1>9. Postured(n) BY <1>6, <1>7, <1>8 DEF Postured
<1>10. \A i \in 1..L : n.routes[i].exit = m.routes[i].exit
  BY <1>4, <1>6 DEF Alike, RouteFields
<1>11. DOMAIN n.routes = 1..L /\ Len(n.routes) = L
  <2>1. DOMAIN n.routes = 1..L /\ L \in Nat BY <1>2, <1>4, <1>6 DEF Alike
  <2>2. IsList(n.routes) BY <1>6, Zenon DEF Typed
  <2>3. DOMAIN n.routes = 1..Len(n.routes) /\ Len(n.routes) \in Nat BY <2>2, ListDomain
  <2> HIDE DEF L
  <2> QED BY <2>1, <2>3
<1>12. /\ \A i \in 1..N : n.routes[i].exit = c.routes[i].exit
       /\ \A k \in 1..count : n.routes[N + k].exit = targets[k].relay.host
  <2>1. \A i \in 1..N : i \in 1..L BY <1>2, <1>4
  <2>2. \A k \in 1..count : N + k \in 1..L BY <1>2, <1>4
  <2> HIDE DEF L
  <2>3. ASSUME NEW i \in 1..N PROVE n.routes[i].exit = c.routes[i].exit
    BY <1>4, <1>10, <2>1
  <2>4. ASSUME NEW k \in 1..count PROVE n.routes[N + k].exit = targets[k].relay.host
    <3>1. n.routes[N + k].exit = m.routes[N + k].exit BY <1>10, <2>2
    <3>2. m.routes[N + k] = more[k] /\ more[k].exit = targets[k].relay.host BY <1>3, <1>4
    <3> QED BY <3>1, <3>2
  <2> QED BY <2>3, <2>4
<1>13. \A i \in 1..N : \A k \in 1..count : c.routes[i].exit # targets[k].relay.host
  <2>1. \A i \in 1..N : c.routes[i].exit \in ExitsOf(c.routes) BY <1>4 DEF ExitsOf
  <2> QED BY <1>2, <2>1
<1>14. ExitsOf(c.routes) \cup HostsOf(targets) \subseteq ExitsOf(n.routes)
  <2>1. \A i \in 1..N : i \in DOMAIN n.routes BY <1>2, <1>4, <1>11
  <2>2. \A k \in 1..count : N + k \in DOMAIN n.routes BY <1>2, <1>4, <1>11
  <2>3. ASSUME NEW x \in ExitsOf(c.routes) PROVE x \in ExitsOf(n.routes)
    <3>1. PICK i \in 1..N : x = c.routes[i].exit BY <1>4, <2>3 DEF ExitsOf
    <3> QED BY <1>12, <2>1, <3>1 DEF ExitsOf
  <2>4. ASSUME NEW x \in HostsOf(targets) PROVE x \in ExitsOf(n.routes)
    <3>1. PICK k \in 1..count : x = targets[k].relay.host BY <1>2, <2>4 DEF HostsOf
    <3>2. x = n.routes[N + k].exit /\ N + k \in DOMAIN n.routes BY <1>12, <2>2, <3>1
    <3> HIDE DEF L
    <3> QED BY <3>2, Zenon DEF ExitsOf
  <2> QED BY <2>3, <2>4
<1>15. ASSUME NEW i \in (N + 1)..L, NEW j \in 1..L, j # i PROVE n.routes[i].exit # n.routes[j].exit
  <2>1. PICK k \in 1..count : i = N + k BY <1>2, <1>4
  <2>2. n.routes[i].exit = targets[k].relay.host BY <1>12, <2>1
  <2>3. CASE j \in 1..N
    <3>1. n.routes[j].exit = c.routes[j].exit BY <1>12, <2>3
    <3>2. c.routes[j].exit # targets[k].relay.host BY <1>13, <2>3
    <3> QED BY <2>2, <3>1, <3>2
  <2>4. ASSUME NEW l \in 1..count, j = N + l PROVE n.routes[i].exit # n.routes[j].exit
    <3>1. l # k BY <1>15, <2>1, <2>4
    <3>2. n.routes[j].exit = targets[l].relay.host BY <1>12, <2>4
    <3>3. targets[l].relay.host # targets[k].relay.host BY <1>2, <3>1
    <3> QED BY <2>2, <3>2, <3>3
  <2> QED BY <1>4, <2>3, <2>4
<1>16. ASSUME NumeralsDiffer
       PROVE  Identified(n) /\ \A i \in 1..N : n.routes[i] = c.routes[i]
  <2>1. Identified(c) BY <1>16 DEF Good
  <2>2. \A k \in 1..count : labels[k] = targets[k].relay.host
    <3> DEFINE hosts == [k \in DOMAIN targets |-> targets[k].relay.host]
    <3>1. /\ hosts \in [1..count -> Names]
          /\ \A j, k \in 1..count : hosts[j] = hosts[k] => j = k
          /\ \A k \in 1..count : hosts[k] = targets[k].relay.host
      BY <1>2, WordsAreNames
    <3>2. labels = UniqueNames(hosts) BY DEF labels, LabelsOf
    <3> HIDE DEF hosts
    <3>3. count \in 0..count /\ count \in Nat BY <1>2
    <3>4. /\ UniqueNames(hosts) \in [1..count -> Names]
          /\ \A j, k \in 1..count : UniqueNames(hosts)[j] = UniqueNames(hosts)[k] => j = k
          /\ \A k \in 1..count : UniqueNames(hosts)[k] = hosts[k]
      BY <1>16, <3>1, <3>3, UniqueNamesKeep
    <3> QED BY <3>1, <3>2, <3>4
  <2>3. /\ \A i \in 1..N : /\ m.routes[i].alias = c.routes[i].alias
                           /\ m.routes[i].exit = c.routes[i].exit
                           /\ m.routes[i].id = c.routes[i].id
        /\ \A k \in 1..count : /\ m.routes[N + k].alias = targets[k].relay.host
                               /\ m.routes[N + k].exit = targets[k].relay.host
                               /\ m.routes[N + k].id = targets[k].relay.host
    BY <1>3, <1>4, <2>2, SMTT(30)
  <2>4. NamesRelays(m)
    <3> SUFFICES ASSUME NEW i \in 1..L, NEW others \in Catalogs, NEW r \in others,
                        m.routes[i].alias = r.host
                 PROVE  m.routes[i].exit = r.host
      BY <1>4 DEF NamesRelays
    <3>1. CASE i \in 1..N BY <1>4, <2>1, <2>3, <3>1 DEF Identified, NamesRelays
    <3>2. ASSUME NEW k \in 1..count, i = N + k PROVE m.routes[i].exit = r.host BY <2>3, <3>2
    <3> QED BY <1>4, <3>1, <3>2
  <2>5. AliasesDiffer(m)
    <3> SUFFICES ASSUME NEW i \in 1..L, NEW j \in 1..L, m.routes[i].alias = m.routes[j].alias
                 PROVE  i = j
      BY <1>4 DEF AliasesDiffer
    <3>1. ASSUME NEW a \in 1..N, NEW k \in 1..count PROVE m.routes[a].alias # m.routes[N + k].alias
      <4>1. c.routes[a].alias = targets[k].relay.host => c.routes[a].exit = targets[k].relay.host
        BY <1>2, <1>4, <2>1 DEF Identified, NamesRelays
      <4> QED BY <1>13, <2>3, <4>1
    <3>2. ASSUME i \in 1..N, j \in 1..N PROVE i = j
      BY <1>4, <2>1, <2>3, <3>2, SMTT(30) DEF Identified, AliasesDiffer
    <3>3. ASSUME NEW k \in 1..count, i = N + k, NEW l \in 1..count, j = N + l PROVE i = j
      BY <1>2, <2>3, <3>3
    <3> QED BY <1>4, <3>1, <3>2, <3>3
  <2>6. IdsAreNames(m)
    <3> SUFFICES ASSUME NEW i \in 1..L PROVE m.routes[i].id \in Names
      BY <1>4 DEF IdsAreNames
    <3>1. CASE i \in 1..N BY <1>4, <2>1, <2>3, <3>1 DEF Identified, IdsAreNames
    <3>2. ASSUME NEW k \in 1..count, i = N + k PROVE m.routes[i].id \in Names
      <4>1. targets[k].relay.host \in Names BY <1>2, WordsAreNames
      <4> QED BY <2>3, <3>2, <4>1
    <3> QED BY <1>4, <3>1, <3>2
  <2>7. N \in 0..Len(m.routes) BY <1>2, <1>4
  <2>8. \A i, j \in 1..N : m.routes[i].id = m.routes[j].id => i = j
    BY <1>4, <2>1, <2>3 DEF Identified, IdsDiffer
  <2>9. /\ Identified(n) /\ \A i \in 1..N : n.routes[i] = m.routes[i]
    BY <1>4, <1>16, <2>4, <2>5, <2>6, <2>7, <2>8, NormalIdentifies DEF n
  <2> QED BY <1>4, <2>9
<1>17. ASSUME NumeralsDiffer PROVE HoldsOnlyMore(c.routes, n.routes)
  <2>1. SubSeq(n.routes, 1, N) = c.routes
    <3>1. SubSeq(n.routes, 1, N) = [i \in 1..N |-> n.routes[i]] BY <1>4, <1>2, <1>11
    <3>2. IsList(c.routes) BY Zenon DEF Good, Typed
    <3>3. c.routes = [i \in 1..N |-> c.routes[i]] BY <3>2 DEF IsList, N
    <3> QED BY <1>16, <1>17, <3>1, <3>3
  <2>2. Len(n.routes) >= N BY <1>2, <1>4, <1>11
  <2>3. \A i \in (Len(c.routes) + 1)..Len(n.routes) : \A j \in DOMAIN n.routes :
          j # i => n.routes[i].exit # n.routes[j].exit
    BY <1>11, <1>15 DEF N
  <2> QED BY <2>1, <2>2, <2>3 DEF HoldsOnlyMore, N
<1>18. Good(n) BY <1>6, <1>9, <1>16 DEF Good
<1> QED BY <1>1, <1>14, <1>17, <1>18

-----------------------------------------------------------------------------
(* The invariant: whatever commands overlap, what is saved and what is held    *)
(* is Good, and a command that recommended relays has yet to plan for them or  *)
(* holds routes through all of them.                                           *)

RunFields == {"pc", "ask", "held", "relays", "selectors", "recommended", "outcome"}

AllReached(r) ==
  \A k \in DOMAIN r.recommended : r.recommended[k].host \in ExitsOf(r.held.routes)

\* The selectors pin the relays that were recommended.
Pins(r) ==
  /\ IsList(r.recommended)
  /\ r.selectors = [k \in DOMAIN r.recommended |-> Pinned(r.recommended[k])]
  /\ \A k \in DOMAIN r.recommended : r.recommended[k] \in r.relays /\ r.recommended[k].active

RunGood(r, asks) ==
  /\ DOMAIN r = RunFields /\ r.pc \in Pcs
  /\ r.pc # "idle" => Good(r.held)
  /\ r.pc = "edit" => r.ask \in asks
  /\ r.pc \in {"edit", "catalog", "prompts", "probe"} => r.recommended = <<>>
  /\ r.pc \in {"catalog", "prompts", "probe", "plan"} => AreSelectors(r.selectors)
  /\ r.pc \in {"prompts", "probe", "plan"} => r.relays \in Catalogs
  /\ r.pc = "plan" => r.recommended = <<>> \/ Pins(r)
  /\ r.pc \in {"save", "render", "deliver"} \/ (r.pc = "idle" /\ r.outcome = "applied") =>
       AllReached(r)

Inv == /\ Good(config) /\ given \in 0..MaxCommands
       /\ run = [p \in Procs |-> run[p]]
       /\ \A p \in Procs : RunGood(run[p], Asks[p])

\* A step of p leaves the other commands alone.
Kept(p) == /\ run' = [run EXCEPT ![p] = run'[p]]
           /\ RunGood(run'[p], Asks[p])
           /\ Good(config') /\ given' \in 0..MaxCommands

LEMMA InvKept ==
  ASSUME Inv, NEW p \in Procs, Kept(p)
  PROVE  Inv' /\ \A q \in Procs : q # p => run'[q] = run[q]
<1>1. run' = [q \in Procs |-> run'[q]]
  BY DEF Inv, Kept
<1>2. \A q \in Procs : q # p => run'[q] = run[q] BY DEF Inv, Kept
<1>3. \A q \in Procs : RunGood(run'[q], Asks[q]) BY <1>2 DEF Inv, Kept
<1> QED BY <1>1, <1>2, <1>3 DEF Inv, Kept

LEMMA IdleFacts ==
  /\ DOMAIN Idle = RunFields /\ Idle.pc = "idle" /\ Idle.recommended = <<>>
  /\ Idle.outcome = "none"
BY DEF Idle, RunFields

LEMMA NothingToReach == ASSUME NEW r, r.recommended = <<>> PROVE AllReached(r)
BY DEF AllReached

\* A process that ends holds what it applied, or nothing.
LEMMA EndedGood ==
  ASSUME NEW r, DOMAIN r = RunFields, NEW asks, NEW outcome, outcome = "applied" => AllReached(r)
  PROVE  RunGood(Ended(r, outcome), asks) /\ Ended(r, outcome).pc = "idle"
<1>1. CASE outcome \in Succeeds
  <2> DEFINE e == [r EXCEPT !.pc = "idle", !.outcome = outcome]
  <2>1. Ended(r, outcome) = e BY <1>1 DEF Ended
  <2>2. /\ DOMAIN e = RunFields /\ e.pc = "idle" /\ e.outcome = outcome
        /\ e.recommended = r.recommended /\ e.held = r.held
    BY DEF RunFields
  <2> HIDE DEF e
  <2>3. e.outcome = "applied" => AllReached(e) BY <2>2 DEF AllReached
  <2> QED BY <2>1, <2>2, <2>3 DEF RunGood, Pcs
<1>2. CASE outcome \notin Succeeds
  <2> DEFINE e == [Idle EXCEPT !.outcome = outcome]
  <2>1. Ended(r, outcome) = e BY <1>2 DEF Ended
  <2>2. DOMAIN e = RunFields /\ e.pc = "idle" /\ e.recommended = <<>>
    BY IdleFacts DEF RunFields
  <2> HIDE DEF e
  <2>3. AllReached(e) BY <2>2, NothingToReach
  <2> QED BY <2>1, <2>2, <2>3 DEF RunGood, Pcs
<1> QED BY <1>1, <1>2

\* A step that ends p's command.
LEMMA EndKeeps ==
  ASSUME Inv, NEW p \in Procs, NEW outcome, End(p, outcome), outcome = "applied" => AllReached(run[p]),
         Good(config'), given' = given
  PROVE  Kept(p) /\ run'[p].pc = "idle"
<1>1. run' = [run EXCEPT ![p] = Ended(run[p], outcome)] BY DEF End
<1>2. run'[p] = Ended(run[p], outcome) BY <1>1 DEF Inv
<1>3. DOMAIN run[p] = RunFields BY DEF Inv, RunGood
<1>4. RunGood(run'[p], Asks[p]) /\ run'[p].pc = "idle" BY <1>2, <1>3, EndedGood
<1>5. given' \in 0..MaxCommands BY DEF Inv
<1> QED BY <1>1, <1>2, <1>4, <1>5 DEF Kept

LEMMA BeginKeeps == ASSUME Inv, NEW p \in Procs, Begin(p) PROVE Kept(p)
<1>1. PICK ask \in Asks[p] :
        LET parsed == ParseSelectors(ask.tokens)
            r == [Idle EXCEPT !.ask = ask, !.held = config, !.selectors = parsed.selectors]
        IN run' = [run EXCEPT ![p] =
             CASE ask.kind \in {"access", "set"} -> [r EXCEPT !.pc = "edit"]
               [] ~parsed.ok -> Ended(r, "selectors")
               [] ask.kind = "recommend" /\ ask.tokens = <<>> -> Ended(r, "selectors")
               [] OTHER -> [r EXCEPT !.pc = "catalog"]]
  BY DEF Begin
<1> DEFINE parsed == ParseSelectors(ask.tokens)
           r == [Idle EXCEPT !.ask = ask, !.held = config, !.selectors = parsed.selectors]
           s == run'[p]
<1>2. AreSelectors(parsed.selectors)
  <2>1. AreTokens(ask.tokens) BY AsksAssumption DEF AreTokens
  <2> QED BY <2>1, ParsedAreSelectors
<1>3. /\ run' = [run EXCEPT ![p] = s]
      /\ s \in {[r EXCEPT !.pc = "edit"], Ended(r, "selectors"), [r EXCEPT !.pc = "catalog"]}
  <2> DEFINE t == CASE ask.kind \in {"access", "set"} -> [r EXCEPT !.pc = "edit"]
                    [] ~parsed.ok -> Ended(r, "selectors")
                    [] ask.kind = "recommend" /\ ask.tokens = <<>> -> Ended(r, "selectors")
                    [] OTHER -> [r EXCEPT !.pc = "catalog"]
  <2>1. run' = [run EXCEPT ![p] = t] BY <1>1
  <2>2. s = t BY <2>1 DEF Inv
  <2>3. t \in {[r EXCEPT !.pc = "edit"], Ended(r, "selectors"), [r EXCEPT !.pc = "catalog"]}
    <3> HIDE DEF r, parsed
    <3> QED OBVIOUS
  <2> HIDE DEF t, r, s
  <2> QED BY <2>1, <2>2, <2>3
<1>4. /\ DOMAIN r = RunFields /\ r.held = config /\ r.recommended = <<>> /\ r.ask = ask
      /\ r.selectors = parsed.selectors
  BY IdleFacts DEF RunFields
<1> HIDE DEF r, s, parsed
<1>5. RunGood(Ended(r, "selectors"), Asks[p]) BY <1>4, EndedGood
<1>6. Good(config) BY DEF Inv
<1>7. RunGood([r EXCEPT !.pc = "edit"], Asks[p])
  <2> DEFINE e == [r EXCEPT !.pc = "edit"]
  <2>1. /\ DOMAIN e = RunFields /\ e.pc = "edit" /\ e.held = config /\ e.recommended = <<>>
        /\ e.ask = ask
    BY <1>4 DEF RunFields
  <2> HIDE DEF e
  <2>2. RunGood(e, Asks[p]) BY <1>6, <2>1 DEF RunGood, Pcs
  <2> QED BY <2>2 DEF e
<1>8. RunGood([r EXCEPT !.pc = "catalog"], Asks[p])
  <2> DEFINE e == [r EXCEPT !.pc = "catalog"]
  <2>1. /\ DOMAIN e = RunFields /\ e.pc = "catalog" /\ e.held = config /\ e.recommended = <<>>
        /\ e.selectors = parsed.selectors
    BY <1>4 DEF RunFields
  <2> HIDE DEF e
  <2>2. RunGood(e, Asks[p]) BY <1>2, <1>6, <2>1 DEF RunGood, Pcs
  <2> QED BY <2>2 DEF e
<1>9. RunGood(s, Asks[p]) BY <1>3, <1>5, <1>7, <1>8
<1>10. given' \in 0..MaxCommands
  BY MaxCommandsAssumption DEF Begin, Inv
<1>11. config' = config BY DEF Begin
<1> QED BY <1>3, <1>6, <1>9, <1>10, <1>11 DEF Kept, s

\* An edit saves a configuration that HTTPS starts with if the one it held did.
LEMMA EditAccessKeeps ==
  ASSUME Inv, NEW p \in Procs, EditAccess(p)
  PROVE  /\ Kept(p)
         /\ config' # config => (Startable(run[p].held.https) => Startable(config'.https))
<1> DEFINE c == run[p].held
           ask == run[p].ask
           verdict == AccessVerdict(c, ask)
<1>1. Good(c) /\ ask \in Asks[p] /\ ask.kind = "access" /\ run[p].recommended = <<>>
  BY DEF Inv, RunGood, EditAccess, At
<1>2. AllReached(run[p]) BY <1>1, NothingToReach
<1>3. given' = given BY DEF EditAccess
<1>4. CASE verdict = "ok" /\ config' = WithExposure(c, ask) /\ End(p, "edited")
  <2>1. Good(config') /\ config'.https = c.https BY <1>1, <1>4, AccessGood, AsksAssumption
  <2> QED BY <1>2, <1>3, <1>4, <2>1, EndKeeps
<1>5. ASSUME NEW outcome, End(p, outcome), config' = config
      PROVE  Kept(p)
  <2>1. Good(config') BY <1>5 DEF Inv
  <2> QED BY <1>2, <1>3, <1>5, <2>1, EndKeeps
<1> QED BY <1>4, <1>5 DEF EditAccess

LEMMA EditFieldKeeps ==
  ASSUME Inv, NEW p \in Procs, EditField(p)
  PROVE  /\ Kept(p)
         /\ config' # config => (Startable(run[p].held.https) => Startable(config'.https))
<1> DEFINE c == run[p].held
           ask == run[p].ask
           verdict == FieldVerdict(ask)
<1>1. Good(c) /\ ask \in Asks[p] /\ ask.kind = "set" /\ run[p].recommended = <<>>
  BY DEF Inv, RunGood, EditField, At
<1>2. AllReached(run[p]) BY <1>1, NothingToReach
<1>3. given' = given BY DEF EditField
<1>4. CASE verdict = "ok" /\ config' = WithField(c, ask) /\ End(p, "edited")
  <2>1. Good(config') /\ (Startable(c.https) => Startable(config'.https))
    BY <1>1, <1>4, FieldGood, AsksAssumption
  <2> QED BY <1>2, <1>3, <1>4, <2>1, EndKeeps
<1>5. ASSUME NEW outcome, End(p, outcome), config' = config
      PROVE  Kept(p)
  <2>1. Good(config') BY <1>5 DEF Inv
  <2> QED BY <1>2, <1>3, <1>5, <2>1, EndKeeps
<1> QED BY <1>4, <1>5 DEF EditField

\* A selector whose names are resolved is still one.
LEMMA ResolvedAreSelectors ==
  ASSUME NEW selectors, AreSelectors(selectors), NEW routes, NEW relays
  PROVE  AreSelectors(ResolveSelectors(selectors, routes, relays))
<1> DEFINE N == Len(selectors)
           made == ResolveSelectors(selectors, routes, relays)
<1>1. IsList(selectors) BY DEF AreSelectors
<1>2. N \in Nat /\ DOMAIN selectors = 1..N BY <1>1, ListDomain
<1> HIDE DEF N
<1>3. /\ made = [i \in 1..N |-> made[i]]
      /\ \A i \in 1..N : made[i] = Coded(selectors[i], routes, relays)
  BY <1>2 DEF ResolveSelectors
<1>4. \A s : DOMAIN s = SelectorFields =>
        /\ DOMAIN Coded(s, routes, relays) = SelectorFields
        /\ Coded(s, routes, relays).count = s.count
  BY DEF Coded, SelectorFields
<1> HIDE DEF made
<1>5. IsList(made) /\ DOMAIN made = 1..N BY <1>2, <1>3, FunctionIsList
<1>6. \A i \in 1..N : DOMAIN selectors[i] = SelectorFields /\ selectors[i].count \in Nat
  BY <1>2 DEF AreSelectors
<1> QED BY <1>3, <1>4, <1>5, <1>6 DEF AreSelectors, made

LEMMA LoadCatalogKeeps == ASSUME Inv, NEW p \in Procs, LoadCatalog(p) PROVE Kept(p)
<1>1. PICK relays \in Catalogs \cup {Nothing} :
        LET r == [run[p] EXCEPT !.relays = relays]
            verdict == ResolveVerdict(r.selectors, r.held.routes, relays)
            coded == [r EXCEPT !.selectors = ResolveSelectors(@, r.held.routes, relays)]
        IN run' = [run EXCEPT ![p] =
             CASE relays = Nothing -> Ended(@, "relays")
               [] relays # Nothing /\ r.ask.write = "conflict" -> Ended(@, "mode")
               [] relays # Nothing /\ r.ask.write # "conflict" /\ r.ask.guided ->
                    [r EXCEPT !.pc = "prompts"]
               [] relays # Nothing /\ r.ask.write # "conflict" /\ ~r.ask.guided /\ verdict # "ok" ->
                    Ended(r, verdict)
               [] OTHER -> [coded EXCEPT !.pc = IF r.ask.kind = "recommend" THEN "probe" ELSE "plan"]]
  BY DEF LoadCatalog
<1> DEFINE r == [run[p] EXCEPT !.relays = relays]
           verdict == ResolveVerdict(r.selectors, r.held.routes, relays)
           coded == [r EXCEPT !.selectors = ResolveSelectors(r.selectors, r.held.routes, relays)]
           next == IF r.ask.kind = "recommend" THEN "probe" ELSE "plan"
           prompts == [r EXCEPT !.pc = "prompts"]
           on == [coded EXCEPT !.pc = next]
           s == run'[p]
           t == CASE relays = Nothing -> Ended(run[p], "relays")
                  [] relays # Nothing /\ r.ask.write = "conflict" -> Ended(run[p], "mode")
                  [] relays # Nothing /\ r.ask.write # "conflict" /\ r.ask.guided -> prompts
                  [] relays # Nothing /\ r.ask.write # "conflict" /\ ~r.ask.guided /\ verdict # "ok" ->
                       Ended(r, verdict)
                  [] OTHER -> on
<1>2. run' = [run EXCEPT ![p] = t] BY <1>1
<1>3. s = t BY <1>2 DEF Inv
<1>4. /\ DOMAIN run[p] = RunFields /\ run[p].pc = "catalog" /\ Good(run[p].held)
      /\ run[p].recommended = <<>> /\ AreSelectors(run[p].selectors)
  BY DEF Inv, RunGood, LoadCatalog, At
<1>5. /\ DOMAIN r = RunFields /\ r.held = run[p].held /\ r.recommended = <<>>
      /\ r.selectors = run[p].selectors /\ r.relays = relays
  BY <1>4 DEF RunFields
<1> HIDE DEF r
<1>6. /\ DOMAIN prompts = RunFields /\ prompts.pc = "prompts" /\ prompts.held = r.held
      /\ prompts.recommended = <<>> /\ prompts.selectors = r.selectors /\ prompts.relays = relays
  BY <1>5 DEF RunFields
<1>7. /\ DOMAIN on = RunFields /\ on.pc = next /\ on.held = r.held /\ on.recommended = <<>>
      /\ on.selectors = ResolveSelectors(r.selectors, r.held.routes, relays)
      /\ on.relays = relays
  BY <1>5 DEF RunFields
<1> HIDE DEF prompts, on, verdict, coded
<1>8. \/ t \in {Ended(run[p], "relays"), Ended(run[p], "mode"), Ended(r, verdict)}
      \/ relays # Nothing /\ t \in {prompts, on}
  OBVIOUS
<1>9. /\ RunGood(Ended(run[p], "relays"), Asks[p]) /\ RunGood(Ended(run[p], "mode"), Asks[p])
      /\ RunGood(Ended(r, verdict), Asks[p])
  BY <1>4, <1>5, NothingToReach, EndedGood
<1>10. ASSUME relays # Nothing PROVE RunGood(prompts, Asks[p]) /\ RunGood(on, Asks[p])
  <2>1. relays \in Catalogs BY <1>10
  <2>2. RunGood(prompts, Asks[p]) BY <1>4, <1>5, <1>6, <2>1 DEF RunGood, Pcs
  <2>3. AreSelectors(on.selectors) BY <1>4, <1>5, <1>7, ResolvedAreSelectors
  <2>4. next \in {"probe", "plan"} OBVIOUS
  <2> HIDE DEF next
  <2>5. RunGood(on, Asks[p]) BY <1>4, <1>5, <1>7, <2>1, <2>3, <2>4 DEF RunGood, Pcs
  <2> QED BY <2>2, <2>5
<1> HIDE DEF t
<1>11. RunGood(s, Asks[p]) BY <1>3, <1>8, <1>9, <1>10
<1>12. run' = [run EXCEPT ![p] = s] BY <1>2, <1>3
<1>13. Good(config') /\ given' \in 0..MaxCommands BY DEF Inv, LoadCatalog
<1> QED BY <1>11, <1>12, <1>13 DEF Kept

LEMMA PromptsKeeps == ASSUME Inv, NEW p \in Procs, Prompts(p) PROVE Kept(p)
<1> DEFINE r == run[p]
<1>1. /\ DOMAIN r = RunFields /\ r.pc = "prompts" /\ Good(r.held) /\ r.recommended = <<>>
      /\ AreSelectors(r.selectors) /\ r.relays \in Catalogs
  BY DEF Inv, RunGood, Prompts, At
<1>2. config' = config /\ given' = given /\ Good(config') /\ given' \in 0..MaxCommands
  BY DEF Inv, Prompts
<1>3. CASE End(p, "cancelled") BY <1>1, <1>2, <1>3, EndKeeps, NothingToReach
<1>4. ASSUME NEW chosen \in CollectedSelectors(r), NEW write, NEW protocol,
             run' = [run EXCEPT ![p].pc = "plan", ![p].selectors = chosen,
                                ![p].ask.write = write, ![p].ask.protocol = protocol]
      PROVE  Kept(p)
  <2> DEFINE s == run'[p]
  <2>1. AreSelectors(chosen) BY <1>1, GuidedAssumption DEF CollectedSelectors
  <2>2. /\ DOMAIN s = RunFields /\ s.pc = "plan" /\ s.selectors = chosen
        /\ s.held = r.held /\ s.recommended = r.recommended /\ s.relays = r.relays
    <3>1. s = [r EXCEPT !.pc = "plan", !.selectors = chosen,
                        !.ask.write = write, !.ask.protocol = protocol]
      BY <1>4 DEF Inv
    <3> HIDE DEF s, r
    <3> QED BY <1>1, <3>1 DEF RunFields
  <2>3. run' = [run EXCEPT ![p] = s]
    <3>1. run = [q \in Procs |-> run[q]] BY DEF Inv
    <3>2. /\ run' = [q \in Procs |-> run'[q]]
          /\ \A q \in Procs \ {p} : run'[q] = run[q]
      BY <1>4, <3>1, ZenonT(30)
    <3> HIDE DEF s, r
    <3>3. [run EXCEPT ![p] = s] = [q \in Procs |-> IF q = p THEN s ELSE run[q]] BY <3>1
    <3>4. s = run'[p] BY DEF s
    <3> QED BY <3>2, <3>3, <3>4
  <2> HIDE DEF s, r
  <2>4. RunGood(s, Asks[p]) BY <1>1, <2>1, <2>2 DEF RunGood, Pcs
  <2> QED BY <1>2, <2>3, <2>4 DEF Kept, s
<1> QED
  <2> DEFINE Writes == IF r.ask.write = "file" THEN {"file", "stdout", "dry-run"} ELSE {r.ask.write}
             Protocols == IF r.ask.protocol = "ask" THEN {"socks5", "https"} ELSE {r.ask.protocol}
  <2>1. CASE \E chosen \in CollectedSelectors(r), write \in Writes, protocol \in Protocols :
               run' = [run EXCEPT ![p].pc = "plan", ![p].selectors = chosen,
                                  ![p].ask.write = write, ![p].ask.protocol = protocol]
    <3>1. PICK chosen \in CollectedSelectors(r), write \in Writes, protocol \in Protocols :
                 run' = [run EXCEPT ![p].pc = "plan", ![p].selectors = chosen,
                                    ![p].ask.write = write, ![p].ask.protocol = protocol]
      BY <2>1
    <3> QED BY <1>4, <3>1
  <2>2. \/ End(p, "cancelled")
        \/ \E chosen \in CollectedSelectors(r), write \in Writes, protocol \in Protocols :
             run' = [run EXCEPT ![p].pc = "plan", ![p].selectors = chosen,
                                ![p].ask.write = write, ![p].ask.protocol = protocol]
    BY Zenon DEF Prompts
  <2> QED BY <1>3, <2>1, <2>2

\* What was recommended is pinned, relay by relay.
LEMMA PinnedAreSelectors ==
  ASSUME NEW chosen, IsList(chosen)
  PROVE  AreSelectors([k \in DOMAIN chosen |-> Pinned(chosen[k])])
<1> DEFINE made == [k \in DOMAIN chosen |-> Pinned(chosen[k])]
<1>1. Len(chosen) \in Nat /\ DOMAIN chosen = 1..Len(chosen) BY ListDomain
<1>2. made = [k \in 1..Len(chosen) |-> made[k]] BY <1>1
<1>3. \A k \in 1..Len(chosen) : made[k] = Pinned(chosen[k]) BY <1>1
<1> HIDE DEF made
<1>4. IsList(made) /\ DOMAIN made = 1..Len(chosen) BY <1>1, <1>2, FunctionIsList
<1>5. \A x : DOMAIN Pinned(x) = SelectorFields /\ Pinned(x).count \in Nat BY PinnedFields
<1> QED BY <1>3, <1>4, <1>5 DEF AreSelectors, made

LEMMA ProbeKeeps == ASSUME Inv, NEW p \in Procs, Probe(p) PROVE Kept(p)
<1> DEFINE r == run[p]
<1>1. /\ DOMAIN r = RunFields /\ r.pc = "probe" /\ Good(r.held) /\ r.recommended = <<>>
      /\ AreSelectors(r.selectors) /\ r.relays \in Catalogs
  BY DEF Inv, RunGood, Probe, At
<1>2. config' = config /\ given' = given /\ Good(config') /\ given' \in 0..MaxCommands
  BY DEF Inv, Probe
<1>3. CASE End(p, "no relay") BY <1>1, <1>2, <1>3, EndKeeps, NothingToReach
<1>4. ASSUME NEW latency \in Latencies,
             run' = [run EXCEPT ![p].pc = "plan",
                       ![p].recommended = Recommend(r.selectors, r.relays, latency).chosen,
                       ![p].selectors =
                          [k \in DOMAIN Recommend(r.selectors, r.relays, latency).chosen |->
                             Pinned(Recommend(r.selectors, r.relays, latency).chosen[k])]]
      PROVE  Kept(p)
  <2> DEFINE s == run'[p]
             chosen == Recommend(r.selectors, r.relays, latency).chosen
             pinned == [k \in DOMAIN chosen |-> Pinned(chosen[k])]
             A == {x \in r.relays : x.active}
  <2>1. /\ Listed(r.relays) /\ \A x \in r.relays : latency[x.host] \in Nat
    BY <1>1, CatalogsAreListed, CatalogsAssumption
  <2>2. chosen \in Seq(A) BY <1>1, <2>1, RecommendedAreActive DEF Recommendations
  <2>3. /\ run' = [run EXCEPT ![p].pc = "plan", ![p].recommended = chosen, ![p].selectors = pinned]
    BY <1>4
  <2> HIDE DEF chosen
  <2>4. IsList(chosen) /\ \A k \in DOMAIN chosen : chosen[k] \in r.relays /\ chosen[k].active
    <3>1. \A x \in A : x \in r.relays /\ x.active OBVIOUS
    <3> HIDE DEF A, r
    <3>2. Len(chosen) \in Nat /\ chosen = [k \in 1..Len(chosen) |-> chosen[k]] BY <2>2
    <3>3. IsList(chosen) BY <3>2, FunctionIsList
    <3>4. \A k \in DOMAIN chosen : chosen[k] \in A BY <2>2
    <3> QED BY <3>1, <3>3, <3>4
  <2>5. AreSelectors(pinned) BY <2>4, PinnedAreSelectors
  <2> HIDE DEF pinned
  <2>6. /\ DOMAIN s = RunFields /\ s.pc = "plan" /\ s.selectors = pinned
        /\ s.held = r.held /\ s.recommended = chosen /\ s.relays = r.relays
    BY <1>1, <2>3 DEF Inv, RunFields
  <2>7. run' = [run EXCEPT ![p] = s] BY <2>3 DEF Inv
  <2> HIDE DEF s, r
  <2>8. Pins(s) BY <2>4, <2>6 DEF Pins, pinned
  <2>9. RunGood(s, Asks[p]) BY <1>1, <2>5, <2>6, <2>8 DEF RunGood, Pcs
  <2> QED BY <1>2, <2>7, <2>9 DEF Kept, s
<1> QED
  <2>1. PICK latency \in Latencies :
          LET made == Recommend(r.selectors, r.relays, latency)
          IN IF ~made.ok THEN End(p, "no relay")
             ELSE run' = [run EXCEPT ![p].pc = "plan", ![p].recommended = made.chosen,
                            ![p].selectors = [k \in DOMAIN made.chosen |-> Pinned(made.chosen[k])]]
    BY DEF Probe
  <2> QED BY <1>3, <1>4, <2>1

\* No refusal is taken for a success.
LEMMA RefusalsAreNoSuccess ==
  /\ \A c, targets, relays : TargetsVerdict(c, targets, relays) \notin Succeeds
  /\ \A c, ask : NextMode(c, ask) \in Modes => AccessVerdict(c, ask) \notin Succeeds
  /\ \A ask : FieldVerdict(ask) \notin Succeeds
  /\ \A selectors, routes, relays : ResolveVerdict(selectors, routes, relays) \notin Succeeds
<1> USE DEF Succeeds
<1>1. \A mode \in Modes : \A ip : AddressVerdict(mode, ip) \notin Succeeds
  BY DEF AddressVerdict, Unsafe, Modes
<1>2. \A n, ips : PublicVerdict(n, ips) \notin Succeeds
  <2>1. "public" \in Modes BY DEF Modes
  <2> QED BY <1>1, <2>1 DEF PublicVerdict
<1>3. \A mode \in Modes : \A n, access, domain, ips :
        ExposureVerdict(n, mode, access, domain, ips) \notin Succeeds
  BY <1>1, <1>2 DEF ExposureVerdict, SharedHostVerdict
<1>4. ASSUME NEW c, NEW targets, NEW relays
      PROVE  TargetsVerdict(c, targets, relays) \notin Succeeds
  <2>1. \A n, ips : ~SharedHost(c.mode, c.access) =>
          ExposureVerdict(n, c.mode, c.access, c.domain, ips) \notin Succeeds
    BY <1>2 DEF ExposureVerdict
  <2>2. AddedIpsVerdict(c, Len(targets)) \notin Succeeds BY <2>1 DEF AddedIpsVerdict
  <2> QED BY <2>2 DEF TargetsVerdict
<1>5. ASSUME NEW c, NEW ask, NextMode(c, ask) \in Modes
      PROVE  AccessVerdict(c, ask) \notin Succeeds
  BY <1>3, <1>5 DEF AccessVerdict
<1>6. \A ask : FieldVerdict(ask) \notin Succeeds BY DEF FieldVerdict
<1>7. \A s, routes, relays : SelectorVerdict(s, routes, relays) \notin Succeeds
  BY DEF SelectorVerdict
<1>8. \A selectors, routes, relays : ResolveVerdict(selectors, routes, relays) \notin Succeeds
  BY <1>7 DEF ResolveVerdict
<1> QED BY <1>4, <1>5, <1>6, <1>8

\* What was planned for, and is held now, reaches what was recommended.
LEMMA PlannedIsReached ==
  ASSUME NEW r, Pins(r), r.relays \in Catalogs, NEW targets, NEW routes,
         SoundTargets(targets, routes, r.relays, r.selectors),
         NEW h, ExitsOf(routes) \cup HostsOf(targets) \subseteq ExitsOf(h)
  PROVE  \A k \in DOMAIN r.recommended : r.recommended[k].host \in ExitsOf(h)
<1>1. /\ IsList(r.recommended)
      /\ r.selectors = [k \in DOMAIN r.recommended |-> Pinned(r.recommended[k])]
      /\ \A k \in DOMAIN r.recommended : r.recommended[k] \in r.relays /\ r.recommended[k].active
  BY DEF Pins
<1>2. DOMAIN r.recommended = 1..Len(r.recommended) /\ Len(r.recommended) \in Nat
  BY <1>1, ListDomain
<1>3. Len(r.selectors) = Len(r.recommended) BY <1>1, <1>2
<1>4. PICK plan : plan.targets = targets /\ Reaches(plan, routes, r.relays, r.selectors, Len(r.selectors))
  BY DEF SoundTargets
<1>5. ASSUME NEW k \in DOMAIN r.recommended
      PROVE  r.recommended[k].host \in ExitsOf(routes) \cup HostsOf(targets)
  <2>1. k \in 1..Len(r.selectors) BY <1>2, <1>3
  <2>2. r.selectors[k] = Pinned(r.recommended[k]) BY <1>1
  <2>3. r.recommended[k] \in r.relays /\ r.recommended[k].active BY <1>1
  <2> QED BY <1>4, <2>1, <2>2, <2>3 DEF Reaches
<1> QED BY <1>5

\* A plan keeps what was loaded in front, and adds routes through other relays.
LEMMA PlanKeeps ==
  ASSUME Inv, NEW p \in Procs, Plan(p)
  PROVE  /\ Kept(p) /\ config' = config
         /\ NumeralsDiffer /\ run'[p].pc \in {"save", "deliver"} =>
              HoldsOnlyMore(run[p].held.routes, run'[p].held.routes)
<1> DEFINE r == run[p]
           c == r.held
           routes == c.routes
           targets == PlanTargets(r.selectors, routes, r.relays)
           verdict == TargetsVerdict(c, targets, r.relays)
           s == run'[p]
<1>1. /\ DOMAIN r = RunFields /\ r.pc = "plan" /\ Good(c) /\ r.relays \in Catalogs
      /\ AreSelectors(r.selectors) /\ (r.recommended = <<>> \/ Pins(r))
  BY DEF Inv, RunGood, Plan, At
<1>2. config' = config /\ given' = given /\ Good(config') /\ given' \in 0..MaxCommands
  BY DEF Inv, Plan
<1>3. IsList(routes) /\ Len(routes) \in Nat /\ DOMAIN routes = 1..Len(routes)
  <2>1. IsList(routes) BY <1>1, Zenon DEF Good, Typed
  <2> HIDE DEF routes
  <2> QED BY <2>1, ListDomain
<1>4. SoundTargets(targets, routes, r.relays, r.selectors)
  <2>1. Listed(r.relays) BY <1>1, CatalogsAreListed
  <2> HIDE DEF r, routes
  <2> QED BY <1>1, <1>3, <2>1, PlanIsSound
<1>5. /\ \/ targets = <<>> /\ run' = [run EXCEPT ![p] = [r EXCEPT !.pc = "deliver"]]
         \/ targets # <<>> /\ verdict # "ok" /\ End(p, verdict)
         \/ /\ targets # <<>> /\ verdict = "ok"
            /\ run' = [run EXCEPT ![p] =
                         [r EXCEPT !.held = WithRoutes(c, targets),
                                   !.pc = IF r.ask.write = "dry-run" THEN "deliver" ELSE "save"]]
  <2> DEFINE pc == IF r.ask.write = "dry-run" THEN "deliver" ELSE "save"
             w == WithRoutes(c, targets)
  <2>1. IF targets = <<>> THEN run' = [run EXCEPT ![p].pc = "deliver"]
        ELSE IF verdict # "ok" THEN End(p, verdict)
        ELSE run' = [run EXCEPT ![p].held = w, ![p].pc = pc]
    BY DEF Plan
  <2> HIDE DEF targets, verdict, pc, w, c, routes
  <2>2. [run EXCEPT ![p].pc = "deliver"] = [run EXCEPT ![p] = [r EXCEPT !.pc = "deliver"]]
    BY DEF Inv
  <2>3. [run EXCEPT ![p].held = w, ![p].pc = pc] = [run EXCEPT ![p] = [r EXCEPT !.held = w, !.pc = pc]]
    BY DEF Inv
  <2> HIDE DEF r
  <2>4. \/ targets = <<>> /\ run' = [run EXCEPT ![p] = [r EXCEPT !.pc = "deliver"]]
        \/ targets # <<>> /\ verdict # "ok" /\ End(p, verdict)
        \/ /\ targets # <<>> /\ verdict = "ok"
           /\ run' = [run EXCEPT ![p] = [r EXCEPT !.held = w, !.pc = pc]]
    BY <2>1, <2>2, <2>3
  <2> QED BY <2>4 DEF w, pc
<1> HIDE DEF targets, verdict, c
<1>6. CASE targets = <<>> /\ run' = [run EXCEPT ![p] = [r EXCEPT !.pc = "deliver"]]
  <2>1. s = [r EXCEPT !.pc = "deliver"] BY <1>6 DEF Inv
  <2>2. /\ DOMAIN s = RunFields /\ s.pc = "deliver" /\ s.held = c
        /\ s.recommended = r.recommended
    BY <1>1, <2>1 DEF RunFields, c
  <2>3. run' = [run EXCEPT ![p] = s] BY <1>6, <2>1
  <2>4. HoldsOnlyMore(routes, s.held.routes)
    <3>1. SubSeq(routes, 1, Len(routes)) = routes
      <4> HIDE DEF routes
      <4>1. routes = [i \in 1..Len(routes) |-> routes[i]] BY <1>3 DEF IsList
      <4>2. SubSeq(routes, 1, Len(routes)) = [i \in 1..Len(routes) |-> routes[i]]
        BY <1>3 DEF IsList
      <4> QED BY <4>1, <4>2
    <3> HIDE DEF routes
    <3>2. HoldsOnlyMore(routes, routes) BY <1>3, <3>1 DEF HoldsOnlyMore
    <3> QED BY <2>2, <3>2 DEF routes
  <2>5. AllReached(s)
    <3>1. CASE r.recommended = <<>> BY <2>2, <3>1, NothingToReach
    <3>2. CASE Pins(r)
      <4>1. HostsOf(targets) = {} BY <1>6 DEF HostsOf
      <4>2. ExitsOf(routes) \cup HostsOf(targets) \subseteq ExitsOf(routes) BY <4>1
      <4> HIDE DEF r, routes
      <4>3. \A k \in DOMAIN r.recommended : r.recommended[k].host \in ExitsOf(routes)
        BY <1>1, <1>4, <3>2, <4>2, PlannedIsReached
      <4> QED BY <2>2, <4>3 DEF AllReached, routes
    <3> QED BY <1>1, <3>1, <3>2
  <2> HIDE DEF s, r
  <2>6. RunGood(s, Asks[p]) BY <1>1, <2>2, <2>5 DEF RunGood, Pcs
  <2> QED BY <1>2, <2>3, <2>4, <2>6 DEF Kept, s, r, c
<1>7. CASE targets # <<>> /\ verdict # "ok" /\ End(p, verdict)
  <2>1. verdict # "applied" BY RefusalsAreNoSuccess DEF verdict, Succeeds
  <2>2. Kept(p) /\ run'[p].pc = "idle" BY <1>2, <1>7, <2>1, EndKeeps
  <2> QED BY <1>2, <2>2
<1>8. CASE /\ targets # <<>> /\ verdict = "ok"
           /\ run' = [run EXCEPT ![p] =
                        [r EXCEPT !.held = WithRoutes(c, targets),
                                  !.pc = IF r.ask.write = "dry-run" THEN "deliver" ELSE "save"]]
  <2> DEFINE pc == IF r.ask.write = "dry-run" THEN "deliver" ELSE "save"
             w == WithRoutes(c, targets)
  <2>1. AddedIpsVerdict(c, Len(targets)) = "ok" BY <1>8 DEF verdict, TargetsVerdict
  <2>2. /\ Good(w) /\ (NumeralsDiffer => HoldsOnlyMore(routes, w.routes))
        /\ ExitsOf(routes) \cup HostsOf(targets) \subseteq ExitsOf(w.routes)
    BY <1>1, <1>4, <2>1, RoutesGood
  <2>3. pc \in {"save", "deliver"} OBVIOUS
  <2> HIDE DEF pc, w
  <2>4. run' = [run EXCEPT ![p] = [r EXCEPT !.held = w, !.pc = pc]] BY <1>8 DEF pc, w
  <2>5. s = [r EXCEPT !.held = w, !.pc = pc] BY <2>4 DEF Inv
  <2>6. /\ DOMAIN s = RunFields /\ s.pc = pc /\ s.held = w /\ s.recommended = r.recommended
    BY <1>1, <2>5 DEF RunFields
  <2>7. run' = [run EXCEPT ![p] = s] BY <2>4, <2>5
  <2>8. AllReached(s)
    <3>1. CASE r.recommended = <<>> BY <2>6, <3>1, NothingToReach
    <3>2. CASE Pins(r)
      <4> DEFINE h == w.routes
      <4>1. ExitsOf(routes) \cup HostsOf(targets) \subseteq ExitsOf(h) BY <2>2
      <4> HIDE DEF r, routes, h
      <4>3. \A k \in DOMAIN r.recommended : r.recommended[k].host \in ExitsOf(h)
        BY <1>1, <1>4, <3>2, <4>1, PlannedIsReached
      <4> QED BY <2>6, <4>3 DEF AllReached, h
    <3> QED BY <1>1, <3>1, <3>2
  <2> HIDE DEF s, r
  <2>9. RunGood(s, Asks[p]) BY <2>2, <2>3, <2>6, <2>8 DEF RunGood, Pcs
  <2> QED BY <1>2, <2>2, <2>6, <2>7, <2>9 DEF Kept, s, r, c
<1> QED BY <1>5, <1>6, <1>7, <1>8

LEMMA SaveKeeps == ASSUME Inv, NEW p \in Procs, SaveRoutes(p) PROVE Kept(p)
<1> DEFINE r == run[p]
           s == run'[p]
<1>1. DOMAIN r = RunFields /\ r.pc = "save" /\ Good(r.held) /\ AllReached(r)
  BY DEF Inv, RunGood, SaveRoutes, At
<1>2. given' = given /\ given' \in 0..MaxCommands BY DEF Inv, SaveRoutes
<1>3. CASE config' = r.held /\ run' = [run EXCEPT ![p].pc = "render"]
  <2>1. s = [r EXCEPT !.pc = "render"] /\ run' = [run EXCEPT ![p] = s] BY <1>3 DEF Inv
  <2>2. /\ DOMAIN s = RunFields /\ s.pc = "render" /\ s.held = r.held
        /\ s.recommended = r.recommended
    BY <1>1, <2>1 DEF RunFields
  <2> HIDE DEF s, r
  <2>3. AllReached(s) BY <1>1, <2>2 DEF AllReached
  <2>4. RunGood(s, Asks[p]) BY <1>1, <2>2, <2>3 DEF RunGood, Pcs
  <2> QED BY <1>1, <1>2, <1>3, <2>1, <2>4 DEF Kept, s
<1>4. CASE End(p, "save") /\ config' = config
  <2>1. Good(config') BY <1>4 DEF Inv
  <2> QED BY <1>1, <1>2, <1>4, <2>1, EndKeeps
<1> QED BY <1>3, <1>4 DEF SaveRoutes

LEMMA RenderKeeps == ASSUME Inv, NEW p \in Procs, RenderRoutes(p) PROVE Kept(p)
<1> DEFINE r == run[p]
           s == run'[p]
<1>1. DOMAIN r = RunFields /\ r.pc = "render" /\ Good(r.held) /\ AllReached(r)
  BY DEF Inv, RunGood, RenderRoutes, At
<1>2. given' = given /\ given' \in 0..MaxCommands BY DEF Inv, RenderRoutes
<1>3. /\ Good(WithStatus(r.held, "error")) /\ Good(WithStatus(r.held, "validated"))
      /\ WithStatus(r.held, "validated").routes = r.held.routes
  BY <1>1, StatusGood
<1>4. ASSUME NEW outcome, End(p, outcome), config' = config \/ config' = WithStatus(r.held, "error")
      PROVE  Kept(p)
  <2>1. Good(config') BY <1>3, <1>4 DEF Inv
  <2> QED BY <1>1, <1>2, <1>4, <2>1, EndKeeps
<1>5. CASE /\ config' = WithStatus(r.held, "validated")
           /\ run' = [run EXCEPT ![p].pc = "deliver", ![p].held = config']
  <2> DEFINE new == config'
  <2>1. s = [r EXCEPT !.pc = "deliver", !.held = new] /\ run' = [run EXCEPT ![p] = s]
    <3> HIDE DEF new
    <3>1. run' = [run EXCEPT ![p].pc = "deliver", ![p].held = new] BY <1>5 DEF new
    <3> QED BY <3>1 DEF Inv
  <2>2. /\ DOMAIN s = RunFields /\ s.pc = "deliver" /\ s.held = new
        /\ s.recommended = r.recommended
    <3> HIDE DEF new, s
    <3> QED BY <1>1, <2>1 DEF RunFields
  <2>3. Good(new) /\ new.routes = r.held.routes BY <1>3, <1>5
  <2> HIDE DEF s, r, new
  <2>4. AllReached(s) BY <1>1, <2>2, <2>3 DEF AllReached
  <2>5. RunGood(s, Asks[p]) BY <2>2, <2>3, <2>4 DEF RunGood, Pcs
  <2> QED BY <1>2, <2>1, <2>3, <2>5 DEF Kept, s, new
<1> QED BY <1>4, <1>5 DEF RenderRoutes

LEMMA DeliverKeeps == ASSUME Inv, NEW p \in Procs, Deliver(p) PROVE Kept(p)
<1>1. AllReached(run[p]) BY DEF Inv, RunGood, Deliver, At
<1>2. Good(config') /\ given' = given BY DEF Inv, Deliver
<1>3. PICK outcome : End(p, outcome) BY DEF Deliver
<1> QED BY <1>1, <1>2, <1>3, EndKeeps

LEMMA CrashKeeps == ASSUME Inv, NEW p \in Procs, Crash(p) PROVE Kept(p)
<1>1. End(p, "crashed") /\ Good(config') /\ given' = given BY DEF Inv, Crash
<1> QED BY <1>1, EndKeeps

LEMMA InitInv == Init => Inv
<1> SUFFICES ASSUME Init PROVE Inv OBVIOUS
<1>1. config \in InitialConfigs /\ run = [p \in Procs |-> Idle] /\ given = 0 BY DEF Init
<1>2. Typed(config) /\ Postured(config) /\ StandApart(config.routes)
  BY <1>1, InitialConfigsAssumption
<1>3. \A i \in DOMAIN config.routes :
        /\ config.routes[i].id \in Seq(STRING)
        /\ \A relays \in Catalogs : \A r \in relays :
             config.routes[i].alias = r.host => config.routes[i].exit = r.host
  BY <1>1, InitialConfigsAssumption
<1>4. Identified(config)
  <2>1. AliasesDiffer(config) /\ IdsDiffer(config)
    BY <1>2 DEF StandApart, AliasesDiffer, IdsDiffer
  <2>2. IdsAreNames(config) BY <1>3, WordsAreNames DEF IdsAreNames
  <2> QED BY <1>3, <2>1, <2>2 DEF Identified, NamesRelays
<1>5. Good(config) BY <1>2, <1>4 DEF Good
<1>6. \A asks : RunGood(Idle, asks) BY IdleFacts DEF RunGood, Pcs
<1>7. \A p \in Procs : run[p] = Idle BY <1>1
<1>8. run = [p \in Procs |-> run[p]] BY <1>1
<1> QED BY <1>1, <1>5, <1>6, <1>7, <1>8, MaxCommandsAssumption DEF Inv

\* What one step does: it is one command's, it keeps the invariant, and what it
\* edits or plans is as the action properties say.
Tame(p) ==
  /\ Kept(p)
  /\ run[p].pc = "edit" /\ config' # config =>
       (Startable(run[p].held.https) => Startable(config'.https))
  /\ NumeralsDiffer /\ run[p].pc = "plan" /\ run'[p].pc \in {"save", "deliver"} =>
       HoldsOnlyMore(run[p].held.routes, run'[p].held.routes)

LEMMA StepIsTame ==
  ASSUME Inv, NEW p \in Procs, Begin(p) \/ Step(p) \/ Crash(p)
  PROVE  Tame(p)
<1>1. CASE Begin(p)
  <2>1. run[p].pc = "idle" BY <1>1 DEF Begin, At
  <2> QED BY <1>1, <2>1, BeginKeeps DEF Tame
<1>2. CASE EditAccess(p)
  <2>1. run[p].pc = "edit" BY <1>2 DEF EditAccess, At
  <2> QED BY <1>2, <2>1, EditAccessKeeps DEF Tame
<1>3. CASE EditField(p)
  <2>1. run[p].pc = "edit" BY <1>3 DEF EditField, At
  <2> QED BY <1>3, <2>1, EditFieldKeeps DEF Tame
<1>4. CASE LoadCatalog(p)
  <2>1. run[p].pc = "catalog" BY <1>4 DEF LoadCatalog, At
  <2> QED BY <1>4, <2>1, LoadCatalogKeeps DEF Tame
<1>5. CASE Prompts(p)
  <2>1. run[p].pc = "prompts" BY <1>5 DEF Prompts, At
  <2> QED BY <1>5, <2>1, PromptsKeeps DEF Tame
<1>6. CASE Probe(p)
  <2>1. run[p].pc = "probe" BY <1>6 DEF Probe, At
  <2> QED BY <1>6, <2>1, ProbeKeeps DEF Tame
<1>7. CASE Plan(p)
  <2>1. run[p].pc = "plan" BY <1>7 DEF Plan, At
  <2> QED BY <1>7, <2>1, PlanKeeps DEF Tame
<1>8. CASE SaveRoutes(p)
  <2>1. run[p].pc = "save" BY <1>8 DEF SaveRoutes, At
  <2> QED BY <1>8, <2>1, SaveKeeps DEF Tame
<1>9. CASE RenderRoutes(p)
  <2>1. run[p].pc = "render" BY <1>9 DEF RenderRoutes, At
  <2> QED BY <1>9, <2>1, RenderKeeps DEF Tame
<1>10. CASE Deliver(p)
  <2>1. run[p].pc = "deliver" BY <1>10 DEF Deliver, At
  <2> QED BY <1>10, <2>1, DeliverKeeps DEF Tame
<1>11. CASE Crash(p)
  <2>1. config' = config BY <1>11 DEF Crash
  <2>2. Kept(p) BY <1>11, CrashKeeps
  <2>3. run'[p].pc = "idle"
    <3>1. End(p, "crashed") BY <1>11 DEF Crash
    <3>2. DOMAIN run[p] = RunFields BY DEF Inv, RunGood
    <3>3. run'[p] = Ended(run[p], "crashed") BY <3>1 DEF End, Inv
    <3>4. "crashed" = "applied" => AllReached(run[p]) OBVIOUS
    <3> QED BY <3>2, <3>3, <3>4, EndedGood
  <2> QED BY <2>1, <2>2, <2>3 DEF Tame
<1> QED BY <1>1, <1>2, <1>3, <1>4, <1>5, <1>6, <1>7, <1>8, <1>9, <1>10, <1>11 DEF Step

LEMMA NextKeeps == Inv /\ [Next]_vars => Inv'
<1> SUFFICES ASSUME Inv, [Next]_vars PROVE Inv' OBVIOUS
<1>1. CASE Next
  <2>1. PICK p \in Procs : Begin(p) \/ Step(p) \/ Crash(p) BY <1>1 DEF Next
  <2> QED BY <2>1, StepIsTame, InvKept DEF Tame
<1>2. CASE UNCHANGED vars
  <2>1. config' = config /\ run' = run /\ given' = given BY <1>2 DEF vars
  <2> QED BY <2>1 DEF Inv
<1> QED BY <1>1, <1>2

LEMMA InvHolds == Spec => []Inv
BY InitInv, NextKeeps, PTL DEF Spec

-----------------------------------------------------------------------------
(* What a plan takes, by places: the routes there are to be, D[i] describing   *)
(* the i-th.  A selector takes the first places that are open to it, as many   *)
(* as it counts; or all, and then every relay it matches is taken.             *)

\* P is the first n of S.
AreFirst(P, S, n) ==
  /\ P \subseteq S /\ IsFiniteSet(P) /\ Cardinality(P) = n
  /\ \A x \in S \ P : \A y \in P : y < x

LEMMA FirstOfIs ==
  ASSUME NEW S \in SUBSET Nat, IsFiniteSet(S), NEW n \in Nat, NEW P, AreFirst(P, S, n)
  PROVE  FirstOf(S, n) = P
<1> DEFINE Below(i) == {j \in S : j < i}
<1> USE DEF AreFirst
<1>1. \A i \in S : IsFiniteSet(Below(i)) /\ Cardinality(Below(i)) \in Nat
  <2>1. \A i \in S : Below(i) \in SUBSET S OBVIOUS
  <2> HIDE DEF Below
  <2> QED BY <2>1, FS_Subset, FS_CardinalityType
<1>2. ASSUME NEW y \in P PROVE Cardinality(Below(y)) < n
  <2>1. Below(y) \in SUBSET (P \ {y})
    <3> SUFFICES ASSUME NEW j \in S, j < y PROVE j \in P \ {y} OBVIOUS
    <3>1. j \in Nat /\ y \in Nat BY <1>2
    <3>2. j # y /\ ~(y < j) BY <3>1
    <3> QED BY <1>2, <3>2
  <2>2. IsFiniteSet(P \ {y}) /\ Cardinality(P \ {y}) = n - 1 BY <1>2, FS_RemoveElement
  <2> HIDE DEF Below
  <2>3. Cardinality(Below(y)) <= n - 1 BY <2>1, <2>2, FS_Subset
  <2> QED BY <1>1, <1>2, <2>3
<1>3. ASSUME NEW x \in S \ P PROVE ~(Cardinality(Below(x)) < n)
  <2>1. P \in SUBSET Below(x) OBVIOUS
  <2> HIDE DEF Below
  <2>2. Cardinality(P) <= Cardinality(Below(x)) BY <1>1, <2>1, FS_Subset
  <2> QED BY <1>1, <2>2
<1>4. FirstOf(S, n) = {i \in S : Cardinality(Below(i)) < n} BY DEF FirstOf
<1> HIDE DEF Below
<1> QED BY <1>2, <1>3, <1>4

\* Among fewer than n the first n are all.
LEMMA FirstOfFew ==
  ASSUME NEW S \in SUBSET Nat, IsFiniteSet(S), NEW n \in Nat, Cardinality(S) <= n
  PROVE  FirstOf(S, n) = S
<1> DEFINE Below(i) == {j \in S : j < i}
<1>1. ASSUME NEW i \in S PROVE Cardinality(Below(i)) < n
  <2>1. Below(i) \in SUBSET S /\ Below(i) # S OBVIOUS
  <2> HIDE DEF Below
  <2>2. Cardinality(Below(i)) <= Cardinality(S) /\ Cardinality(Below(i)) # Cardinality(S)
    BY <2>1, FS_Subset
  <2>3. Cardinality(Below(i)) \in Nat /\ Cardinality(S) \in Nat
    BY <2>1, FS_Subset, FS_CardinalityType
  <2> QED BY <2>2, <2>3
<1>2. FirstOf(S, n) = {i \in S : Cardinality(Below(i)) < n} BY DEF FirstOf
<1> HIDE DEF Below
<1> QED BY <1>1, <1>2

\* Among n or more they are n, and come first.
LEMMA FirstOfMany ==
  ASSUME NEW S \in SUBSET Nat, IsFiniteSet(S), NEW n \in Nat, Cardinality(S) >= n
  PROVE  AreFirst(FirstOf(S, n), S, n)
<1> DEFINE F == FirstOf(S, n)
           Below(i) == {j \in S : j < i}
<1>1. F = {i \in S : Cardinality(Below(i)) < n} BY DEF FirstOf
<1> HIDE DEF F
<1>2. F \in SUBSET S /\ IsFiniteSet(F) /\ Cardinality(F) \in Nat
  BY <1>1, FS_Subset, FS_CardinalityType
<1>3. \A i \in S : IsFiniteSet(Below(i)) /\ Cardinality(Below(i)) \in Nat
  <2>1. \A i \in S : Below(i) \in SUBSET S OBVIOUS
  <2> HIDE DEF Below
  <2> QED BY <2>1, FS_Subset, FS_CardinalityType
<1>4. ASSUME NEW x \in S \ F, NEW y \in F PROVE y < x
  <2>1. SUFFICES ASSUME x <= y PROVE FALSE BY <1>2
  <2>2. Below(x) \in SUBSET Below(y)
    <3> SUFFICES ASSUME NEW j \in S, j < x PROVE j < y OBVIOUS
    <3>1. j \in Nat /\ x \in Nat /\ y \in Nat BY <1>2, <1>4
    <3> QED BY <2>1, <3>1
  <2>3. ~(Cardinality(Below(x)) < n) /\ Cardinality(Below(y)) < n BY <1>1
  <2>4. x \in S /\ y \in S BY <1>2
  <2> HIDE DEF Below
  <2>5. Cardinality(Below(x)) <= Cardinality(Below(y)) BY <1>3, <2>2, <2>4, FS_Subset
  <2> QED BY <1>3, <2>3, <2>4, <2>5
<1>5. Cardinality(F) >= n
  <2>1. Cardinality(F) < n => F = S BY <1>2, FirstOfAll DEF F
  <2> QED BY <1>2, <2>1
<1>6. Cardinality(F) <= n
  <2> DEFINE pred == [i \in S |-> Below(i)]
             g == [y \in F |-> Cardinality(pred[y])]
  <2>1. Orders(pred, S)
    <3>1. S \in SUBSET Nat /\ \A r, s \in Nat : r < s \/ s < r \/ r = s OBVIOUS
    <3>2. \A r, s, t \in Nat : r < s /\ t < r => t < s OBVIOUS
    <3>3. \A r \in Nat : ~(r < r) OBVIOUS
    <3>4. pred \in [S -> SUBSET S] OBVIOUS
    <3> QED BY <3>1, <3>2, <3>3, <3>4 DEF Orders
  <2>2. \A r, s \in S : Cardinality(pred[r]) = Cardinality(pred[s]) => r = s
    <3> HIDE DEF pred
    <3> QED BY <2>1, PlacesDiffer
  <2>3. \A y \in F : pred[y] = Below(y) BY <1>2
  <2>4. \A y \in F : Cardinality(Below(y)) \in 0..(n - 1)
    <3> SUFFICES ASSUME NEW y \in F PROVE Cardinality(Below(y)) \in 0..(n - 1) OBVIOUS
    <3>1. y \in S /\ Cardinality(Below(y)) < n BY <1>1
    <3> HIDE DEF Below
    <3>2. Cardinality(Below(y)) \in Nat BY <1>3, <3>1
    <3> QED BY <3>1, <3>2
  <2> HIDE DEF pred, Below
  <2>5. g \in Injection(F, 0..(n - 1)) BY <1>2, <2>2, <2>3, <2>4 DEF Injection, IsInjective
  <2>6. IsFiniteSet(0..(n - 1)) /\ Cardinality(0..(n - 1)) = n
    <3>1. 0 \in Int /\ n - 1 \in Int OBVIOUS
    <3>2. /\ IsFiniteSet(0..(n - 1))
          /\ Cardinality(0..(n - 1)) = IF 0 > n - 1 THEN 0 ELSE (n - 1) - 0 + 1
      BY <3>1, FS_Interval
    <3> QED BY <3>2
  <2> HIDE DEF g
  <2> QED BY <2>5, <2>6, FS_Injection
<1> QED BY <1>2, <1>4, <1>5, <1>6 DEF F, AreFirst

\* What a selector takes of what is there, and what it adds: as many as it counts,
\* or all, and every relay it matches.
Takes(plan, more, s, d, relays, kept, added) ==
  LET existing == Unreserved(plan, s, d)
  IN /\ kept \in SUBSET existing /\ Len(added) \in Nat
     /\ Len(more.targets) = Len(plan.targets) + Len(added)
     /\ \A n \in 1..Len(plan.targets) : more.targets[n] = plan.targets[n]
     /\ \A k \in 1..Len(added) : more.targets[Len(plan.targets) + k].relay = added[k]
     /\ more.taken = plan.taken \cup {d[i].host : i \in kept}
                                \cup {added[k].host : k \in 1..Len(added)}
     /\ \A k \in 1..Len(added) : /\ added[k] \in ActiveMatches(s, relays)
                                 /\ added[k].host \notin plan.taken \cup {d[i].host : i \in kept}
     /\ \/ s.count # All /\ AreFirst(kept, existing, s.count) /\ Len(added) = 0
        \/ s.count # All /\ kept = existing /\ Cardinality(kept) + Len(added) = s.count
        \/ /\ kept = existing
           /\ s.count = All \/ Cardinality(kept) + Len(added) <= s.count
           /\ \A r \in ActiveMatches(s, relays) : r.host \in more.taken

LEMMA UnreservedFacts ==
  ASSUME NEW d, NEW n \in Nat, DOMAIN d = 1..n, NEW plan, NEW s
  PROVE  LET existing == Unreserved(plan, s, d)
         IN /\ existing = {i \in 1..n : d[i].host \notin plan.taken /\ Matches(s, d[i])}
            /\ existing \in SUBSET Nat /\ IsFiniteSet(existing) /\ Cardinality(existing) \in Nat
<1> DEFINE existing == Unreserved(plan, s, d)
<1>1. existing = {i \in 1..n : d[i].host \notin plan.taken /\ Matches(s, d[i])} BY DEF Unreserved
<1>2. existing \in SUBSET (1..n) BY <1>1
<1>3. IsFiniteSet(1..n) BY FS_Interval
<1> HIDE DEF existing
<1>4. IsFiniteSet(existing) /\ Cardinality(existing) \in Nat
  BY <1>2, <1>3, FS_Subset, FS_CardinalityType
<1>5. \A i \in existing : i \in Nat BY <1>2
<1> QED BY <1>1, <1>4, <1>5 DEF existing

LEMMA TakeForFills ==
  ASSUME NEW relays, Listed(relays), NEW d, NEW n \in Nat, DOMAIN d = 1..n,
         NEW s, s.count \in Nat, s.count # Uncounted,
         NEW plan, NEW T, plan.targets \in Seq(T)
  PROVE  \E kept, added : Takes(plan, TakeFor(plan, s, d, relays), s, d, relays, kept, added)
<1> DEFINE existing == Unreserved(plan, s, d)
           desired == Desired(s, existing, relays, plan.taken)
           kept == FirstOf(existing, desired)
           lacking == Lacking(desired, kept)
           taken == Reserved(plan, kept, d)
           added == ChooseRelays(s, relays, lacking, taken)
           free == {r \in ActiveMatches(s, relays) : r.host \notin taken}
           more == TakeFor(plan, s, d, relays)
           R == {r \in relays : r.host \notin plan.taken /\ Matches(s, AsEntry(r))}
           extra == [k \in DOMAIN added |-> [relay |-> added[k], selector |-> s]]
<1>1. more = [taken |-> taken \cup {added[k].host : k \in DOMAIN added},
              targets |-> plan.targets \o extra]
  BY Zenon DEF TakeFor
<1>2. existing \in SUBSET Nat /\ IsFiniteSet(existing) /\ Cardinality(existing) \in Nat
  BY UnreservedFacts
<1>3. IsFiniteSet(relays) /\ Cardinality(R) \in Nat /\ IsFiniteSet(R)
  <2>1. R \in SUBSET relays OBVIOUS
  <2> HIDE DEF R
  <2> QED BY <2>1, FS_Subset, FS_CardinalityType DEF Listed
<1>4. desired = IF s.count = All THEN Cardinality(existing) + Cardinality(R) ELSE s.count
  BY DEF Desired
<1> HIDE DEF more, existing, desired, R
<1>5. desired \in Nat BY <1>2, <1>3, <1>4
<1>6. /\ kept \in SUBSET existing /\ IsFiniteSet(kept) /\ Cardinality(kept) \in Nat
      /\ Cardinality(kept) < desired => kept = existing
  BY <1>2, <1>5, FirstOfAll
<1>7. lacking = desired - Cardinality(kept) /\ lacking \in Int BY <1>5, <1>6 DEF Lacking
<1>8. taken = plan.taken \cup {d[i].host : i \in kept} BY DEF Reserved
<1>9. \/ AreFirst(kept, existing, desired)
      \/ kept = existing
  <2>1. CASE Cardinality(existing) >= desired BY <1>2, <1>5, <2>1, FirstOfMany
  <2>2. CASE Cardinality(existing) <= desired BY <1>2, <1>5, <2>2, FirstOfFew
  <2> QED BY <1>2, <1>5, <2>1, <2>2
<1>10. s.count = All => kept = existing
  <2>1. s.count = All => Cardinality(existing) <= desired BY <1>2, <1>3, <1>4
  <2> QED BY <1>2, <1>5, <2>1, FirstOfFew
<1>11. Cardinality(kept) <= desired
  <2>1. CASE AreFirst(kept, existing, desired) BY <1>5, <2>1 DEF AreFirst
  <2>2. CASE ~AreFirst(kept, existing, desired)
    <3>1. ~(Cardinality(existing) >= desired) BY <1>2, <1>5, <2>2, FirstOfMany
    <3>2. Cardinality(existing) <= desired BY <1>2, <1>5, <3>1
    <3> QED BY <1>9, <2>2, <3>2
  <2> QED BY <2>1, <2>2
<1> HIDE DEF kept, lacking, taken
<1>12. PicksFrom(added, free, lacking) /\ Exhausts(added, free, lacking)
  BY <1>7, ChosenAreFree
<1> HIDE DEF added
<1>13. /\ added \in Seq(free) /\ Len(added) \in Nat /\ DOMAIN added = 1..Len(added)
       /\ \A k \in 1..Len(added) : added[k] \in free
  BY <1>12 DEF PicksFrom
<1>14. Len(added) <= lacking /\ (lacking = 0 => Len(added) = 0)
  BY <1>5, <1>6, <1>7, <1>11, <1>12, <1>13 DEF PicksFrom, Exhausts
<1>15. /\ Len(plan.targets \o extra) = Len(plan.targets) + Len(added)
       /\ \A i \in 1..Len(plan.targets) : (plan.targets \o extra)[i] = plan.targets[i]
       /\ \A k \in 1..Len(added) : (plan.targets \o extra)[Len(plan.targets) + k].relay = added[k]
  <2> DEFINE U == T \cup {extra[k] : k \in 1..Len(added)}
  <2>1. plan.targets \in Seq(U) OBVIOUS
  <2>2. /\ extra \in Seq(U) /\ Len(extra) = Len(added)
        /\ \A k \in 1..Len(added) : extra[k].relay = added[k]
    BY <1>13
  <2> HIDE DEF extra, U
  <2>3. /\ Len(plan.targets \o extra) = Len(plan.targets) + Len(extra)
        /\ \A i \in 1..Len(plan.targets) : (plan.targets \o extra)[i] = plan.targets[i]
        /\ \A k \in 1..Len(extra) : (plan.targets \o extra)[Len(plan.targets) + k] = extra[k]
    <3> DEFINE old == plan.targets
    <3>1. old \in Seq(U) /\ extra \in Seq(U) BY <2>1, <2>2
    <3> HIDE DEF old
    <3>2. /\ Len(old \o extra) = Len(old) + Len(extra)
          /\ \A i \in 1..Len(old) : (old \o extra)[i] = old[i]
          /\ \A k \in 1..Len(extra) : (old \o extra)[Len(old) + k] = extra[k]
      BY <3>1, Joined
    <3> QED BY <3>2 DEF old
  <2> QED BY <2>2, <2>3, Zenon
<1> HIDE DEF extra
<1>16. /\ more.taken = plan.taken \cup {d[i].host : i \in kept}
                                  \cup {added[k].host : k \in 1..Len(added)}
       /\ more.targets = plan.targets \o extra
  BY <1>1, <1>8, <1>13
<1>17. \A k \in 1..Len(added) : /\ added[k] \in ActiveMatches(s, relays)
                                /\ added[k].host \notin plan.taken \cup {d[i].host : i \in kept}
  BY <1>8, <1>13
<1>18. ASSUME Len(added) < lacking \/ Cardinality(free) <= lacking
       PROVE  \A r \in ActiveMatches(s, relays) : r.host \in more.taken
  <2> SUFFICES ASSUME NEW r \in ActiveMatches(s, relays), r.host \notin taken
               PROVE  \E k \in 1..Len(added) : added[k].host = r.host
    BY <1>8, <1>16
  <2>1. r \in free OBVIOUS
  <2> QED BY <1>12, <1>18, <2>1 DEF Exhausts
<1>19. ASSUME s.count = All PROVE Cardinality(free) <= lacking
  <2>1. free \in SUBSET R BY <1>8 DEF ActiveMatches, R
  <2> HIDE DEF free
  <2>2. Cardinality(free) <= Cardinality(R) BY <1>3, <2>1, FS_Subset
  <2>3. lacking = Cardinality(R) BY <1>2, <1>3, <1>4, <1>7, <1>10, <1>19
  <2> QED BY <2>2, <2>3
<1>20. \/ s.count # All /\ AreFirst(kept, existing, s.count) /\ Len(added) = 0
       \/ s.count # All /\ kept = existing /\ Cardinality(kept) + Len(added) = s.count
       \/ /\ kept = existing
          /\ s.count = All \/ Cardinality(kept) + Len(added) <= s.count
          /\ \A r \in ActiveMatches(s, relays) : r.host \in more.taken
  <2>1. CASE s.count = All BY <1>10, <1>18, <1>19, <2>1
  <2>2. CASE s.count # All /\ kept = existing
    <3>1. desired = s.count BY <1>4, <2>2
    <3>2. Cardinality(kept) + Len(added) <= s.count BY <1>5, <1>6, <1>7, <1>13, <1>14, <3>1
    <3>3. Cardinality(kept) + Len(added) = s.count \/ Len(added) < lacking
      BY <1>5, <1>6, <1>7, <1>13, <1>14, <3>1
    <3> QED BY <1>18, <2>2, <3>2, <3>3
  <2>3. CASE s.count # All /\ kept # existing
    <3>1. AreFirst(kept, existing, s.count) BY <1>4, <1>9, <2>3
    <3>2. lacking = 0 BY <1>4, <1>5, <1>6, <1>7, <2>3, <3>1 DEF AreFirst
    <3> QED BY <1>14, <2>3, <3>1, <3>2
  <2> QED BY <2>1, <2>2, <2>3
<1>21. Takes(plan, more, s, d, relays, kept, added)
  BY <1>6, <1>13, <1>15, <1>16, <1>17, <1>20 DEF Takes, existing
<1> QED BY <1>21 DEF more

\* The routes there are to be: those there are, then one through each target.
Foretells(D, d, L, T, targets, relays) ==
  /\ L \in Nat /\ T \in Nat /\ DOMAIN d = 1..L /\ DOMAIN D = 1..(L + T)
  /\ \A i \in 1..L : D[i] = d[i]
  /\ \A k \in 1..T : /\ D[L + k] = AsEntry(targets[k].relay)
                     /\ targets[k].relay \in relays /\ targets[k].relay.active

\* A selector that finds the relays in before taken takes the places in part: the
\* first it matches, as many as it counts, or all, and every relay it matches.
Stage(D, relays, s, before, after, part) ==
  LET open == {i \in DOMAIN D : D[i].host \notin before /\ Matches(s, D[i])}
  IN /\ part \subseteq open
     /\ after = before \cup {D[i].host : i \in part}
     /\ \/ s.count # All /\ AreFirst(part, open, s.count)
        \/ /\ part = open /\ (s.count = All \/ Cardinality(part) <= s.count)
           /\ \A r \in ActiveMatches(s, relays) : r.host \in after

LEMMA TakesAStage ==
  ASSUME NEW D, NEW d, NEW L, NEW T, NEW targets, NEW relays,
         Foretells(D, d, L, T, targets, relays),
         NEW s, s.count \in Nat, NEW plan, NEW more, NEW kept, NEW added,
         Takes(plan, more, s, d, relays, kept, added),
         Len(plan.targets) \in Nat, Len(more.targets) <= T,
         \A k \in 1..Len(more.targets) : more.targets[k] = targets[k],
         \A k \in 1..Len(plan.targets) : plan.targets[k].relay.host \in plan.taken,
         \A k \in (Len(more.targets) + 1)..T : targets[k].relay.host \notin more.taken
  PROVE  \E part : Stage(D, relays, s, plan.taken, more.taken, part)
<1> DEFINE a == Len(plan.targets)
           b == Len(more.targets)
           existing == Unreserved(plan, s, d)
           open == {i \in DOMAIN D : D[i].host \notin plan.taken /\ Matches(s, D[i])}
           block == (L + a + 1)..(L + b)
           part == kept \cup block
<1>1. /\ L \in Nat /\ T \in Nat /\ DOMAIN d = 1..L /\ DOMAIN D = 1..(L + T)
      /\ \A i \in 1..L : D[i] = d[i]
      /\ \A k \in 1..T : /\ D[L + k] = AsEntry(targets[k].relay)
                         /\ targets[k].relay \in relays /\ targets[k].relay.active
  BY DEF Foretells
<1>2. /\ a \in Nat /\ Len(added) \in Nat /\ b = a + Len(added) /\ b \in Nat /\ b <= T
  BY DEF Takes
<1>3. /\ kept \in SUBSET existing
      /\ \A k \in 1..a : more.targets[k] = plan.targets[k]
      /\ \A k \in 1..Len(added) : more.targets[a + k].relay = added[k]
      /\ more.taken = plan.taken \cup {d[i].host : i \in kept}
                                 \cup {added[k].host : k \in 1..Len(added)}
      /\ \A k \in 1..Len(added) : added[k].host \notin plan.taken /\ Matches(s, AsEntry(added[k]))
  BY DEF Takes, ActiveMatches
<1>4. \/ s.count # All /\ AreFirst(kept, existing, s.count) /\ Len(added) = 0
      \/ s.count # All /\ kept = existing /\ Cardinality(kept) + Len(added) = s.count
      \/ /\ kept = existing
         /\ s.count = All \/ Cardinality(kept) + Len(added) <= s.count
         /\ \A r \in ActiveMatches(s, relays) : r.host \in more.taken
  BY Zenon DEF Takes
<1>5. /\ existing = {i \in 1..L : d[i].host \notin plan.taken /\ Matches(s, d[i])}
      /\ existing \in SUBSET Nat /\ IsFiniteSet(existing) /\ Cardinality(existing) \in Nat
  BY <1>1, UnreservedFacts
<1> HIDE DEF existing, a, b
<1>6. kept \in SUBSET (1..L) /\ IsFiniteSet(kept) /\ Cardinality(kept) \in Nat
  BY <1>3, <1>5, FS_Subset, FS_CardinalityType
<1>7. \A i \in 1..L : i \in open <=> i \in existing BY <1>1, <1>2, <1>5
<1>8. \A r : AsEntry(r).host = r.host BY DEF AsEntry
<1>9. \A k \in 1..T : D[L + k].host = targets[k].relay.host BY <1>1, <1>8
<1>10. \A k \in 1..b : more.targets[k] = targets[k] BY DEF b
<1>11. \A k \in 1..a : L + k \notin open
  <2> SUFFICES ASSUME NEW k \in 1..a PROVE D[L + k].host \in plan.taken OBVIOUS
  <2>1. k \in 1..T /\ k \in 1..b
    <3>1. a <= b /\ k \in Nat /\ 1 <= k /\ k <= a BY <1>2
    <3>2. k <= b /\ k <= T BY <1>1, <1>2, <3>1
    <3> QED BY <1>1, <1>2, <3>1, <3>2
  <2>2. D[L + k].host = targets[k].relay.host BY <1>9, <2>1
  <2>3. targets[k] = plan.targets[k] BY <1>3, <1>10, <2>1
  <2>4. plan.targets[k].relay.host \in plan.taken BY DEF a
  <2> QED BY <2>2, <2>3, <2>4
<1>12. \A k \in 1..Len(added) : L + (a + k) \in open /\ D[L + (a + k)].host = added[k].host
  <2> SUFFICES ASSUME NEW k \in 1..Len(added)
               PROVE  L + (a + k) \in open /\ D[L + (a + k)].host = added[k].host
    OBVIOUS
  <2>1. a + k \in 1..T /\ a + k \in 1..b /\ L + (a + k) \in 1..(L + T) BY <1>1, <1>2
  <2>2. targets[a + k].relay = added[k] BY <1>3, <1>10, <2>1
  <2>3. D[L + (a + k)] = AsEntry(added[k]) BY <1>1, <2>1, <2>2
  <2> QED BY <1>1, <1>3, <1>8, <2>1, <2>3
<1>13. \A i \in open : \/ i \in existing
                       \/ i \in block
                       \/ \E k \in (b + 1)..T : i = L + k
  <2> SUFFICES ASSUME NEW i \in open, i \notin 1..L PROVE i \in block \/ \E k \in (b + 1)..T : i = L + k
    BY <1>7
  <2> DEFINE k == i - L
  <2>1. k \in 1..T /\ i = L + k BY <1>1
  <2> HIDE DEF k
  <2>2. k \notin 1..a BY <1>11, <2>1
  <2>3. CASE k <= b BY <1>1, <1>2, <2>1, <2>2, <2>3
  <2>4. CASE ~(k <= b) BY <1>2, <2>1, <2>4
  <2> QED BY <2>3, <2>4
<1>14. \A i \in block : \E k \in 1..Len(added) : i = L + (a + k)
  <2> SUFFICES ASSUME NEW i \in block PROVE \E k \in 1..Len(added) : i = L + (a + k) OBVIOUS
  <2>1. i - L - a \in 1..Len(added) /\ i = L + (a + (i - L - a)) BY <1>1, <1>2, SMTT(30)
  <2> QED BY <2>1
<1>15. \A k \in 1..Len(added) : L + (a + k) \in block BY <1>1, <1>2
<1>16. block \in SUBSET open BY <1>12, <1>14
<1>17. IsFiniteSet(part) /\ Cardinality(part) = Cardinality(kept) + Len(added)
  <2>1. /\ IsFiniteSet(block)
        /\ Cardinality(block) = IF L + a + 1 > L + b THEN 0 ELSE (L + b) - (L + a + 1) + 1
    <3>1. L + a + 1 \in Int /\ L + b \in Int BY <1>1, <1>2
    <3> QED BY <3>1, FS_Interval
  <2>2. Cardinality(block) = Len(added)
    <3> HIDE DEF block
    <3> QED BY <1>1, <1>2, <2>1
  <2>3. kept \cap block = {} BY <1>1, <1>2, <1>6
  <2> HIDE DEF block
  <2>4. /\ IsFiniteSet(kept \cup block)
        /\ Cardinality(kept \cup block)
             = Cardinality(kept) + Cardinality(block) - Cardinality(kept \cap block)
    BY <1>6, <2>1, FS_Union
  <2>5. Cardinality(kept \cap block) = 0 BY <2>3, FS_EmptySet
  <2> QED BY <1>2, <1>6, <2>2, <2>4, <2>5
<1>18. part \subseteq open BY <1>3, <1>6, <1>7, <1>16
<1>19. more.taken = plan.taken \cup {D[i].host : i \in part}
  <2>1. \A i \in kept : D[i].host = d[i].host BY <1>1, <1>6
  <2>2. {D[i].host : i \in block} = {added[k].host : k \in 1..Len(added)}
    <3> DEFINE h(i) == D[i].host
    <3>1. \A k \in 1..Len(added) : h(L + (a + k)) = added[k].host BY <1>12
    <3> HIDE DEF block, h
    <3>2. {h(i) : i \in block} = {added[k].host : k \in 1..Len(added)} BY <1>14, <1>15, <3>1
    <3> QED BY <3>2 DEF h
  <2> HIDE DEF block
  <2>3. {D[i].host : i \in part} = {d[i].host : i \in kept} \cup {D[i].host : i \in block} BY <2>1
  <2> QED BY <1>3, <2>2, <2>3
<1>20. CASE s.count # All /\ AreFirst(kept, existing, s.count) /\ Len(added) = 0
  <2>1. part = kept BY <1>1, <1>2, <1>20
  <2> HIDE DEF part
  <2>2. ASSUME NEW x \in open \ part, NEW y \in part PROVE y < x
    <3>1. CASE x \in 1..L BY <1>7, <1>20, <2>1, <2>2, <3>1 DEF AreFirst
    <3>2. CASE x \notin 1..L
      <4>1. x \in 1..(L + T) /\ y \in 1..L BY <1>1, <1>6, <2>1, <2>2
      <4> QED BY <1>1, <3>2, <4>1
    <3> QED BY <3>1, <3>2
  <2>3. AreFirst(part, open, s.count) BY <1>18, <1>20, <2>1, <2>2 DEF AreFirst
  <2> HIDE DEF open
  <2> QED BY <1>18, <1>19, <1>20, <2>3 DEF Stage, open
<1>21. CASE s.count # All /\ kept = existing /\ Cardinality(kept) + Len(added) = s.count
  <2>1. ASSUME NEW x \in open \ part, NEW y \in part PROVE y < x
    <3>1. PICK k \in (b + 1)..T : x = L + k BY <1>13, <1>21, <2>1
    <3>2. y \in 1..(L + b)
      <4>1. CASE y \in kept BY <1>1, <1>2, <1>6, <4>1
      <4>2. CASE y \in block BY <1>1, <1>2, <4>2
      <4> QED BY <2>1, <4>1, <4>2
    <3> HIDE DEF open, part
    <3> QED BY <1>1, <1>2, <3>1, <3>2
  <2> HIDE DEF open, part
  <2>2. AreFirst(part, open, s.count) BY <1>17, <1>18, <1>21, <2>1 DEF AreFirst
  <2> QED BY <1>18, <1>19, <1>21, <2>2 DEF Stage, open
<1>22. CASE /\ kept = existing
            /\ s.count = All \/ Cardinality(kept) + Len(added) <= s.count
            /\ \A r \in ActiveMatches(s, relays) : r.host \in more.taken
  <2>1. ASSUME NEW k \in (b + 1)..T PROVE L + k \notin open
    <3>1. k \in 1..T BY <1>2
    <3>2. targets[k].relay.host \notin more.taken BY DEF b
    <3>3. targets[k].relay \notin ActiveMatches(s, relays) BY <1>22, <3>2
    <3>4. ~Matches(s, AsEntry(targets[k].relay)) BY <1>1, <3>1, <3>3 DEF ActiveMatches
    <3> QED BY <1>1, <3>1, <3>4
  <2>2. open \subseteq part BY <1>13, <1>22, <2>1
  <2> HIDE DEF open, part
  <2>3. part = open /\ (s.count = All \/ Cardinality(part) <= s.count)
    BY <1>17, <1>18, <1>22, <2>2
  <2> QED BY <1>18, <1>19, <1>22, <2>3 DEF Stage, open
<1> QED BY <1>4, <1>20, <1>21, <1>22

\* Induction up to N, and down from it.
LEMMA UpTo ==
  ASSUME NEW N \in Nat, NEW S, 0 \in S, \A n \in 1..N : n - 1 \in S => n \in S
  PROVE  \A n \in 0..N : n \in S
<1> DEFINE T == {n \in Nat : n <= N => n \in S}
<1>1. 0 \in T OBVIOUS
<1>2. ASSUME NEW n \in Nat, n \in T PROVE n + 1 \in T
  <2>1. SUFFICES ASSUME n + 1 <= N PROVE n + 1 \in S OBVIOUS
  <2>2. n \in S /\ n + 1 \in 1..N /\ (n + 1) - 1 = n BY <1>2, <2>1
  <2> QED BY <2>2
<1> HIDE DEF T
<1>3. Nat \subseteq T BY <1>1, <1>2, Induction
<1> QED BY <1>3 DEF T

LEMMA DownFrom ==
  ASSUME NEW N \in Nat, NEW S, N \in S, \A n \in 1..N : n \in S => n - 1 \in S
  PROVE  \A n \in 0..N : n \in S
<1> DEFINE T == {m \in Nat : m <= N => N - m \in S}
<1>1. 0 \in T OBVIOUS
<1>2. ASSUME NEW m \in Nat, m \in T PROVE m + 1 \in T
  <2>1. SUFFICES ASSUME m + 1 <= N PROVE N - (m + 1) \in S OBVIOUS
  <2>2. N - m \in S /\ N - m \in 1..N /\ (N - m) - 1 = N - (m + 1) BY <1>2, <2>1
  <2> QED BY <2>2
<1> HIDE DEF T
<1>3. Nat \subseteq T BY <1>1, <1>2, Induction
<1>4. SUFFICES ASSUME NEW n \in 0..N PROVE n \in S OBVIOUS
<1>5. N - n \in T /\ N - n \in Nat /\ N - n <= N /\ N - (N - n) = n BY <1>3
<1> QED BY <1>5 DEF T

\* All selectors of an export have counts.
CountedSelectors(selectors) ==
  AreSelectors(selectors) /\ \A n \in DOMAIN selectors : selectors[n].count # Uncounted

\* t begins with s.
Begins(s, t) == Len(s) \in Nat /\ Len(s) <= Len(t) /\ \A k \in 1..Len(s) : t[k] = s[k]

\* What a selector plans is kept by those behind it.
LEMMA PlansGrow ==
  ASSUME NEW relays, Listed(relays), NEW routes, IsList(routes),
         NEW selectors, CountedSelectors(selectors),
         NEW plans, PlannedBy(plans, selectors, routes, relays)
  PROVE  /\ \A n \in 1..Len(selectors) : \E kept, added :
              Takes(plans[n - 1], plans[n], selectors[n], Described(routes, relays), relays, kept, added)
         /\ \A n \in 0..Len(selectors) : Begins(plans[n].targets, plans[Len(selectors)].targets)
<1> DEFINE N == Len(selectors)
           d == Described(routes, relays)
           last == plans[N].targets
<1>1. /\ N \in Nat /\ DOMAIN selectors = 1..N
      /\ \A n \in 1..N : selectors[n].count \in Nat /\ selectors[n].count # Uncounted
  BY DEF CountedSelectors, AreSelectors, IsList
<1>2. DOMAIN d = 1..Len(routes) /\ Len(routes) \in Nat BY DEF IsList, Described
<1>3. /\ \A n \in 1..N : plans[n] = TakeFor(plans[n - 1], selectors[n], d, relays)
      /\ \A n \in 0..N : SoundPlan(plans[n], routes, relays, selectors)
  BY DEF PlannedBy
<1> DEFINE T == [relay : relays, selector : {selectors[i] : i \in DOMAIN selectors}]
<1>4. \A n \in 0..N : plans[n].targets \in Seq(T) /\ Len(plans[n].targets) \in Nat
  <2> DEFINE Taken == SUBSET (ExitsOf(routes) \cup {r.host : r \in relays})
  <2>1. \A n \in 0..N : plans[n] \in [taken : Taken, targets : Seq(T)]
    BY <1>3, Zenon DEF SoundPlan
  <2> HIDE DEF N, T, Taken
  <2>2. \A n \in 0..N : plans[n].targets \in Seq(T) BY <2>1
  <2> QED BY <2>2
<1> HIDE DEF N, d, T
<1>5. ASSUME NEW n \in 1..N
      PROVE  \E kept, added : Takes(plans[n - 1], plans[n], selectors[n], d, relays, kept, added)
  <2> DEFINE s == selectors[n]
             plan == plans[n - 1]
  <2>1. s.count \in Nat /\ s.count # Uncounted BY <1>1
  <2>2. n - 1 \in 0..N BY <1>1
  <2>3. plan.targets \in Seq(T) BY <1>4, <2>2
  <2>4. plans[n] = TakeFor(plan, s, d, relays) BY <1>3
  <2> HIDE DEF s, plan
  <2>5. \E kept, added : Takes(plan, TakeFor(plan, s, d, relays), s, d, relays, kept, added)
    BY <1>2, <2>1, <2>3, TakeForFills
  <2> QED BY <2>4, <2>5 DEF s, plan
<1>6. \A n \in 1..N : Begins(plans[n - 1].targets, plans[n].targets)
  <2> TAKE n \in 1..N
  <2>1. PICK kept, added :
          Takes(plans[n - 1], plans[n], selectors[n], d, relays, kept, added)
    BY <1>5
  <2>2. /\ Len(added) \in Nat
        /\ Len(plans[n].targets) = Len(plans[n - 1].targets) + Len(added)
        /\ \A k \in 1..Len(plans[n - 1].targets) : plans[n].targets[k] = plans[n - 1].targets[k]
    BY <2>1 DEF Takes
  <2>3. n - 1 \in 0..N BY <1>1
  <2>4. Len(plans[n - 1].targets) \in Nat BY <1>4, <2>3
  <2> QED BY <2>2, <2>4 DEF Begins
<1>7. \A n \in 0..N : Begins(plans[n].targets, last)
  <2> DEFINE S == {n \in 0..N : Begins(plans[n].targets, last)}
  <2>1. N \in S
    <3>1. N \in 0..N /\ Len(last) \in Nat BY <1>1, <1>4
    <3>2. Begins(last, last) BY <3>1 DEF Begins
    <3> QED BY <3>1, <3>2
  <2>2. ASSUME NEW n \in 1..N, n \in S PROVE n - 1 \in S
    <3>1. Begins(plans[n].targets, last) /\ Begins(plans[n - 1].targets, plans[n].targets)
      BY <1>6, <2>2
    <3>2. n - 1 \in 0..N /\ n \in 0..N /\ N \in 0..N BY <1>1
    <3>3. /\ Len(plans[n - 1].targets) \in Nat /\ Len(plans[n].targets) \in Nat
          /\ Len(last) \in Nat
      BY <1>4, <3>2
    <3>4. \A k \in 1..Len(plans[n - 1].targets) : k \in 1..Len(plans[n].targets)
      BY <3>1, <3>3 DEF Begins
    <3>5. Begins(plans[n - 1].targets, last) BY <3>1, <3>3, <3>4, SMTT(30) DEF Begins
    <3> QED BY <3>2, <3>5
  <2> HIDE DEF S
  <2>3. \A n \in 0..N : n \in S BY <1>1, <2>1, <2>2, DownFrom
  <2> QED BY <2>3 DEF S
<1> QED BY <1>5, <1>7 DEF N, d

\* Selector by selector, what is taken so far and the places each takes.
Staged(D, relays, selectors, taken, parts) ==
  /\ taken[0] = {}
  /\ \A n \in 1..Len(selectors) :
       Stage(D, relays, selectors[n], taken[n - 1], taken[n], parts[n])

LEMMA PlanStages ==
  ASSUME NEW relays, Listed(relays), NEW routes, IsList(routes),
         NEW selectors, CountedSelectors(selectors), NEW targets,
         targets = PlanTargets(selectors, routes, relays),
         NEW D, Foretells(D, Described(routes, relays), Len(routes), Len(targets), targets, relays)
  PROVE  \E taken, parts : Staged(D, relays, selectors, taken, parts)
<1> DEFINE N == Len(selectors)
           L == Len(routes)
           T == Len(targets)
           d == Described(routes, relays)
           Exits == ExitsOf(routes)
<1>1. /\ N \in Nat /\ AreSelectors(selectors) /\ \A n \in 1..N : selectors[n].count \in Nat
  BY DEF CountedSelectors, AreSelectors, IsList
<1>2. PICK plans : PlannedBy(plans, selectors, routes, relays) BY <1>1, PlanUnfolds
<1>3. /\ targets = plans[N].targets /\ plans[0].taken = {}
      /\ \A n \in 0..N : SoundPlan(plans[n], routes, relays, selectors)
  BY <1>2 DEF PlannedBy
<1>4. /\ \A n \in 1..N : \E kept, added :
           Takes(plans[n - 1], plans[n], selectors[n], d, relays, kept, added)
      /\ \A n \in 0..N : Begins(plans[n].targets, targets)
  BY <1>2, <1>3, PlansGrow
<1>5. Foretells(D, d, L, T, targets, relays) /\ T \in Nat BY DEF Foretells
<1> HIDE DEF N, d, L, T
<1>6. \A n \in 0..N : \A k \in 1..Len(plans[n].targets) :
        plans[n].targets[k].relay.host \in plans[n].taken
  BY <1>3, Zenon DEF SoundPlan
<1>7. ASSUME NEW n \in 0..N, NEW k \in (Len(plans[n].targets) + 1)..T
      PROVE  targets[k].relay.host \notin plans[n].taken
  <2> DEFINE b == Len(plans[n].targets)
             host == targets[k].relay.host
  <2>1. b \in Nat /\ b <= T /\ \A j \in 1..b : targets[j] = plans[n].targets[j]
    BY <1>4 DEF Begins, T
  <2>2. k \in 1..T /\ \A j \in 1..b : j \in 1..T /\ j # k BY <2>1, <1>5
  <2>3. N \in 0..N BY <1>1
  <2>4. host \notin Exits /\ \A j \in 1..T : targets[j].relay.host = host => j = k
    BY <1>3, <2>2, <2>3 DEF SoundPlan, T
  <2>5. plans[n].taken \subseteq Exits \cup HostsOf(plans[n].targets)
    BY <1>3, Zenon DEF SoundPlan
  <2>6. DOMAIN plans[n].targets = 1..b
    <3> DEFINE U == [relay : relays, selector : {selectors[i] : i \in DOMAIN selectors}]
               Taken == SUBSET (ExitsOf(routes) \cup {r.host : r \in relays})
    <3>1. plans[n] \in [taken : Taken, targets : Seq(U)] BY <1>3, Zenon DEF SoundPlan
    <3> HIDE DEF U, Taken
    <3> QED BY <3>1
  <2> HIDE DEF b, host
  <2>7. host \notin HostsOf(plans[n].targets)
    <3> SUFFICES ASSUME NEW j \in 1..b, host = plans[n].targets[j].relay.host PROVE FALSE
      BY <2>6 DEF HostsOf
    <3>1. targets[j].relay.host = host /\ j \in 1..T /\ j # k BY <2>1, <2>2
    <3> QED BY <2>4, <3>1
  <2> QED BY <2>4, <2>5, <2>7 DEF host
<1>8. ASSUME NEW n \in 1..N
      PROVE  \E part : Stage(D, relays, selectors[n], plans[n - 1].taken, plans[n].taken, part)
  <2> DEFINE plan == plans[n - 1]
             more == plans[n]
             s == selectors[n]
  <2>1. n - 1 \in 0..N /\ n \in 0..N BY <1>1
  <2>2. PICK kept, added : Takes(plan, more, s, d, relays, kept, added) BY <1>4
  <2>3. s.count \in Nat BY <1>1
  <2>4. /\ Len(plan.targets) \in Nat /\ Len(more.targets) <= T
        /\ \A k \in 1..Len(more.targets) : more.targets[k] = targets[k]
    BY <1>4, <2>1 DEF Begins, T
  <2>5. \A k \in 1..Len(plan.targets) : plan.targets[k].relay.host \in plan.taken
    BY <1>6, <2>1
  <2>6. \A k \in (Len(more.targets) + 1)..T : targets[k].relay.host \notin more.taken
    BY <1>7, <2>1
  <2> HIDE DEF plan, more, s
  <2>7. \E part : Stage(D, relays, s, plan.taken, more.taken, part)
    BY <1>5, <2>2, <2>3, <2>4, <2>5, <2>6, TakesAStage
  <2> QED BY <2>7 DEF plan, more, s
<1> DEFINE taken == [n \in 0..N |-> plans[n].taken]
           parts == [n \in 1..N |->
                       CHOOSE part : Stage(D, relays, selectors[n], taken[n - 1], taken[n], part)]
<1>9. \A n \in 1..N : Stage(D, relays, selectors[n], taken[n - 1], taken[n], parts[n])
  <2> SUFFICES ASSUME NEW n \in 1..N
               PROVE  Stage(D, relays, selectors[n], taken[n - 1], taken[n], parts[n])
    OBVIOUS
  <2>1. taken[n - 1] = plans[n - 1].taken /\ taken[n] = plans[n].taken BY <1>1
  <2> HIDE DEF taken
  <2>2. \E part : Stage(D, relays, selectors[n], taken[n - 1], taken[n], part) BY <1>8, <2>1
  <2> QED BY <2>2
<1>10. taken[0] = {} BY <1>1, <1>3
<1> HIDE DEF taken, parts
<1>11. Staged(D, relays, selectors, taken, parts) BY <1>9, <1>10 DEF Staged, N
<1> QED BY <1>11

\* Where the places are, a selector takes them again, and adds no relay.
LEMMA StageAgain ==
  ASSUME NEW d, NEW n \in Nat, DOMAIN d = 1..n, NEW s, s.count \in Nat, NEW relays,
         NEW plan, NEW after, NEW part, Stage(d, relays, s, plan.taken, after, part),
         NEW more, NEW kept, NEW added, Takes(plan, more, s, d, relays, kept, added)
  PROVE  more.taken = after /\ Len(added) = 0
<1> DEFINE existing == Unreserved(plan, s, d)
           open == {i \in DOMAIN d : d[i].host \notin plan.taken /\ Matches(s, d[i])}
<1>1. open = existing BY DEF Unreserved
<1>2. existing \in SUBSET Nat /\ IsFiniteSet(existing) /\ Cardinality(existing) \in Nat
  BY UnreservedFacts
<1>3. /\ part \subseteq existing
      /\ after = plan.taken \cup {d[i].host : i \in part}
      /\ \/ s.count # All /\ AreFirst(part, existing, s.count)
         \/ /\ part = existing /\ (s.count = All \/ Cardinality(part) <= s.count)
            /\ \A r \in ActiveMatches(s, relays) : r.host \in after
  BY <1>1, Zenon DEF Stage
<1>4. /\ kept \in SUBSET existing /\ Len(added) \in Nat
      /\ more.taken = plan.taken \cup {d[i].host : i \in kept}
                                 \cup {added[k].host : k \in 1..Len(added)}
      /\ \A k \in 1..Len(added) : /\ added[k] \in ActiveMatches(s, relays)
                                  /\ added[k].host \notin plan.taken \cup {d[i].host : i \in kept}
  BY DEF Takes
<1>5. \/ s.count # All /\ AreFirst(kept, existing, s.count) /\ Len(added) = 0
      \/ kept = existing /\ (s.count = All \/ Cardinality(kept) + Len(added) <= s.count)
  <2>1. \/ s.count # All /\ AreFirst(kept, existing, s.count) /\ Len(added) = 0
        \/ s.count # All /\ kept = existing /\ Cardinality(kept) + Len(added) = s.count
        \/ /\ kept = existing
           /\ s.count = All \/ Cardinality(kept) + Len(added) <= s.count
           /\ \A r \in ActiveMatches(s, relays) : r.host \in more.taken
    BY Zenon DEF Takes
  <2> HIDE DEF existing
  <2>2. CASE s.count # All /\ AreFirst(kept, existing, s.count) /\ Len(added) = 0 BY <2>2
  <2>3. CASE s.count # All /\ kept = existing /\ Cardinality(kept) + Len(added) = s.count
    BY <2>3
  <2>4. CASE kept = existing /\ (s.count = All \/ Cardinality(kept) + Len(added) <= s.count)
    BY <2>4
  <2> QED BY <2>1, <2>2, <2>3, <2>4
<1> HIDE DEF existing, open
<1>6. CASE s.count # All /\ AreFirst(part, existing, s.count)
  <2>1. CASE AreFirst(kept, existing, s.count) /\ Len(added) = 0
    <3>1. kept = FirstOf(existing, s.count) /\ part = FirstOf(existing, s.count)
      BY <1>2, <1>6, <2>1, FirstOfIs
    <3> QED BY <1>3, <1>4, <2>1, <3>1
  <2>2. CASE kept = existing /\ Cardinality(kept) + Len(added) <= s.count
    <3>1. Cardinality(part) = s.count /\ part \in SUBSET existing BY <1>6 DEF AreFirst
    <3>2. Cardinality(part) <= Cardinality(existing) BY <1>2, <3>1, FS_Subset
    <3>3. Len(added) = 0 /\ Cardinality(part) = Cardinality(existing)
      BY <1>2, <1>4, <2>2, <3>1, <3>2
    <3>4. part = existing BY <1>2, <3>1, <3>3, FS_Subset
    <3> QED BY <1>3, <1>4, <2>2, <3>3, <3>4
  <2> QED BY <1>5, <1>6, <2>1, <2>2
<1>7. CASE /\ part = existing /\ (s.count = All \/ Cardinality(part) <= s.count)
           /\ \A r \in ActiveMatches(s, relays) : r.host \in after
  <2>1. kept = existing
    <3>1. CASE s.count # All /\ AreFirst(kept, existing, s.count)
      <4>1. kept = FirstOf(existing, s.count) BY <1>2, <3>1, FirstOfIs
      <4>2. FirstOf(existing, s.count) = existing BY <1>2, <1>7, <3>1, FirstOfFew
      <4> QED BY <4>1, <4>2
    <3> QED BY <1>5, <3>1
  <2>2. \A k \in 1..Len(added) : FALSE BY <1>3, <1>4, <1>7, <2>1
  <2>3. Len(added) = 0 BY <1>4, <2>2
  <2> QED BY <1>3, <1>4, <1>7, <2>1, <2>3
<1> QED BY <1>3, <1>6, <1>7

LEMMA StagedAddNothing ==
  ASSUME NEW relays, Listed(relays), NEW routes, IsList(routes),
         NEW selectors, CountedSelectors(selectors), NEW taken, NEW parts,
         Staged(Described(routes, relays), relays, selectors, taken, parts)
  PROVE  PlanTargets(selectors, routes, relays) = <<>>
<1> DEFINE N == Len(selectors)
           d == Described(routes, relays)
<1>1. /\ N \in Nat /\ AreSelectors(selectors) /\ \A n \in 1..N : selectors[n].count \in Nat
  BY DEF CountedSelectors, AreSelectors, IsList
<1>2. DOMAIN d = 1..Len(routes) /\ Len(routes) \in Nat BY DEF IsList, Described
<1>3. PICK plans : PlannedBy(plans, selectors, routes, relays) BY <1>1, PlanUnfolds
<1>4. /\ plans[0].taken = {} /\ Len(plans[0].targets) = 0
      /\ PlanTargets(selectors, routes, relays) = plans[N].targets
      /\ \A n \in 0..N : SoundPlan(plans[n], routes, relays, selectors)
  BY <1>3 DEF PlannedBy
<1>5. \A n \in 1..N : \E kept, added :
        Takes(plans[n - 1], plans[n], selectors[n], d, relays, kept, added)
  BY <1>3, PlansGrow
<1>6. /\ taken[0] = {}
      /\ \A n \in 1..N : Stage(d, relays, selectors[n], taken[n - 1], taken[n], parts[n])
  BY DEF Staged
<1> HIDE DEF N, d
<1> DEFINE S == {n \in 0..N : plans[n].taken = taken[n] /\ Len(plans[n].targets) = 0}
<1>7. 0 \in S
  <2>1. 0 \in 0..N /\ plans[0].taken = taken[0] BY <1>1, <1>4, <1>6
  <2> QED BY <1>4, <2>1
<1>8. ASSUME NEW n \in 1..N, n - 1 \in S PROVE n \in S
  <2> DEFINE plan == plans[n - 1]
             more == plans[n]
             s == selectors[n]
  <2>1. PICK kept, added : Takes(plan, more, s, d, relays, kept, added) BY <1>5
  <2>2. plan.taken = taken[n - 1] /\ Len(plan.targets) = 0 BY <1>8
  <2>3. Stage(d, relays, s, plan.taken, taken[n], parts[n]) BY <1>6, <2>2
  <2>4. s.count \in Nat BY <1>1
  <2> HIDE DEF plan, more, s
  <2>5. more.taken = taken[n] /\ Len(added) = 0 BY <1>2, <2>1, <2>3, <2>4, StageAgain
  <2>6. Len(more.targets) = 0 BY <2>1, <2>2, <2>5 DEF Takes
  <2> QED BY <1>1, <2>5, <2>6 DEF more
<1> HIDE DEF S
<1>9. N \in S
  <2>1. \A n \in 0..N : n \in S BY <1>1, <1>7, <1>8, UpTo
  <2> QED BY <1>1, <2>1
<1>10. Len(plans[N].targets) = 0 BY <1>9 DEF S
<1>11. plans[N].targets = <<>>
  <2> DEFINE U == [relay : relays, selector : {selectors[i] : i \in DOMAIN selectors}]
             Taken == SUBSET (ExitsOf(routes) \cup {r.host : r \in relays})
  <2>1. SoundPlan(plans[N], routes, relays, selectors) BY <1>1, <1>4
  <2>2. plans[N] \in [taken : Taken, targets : Seq(U)] BY <2>1, Zenon DEF SoundPlan
  <2> HIDE DEF U, Taken
  <2>3. plans[N].targets \in Seq(U) BY <2>2
  <2> QED BY <1>10, <2>3
<1> QED BY <1>4, <1>11

-----------------------------------------------------------------------------
(* What is exported.  A selector takes routes that nobody before it took: the  *)
(* places it was planned for are among them.                                   *)

\* The routes that the first n selectors export.
Free(s, d, out) == {i \in DOMAIN d \ out : Matches(s, d[i])}
Wants(s) == IF s.count = Uncounted THEN All ELSE s.count

ExportsAs(out, selectors, routes, relays) ==
  /\ out[0] = {}
  /\ \A n \in 1..Len(selectors) :
       out[n] = out[n - 1] \cup FirstOf(Free(selectors[n], Described(routes, relays), out[n - 1]),
                                        Wants(selectors[n]))
  /\ ExportedBy(selectors, routes, relays) = [n \in DOMAIN selectors |-> out[n] \ out[n - 1]]

LEMMA ExportUnfolds ==
  ASSUME NEW routes, NEW relays, NEW selectors, Len(selectors) \in Nat
  PROVE  \E out : ExportsAs(out, selectors, routes, relays)
<1> DEFINE N == Len(selectors)
           d == Described(routes, relays)
           More(n, out) == out \cup FirstOf({i \in DOMAIN routes \ out : Matches(selectors[n], d[i])},
                                            Wants(selectors[n]))
           none == {}
           V == [n \in 0..N |-> SUBSET DOMAIN routes]
           step == [n \in 1..N |-> [out \in V[n - 1] |-> More(n, out)]]
           Body(f) == [n \in 0..N |-> IF n = 0 THEN none ELSE More(n, f[n - 1])]
           out == CHOOSE f : f = Body(f)
<1>1. N \in Nat OBVIOUS
<1>2. DOMAIN d = DOMAIN routes BY DEF Described
<1>3. \A n, o : o \subseteq DOMAIN routes => More(n, o) \subseteq DOMAIN routes BY DEF FirstOf
<1>4. \A n, o : More(n, o) = o \cup FirstOf(Free(selectors[n], d, o), Wants(selectors[n]))
  BY <1>2 DEF Free
<1> HIDE DEF N, d, More
<1>5. /\ \A n \in 1..N : \A o \in V[n - 1] : step[n][o] \in V[n]
      /\ \A n \in 1..N : \A o \in V[n - 1] : step[n][o] = More(n, o)
      /\ none \in V[0]
  BY <1>1, <1>3
<1> HIDE DEF step, V, More, none
<1>6. \E f : f = Body(f)
  <2>1. PICK f : Follows(f, V, N, none, step)
    <3>1. Leads(V, N, none, step) BY <1>1, <1>5 DEF Leads
    <3> QED BY <3>1, Recursion
  <2> DEFINE g == [n \in 0..N |-> f[n]]
  <2>2. \A n \in 1..N : step[n][f[n - 1]] = More(n, f[n - 1])
    <3>1. SUFFICES ASSUME NEW n \in 1..N PROVE step[n][f[n - 1]] = More(n, f[n - 1]) OBVIOUS
    <3>2. n - 1 \in 0..N BY <1>1
    <3>3. f[n - 1] \in V[n - 1] BY <2>1, <3>2 DEF Follows
    <3> QED BY <1>5, <3>3
  <2>3. g = Body(g) BY <1>1, <2>1, <2>2 DEF Follows
  <2> HIDE DEF g, Body
  <2> QED BY <2>3
<1>7. out = Body(out) BY <1>6
<1>8. ExportedBy(selectors, routes, relays) = [n \in DOMAIN selectors |-> out[n] \ out[n - 1]]
  BY Zenon DEF ExportedBy, Wants, More, none, out, d, N
<1> HIDE DEF out
<1>9. out[0] = none /\ \A n \in 1..N : out[n] = More(n, out[n - 1]) BY <1>1, <1>7
<1>10. ExportsAs(out, selectors, routes, relays) BY <1>4, <1>8, <1>9 DEF ExportsAs, none, N, d
<1> QED BY <1>10

\* What a selector exports goes through relays that it or one before took, and is as
\* much as it counts, if relays it matches are left.
LEMMA StageExports ==
  ASSUME NEW d, NEW n \in Nat, DOMAIN d = 1..n, NEW s, s.count \in Nat, s.count # Uncounted,
         NEW relays, NEW before, NEW after, NEW part, Stage(d, relays, s, before, after, part),
         NEW out, \A x \in out : d[x].host \in before
  PROVE  LET first == FirstOf(Free(s, d, out), Wants(s))
         IN /\ \A x \in first : x \notin out /\ d[x].host \in after
            /\ \/ Cardinality(first) = s.count
               \/ \A r \in ActiveMatches(s, relays) : r.host \in after
<1> DEFINE open == {i \in DOMAIN d : d[i].host \notin before /\ Matches(s, d[i])}
           free == Free(s, d, out)
           first == FirstOf(free, s.count)
<1>1. /\ part \subseteq open
      /\ after = before \cup {d[i].host : i \in part}
      /\ \/ s.count # All /\ AreFirst(part, open, s.count)
         \/ /\ part = open /\ (s.count = All \/ Cardinality(part) <= s.count)
            /\ \A r \in ActiveMatches(s, relays) : r.host \in after
  BY Zenon DEF Stage
<1>2. free = {i \in 1..n \ out : Matches(s, d[i])} BY DEF Free
<1>3. free \in SUBSET Nat /\ IsFiniteSet(free) /\ Cardinality(free) \in Nat
  <2>1. free \in SUBSET (1..n) BY <1>2
  <2>2. IsFiniteSet(1..n) BY FS_Interval
  <2>3. IsFiniteSet(free) /\ Cardinality(free) \in Nat
    BY <2>1, <2>2, FS_Subset, FS_CardinalityType
  <2> HIDE DEF free
  <2>4. \A i \in free : i \in Nat BY <2>1
  <2> QED BY <2>3, <2>4
<1>4. part \in SUBSET free BY <1>1, <1>2
<1>5. Wants(s) = s.count BY DEF Wants
<1>6. first \in SUBSET free BY DEF FirstOf
<1> HIDE DEF first
<1>7. \A x \in first : x \notin out /\ (d[x].host \in before \/ x \in open) BY <1>2, <1>6
<1> HIDE DEF free, open
<1>8. CASE /\ part = open
           /\ \A r \in ActiveMatches(s, relays) : r.host \in after
  <2>1. \A x \in first : x \notin out /\ d[x].host \in after BY <1>1, <1>7, <1>8
  <2> QED BY <1>5, <1>8, <2>1 DEF first, free
<1>9. CASE AreFirst(part, open, s.count)
  <2>1. IsFiniteSet(part) /\ Cardinality(part) = s.count BY <1>9 DEF AreFirst
  <2>2. Cardinality(free) >= s.count
    <3>1. Cardinality(part) <= Cardinality(free) BY <1>3, <1>4, FS_Subset
    <3> QED BY <1>3, <2>1, <3>1
  <2>3. AreFirst(first, free, s.count) BY <1>3, <2>2, FirstOfMany DEF first
  <2>4. IsFiniteSet(first) /\ Cardinality(first) = s.count BY <2>3 DEF AreFirst
  <2>5. ASSUME NEW x \in first, x \in open, x \notin part PROVE FALSE
    <3>1. \A y \in part : y < x BY <1>9, <2>5 DEF AreFirst
    <3>2. \A y \in part : y \in Nat /\ x \in Nat BY <1>3, <1>4, <1>6
    <3>3. \A y \in part : y \in first
      <4>1. \A y \in part : y \notin first => x < y BY <1>4, <2>3 DEF AreFirst
      <4> QED BY <3>1, <3>2, <4>1
    <3>4. part \in SUBSET first BY <3>3
    <3>5. part = first BY <2>1, <2>4, <3>4, FS_Subset
    <3> QED BY <2>5, <3>5
  <2>6. \A x \in first : x \notin out /\ d[x].host \in after BY <1>1, <1>7, <2>5
  <2> QED BY <1>5, <2>4, <2>6 DEF first, free
<1> QED BY <1>1, <1>8, <1>9

\* A selector exports as much as it counts, or every relay it matches has a route.
Met(selectors, routes, relays) ==
  \A n \in DOMAIN selectors :
    \/ Cardinality(ExportedBy(selectors, routes, relays)[n]) = selectors[n].count
    \/ \A x \in ActiveMatches(selectors[n], relays) : x.host \in ExitsOf(routes)

LEMMA StagedAreMet ==
  ASSUME NEW relays, Listed(relays), NEW routes, IsList(routes),
         NEW selectors, CountedSelectors(selectors), NEW taken, NEW parts,
         Staged(Described(routes, relays), relays, selectors, taken, parts)
  PROVE  Met(selectors, routes, relays)
<1> DEFINE N == Len(selectors)
           d == Described(routes, relays)
           Exits == ExitsOf(routes)
           First(n, o) == FirstOf(Free(selectors[n], d, o), Wants(selectors[n]))
<1>1. /\ N \in Nat /\ DOMAIN selectors = 1..N
      /\ \A n \in 1..N : selectors[n].count \in Nat /\ selectors[n].count # Uncounted
  BY DEF CountedSelectors, AreSelectors, IsList
<1>2. /\ DOMAIN d = 1..Len(routes) /\ Len(routes) \in Nat
      /\ DOMAIN routes = 1..Len(routes)
  BY DEF IsList, Described
<1>3. \A i \in 1..Len(routes) : d[i].host \in Exits BY <1>2, DescribedByRelay DEF ExitsOf
<1>4. PICK out : ExportsAs(out, selectors, routes, relays) BY <1>1, ExportUnfolds
<1>5. /\ out[0] = {}
      /\ \A n \in 1..N : out[n] = out[n - 1] \cup First(n, out[n - 1])
      /\ ExportedBy(selectors, routes, relays) = [n \in 1..N |-> out[n] \ out[n - 1]]
  BY <1>1, <1>4 DEF ExportsAs
<1>6. /\ taken[0] = {}
      /\ \A n \in 1..N : Stage(d, relays, selectors[n], taken[n - 1], taken[n], parts[n])
  BY DEF Staged
<1> HIDE DEF N, d, Exits
<1>7. \A n \in 1..N : /\ taken[n - 1] \subseteq taken[n]
                      /\ taken[n - 1] \subseteq Exits => taken[n] \subseteq Exits
  <2> TAKE n \in 1..N
  <2>1. /\ parts[n] \subseteq 1..Len(routes)
        /\ taken[n] = taken[n - 1] \cup {d[i].host : i \in parts[n]}
    BY <1>2, <1>6, Zenon DEF Stage
  <2> QED BY <1>3, <2>1
<1>8. ASSUME NEW n \in 1..N, \A x \in out[n - 1] : d[x].host \in taken[n - 1]
      PROVE  /\ \A x \in First(n, out[n - 1]) : x \notin out[n - 1] /\ d[x].host \in taken[n]
             /\ \/ Cardinality(First(n, out[n - 1])) = selectors[n].count
                \/ \A r \in ActiveMatches(selectors[n], relays) : r.host \in taken[n]
  <2> DEFINE s == selectors[n]
             o == out[n - 1]
             before == taken[n - 1]
             after == taken[n]
             part == parts[n]
             first == FirstOf(Free(s, d, o), Wants(s))
  <2>1. s.count \in Nat /\ s.count # Uncounted /\ Stage(d, relays, s, before, after, part)
    BY <1>1, <1>6
  <2>2. \A x \in o : d[x].host \in before BY <1>8
  <2>3. first = First(n, out[n - 1]) OBVIOUS
  <2> HIDE DEF s, o, before, after, part, First
  <2>4. /\ \A x \in first : x \notin o /\ d[x].host \in after
        /\ \/ Cardinality(first) = s.count
           \/ \A r \in ActiveMatches(s, relays) : r.host \in after
    BY <1>2, <2>1, <2>2, StageExports
  <2> HIDE DEF first
  <2> QED BY <2>3, <2>4 DEF s, o, after
<1> HIDE DEF First
<1> DEFINE S == {n \in 0..N : taken[n] \subseteq Exits /\ \A x \in out[n] : d[x].host \in taken[n]}
<1>9. 0 \in S
  <2>1. 0 \in 0..N /\ out[0] = {} /\ taken[0] = {} BY <1>1, <1>5, <1>6
  <2> QED BY <2>1
<1>10. ASSUME NEW n \in 1..N, n - 1 \in S PROVE n \in S
  <2>1. /\ taken[n - 1] \subseteq Exits /\ n \in 0..N
        /\ \A x \in out[n - 1] : d[x].host \in taken[n - 1]
    BY <1>1, <1>10
  <2>2. \A x \in First(n, out[n - 1]) : d[x].host \in taken[n] BY <1>8, <2>1
  <2>3. \A x \in out[n] : d[x].host \in taken[n] BY <1>5, <1>7, <2>1, <2>2
  <2> QED BY <1>7, <2>1, <2>3
<1> HIDE DEF S
<1>11. \A n \in 0..N : n \in S BY <1>1, <1>9, <1>10, UpTo
<1>12. ASSUME NEW n \in 1..N
       PROVE  \/ Cardinality(ExportedBy(selectors, routes, relays)[n]) = selectors[n].count
              \/ \A x \in ActiveMatches(selectors[n], relays) : x.host \in Exits
  <2>1. n \in 0..N /\ n - 1 \in 0..N BY <1>1
  <2>2. n \in S /\ n - 1 \in S BY <1>11, <2>1
  <2>3. taken[n] \subseteq Exits /\ \A x \in out[n - 1] : d[x].host \in taken[n - 1]
    BY <2>2 DEF S
  <2>4. /\ \A x \in First(n, out[n - 1]) : x \notin out[n - 1]
        /\ \/ Cardinality(First(n, out[n - 1])) = selectors[n].count
           \/ \A r \in ActiveMatches(selectors[n], relays) : r.host \in taken[n]
    BY <1>8, <2>3
  <2>5. ExportedBy(selectors, routes, relays)[n] = First(n, out[n - 1]) BY <1>5, <2>4
  <2> QED BY <2>3, <2>4, <2>5
<1> QED BY <1>1, <1>12 DEF Met, Exits

-----------------------------------------------------------------------------
(* The routes an export leaves are those its selectors were planned for.       *)

LEMMA RoutesForetold ==
  ASSUME NEW c, Typed(c), NEW relays \in Catalogs, NEW selectors, NEW targets,
         SoundTargets(targets, c.routes, relays, selectors)
  PROVE  LET routes == WithRoutes(c, targets).routes
         IN /\ IsList(routes)
            /\ Foretells(Described(routes, relays), Described(c.routes, relays),
                         Len(c.routes), Len(targets), targets, relays)
<1> DEFINE T == Len(targets)
           L == Len(c.routes)
           more == AddedRoutes(c, targets)
           m == [c EXCEPT !.routes = @ \o more]
           n == Normal(m)
           old == c.routes
           routes == n.routes
           d == Described(old, relays)
           D == Described(routes, relays)
<1>1. WithRoutes(c, targets) = n BY DEF WithRoutes
<1>2. Listed(relays) BY CatalogsAreListed
<1>3. /\ T \in Nat /\ DOMAIN targets = 1..T
      /\ \A k \in 1..T : targets[k].relay \in relays
  BY TargetsFacts
<1>4. \A k \in 1..T : targets[k].relay.active BY DEF SoundTargets, SoundPlan
<1>5. /\ IsList(more) /\ Len(more) = T
      /\ \A k \in 1..T : more[k] = [f \in RouteFields |-> more[k][f]]
      /\ \A k \in 1..T : more[k].exit = targets[k].relay.host
  <2>1. AreRoutes(more, c, targets, LabelsOf(targets), AddedIps(c, T)) BY <1>3, AddedFacts
  <2> HIDE DEF more
  <2> QED BY <2>1 DEF AreRoutes
<1> HIDE DEF more, T
<1>6. Longer(m, c, more, T) BY <1>3, <1>5, Lengthened
<1> HIDE DEF m
<1>7. /\ Typed(m) /\ L \in Nat /\ DOMAIN old = 1..L /\ DOMAIN m.routes = 1..(L + T)
      /\ \A i \in 1..L : m.routes[i] = old[i]
      /\ \A k \in 1..T : m.routes[L + k] = more[k]
  BY <1>6, Zenon DEF Longer
<1>8. Typed(n) /\ Alike(m, n) BY <1>7, NormalKeeps
<1> HIDE DEF n, L
<1>9. IsList(routes) BY <1>8, Zenon DEF Typed
<1>10. /\ DOMAIN routes = 1..(L + T)
       /\ \A i \in 1..(L + T) : /\ routes[i].exit = m.routes[i].exit
                                /\ routes[i].country = m.routes[i].country
                                /\ routes[i].city = m.routes[i].city
                                /\ routes[i].providers = m.routes[i].providers
  BY <1>7, <1>8 DEF Alike, RouteFields
<1> HIDE DEF routes, old
<1>11. DOMAIN d = 1..L /\ DOMAIN D = 1..(L + T) BY <1>7, <1>10 DEF Described
<1>12. ASSUME NEW i \in 1..L PROVE D[i] = d[i]
  <2>1. i \in 1..(L + T) BY <1>3, <1>7
  <2>2. /\ routes[i].exit = old[i].exit /\ routes[i].country = old[i].country
        /\ routes[i].city = old[i].city /\ routes[i].providers = old[i].providers
    BY <1>7, <1>10, <2>1
  <2>3. Forgotten(routes[i]) = Forgotten(old[i]) BY <2>2 DEF Forgotten
  <2> DEFINE Entry(x) ==
               LET known == {r \in relays : r.host = x.exit}
               IN IF known = {} THEN Forgotten(x) ELSE AsEntry(CHOOSE r \in known : TRUE)
  <2>4. d = [j \in DOMAIN old |-> Entry(old[j])] /\ D = [j \in DOMAIN routes |-> Entry(routes[j])]
    BY DEF Described
  <2>5. Entry(routes[i]) = Entry(old[i]) BY <2>2, <2>3
  <2> HIDE DEF Entry, d, D
  <2> QED BY <1>7, <1>10, <2>1, <2>4, <2>5
<1>13. ASSUME NEW k \in 1..T PROVE D[L + k] = AsEntry(targets[k].relay)
  <2>1. L + k \in DOMAIN routes BY <1>3, <1>7, <1>10
  <2>2. L + k \in 1..(L + T) BY <1>3, <1>7
  <2>3. routes[L + k].exit = targets[k].relay.host BY <1>5, <1>7, <1>10, <2>2
  <2> HIDE DEF D
  <2> QED BY <1>2, <1>3, <2>1, <2>3, DescribedByRelay DEF D
<1>14. Foretells(D, d, L, T, targets, relays)
  BY <1>3, <1>4, <1>7, <1>11, <1>12, <1>13 DEF Foretells
<1> QED BY <1>1, <1>9, <1>14 DEF routes, old, L, T

\* Where an export leaves routes, its counts are met, and it would add no more.
Settles(selectors, routes, relays) ==
  (\A n \in DOMAIN selectors : selectors[n].count # Uncounted) =>
    Met(selectors, routes, relays) /\ PlanTargets(selectors, routes, relays) = <<>>

LEMMA StagedSettles ==
  ASSUME NEW relays, Listed(relays), NEW routes, IsList(routes), NEW selectors, AreSelectors(selectors),
         NEW old, IsList(old), NEW targets, targets = PlanTargets(selectors, old, relays),
         Foretells(Described(routes, relays), Described(old, relays),
                   Len(old), Len(targets), targets, relays)
  PROVE  Settles(selectors, routes, relays)
<1> SUFFICES ASSUME CountedSelectors(selectors)
             PROVE  Met(selectors, routes, relays) /\ PlanTargets(selectors, routes, relays) = <<>>
  BY DEF Settles, CountedSelectors
<1> DEFINE D == Described(routes, relays)
<1>1. PICK taken, parts : Staged(D, relays, selectors, taken, parts)
  <2> HIDE DEF D
  <2>1. Foretells(D, Described(old, relays), Len(old), Len(targets), targets, relays) BY DEF D
  <2> QED BY <2>1, PlanStages
<1> QED BY <1>1, StagedAreMet, StagedAddNothing

LEMMA PlanSettles ==
  ASSUME NEW c, Good(c), NEW relays \in Catalogs, NEW selectors, AreSelectors(selectors)
  PROVE  LET targets == PlanTargets(selectors, c.routes, relays)
         IN /\ targets = <<>> => Settles(selectors, c.routes, relays)
            /\ Settles(selectors, WithRoutes(c, targets).routes, relays)
<1> DEFINE old == c.routes
           targets == PlanTargets(selectors, old, relays)
           more == WithRoutes(c, targets).routes
           d == Described(old, relays)
<1>1. Typed(c) /\ IsList(old) /\ Listed(relays)
  BY CatalogsAreListed, Zenon DEF Good, Typed
<1> HIDE DEF old
<1>2. SoundTargets(targets, old, relays, selectors) BY <1>1, PlanIsSound
<1>3. ASSUME targets = <<>> PROVE Settles(selectors, old, relays)
  <2>1. DOMAIN d = 1..Len(old) /\ Len(old) \in Nat BY <1>1 DEF IsList, Described
  <2>2. Len(targets) = 0 BY <1>3
  <2> HIDE DEF d, targets
  <2>3. Foretells(d, d, Len(old), Len(targets), targets, relays)
    BY <2>1, <2>2 DEF Foretells
  <2> QED BY <1>1, <2>3, StagedSettles DEF d, targets
<1>4. Settles(selectors, more, relays)
  <2> HIDE DEF targets
  <2>1. /\ IsList(more)
        /\ Foretells(Described(more, relays), Described(old, relays),
                     Len(old), Len(targets), targets, relays)
    BY <1>1, <1>2, RoutesForetold DEF old
  <2> HIDE DEF more
  <2>2. targets = PlanTargets(selectors, old, relays) BY DEF targets
  <2> QED BY <1>1, <2>1, <2>2, StagedSettles
<1> QED BY <1>3, <1>4 DEF old

-----------------------------------------------------------------------------
(* What is held once routes are planned, to the end of the export, settles.    *)

Planned(r) == r.pc \in {"save", "render", "deliver"} \/ (r.pc = "idle" /\ r.outcome = "exported")
RunSettled(r) == Planned(r) => Settles(r.selectors, r.held.routes, r.relays)
AllSettled == \A p \in Procs : RunSettled(run[p])

\* A process that ends short of an export has nothing to settle.
LEMMA EndSettles ==
  ASSUME Inv, NEW p \in Procs, NEW outcome, End(p, outcome),
         outcome \notin Succeeds \/ Settles(run[p].selectors, run[p].held.routes, run[p].relays)
  PROVE  RunSettled(run'[p])
<1> DEFINE r == run[p]
           s == run'[p]
<1>1. DOMAIN r = RunFields BY DEF Inv, RunGood
<1>2. s = Ended(r, outcome) BY DEF End, Inv
<1> HIDE DEF r, s
<1>3. CASE outcome \in Succeeds
  <2>1. s = [r EXCEPT !.pc = "idle", !.outcome = outcome] BY <1>2, <1>3 DEF Ended
  <2>2. s.selectors = r.selectors /\ s.held = r.held /\ s.relays = r.relays
    BY <1>1, <2>1 DEF RunFields
  <2> QED BY <1>3, <2>2 DEF RunSettled, r, s
<1>4. CASE outcome \notin Succeeds
  <2>1. s = [Idle EXCEPT !.outcome = outcome] BY <1>2, <1>4 DEF Ended
  <2>2. s.pc = "idle" /\ s.outcome = outcome BY <2>1, IdleFacts DEF RunFields
  <2> QED BY <1>4, <2>2 DEF RunSettled, Planned, Succeeds, s
<1> QED BY <1>3, <1>4

LEMMA BeginSettles == ASSUME Inv, NEW p \in Procs, Begin(p) PROVE RunSettled(run'[p])
<1>1. PICK ask \in Asks[p] :
        LET parsed == ParseSelectors(ask.tokens)
            r == [Idle EXCEPT !.ask = ask, !.held = config, !.selectors = parsed.selectors]
        IN run' = [run EXCEPT ![p] =
             CASE ask.kind \in {"access", "set"} -> [r EXCEPT !.pc = "edit"]
               [] ~parsed.ok -> Ended(r, "selectors")
               [] ask.kind = "recommend" /\ ask.tokens = <<>> -> Ended(r, "selectors")
               [] OTHER -> [r EXCEPT !.pc = "catalog"]]
  BY DEF Begin
<1> DEFINE parsed == ParseSelectors(ask.tokens)
           r == [Idle EXCEPT !.ask = ask, !.held = config, !.selectors = parsed.selectors]
           s == run'[p]
           t == CASE ask.kind \in {"access", "set"} -> [r EXCEPT !.pc = "edit"]
                  [] ~parsed.ok -> Ended(r, "selectors")
                  [] ask.kind = "recommend" /\ ask.tokens = <<>> -> Ended(r, "selectors")
                  [] OTHER -> [r EXCEPT !.pc = "catalog"]
<1>2. s = t BY <1>1 DEF Inv
<1>3. t \in {[r EXCEPT !.pc = "edit"], Ended(r, "selectors"), [r EXCEPT !.pc = "catalog"]}
  <2> HIDE DEF r, parsed
  <2> QED OBVIOUS
<1>4. DOMAIN r = RunFields BY IdleFacts DEF RunFields
<1> HIDE DEF r, s, t
<1>5. \/ s.pc = "edit" \/ s.pc = "catalog"
      \/ s.pc = "idle" /\ s.outcome = "selectors"
  <2>1. [r EXCEPT !.pc = "edit"].pc = "edit" /\ [r EXCEPT !.pc = "catalog"].pc = "catalog"
    BY <1>4 DEF RunFields
  <2>2. Ended(r, "selectors").pc = "idle" /\ Ended(r, "selectors").outcome = "selectors"
    BY IdleFacts DEF Ended, Succeeds, RunFields
  <2> QED BY <1>2, <1>3, <2>1, <2>2
<1>6. RunSettled(s) BY <1>5 DEF RunSettled, Planned
<1> QED BY <1>6 DEF s

LEMMA LoadCatalogSettles == ASSUME Inv, NEW p \in Procs, LoadCatalog(p) PROVE RunSettled(run'[p])
<1>1. PICK relays \in Catalogs \cup {Nothing} :
        LET r == [run[p] EXCEPT !.relays = relays]
            verdict == ResolveVerdict(r.selectors, r.held.routes, relays)
            coded == [r EXCEPT !.selectors = ResolveSelectors(@, r.held.routes, relays)]
        IN run' = [run EXCEPT ![p] =
             CASE relays = Nothing -> Ended(@, "relays")
               [] relays # Nothing /\ r.ask.write = "conflict" -> Ended(@, "mode")
               [] relays # Nothing /\ r.ask.write # "conflict" /\ r.ask.guided ->
                    [r EXCEPT !.pc = "prompts"]
               [] relays # Nothing /\ r.ask.write # "conflict" /\ ~r.ask.guided /\ verdict # "ok" ->
                    Ended(r, verdict)
               [] OTHER -> [coded EXCEPT !.pc = IF r.ask.kind = "recommend" THEN "probe" ELSE "plan"]]
  BY DEF LoadCatalog
<1> DEFINE r == [run[p] EXCEPT !.relays = relays]
           verdict == ResolveVerdict(r.selectors, r.held.routes, relays)
           coded == [r EXCEPT !.selectors = ResolveSelectors(r.selectors, r.held.routes, relays)]
           next == IF r.ask.kind = "recommend" THEN "probe" ELSE "plan"
           prompts == [r EXCEPT !.pc = "prompts"]
           on == [coded EXCEPT !.pc = next]
           s == run'[p]
           t == CASE relays = Nothing -> Ended(run[p], "relays")
                  [] relays # Nothing /\ r.ask.write = "conflict" -> Ended(run[p], "mode")
                  [] relays # Nothing /\ r.ask.write # "conflict" /\ r.ask.guided -> prompts
                  [] relays # Nothing /\ r.ask.write # "conflict" /\ ~r.ask.guided /\ verdict # "ok" ->
                       Ended(r, verdict)
                  [] OTHER -> on
<1>2. run' = [run EXCEPT ![p] = t] BY <1>1
<1>3. s = t BY <1>2 DEF Inv
<1>4. DOMAIN run[p] = RunFields BY DEF Inv, RunGood
<1>5. DOMAIN r = RunFields BY <1>4 DEF RunFields
<1> HIDE DEF r
<1>6. prompts.pc = "prompts" /\ on.pc = next BY <1>5 DEF RunFields
<1>7. next \in {"probe", "plan"} OBVIOUS
<1>8. verdict \notin Succeeds BY RefusalsAreNoSuccess
<1> HIDE DEF prompts, on, verdict, coded, next
<1>9. t \in {Ended(run[p], "relays"), Ended(run[p], "mode"), Ended(r, verdict), prompts, on}
  OBVIOUS
<1> HIDE DEF t, s
<1>10. \A o : o \notin Succeeds =>
         \A q : Ended(q, o).pc = "idle" /\ Ended(q, o).outcome = o
  BY IdleFacts DEF Ended, RunFields
<1>11. \/ s.pc \in {"prompts", "probe", "plan"}
       \/ s.pc = "idle" /\ s.outcome \notin Succeeds
  <2>1. "relays" \notin Succeeds /\ "mode" \notin Succeeds BY DEF Succeeds
  <2> QED BY <1>3, <1>6, <1>7, <1>8, <1>9, <1>10, <2>1
<1>12. RunSettled(s) BY <1>11 DEF RunSettled, Planned, Succeeds
<1> QED BY <1>12 DEF s

\* A plan settles what it leaves.
LEMMA PlanStepSettles == ASSUME Inv, NEW p \in Procs, Plan(p) PROVE RunSettled(run'[p])
<1> DEFINE r == run[p]
           c == r.held
           targets == PlanTargets(r.selectors, c.routes, r.relays)
           verdict == TargetsVerdict(c, targets, r.relays)
           w == WithRoutes(c, targets)
           pc == IF r.ask.write = "dry-run" THEN "deliver" ELSE "save"
           s == run'[p]
<1>1. /\ DOMAIN r = RunFields /\ Good(c) /\ r.relays \in Catalogs /\ AreSelectors(r.selectors)
  BY DEF Inv, RunGood, Plan, At
<1>2. /\ targets = <<>> => Settles(r.selectors, c.routes, r.relays)
      /\ Settles(r.selectors, w.routes, r.relays)
  <2> DEFINE selectors == r.selectors
             relays == r.relays
  <2> HIDE DEF c, selectors, relays
  <2>1. /\ PlanTargets(selectors, c.routes, relays) = <<>> => Settles(selectors, c.routes, relays)
        /\ Settles(selectors, WithRoutes(c, PlanTargets(selectors, c.routes, relays)).routes, relays)
    BY <1>1, PlanSettles DEF selectors, relays
  <2> QED BY <2>1 DEF selectors, relays
<1>3. IF targets = <<>> THEN run' = [run EXCEPT ![p].pc = "deliver"]
      ELSE IF verdict # "ok" THEN End(p, verdict)
      ELSE run' = [run EXCEPT ![p].held = w, ![p].pc = pc]
  BY DEF Plan
<1>4. verdict \notin Succeeds BY RefusalsAreNoSuccess
<1> HIDE DEF targets, verdict, w, pc, c
<1>5. CASE targets = <<>>
  <2>1. s = [r EXCEPT !.pc = "deliver"] BY <1>3, <1>5 DEF Inv
  <2> HIDE DEF s, r
  <2>2. s.selectors = r.selectors /\ s.held = r.held /\ s.relays = r.relays
    BY <1>1, <2>1 DEF RunFields
  <2>3. RunSettled(s) BY <1>2, <1>5, <2>2 DEF RunSettled, c
  <2> QED BY <2>3 DEF s
<1>6. CASE targets # <<>> /\ verdict # "ok" BY <1>3, <1>4, <1>6, EndSettles
<1>7. CASE targets # <<>> /\ verdict = "ok"
  <2>1. s = [r EXCEPT !.held = w, !.pc = pc] BY <1>3, <1>7 DEF Inv
  <2> HIDE DEF s, r
  <2>2. s.selectors = r.selectors /\ s.held = w /\ s.relays = r.relays
    BY <1>1, <2>1 DEF RunFields
  <2>3. RunSettled(s) BY <1>2, <2>2 DEF RunSettled
  <2> QED BY <2>3 DEF s
<1> QED BY <1>5, <1>6, <1>7

LEMMA StepSettles ==
  ASSUME Inv, NEW p \in Procs, RunSettled(run[p]), Begin(p) \/ Step(p) \/ Crash(p)
  PROVE  RunSettled(run'[p])
<1> DEFINE r == run[p]
           s == run'[p]
<1>1. /\ DOMAIN r = RunFields
      /\ Planned(r) => Settles(r.selectors, r.held.routes, r.relays)
  BY DEF Inv, RunGood, RunSettled
<1>2. CASE Begin(p) BY <1>2, BeginSettles
<1>3. CASE EditAccess(p)
  <2> DEFINE verdict == AccessVerdict(r.held, r.ask)
  <2>1. Good(r.held) /\ r.ask \in Asks[p] /\ r.ask.kind = "access"
    BY <1>3 DEF Inv, RunGood, EditAccess, At
  <2>2. NextMode(r.held, r.ask) \in Modes
    <3>1. r.ask.mode \in Modes \cup {""} BY <2>1, AsksAssumption
    <3>2. r.held.mode \in Modes BY <2>1, Zenon DEF Good, Typed
    <3> QED BY <3>1, <3>2 DEF NextMode
  <2>3. verdict \notin Succeeds BY <2>2, RefusalsAreNoSuccess
  <2>4. End(p, "edited") \/ End(p, IF verdict = "ok" THEN "save" ELSE verdict)
    BY <1>3 DEF EditAccess
  <2> HIDE DEF verdict
  <2> QED BY <2>3, <2>4, EndSettles DEF Succeeds
<1>4. CASE EditField(p)
  <2> DEFINE verdict == FieldVerdict(r.ask)
  <2>1. verdict \notin Succeeds BY RefusalsAreNoSuccess
  <2>2. End(p, "edited") \/ End(p, IF verdict = "ok" THEN "save" ELSE verdict)
    BY <1>4 DEF EditField
  <2> HIDE DEF verdict
  <2> QED BY <2>1, <2>2, EndSettles DEF Succeeds
<1>5. CASE LoadCatalog(p) BY <1>5, LoadCatalogSettles
<1>6. CASE Prompts(p)
  <2> DEFINE Writes == IF r.ask.write = "file" THEN {"file", "stdout", "dry-run"} ELSE {r.ask.write}
             Protocols == IF r.ask.protocol = "ask" THEN {"socks5", "https"} ELSE {r.ask.protocol}
  <2>1. CASE End(p, "cancelled") BY <2>1, EndSettles DEF Succeeds
  <2>2. ASSUME NEW chosen, NEW write, NEW protocol,
               run' = [run EXCEPT ![p].pc = "plan", ![p].selectors = chosen,
                                  ![p].ask.write = write, ![p].ask.protocol = protocol]
        PROVE  RunSettled(s)
    <3>1. s = [r EXCEPT !.pc = "plan", !.selectors = chosen,
                        !.ask.write = write, !.ask.protocol = protocol]
      BY <2>2 DEF Inv
    <3> HIDE DEF s, r
    <3>2. s.pc = "plan" BY <1>1, <3>1 DEF RunFields
    <3> QED BY <3>2 DEF RunSettled, Planned
  <2>3. CASE \E chosen \in CollectedSelectors(r), write \in Writes, protocol \in Protocols :
               run' = [run EXCEPT ![p].pc = "plan", ![p].selectors = chosen,
                                  ![p].ask.write = write, ![p].ask.protocol = protocol]
    <3>1. PICK chosen \in CollectedSelectors(r), write \in Writes, protocol \in Protocols :
                 run' = [run EXCEPT ![p].pc = "plan", ![p].selectors = chosen,
                                    ![p].ask.write = write, ![p].ask.protocol = protocol]
      BY <2>3
    <3> QED BY <2>2, <3>1
  <2>4. \/ End(p, "cancelled")
        \/ \E chosen \in CollectedSelectors(r), write \in Writes, protocol \in Protocols :
             run' = [run EXCEPT ![p].pc = "plan", ![p].selectors = chosen,
                                ![p].ask.write = write, ![p].ask.protocol = protocol]
    BY <1>6, Zenon DEF Prompts
  <2> QED BY <2>1, <2>3, <2>4
<1>7. CASE Probe(p)
  <2>1. PICK latency \in Latencies :
          LET made == Recommend(r.selectors, r.relays, latency)
          IN IF ~made.ok THEN End(p, "no relay")
             ELSE run' = [run EXCEPT ![p].pc = "plan", ![p].recommended = made.chosen,
                            ![p].selectors = [k \in DOMAIN made.chosen |-> Pinned(made.chosen[k])]]
    BY <1>7, Zenon DEF Probe
  <2> DEFINE made == Recommend(r.selectors, r.relays, latency)
             pins == [k \in DOMAIN made.chosen |-> Pinned(made.chosen[k])]
  <2>2. CASE ~made.ok
    <3>1. End(p, "no relay") BY <2>1, <2>2, Zenon
    <3> QED BY <3>1, EndSettles DEF Succeeds
  <2>3. CASE made.ok
    <3>1. run' = [run EXCEPT ![p].pc = "plan", ![p].recommended = made.chosen,
                             ![p].selectors = pins]
      BY <2>1, <2>3, Zenon
    <3> HIDE DEF made, pins
    <3>2. s = [r EXCEPT !.pc = "plan", !.recommended = made.chosen, !.selectors = pins]
      BY <3>1 DEF Inv
    <3> HIDE DEF s, r
    <3>3. s.pc = "plan" BY <1>1, <3>2 DEF RunFields
    <3> QED BY <3>3 DEF RunSettled, Planned, s
  <2> QED BY <2>2, <2>3
<1>8. CASE Plan(p) BY <1>8, PlanStepSettles
<1>9. CASE SaveRoutes(p)
  <2>1. Planned(r) BY <1>9 DEF SaveRoutes, At, Planned
  <2>2. CASE run' = [run EXCEPT ![p].pc = "render"]
    <3>1. s = [r EXCEPT !.pc = "render"] BY <2>2 DEF Inv
    <3> HIDE DEF s, r
    <3>2. s.selectors = r.selectors /\ s.held = r.held /\ s.relays = r.relays
      BY <1>1, <3>1 DEF RunFields
    <3>3. RunSettled(s) BY <1>1, <2>1, <3>2 DEF RunSettled
    <3> QED BY <3>3 DEF s
  <2>3. CASE End(p, "save") BY <2>3, EndSettles DEF Succeeds
  <2> QED BY <1>9, <2>2, <2>3 DEF SaveRoutes
<1>10. CASE RenderRoutes(p)
  <2>1. Planned(r) /\ Good(r.held) BY <1>10 DEF RenderRoutes, At, Planned, Inv, RunGood
  <2> DEFINE new == WithStatus(r.held, "validated")
  <2>2. new.routes = r.held.routes BY <2>1, StatusGood
  <2> HIDE DEF new
  <2>3. CASE run' = [run EXCEPT ![p].pc = "deliver", ![p].held = new]
    <3>1. s = [r EXCEPT !.pc = "deliver", !.held = new] BY <2>3 DEF Inv
    <3> HIDE DEF s, r
    <3>2. s.selectors = r.selectors /\ s.held = new /\ s.relays = r.relays
      BY <1>1, <3>1 DEF RunFields
    <3>3. RunSettled(s) BY <1>1, <2>1, <2>2, <3>2 DEF RunSettled
    <3> QED BY <3>3 DEF s
  <2>4. CASE End(p, "render") \/ End(p, "final save") \/ End(p, "validation")
    BY <2>4, EndSettles DEF Succeeds
  <2> QED BY <1>10, <2>3, <2>4, Zenon DEF RenderRoutes, new
<1>11. CASE Deliver(p)
  <2>1. Planned(r) BY <1>11 DEF Deliver, At, Planned
  <2>2. PICK outcome : End(p, outcome) BY <1>11 DEF Deliver
  <2> QED BY <1>1, <2>1, <2>2, EndSettles
<1>12. CASE Crash(p)
  <2>1. End(p, "crashed") BY <1>12 DEF Crash
  <2> QED BY <2>1, EndSettles DEF Succeeds
<1> QED BY <1>2, <1>3, <1>4, <1>5, <1>6, <1>7, <1>8, <1>9, <1>10, <1>11, <1>12 DEF Step

LEMMA SettledHolds == Spec => []AllSettled
<1>1. Init => AllSettled BY IdleFacts DEF Init, AllSettled, RunSettled, Planned
<1>2. Inv /\ AllSettled /\ [Next]_vars => AllSettled'
  <2> SUFFICES ASSUME Inv, AllSettled, [Next]_vars, NEW p \in Procs PROVE RunSettled(run'[p])
    BY DEF AllSettled
  <2>1. RunSettled(run[p]) BY DEF AllSettled
  <2>2. CASE Next
    <3>1. PICK q \in Procs : Begin(q) \/ Step(q) \/ Crash(q) BY <2>2 DEF Next
    <3>2. CASE q = p BY <2>1, <3>1, <3>2, StepSettles
    <3>3. CASE q # p
      <4>1. Tame(q) BY <3>1, StepIsTame
      <4>2. run'[p] = run[p] BY <3>3, <4>1, InvKept DEF Tame
      <4> QED BY <2>1, <4>2
    <3> QED BY <3>2, <3>3
  <2>3. CASE UNCHANGED vars BY <2>1, <2>3 DEF vars
  <2> QED BY <2>2, <2>3
<1> QED BY <1>1, <1>2, InvHolds, PTL DEF Spec

-----------------------------------------------------------------------------
(* What every behaviour keeps.                                              *)

\* Whatever commands overlap, crash or are refused, a configuration that is saved or
\* held is whole and has a route, and a command is at one of its steps
\* (src/commands/proxy.ts, config.ts, recommend.ts).
THEOREM RoutesTypes == Spec => []TypeOK
<1>1. Inv => TypeOK BY DEF Inv, RunGood, Good, TypeOK
<1> QED BY <1>1, InvHolds, PTL

\* The addresses and names that are saved were made for the mode, the access and
\* the domain they are saved with, though commands overwrite one another and only
\* `config set` looks at a field alone (updateExposureConfig and
\* ensureProxyExportRoutes).
THEOREM PostureKept == Spec => []PostureHolds
<1>1. Inv => PostureHolds BY DEF Inv, Good, PostureHolds
<1> QED BY <1>1, InvHolds, PTL

\* No two saved routes share an id or an alias, as long as two numbers are never
\* written alike: normalizeMullgateConfig renames ids, and an alias is a host that no
\* route goes through.
THEOREM NamesApart == ASSUME NumeralsDiffer PROVE Spec => []NamesStandApart
<1>1. Inv => NamesStandApart
  BY DEF Inv, Good, Identified, AliasesDiffer, IdsDiffer, NamesStandApart, StandApart
<1> QED BY <1>1, InvHolds, PTL

\* A recommendation that was applied left a route through every relay it
\* recommended (src/commands/recommend.ts).
THEOREM AppliedReached == Spec => []AppliedIsRecommended
<1>1. Inv => AppliedIsRecommended
  BY DEF Inv, RunGood, AppliedIsRecommended, At, AllReached
<1> QED BY <1>1, InvHolds, PTL

\* No edit, in whatever order fields are set, makes a configuration that HTTPS can
\* be started from one that it cannot (src/commands/config.ts, set).
THEOREM HttpsKeptStartable == Spec => HttpsStaysStartable
<1> DEFINE A == \A p \in Procs : run[p].pc = "edit" /\ run'[p].pc = "idle" /\ config' # config =>
                  (Startable(run[p].held.https) => Startable(config'.https))
<1>1. Inv /\ [Next]_vars => [A]_vars
  <2> SUFFICES ASSUME Inv, Next, NEW p \in Procs, run[p].pc = "edit", run'[p].pc = "idle",
                      config' # config
               PROVE  Startable(run[p].held.https) => Startable(config'.https)
    BY DEF vars
  <2>1. PICK q \in Procs : Begin(q) \/ Step(q) \/ Crash(q) BY DEF Next
  <2>2. Tame(q) BY <2>1, StepIsTame
  <2>3. q = p
    <3>1. \A o \in Procs : o # q => run'[o] = run[o] BY <2>2, InvKept DEF Tame
    <3>2. run'[p] # run[p] OBVIOUS
    <3> QED BY <3>1, <3>2
  <2> QED BY <2>2, <2>3 DEF Tame
<1> QED BY <1>1, InvHolds, PTL DEF Spec, HttpsStaysStartable

\* An export or a recommendation holds every route it loaded, at its place, and
\* adds routes only through relays that have none, as long as two numbers are
\* never written alike (ensureProxyExportRoutes).
THEOREM ExportsAdd == ASSUME NumeralsDiffer PROVE Spec => ExportsOnlyAdd
<1> DEFINE A == \A p \in Procs : run[p].pc = "plan" /\ run'[p].pc \in {"save", "deliver"} =>
                  HoldsOnlyMore(run[p].held.routes, run'[p].held.routes)
<1>1. Inv /\ [Next]_vars => [A]_vars
  <2> SUFFICES ASSUME Inv, Next, NEW p \in Procs, run[p].pc = "plan",
                      run'[p].pc \in {"save", "deliver"}
               PROVE  HoldsOnlyMore(run[p].held.routes, run'[p].held.routes)
    BY DEF vars
  <2>1. PICK q \in Procs : Begin(q) \/ Step(q) \/ Crash(q) BY DEF Next
  <2>2. Tame(q) BY <2>1, StepIsTame
  <2>3. q = p
    <3>1. \A o \in Procs : o # q => run'[o] = run[o] BY <2>2, InvKept DEF Tame
    <3>2. run'[p] # run[p] OBVIOUS
    <3> QED BY <3>1, <3>2
  <2> QED BY <2>2, <2>3 DEF Tame
<1> QED BY <1>1, InvHolds, PTL DEF Spec, ExportsOnlyAdd

\* An export whose selectors all have counts delivers as many routes as each counts,
\* or every active relay that the selector matches has a route: what is planned from
\* relays (planProxyExportRelayTargets) and what is exported from routes
\* (buildProxyExportPlan) agree, whatever the selectors, the routes and the catalog.
THEOREM CountsMet == Spec => []CountsAreMet
<1>1. AllSettled => CountsAreMet
  <2> SUFFICES ASSUME AllSettled, NEW p \in Procs, Delivered(p), Counted(p)
               PROVE  Met(run[p].selectors, run[p].held.routes, run[p].relays)
    BY Zenon DEF CountsAreMet, Met
  <2> QED BY DEF AllSettled, RunSettled, Planned, Settles, Delivered, Counted, At
<1> QED BY <1>1, SettledHolds, PTL

\* The same export again, from the same catalog, adds no route: each of its selectors
\* finds the places it took (ensureProxyExportRoutes).
THEOREM AgainNothing == Spec => []AgainAddsNothing
<1>1. AllSettled => AgainAddsNothing
  BY DEF AllSettled, RunSettled, Planned, Settles, Delivered, Counted, At, AgainAddsNothing
<1> QED BY <1>1, SettledHolds, PTL
=============================================================================
