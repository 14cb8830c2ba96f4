------------------------- MODULE BanditPolicyProofs -------------------------
(***************************************************************************)
(* What BanditPolicy promises of its arms, of epsilon and of the greedy    *)
(* choice, for any number of queries, contexts, models and restarts.       *)
(*                                                                         *)
(* ArmsAreTheirFeedback is not inductive: that a lesson is added to its    *)
(* arm once needs a pending decision to be one nobody has learned from     *)
(* yet, in memory and in the file that a restart comes back to (Awaiting). *)
(*                                                                         *)
(* What a sum over a set, or epsilon after n updates, is for every input   *)
(* is shown by the least counterexample (LeastOf, SmallestOf).             *)
(***************************************************************************)
EXTENDS BanditPolicy, FiniteSetTheorems, WellFoundedInduction, TLAPS

(* The least of a set of naturals, a set of subsets without a smaller one. *)
LEMMA LeastOf ==
  ASSUME NEW S \in SUBSET Nat, S # {}
  PROVE  \E n \in S : \A k \in S : n <= k
  <1>1. PICK n \in S : \A k \in S : ~(<<k, n>> \in OpToRel(<, Nat))
    BY NatLessThanWellFounded, WFMin
  <1>2. \A k \in S : ~(k < n)
    BY <1>1 DEF OpToRel
  <1> QED BY <1>2

LEMMA SmallestOf ==
  ASSUME NEW S, IsFiniteSet(S), NEW B \in SUBSET (SUBSET S), B # {}
  PROVE  \E b \in B : \A s \in B : ~(s \subseteq b /\ s # b)
  <1>1. IsWellFoundedOn(StrictSubsetOrdering(S), SUBSET S)
    BY FS_StrictSubsetOrderingWellFounded, FS_FiniteSubsetsOfFinite
  <1>2. PICK b \in B : \A s \in B : ~(<<s, b>> \in StrictSubsetOrdering(S))
    BY <1>1, WFMin
  <1> QED BY <1>2 DEF StrictSubsetOrdering

-----------------------------------------------------------------------------
(* The sum of a function over a finite set *)

Added(g, F, s) ==
  IF s = {} THEN 0 ELSE LET x == CHOOSE x \in s : TRUE IN F[x] + g[s \ {x}]

Sums(g, F, S) == g = [s \in SUBSET S |-> Added(g, F, s)]

Integral(F, S) == \A x \in S : F[x] \in Int

Alike(F, G, S) == \A x \in S : F[x] = G[x]

LEMMA SumIs ==
  ASSUME NEW F, NEW S
  PROVE  SumFunctionOnSet(F, S) = (CHOOSE g : Sums(g, F, S))[S]
  BY DEF SumFunctionOnSet, FoldFunctionOnSet, MapThenFoldSet, Sums, Added

(* The recursion has a solution: sets of up to n elements, one n at a time. *)
LEMMA SumsExist ==
  ASSUME NEW S, IsFiniteSet(S), NEW F, Integral(F, S)
  PROVE  \E g \in [SUBSET S -> Int] : Sums(g, F, S)
  <1> DEFINE Upto(g, n) ==
               \A s \in SUBSET S : Cardinality(s) <= n => g[s] = Added(g, F, s)
             Bad == {n \in Nat : ~ \E g \in [SUBSET S -> Int] : Upto(g, n)}
  <1>1. \A s \in SUBSET S :
          /\ IsFiniteSet(s) /\ Cardinality(s) \in Nat
          /\ Cardinality(s) <= Cardinality(S) /\ Cardinality(S) \in Nat
          /\ Cardinality(s) = 0 <=> s = {}
    BY FS_Subset, FS_CardinalityType, FS_EmptySet
  <1>2. \A g \in [SUBSET S -> Int], s \in SUBSET S : Added(g, F, s) \in Int
    <2> SUFFICES ASSUME NEW g \in [SUBSET S -> Int], NEW s \in SUBSET S
                 PROVE  Added(g, F, s) \in Int
      OBVIOUS
    <2>1. CASE s = {}
      BY <2>1 DEF Added
    <2>2. CASE s # {}
      <3>1. (CHOOSE x \in s : TRUE) \in S
        BY <2>2
      <3> QED BY <2>2, <3>1 DEF Added, Integral
    <2> QED BY <2>1, <2>2
  <1>3. 0 \notin Bad
    <2> DEFINE g == [s \in SUBSET S |-> 0]
    <2>1. g \in [SUBSET S -> Int]
      OBVIOUS
    <2>2. Upto(g, 0)
      <3> SUFFICES ASSUME NEW s \in SUBSET S, Cardinality(s) <= 0
                   PROVE  g[s] = Added(g, F, s)
        OBVIOUS
      <3>1. s = {}
        BY <1>1
      <3> QED BY <3>1 DEF Added
    <2> QED BY <2>1, <2>2
  <1>4. ASSUME NEW n \in Nat, n \notin Bad PROVE n + 1 \notin Bad
    <2>1. PICK g \in [SUBSET S -> Int] : Upto(g, n)
      BY <1>4
    <2> DEFINE h == [s \in SUBSET S |-> Added(g, F, s)]
    <2>2. h \in [SUBSET S -> Int]
      BY <1>2
    <2>3. ASSUME NEW s \in SUBSET S, Cardinality(s) <= n + 1
          PROVE  h[s] = Added(h, F, s)
      <3> DEFINE x == CHOOSE z \in s : TRUE
      <3>1. CASE s = {}
        BY <3>1 DEF Added
      <3>2. CASE s # {}
        <4>1. x \in s /\ s \ {x} \in SUBSET S
          BY <3>2
        <4>2. Cardinality(s \ {x}) <= n
          BY <1>1, <2>3, <4>1, FS_RemoveElement
        <4>3. h[s \ {x}] = g[s \ {x}]
          BY <2>1, <4>1, <4>2
        <4> QED BY <3>2, <4>3 DEF Added
      <3> QED BY <3>1, <3>2
    <2> QED BY <2>2, <2>3
  <1>5. Bad = {}
    <2> SUFFICES ASSUME Bad # {} PROVE FALSE
      OBVIOUS
    <2>1. Bad \in SUBSET Nat
      OBVIOUS
    <2> HIDE DEF Bad
    <2>2. PICK n \in Bad : \A k \in Bad : n <= k
      BY <2>1, LeastOf
    <2>3. n \in Nat /\ n # 0
      BY <1>3, <2>1, <2>2
    <2>4. n - 1 \in Nat /\ n - 1 \notin Bad
      BY <2>1, <2>2, <2>3
    <2>5. n - 1 + 1 \notin Bad
      BY <1>4, <2>4
    <2> QED BY <2>2, <2>3, <2>5
  <1>6. PICK g \in [SUBSET S -> Int] : Upto(g, Cardinality(S))
    BY <1>1, <1>5
  <1>7. g = [s \in SUBSET S |-> Added(g, F, s)]
    BY <1>1, <1>6
  <1> QED BY <1>7 DEF Sums

(* It has one solution, which for a set depends on the values there only. *)
Same(g, h, S) == \A s \in SUBSET S : g[s] = h[s]

LEMMA SumsAgree ==
  ASSUME NEW S, IsFiniteSet(S), NEW T, S \subseteq T, NEW F, NEW G, NEW g, NEW h,
         Sums(g, F, S), Sums(h, G, T), Alike(F, G, S)
  PROVE  Same(g, h, S)
  <1> DEFINE B == {s \in SUBSET S : g[s] # h[s]}
  <1> SUFFICES ASSUME B # {} PROVE FALSE
    BY DEF Same
  <1>1. PICK b \in B : \A s \in B : ~(s \subseteq b /\ s # b)
    <2> HIDE DEF B
    <2>1. B \in SUBSET (SUBSET S)
      BY DEF B
    <2> QED BY <2>1, SmallestOf
  <1> DEFINE x == CHOOSE z \in b : TRUE
  <1>2. g[b] = Added(g, F, b) /\ h[b] = Added(h, G, b)
    BY DEF Sums
  <1>3. b # {}
    BY <1>2 DEF Added
  <1>4. x \in b /\ b \ {x} \in SUBSET S
    BY <1>3
  <1>5. g[b \ {x}] = h[b \ {x}]
    BY <1>1, <1>4
  <1>6. F[x] = G[x]
    BY <1>4 DEF Alike
  <1>7. Added(g, F, b) = Added(h, G, b)
    BY <1>3, <1>5, <1>6 DEF Added
  <1> QED BY <1>2, <1>7

Table(g, S) == g \in [SUBSET S -> Int]

Tells(g, F, S) == \A s \in SUBSET S : SumFunctionOnSet(F, s) = g[s]

LEMMA SumSolved ==
  ASSUME NEW S, IsFiniteSet(S), NEW F, Integral(F, S)
  PROVE  \E g : Table(g, S) /\ Sums(g, F, S) /\ Tells(g, F, S)
  <1>1. PICK g : Table(g, S) /\ Sums(g, F, S)
    BY SumsExist DEF Table
  <1>2. ASSUME NEW s \in SUBSET S PROVE SumFunctionOnSet(F, s) = g[s]
    <2>1. IsFiniteSet(s) /\ Integral(F, s)
      BY FS_Subset DEF Integral
    <2> DEFINE f == CHOOSE q : Sums(q, F, s)
    <2>2. \E q : Sums(q, F, s)
      BY <2>1, SumsExist
    <2>3. Sums(f, F, s)
      BY <2>2
    <2>4. SumFunctionOnSet(F, s) = f[s]
      BY SumIs
    <2> HIDE DEF f
    <2>5. s \subseteq S /\ Alike(F, F, s)
      BY DEF Alike
    <2>6. Same(f, g, s)
      BY <1>1, <2>1, <2>3, <2>5, SumsAgree
    <2>7. f[s] = g[s]
      BY <2>6 DEF Same
    <2> QED BY <2>4, <2>7
  <1> QED BY <1>1, <1>2 DEF Tells

LEMMA SumEmpty == ASSUME NEW F PROVE SumFunctionOnSet(F, {}) = 0
  <1>1. Integral(F, {})
    BY DEF Integral
  <1>2. PICK g : Table(g, {}) /\ Sums(g, F, {}) /\ Tells(g, F, {})
    BY <1>1, SumSolved, FS_EmptySet
  <1> QED BY <1>2 DEF Sums, Added, Tells

LEMMA Swapped ==
  ASSUME NEW x \in Int, NEW y \in Int, NEW c \in Int
  PROVE  x + (y + c) = y + (x + c)
  OBVIOUS

(* Whichever element is taken out first, the sum is the same.              *)
LEMMA SumRemove ==
  ASSUME NEW S, IsFiniteSet(S), NEW F, Integral(F, S), NEW e \in S
  PROVE  /\ SumFunctionOnSet(F, S) = F[e] + SumFunctionOnSet(F, S \ {e})
         /\ SumFunctionOnSet(F, S \ {e}) \in Int
         /\ SumFunctionOnSet(F, S) \in Int
  <1>1. PICK g : Table(g, S) /\ Sums(g, F, S) /\ Tells(g, F, S)
    BY SumSolved
  <1> DEFINE B == {s \in SUBSET S : \E x \in s : g[s] # F[x] + g[s \ {x}]}
  <1>2. B = {}
    <2> SUFFICES ASSUME B # {} PROVE FALSE
      OBVIOUS
    <2>1. PICK b \in B : \A s \in B : ~(s \subseteq b /\ s # b)
      <3> HIDE DEF B
      <3>1. B \in SUBSET (SUBSET S)
        BY DEF B
      <3> QED BY <3>1, SmallestOf
    <2>2. PICK x \in b : g[b] # F[x] + g[b \ {x}]
      OBVIOUS
    <2> DEFINE y == CHOOSE z \in b : TRUE
    <2>3. /\ y \in b /\ x \in b /\ b \in SUBSET S
          /\ \A z \in b : b \ {z} \notin B
      <3>1. y \in b
        BY <2>2
      <3>2. \A z \in b : b \ {z} \subseteq b /\ b \ {z} # b
        OBVIOUS
      <3> HIDE DEF B
      <3>3. \A z \in b : b \ {z} \notin B
        BY <2>1, <3>2
      <3> USE DEF B
      <3> QED BY <2>1, <2>2, <3>1, <3>3
    <2>4. g[b] = F[y] + g[b \ {y}]
      BY <1>1, <2>3 DEF Sums, Added
    <2> HIDE DEF y
    <2>5. x # y
      BY <2>2, <2>4
    <2>6. g[b \ {y}] = F[x] + g[(b \ {y}) \ {x}]
      <3>1. x \in b \ {y} /\ b \ {y} \in SUBSET S /\ b \ {y} \notin B
        BY <2>3, <2>5
      <3> QED BY <3>1
    <2>7. g[b \ {x}] = F[y] + g[(b \ {x}) \ {y}]
      <3>1. y \in b \ {x} /\ b \ {x} \in SUBSET S /\ b \ {x} \notin B
        BY <2>3, <2>5
      <3> QED BY <3>1
    <2>8. (b \ {y}) \ {x} = (b \ {x}) \ {y}
      OBVIOUS
    <2> DEFINE c == g[(b \ {x}) \ {y}]
    <2>9. F[x] \in Int /\ F[y] \in Int /\ c \in Int
      <3>1. (b \ {x}) \ {y} \in SUBSET S
        BY <2>3
      <3> QED BY <1>1, <2>3, <3>1 DEF Integral, Table
    <2>10. g[b] = F[y] + (F[x] + c) /\ g[b \ {x}] = F[y] + c
      BY <2>4, <2>6, <2>7, <2>8
    <2> HIDE DEF c
    <2>11. F[y] + (F[x] + c) = F[x] + (F[y] + c)
      BY <2>9, Swapped
    <2> QED BY <2>2, <2>10, <2>11
  <1>3. S \in SUBSET S /\ S \ {e} \in SUBSET S
    OBVIOUS
  <1>4. g[S] = F[e] + g[S \ {e}]
    BY <1>2, <1>3
  <1>5. g[S] \in Int /\ g[S \ {e}] \in Int
    BY <1>1, <1>3 DEF Table
  <1> QED BY <1>1, <1>3, <1>4, <1>5 DEF Tells

LEMMA SumSame ==
  ASSUME NEW S, IsFiniteSet(S), NEW F, NEW G,
         Integral(F, S), Alike(F, G, S)
  PROVE  SumFunctionOnSet(F, S) = SumFunctionOnSet(G, S)
  <1>1. PICK g : Table(g, S) /\ Sums(g, F, S) /\ Tells(g, F, S)
    BY SumSolved
  <1>2. PICK h : Table(h, S) /\ Sums(h, G, S) /\ Tells(h, G, S)
    <2>1. Integral(G, S)
      BY DEF Integral, Alike
    <2> QED BY <2>1, SumSolved
  <1>3. Same(g, h, S)
    BY <1>1, <1>2, SumsAgree
  <1> QED BY <1>1, <1>2, <1>3 DEF Same, Tells

(* A sum of what is not negative is not; of what is negative, it is.       *)
LEMMA SumSign ==
  ASSUME NEW S, IsFiniteSet(S), NEW F, Integral(F, S)
  PROVE  /\ (\A x \in S : F[x] >= 0) => SumFunctionOnSet(F, S) >= 0
         /\ S # {} /\ (\A x \in S : F[x] < 0) => SumFunctionOnSet(F, S) < 0
  <1> DEFINE Sum(s) == SumFunctionOnSet(F, s)
             B == {s \in SUBSET S :
                     ~ /\ (\A x \in s : F[x] >= 0) => Sum(s) >= 0
                       /\ (\A x \in s : F[x] < 0) => IF s = {} THEN Sum(s) = 0 ELSE Sum(s) < 0}
  <1>1. B = {}
    <2> SUFFICES ASSUME B # {} PROVE FALSE
      OBVIOUS
    <2>1. PICK b \in B : \A s \in B : ~(s \subseteq b /\ s # b)
      <3> HIDE DEF B
      <3>1. B \in SUBSET (SUBSET S)
        BY DEF B
      <3> QED BY <3>1, SmallestOf
    <2>2. b # {}
      BY SumEmpty
    <2>3. PICK x \in b : TRUE
      BY <2>2
    <2>4. b \ {x} \in SUBSET S /\ b \ {x} \notin B
      BY <2>1, <2>3
    <2>5. IsFiniteSet(b) /\ Integral(F, b) /\ F[x] \in Int
      BY <2>3, FS_Subset DEF Integral
    <2>6. Sum(b) = F[x] + Sum(b \ {x}) /\ Sum(b) \in Int /\ Sum(b \ {x}) \in Int
      BY <2>3, <2>5, SumRemove
    <2>7. ~ /\ (\A y \in b : F[y] >= 0) => Sum(b) >= 0
            /\ (\A y \in b : F[y] < 0) => Sum(b) < 0
      BY <2>2
    <2>8. /\ (\A y \in b \ {x} : F[y] >= 0) => Sum(b \ {x}) >= 0
          /\ (\A y \in b \ {x} : F[y] < 0) => Sum(b \ {x}) <= 0
      <3>1. /\ (\A y \in b \ {x} : F[y] >= 0) => Sum(b \ {x}) >= 0
            /\ (\A y \in b \ {x} : F[y] < 0) =>
                 IF b \ {x} = {} THEN Sum(b \ {x}) = 0 ELSE Sum(b \ {x}) < 0
        BY <2>4
      <3> QED BY <2>6, <3>1
    <2> HIDE DEF Sum, B
    <2> QED BY <2>5, <2>6, <2>7, <2>8
  <1>2. S \notin B
    BY <1>1
  <1> QED BY <1>2
-----------------------------------------------------------------------------
(* Operators of the policy *)

LEMMA MaxOfTwo ==
  ASSUME NEW x \in Int, NEW y \in Int
  PROVE  Max({x, y}) = IF x >= y THEN x ELSE y
  <1> DEFINE m == IF x >= y THEN x ELSE y
  <1>1. m \in {x, y} /\ m \in Int /\ m >= x /\ m >= y
    OBVIOUS
  <1>2. \A z \in {x, y} : z >= x /\ z >= y => z = m
    OBVIOUS
  <1> QED BY <1>1, <1>2 DEF Max

LEMMA MinOfTwo ==
  ASSUME NEW x \in Int, NEW y \in Int
  PROVE  Min({x, y}) = IF x <= y THEN x ELSE y
  <1> DEFINE m == IF x <= y THEN x ELSE y
  <1>1. m \in {x, y} /\ m \in Int /\ m <= x /\ m <= y
    OBVIOUS
  <1>2. \A z \in {x, y} : z <= x /\ z <= y => z = m
    OBVIOUS
  <1> QED BY <1>1, <1>2 DEF Min

LEMMA RewardIs ==
  ASSUME NEW score \in Scores, NEW latency \in Latencies
  PROVE  /\ Reward(score, latency) \in Int
         /\ LatencyCap >= 0 =>
              Reward(score, latency) =
                score * 10 - IF latency <= LatencyCap THEN latency ELSE LatencyCap
  <1>1. latency \in Nat /\ LatencyCap \in Int /\ score \in Int
    BY PolicyAssumption DEF Scores
  <1>2. Max({LatencyCap, 0}) = IF LatencyCap >= 0 THEN LatencyCap ELSE 0
    BY <1>1, MaxOfTwo
  <1> DEFINE cap == Max({LatencyCap, 0})
  <1>3. cap \in Int
    BY <1>1, <1>2
  <1> HIDE DEF cap
  <1>4. Min({latency, cap}) = IF latency <= cap THEN latency ELSE cap
    BY <1>1, <1>3, MinOfTwo
  <1>5. Reward(score, latency) = score * 10 - IF latency <= cap THEN latency ELSE cap
    BY <1>4 DEF Reward, cap
  <1>6. CASE score = 0
    BY <1>1, <1>2, <1>3, <1>5, <1>6 DEF cap
  <1>7. CASE score = 1
    BY <1>1, <1>2, <1>3, <1>5, <1>7 DEF cap
  <1> QED BY <1>6, <1>7 DEF Scores

LEMMA DecayedType ==
  ASSUME NEW e \in 0 .. Certain PROVE Decayed(e) \in 0 .. Certain
  <1>1. Decay(e) \in 0 .. e /\ EpsilonMin \in 0 .. Certain /\ Certain \in Nat
    BY PolicyAssumption
  <1> QED BY <1>1, MaxOfTwo DEF Decayed

(* EpsilonAfter obeys its recursion. *)
LEMMA EpsilonSteps ==
  /\ EpsilonAfter[0] = RlEpsilon
  /\ \A n \in 0 .. Cardinality(Txns) :
       n + 1 <= Cardinality(Txns) => EpsilonAfter[n + 1] = Decayed(EpsilonAfter[n])
  <1> DEFINE After(g, n) ==
               [k \in 0 .. n |-> IF k = 0 THEN RlEpsilon ELSE Decayed(g[k - 1])]
             Bad == {n \in Nat : ~ \E g : g = After(g, n)}
  <1>1. 0 \notin Bad
    <2> DEFINE g == [k \in 0 .. 0 |-> RlEpsilon]
    <2>1. g = After(g, 0)
      OBVIOUS
    <2> QED BY <2>1
  <1>2. ASSUME NEW n \in Nat, n \notin Bad PROVE n + 1 \notin Bad
    <2>1. PICK g : g = After(g, n)
      BY <1>2
    <2> DEFINE h == [k \in 0 .. n + 1 |->
                       IF k = 0 THEN RlEpsilon ELSE Decayed(g[k - 1])]
    <2>2. \A k \in 0 .. n : h[k] = g[k]
      BY <2>1
    <2>3. \A k \in 0 .. n + 1 : k # 0 => k - 1 \in 0 .. n
      OBVIOUS
    <2>4. h = After(h, n + 1)
      BY <2>2, <2>3
    <2> QED BY <2>4
  <1>3. Bad = {}
    <2> SUFFICES ASSUME Bad # {} PROVE FALSE
      OBVIOUS
    <2>1. Bad \in SUBSET Nat
      OBVIOUS
    <2> HIDE DEF Bad
    <2>2. PICK n \in Bad : \A k \in Bad : n <= k
      BY <2>1, LeastOf
    <2>3. n \in Nat /\ n # 0
      BY <1>1, <2>1, <2>2
    <2>4. n - 1 \in Nat /\ n - 1 \notin Bad
      BY <2>1, <2>2, <2>3
    <2>5. n - 1 + 1 \notin Bad
      BY <1>2, <2>4
    <2> QED BY <2>2, <2>3, <2>5
  <1>4. Cardinality(Txns) \in Nat
    BY PolicyAssumption, FS_CardinalityType
  <1>5. \E g : g = After(g, Cardinality(Txns))
    BY <1>3, <1>4
  <1>6. EpsilonAfter = After(EpsilonAfter, Cardinality(Txns))
    BY <1>5 DEF EpsilonAfter
  <1> QED BY <1>4, <1>6

(* Setting up the arms of a context changes none that were there.          *)
LEMMA KnownSame ==
  ASSUME TypeOK, NEW c \in Contexts, NEW a \in Actions
  PROVE  /\ Known(c) \in [Actions -> Stats \cup {Absent}]
         /\ StatsOf(Known(c)[a]) = StatsOf(arms[c][a])
  <1>1. NewStats \in Stats /\ NewStats # Absent
    BY AbsentAssumption DEF Stats, NewStats
  <1>2. arms[c] \in [Actions -> Stats \cup {Absent}]
    BY DEF TypeOK, Payload, Payloads, Arms
  <1> QED BY <1>1, <1>2 DEF Known, StatsOf

LEMMA StatsOfType ==
  ASSUME NEW s \in Stats \cup {Absent} PROVE StatsOf(s) \in Stats
  BY DEF StatsOf, Stats, NewStats

-----------------------------------------------------------------------------
(* The inductive invariant *)

Lessons == Cardinality(LearnedFrom)

Tallies == [c \in Contexts |-> [a \in Actions |-> TalliesOf(c, a)]]

(* Payload p has n lessons, and of every arm what tallies says.            *)
Told(p, n, tallies) ==
  /\ p.total = n
  /\ \A c \in Contexts, a \in Actions : StatsOf(p.arms[c][a]) = tallies[c][a]

(* Nobody has learned from a pending decision. *)
Awaiting(decisions) ==
  \A t \in Txns : decisions[t] # Absent => stage[t] = "open" /\ learned[t] = Absent

QueriesInOrder ==
  \A t \in Txns :
    /\ stage[t] # "open" => learned[t] = Absent
    /\ stage[t] = "agent" =>
         chosen[t].context \in Contexts /\ chosen[t].action \in Actions

PolicyInv ==
  /\ TypeOK
  /\ QueriesInOrder
  /\ Awaiting(pending)
  /\ Told(Payload, Lessons, Tallies)
  /\ IF file = Absent THEN LearnedFrom = {}
     ELSE Awaiting(file.pending) /\ Told(file, Lessons, Tallies)
  /\ EpsilonFollowsUpdates

-----------------------------------------------------------------------------
(* What is learned *)

LEMMA LearnedType ==
  ASSUME TypeOK
  PROVE  /\ IsFiniteSet(LearnedFrom) /\ Lessons \in Nat
         /\ Lessons <= Cardinality(Txns) /\ Cardinality(Txns) \in Nat
         /\ \A t \in LearnedFrom : learned[t] \in Lesson
         /\ Integral(Rewards, LearnedFrom)
         /\ \A c \in Contexts, a \in Actions :
              FeedbackOn(c, a) \subseteq LearnedFrom /\ IsFiniteSet(FeedbackOn(c, a))
  <1>1. LearnedFrom \subseteq Txns
    BY DEF LearnedFrom
  <1>2. /\ IsFiniteSet(LearnedFrom) /\ Lessons \in Nat
        /\ Lessons <= Cardinality(Txns) /\ Cardinality(Txns) \in Nat
    BY <1>1, PolicyAssumption, FS_Subset, FS_CardinalityType DEF Lessons
  <1>3. \A t \in LearnedFrom : learned[t] \in Lesson
    BY DEF TypeOK, LearnedFrom
  <1>4. Integral(Rewards, LearnedFrom)
    BY <1>3, RewardIs DEF Integral, Rewards, Lesson, Decision
  <1>5. \A c \in Contexts, a \in Actions :
          FeedbackOn(c, a) \subseteq LearnedFrom /\ IsFiniteSet(FeedbackOn(c, a))
    BY <1>2, FS_Subset DEF FeedbackOn
  <1> QED BY <1>2, <1>3, <1>4, <1>5

LEMMA TallyIs ==
  ASSUME NEW c \in Contexts, NEW a \in Actions
  PROVE  Tallies[c][a] =
           [pulls  |-> Cardinality(FeedbackOn(c, a)),
            reward |-> SumFunctionOnSet(Rewards, FeedbackOn(c, a))]
  BY DEF Tallies, TalliesOf

LEMMA NothingLearned ==
  ASSUME LearnedFrom = {}
  PROVE  /\ Lessons = 0
         /\ \A c \in Contexts, a \in Actions : Tallies[c][a] = NewStats
  <1>1. Lessons = 0
    BY FS_EmptySet DEF Lessons
  <1>2. ASSUME NEW c \in Contexts, NEW a \in Actions
        PROVE  Tallies[c][a] = NewStats
    <2>1. FeedbackOn(c, a) = {}
      BY DEF FeedbackOn
    <2> QED BY <2>1, TallyIs, SumEmpty, FS_EmptySet DEF NewStats
  <1> QED BY <1>1, <1>2

LEMMA NoLesson ==
  ASSUME UNCHANGED learned
  PROVE  LearnedFrom' = LearnedFrom /\ Lessons' = Lessons /\ Tallies' = Tallies
  BY DEF LearnedFrom, Lessons, Tallies, TalliesOf, Rewards, FeedbackOn

(* The tallies raised by the reward of one decision. *)
Raised(old, new, d, score) ==
  \A c \in Contexts, a \in Actions :
    new[c][a] =
      IF c = d.context /\ a = d.action
      THEN [pulls  |-> old[c][a].pulls + 1,
            reward |-> old[c][a].reward + Reward(score, d.latency)]
      ELSE old[c][a]

(* A lesson counts once more, and its reward once more, on its arm alone.  *)
LEMMA LessonTold ==
  ASSUME TypeOK, TypeOK', NEW t \in Txns, NEW d \in Decision, NEW score \in Scores,
         learned[t] = Absent,
         learned' = [learned EXCEPT ![t] = [decision |-> d, score |-> score]]
  PROVE  /\ LearnedFrom' = LearnedFrom \cup {t}
         /\ Lessons' = Lessons + 1
         /\ Raised(Tallies, Tallies', d, score)
  <1> DEFINE lesson == [decision |-> d, score |-> score]
  <1>1. lesson \in Lesson /\ lesson # Absent
    BY AbsentAssumption DEF Lesson
  <1>2. learned \in [Txns -> Lesson \cup {Absent}]
    BY DEF TypeOK
  <1>3. learned'[t] = lesson /\ \A u \in Txns : u # t => learned'[u] = learned[u]
    BY <1>2
  <1> HIDE DEF lesson
  <1>4. LearnedFrom' = LearnedFrom \cup {t} /\ t \notin LearnedFrom
    BY <1>1, <1>3 DEF LearnedFrom
  <1>5. Lessons' = Lessons + 1
    BY <1>4, LearnedType, FS_AddElement DEF Lessons
  <1>6. Rewards'[t] = Reward(score, d.latency) /\ Alike(Rewards, Rewards', LearnedFrom)
    <2>1. Rewards'[t] = Reward(lesson.score, lesson.decision.latency)
      BY <1>3, <1>4 DEF Rewards
    <2>2. ASSUME NEW u \in LearnedFrom PROVE Rewards'[u] = Rewards[u]
      <3>1. u \in LearnedFrom' /\ learned'[u] = learned[u]
        BY <1>3, <1>4 DEF LearnedFrom
      <3> QED BY <3>1 DEF Rewards
    <2> QED BY <2>1, <2>2 DEF lesson, Alike
  <1>7. ASSUME NEW c \in Contexts, NEW a \in Actions
        PROVE  Tallies'[c][a] =
                IF c = d.context /\ a = d.action
                THEN [pulls  |-> Tallies[c][a].pulls + 1,
                      reward |-> Tallies[c][a].reward + Reward(score, d.latency)]
                ELSE Tallies[c][a]
    <2> DEFINE S == FeedbackOn(c, a)
               S2 == FeedbackOn(c, a)'
    <2>1. S \subseteq LearnedFrom /\ IsFiniteSet(S) /\ Integral(Rewards, S) /\ t \notin S
      BY <1>4, LearnedType DEF Integral
    <2>2. S2 \subseteq LearnedFrom' /\ IsFiniteSet(S2) /\ Integral(Rewards', S2)
      <3>1. LearnedFrom' \subseteq Txns /\ S2 \subseteq LearnedFrom'
        BY DEF LearnedFrom, FeedbackOn
      <3>2. IsFiniteSet(S2)
        BY <3>1, PolicyAssumption, FS_Subset
      <3>3. \A u \in LearnedFrom' : learned'[u] \in Lesson
        BY DEF TypeOK, LearnedFrom
      <3>4. Integral(Rewards', LearnedFrom')
        BY <3>3, RewardIs DEF Integral, Rewards, Lesson, Decision
      <3> QED BY <3>1, <3>2, <3>4 DEF Integral
    <2>3. S2 = IF c = d.context /\ a = d.action THEN S \cup {t} ELSE S
      BY <1>3, <1>4 DEF FeedbackOn, LearnedFrom, lesson
    <2>4. SumFunctionOnSet(Rewards, S) = SumFunctionOnSet(Rewards', S)
      <3>1. Alike(Rewards, Rewards', S)
        BY <1>6, <2>1 DEF Alike
      <3> QED BY <2>1, <3>1, SumSame
    <2>5. Tallies'[c][a] = [pulls  |-> Cardinality(S2),
                            reward |-> SumFunctionOnSet(Rewards', S2)]
      BY DEF Tallies, TalliesOf
    <2>6. Tallies[c][a] = [pulls  |-> Cardinality(S),
                           reward |-> SumFunctionOnSet(Rewards, S)]
      BY TallyIs
    <2> HIDE DEF S, S2
    <2>7. CASE c = d.context /\ a = d.action
      <3>1. S2 = S \cup {t} /\ t \in S2 /\ S2 \ {t} = S
        BY <2>1, <2>3, <2>7
      <3>2. Cardinality(S2) = Cardinality(S) + 1
        BY <2>1, <3>1, FS_AddElement
      <3>3. /\ SumFunctionOnSet(Rewards', S2) =
                  Rewards'[t] + SumFunctionOnSet(Rewards', S)
            /\ SumFunctionOnSet(Rewards', S) \in Int
        BY <2>2, <3>1, SumRemove
      <3>4. Rewards'[t] \in Int
        BY <2>2, <3>1 DEF Integral
      <3>5. SumFunctionOnSet(Rewards', S2) =
              SumFunctionOnSet(Rewards, S) + Reward(score, d.latency)
        BY <1>6, <2>4, <3>3, <3>4
      <3> QED BY <2>5, <2>6, <2>7, <3>2, <3>5
    <2>8. CASE ~(c = d.context /\ a = d.action)
      BY <2>3, <2>4, <2>5, <2>6, <2>8
    <2> QED BY <2>7, <2>8
  <1> QED BY <1>4, <1>5, <1>7 DEF Raised

-----------------------------------------------------------------------------
(* Each step keeps the invariant. *)

LEMMA MemoryType ==
  ASSUME TypeOK
  PROVE  /\ arms \in Arms /\ epsilon \in 0 .. Certain /\ total \in Nat
         /\ pending \in [Txns -> Decision \cup {Absent}]
         /\ Purged \in [Txns -> Decision \cup {Absent}]
         /\ \A t \in Txns : Purged[t] # Absent => Purged[t] = pending[t]
  BY DEF TypeOK, Payload, Payloads, Purged

LEMMA PurgedAwaiting ==
  ASSUME TypeOK, Awaiting(pending) PROVE Awaiting(Purged)
  BY MemoryType DEF Awaiting

LEMMA InitPolicyInv == Init => PolicyInv
  <1> SUFFICES ASSUME Init PROVE PolicyInv
    OBVIOUS
  <1>1. Payload \in Payloads
    BY PolicyAssumption DEF Init, Payload, Payloads, Arms, NoArms, Nothing
  <1>2. TypeOK
    BY <1>1, PolicyAssumption DEF Init, TypeOK, Nothing
  <1>3. LearnedFrom = {}
    BY DEF Init, LearnedFrom, Nothing
  <1>4. Told(Payload, Lessons, Tallies)
    BY <1>3, NothingLearned DEF Init, Payload, Told, StatsOf, NoArms
  <1>5. QueriesInOrder /\ Awaiting(pending)
    BY DEF Init, QueriesInOrder, Awaiting, Nothing
  <1>6. EpsilonFollowsUpdates
    BY EpsilonSteps DEF Init, EpsilonFollowsUpdates
  <1> QED BY <1>2, <1>3, <1>4, <1>5, <1>6 DEF PolicyInv, Init

LEMMA SelectKeeps ==
  ASSUME PolicyInv, NEW t \in Txns, NEW c \in Contexts, SelectAction(t, c)
  PROVE  PolicyInv'
  <1>1. TypeOK
    BY DEF PolicyInv
  <1>2. /\ Configured \subseteq Actions
        /\ Best(Known(c)) \subseteq Actions
    BY DEF Configured, Best
  <1>3. PICK a \in Actions, by \in {"explore", "exploit"} : Choose(t, c, a, by)
    BY <1>2 DEF SelectAction
  <1>4. /\ arms' \in Arms
        /\ \A k \in Contexts, b \in Actions : StatsOf(arms'[k][b]) = StatsOf(arms[k][b])
    BY <1>1, MemoryType, KnownSame DEF SelectAction, Arms
  <1>5. Payload' \in Payloads
    BY <1>1, <1>4, MemoryType DEF SelectAction, Payload, Payloads
  <1>6. TypeOK'
    BY <1>1, <1>3, <1>5 DEF TypeOK, SelectAction, Choose
  <1>7. LearnedFrom' = LearnedFrom /\ Lessons' = Lessons /\ Tallies' = Tallies
    BY NoLesson DEF SelectAction
  <1>8. Told(Payload, Lessons, Tallies)'
    BY <1>4, <1>7 DEF PolicyInv, Told, Payload, SelectAction
  <1>9. QueriesInOrder'
    BY <1>1, <1>3 DEF PolicyInv, QueriesInOrder, SelectAction, Choose, TypeOK
  <1>10. Awaiting(pending)' /\ (file # Absent => Awaiting(file.pending)')
    BY <1>1, PurgedAwaiting DEF PolicyInv, Awaiting, SelectAction, TypeOK
  <1>11. EpsilonFollowsUpdates'
    BY DEF PolicyInv, EpsilonFollowsUpdates, SelectAction
  <1> QED
    BY <1>6, <1>7, <1>8, <1>9, <1>10, <1>11 DEF PolicyInv, Told, SelectAction

(* What is saved is as sound as what is in memory. *)
LEMMA SavedKeeps ==
  ASSUME PolicyInv, Saved, Payload' \in Payloads, TypeOK', QueriesInOrder',
         Awaiting(pending)', Told(Payload, Lessons, Tallies)',
         epsilon' = EpsilonAfter[total']
  PROVE  PolicyInv'
  <1>1. file' = Payload' /\ file' # Absent
    BY AbsentAssumption DEF Saved
  <1>2. Awaiting(file.pending)' /\ Told(file, Lessons, Tallies)'
    BY <1>1 DEF Payload, Awaiting, Told
  <1>3. EpsilonFollowsUpdates'
    BY <1>1 DEF EpsilonFollowsUpdates, Payload
  <1> QED BY <1>1, <1>2, <1>3 DEF PolicyInv

LEMMA RegisterKeeps ==
  ASSUME PolicyInv, NEW t \in Txns, NEW latency \in Latencies,
         RegisterPending(t, latency)
  PROVE  PolicyInv'
  <1>1. TypeOK /\ stage[t] = "agent"
    BY DEF PolicyInv, RegisterPending
  <1>2. [context |-> chosen[t].context, action |-> chosen[t].action,
         latency |-> latency] \in Decision
    BY <1>1 DEF PolicyInv, QueriesInOrder, Decision
  <1>3. Payload' \in Payloads
    BY <1>1, <1>2, MemoryType DEF RegisterPending, policy, Payload, Payloads
  <1>4. TypeOK'
    BY <1>1, <1>3 DEF TypeOK, RegisterPending, Saved, policy
  <1>5. LearnedFrom' = LearnedFrom /\ Lessons' = Lessons /\ Tallies' = Tallies
    BY NoLesson DEF RegisterPending
  <1>6. Told(Payload, Lessons, Tallies)'
    BY <1>5 DEF PolicyInv, Told, Payload, RegisterPending, policy
  <1>7. QueriesInOrder'
    BY <1>1 DEF PolicyInv, QueriesInOrder, RegisterPending, TypeOK
  <1>8. Awaiting(pending)'
    BY <1>1, PurgedAwaiting, MemoryType
    DEF PolicyInv, QueriesInOrder, Awaiting, RegisterPending, TypeOK
  <1>9. epsilon' = EpsilonAfter[total']
    BY DEF PolicyInv, EpsilonFollowsUpdates, RegisterPending, policy
  <1>10. Saved
    BY DEF RegisterPending
  <1> QED BY <1>3, <1>4, <1>6, <1>7, <1>8, <1>9, <1>10, SavedKeeps

LEMMA ApplyKeeps ==
  ASSUME PolicyInv, NEW t \in Txns, NEW score \in Scores, ApplyFeedback(t, score)
  PROVE  PolicyInv'
  <1> DEFINE d == pending[t]
             s == StatsOf(arms[d.context][d.action])
  <1>1. /\ TypeOK /\ stage[t] = "open"
        /\ d \in Decision /\ d.context \in Contexts /\ d.action \in Actions
        /\ d.latency \in Latencies /\ learned[t] = Absent
    <2>1. TypeOK /\ stage[t] = "open" /\ Purged[t] # Absent
      BY DEF PolicyInv, ApplyFeedback
    <2>2. d # Absent /\ d \in Decision
      BY <2>1, MemoryType
    <2> QED BY <2>1, <2>2 DEF PolicyInv, Awaiting, Decision
  <1>2. learned' = [learned EXCEPT ![t] = [decision |-> d, score |-> score]]
    BY DEF ApplyFeedback
  <1>3. s \in Stats /\ s.pulls \in Nat /\ s.reward \in Int
    <2>1. arms[d.context][d.action] \in Stats \cup {Absent}
      BY <1>1, MemoryType DEF Arms
    <2>2. s \in Stats
      BY <2>1, StatsOfType
    <2> QED BY <2>2 DEF Stats
  <1>4. /\ Updated(d, score) =
              [pulls |-> s.pulls + 1, reward |-> s.reward + Reward(score, d.latency)]
        /\ Updated(d, score) \in Stats /\ Updated(d, score) # Absent
    <2>1. Updated(d, score) =
            [pulls |-> s.pulls + 1, reward |-> s.reward + Reward(score, d.latency)]
      BY DEF Updated
    <2>2. Reward(score, d.latency) \in Int
      BY <1>1, RewardIs
    <2> HIDE DEF s
    <2> QED BY <1>3, <2>1, <2>2, AbsentAssumption DEF Stats
  <1>5. /\ arms' = [arms EXCEPT ![d.context] =
                     [Known(d.context) EXCEPT ![d.action] = Updated(d, score)]]
        /\ total' = total + 1 /\ epsilon' = Decayed(epsilon)
        /\ pending' = [Purged EXCEPT ![t] = Absent]
        /\ Saved /\ UNCHANGED <<models, stage, chosen, late, restarts>>
    BY DEF ApplyFeedback
  <1> HIDE DEF d, s
  <1>6. /\ arms' \in Arms
        /\ \A k \in Contexts, b \in Actions :
             StatsOf(arms'[k][b]) =
               IF k = d.context /\ b = d.action THEN Updated(d, score)
               ELSE StatsOf(arms[k][b])
    <2>1. /\ Known(d.context) \in [Actions -> Stats \cup {Absent}]
          /\ \A b \in Actions : StatsOf(Known(d.context)[b]) = StatsOf(arms[d.context][b])
      BY <1>1, KnownSame
    <2>2. arms \in Arms
      BY <1>1, MemoryType
    <2>3. arms' \in Arms
      BY <1>1, <1>4, <1>5, <2>1, <2>2 DEF Arms
    <2>4. StatsOf(Updated(d, score)) = Updated(d, score)
      BY <1>4 DEF StatsOf
    <2>5. ASSUME NEW k \in Contexts, NEW b \in Actions
          PROVE  StatsOf(arms'[k][b]) =
                   IF k = d.context /\ b = d.action THEN Updated(d, score)
                   ELSE StatsOf(arms[k][b])
      <3>1. CASE k # d.context
        BY <1>5, <2>2, <3>1 DEF Arms
      <3>2. CASE k = d.context
        <4>1. arms'[k] = [Known(d.context) EXCEPT ![d.action] = Updated(d, score)]
          BY <1>1, <1>5, <2>2, <3>2 DEF Arms
        <4> QED BY <1>1, <2>1, <2>4, <3>2, <4>1
      <3> QED BY <3>1, <3>2
    <2> QED BY <2>3, <2>5
  <1>7. Payload' \in Payloads
    <2>1. epsilon' \in 0 .. Certain /\ total' \in Nat
      BY <1>1, <1>5, MemoryType, DecayedType
    <2>2. pending' \in [Txns -> Decision \cup {Absent}]
      BY <1>1, <1>5, MemoryType
    <2> QED BY <1>6, <2>1, <2>2 DEF Payload, Payloads
  <1>8. TypeOK'
    <2>1. learned' \in [Txns -> Lesson \cup {Absent}]
      BY <1>1, <1>2 DEF TypeOK, Lesson
    <2> QED BY <1>1, <1>5, <1>7, <2>1 DEF TypeOK, Saved
  <1>9. Lessons' = Lessons + 1 /\ Raised(Tallies, Tallies', d, score)
    BY <1>1, <1>2, <1>8, LessonTold
  <1>10. Told(Payload, Lessons, Tallies)'
    <2>1. /\ total = Lessons
          /\ \A k \in Contexts, b \in Actions : StatsOf(arms[k][b]) = Tallies[k][b]
      BY DEF PolicyInv, Told, Payload
    <2>2. ASSUME NEW k \in Contexts, NEW b \in Actions
          PROVE  StatsOf(arms'[k][b]) = Tallies'[k][b]
      <3>1. CASE k = d.context /\ b = d.action
        <4>1. s = Tallies[k][b]
          BY <2>1, <3>1 DEF s
        <4>2. Tallies'[k][b] = [pulls  |-> s.pulls + 1,
                                reward |-> s.reward + Reward(score, d.latency)]
          BY <1>9, <3>1, <4>1 DEF Raised
        <4>3. StatsOf(arms'[k][b]) = Updated(d, score)
          BY <1>6, <3>1
        <4> QED BY <1>4, <4>2, <4>3
      <3>2. CASE ~(k = d.context /\ b = d.action)
        <4>1. Tallies'[k][b] = Tallies[k][b]
          BY <1>9, <3>2 DEF Raised
        <4>2. StatsOf(arms'[k][b]) = StatsOf(arms[k][b])
          BY <1>6, <3>2
        <4> QED BY <2>1, <4>1, <4>2
      <3> QED BY <3>1, <3>2
    <2>3. total' = Lessons'
      BY <1>5, <1>9, <2>1
    <2> QED BY <2>2, <2>3 DEF Told, Payload
  <1>11. QueriesInOrder'
    BY <1>1, <1>2, <1>5 DEF PolicyInv, QueriesInOrder, TypeOK
  <1>12. Awaiting(pending)'
    <2>1. Awaiting(Purged)
      BY <1>1, PurgedAwaiting DEF PolicyInv
    <2>2. Purged \in [Txns -> Decision \cup {Absent}]
      BY <1>1, MemoryType
    <2> QED BY <1>1, <1>2, <1>5, <2>1, <2>2 DEF Awaiting, TypeOK
  <1>13. epsilon' = EpsilonAfter[total']
    <2>1. total = Lessons /\ epsilon = EpsilonAfter[total]
      BY DEF PolicyInv, Told, Payload, EpsilonFollowsUpdates
    <2>2. /\ Lessons \in Nat /\ Cardinality(Txns) \in Nat
          /\ Lessons' <= Cardinality(Txns)
      <3>1. LearnedFrom' \subseteq Txns
        BY DEF LearnedFrom
      <3>2. Lessons' <= Cardinality(Txns)
        BY <3>1, PolicyAssumption, FS_Subset DEF Lessons
      <3> QED BY <1>1, <3>2, LearnedType
    <2> QED BY <1>5, <1>9, <2>1, <2>2, EpsilonSteps
  <1> QED BY <1>5, <1>7, <1>8, <1>10, <1>11, <1>12, <1>13, SavedKeeps

LEMMA RestartKeeps == ASSUME PolicyInv, Restart PROVE PolicyInv'
  <1>1. TypeOK
    BY DEF PolicyInv
  <1>2. LearnedFrom' = LearnedFrom /\ Lessons' = Lessons /\ Tallies' = Tallies
    BY NoLesson DEF Restart
  <1>3. QueriesInOrder'
    BY <1>1 DEF PolicyInv, QueriesInOrder, Restart, TypeOK
  <1>4. Payload' \in Payloads => TypeOK'
    <2>1. stage' \in [Txns -> {"new", "agent", "open", "lost"}]
      BY <1>1 DEF TypeOK, Restart
    <2>2. restarts' \in 0 .. MaxRestarts
      BY <1>1, PolicyAssumption DEF TypeOK, Restart
    <2> QED BY <1>1, <2>1, <2>2 DEF TypeOK, Restart
  <1>5. CASE file = Absent
    <2>1. Payload' \in Payloads /\ epsilon' = RlEpsilon
      BY <1>1, <1>5, PolicyAssumption
      DEF Restart, LoadedEpsilon, Payload, Payloads, Arms, NoArms
    <2>2. TypeOK'
      BY <1>4, <2>1
    <2>3. LearnedFrom = {}
      BY <1>5 DEF PolicyInv
    <2>4. Told(Payload, Lessons, Tallies)'
      BY <1>2, <1>5, <2>3, NothingLearned DEF Restart, Payload, Told, StatsOf, NoArms
    <2>5. Awaiting(pending)'
      BY <1>5 DEF Restart, Awaiting
    <2>6. EpsilonFollowsUpdates'
      BY <1>5, <2>1, EpsilonSteps DEF Restart, EpsilonFollowsUpdates
    <2> QED
      BY <1>2, <1>3, <1>5, <2>2, <2>3, <2>4, <2>5, <2>6 DEF PolicyInv, Restart
  <1>6. CASE file # Absent
    <2>1. file \in Payloads
      BY <1>1, <1>6 DEF TypeOK
    <2>2. /\ Payload' \in Payloads
          /\ epsilon' = file.epsilon /\ arms' = file.arms /\ total' = file.total
          /\ \A t \in Txns : pending'[t] # Absent => pending'[t] = file.pending[t]
      BY <1>6, <2>1 DEF Restart, LoadedEpsilon, Payload, Payloads
    <2>3. TypeOK'
      BY <1>4, <2>2
    <2>4. Told(Payload, Lessons, Tallies)' /\ Told(file, Lessons, Tallies)'
      BY <1>2, <1>6, <2>2 DEF PolicyInv, Payload, Told, Restart
    <2>5. Awaiting(pending)' /\ Awaiting(file.pending)'
      BY <1>1, <1>6, <2>2 DEF PolicyInv, Awaiting, Restart, TypeOK
    <2>6. EpsilonFollowsUpdates'
      BY <1>6, <2>2 DEF PolicyInv, EpsilonFollowsUpdates, Restart
    <2> QED BY <1>3, <1>6, <2>3, <2>4, <2>5, <2>6 DEF PolicyInv, Restart
  <1> QED BY <1>5, <1>6

LEMMA OthersKeep ==
  ASSUME PolicyInv,
         \/ \E t \in Txns : ApplyFeedbackUnknown(t) \/ WindowCloses(t)
         \/ Snapshot
         \/ UNCHANGED vars
  PROVE  PolicyInv'
  <1>1. TypeOK
    BY DEF PolicyInv
  <1>2. /\ pending' \in {pending, Purged}
        /\ UNCHANGED <<models, policy, stage, chosen, learned, restarts>>
        /\ file' = file \/ Saved
    BY DEF ApplyFeedbackUnknown, WindowCloses, Snapshot, vars, policy, queries
  <1>3. Payload' \in Payloads
    BY <1>1, <1>2, MemoryType DEF policy, Payload, Payloads
  <1>4. late' \subseteq Txns
    BY <1>1 DEF TypeOK, ApplyFeedbackUnknown, WindowCloses, Snapshot, vars, queries
  <1>5. TypeOK'
    BY <1>1, <1>2, <1>3, <1>4 DEF TypeOK, Saved, policy
  <1>6. LearnedFrom' = LearnedFrom /\ Lessons' = Lessons /\ Tallies' = Tallies
    BY <1>2, NoLesson
  <1>7. Told(Payload, Lessons, Tallies)'
    BY <1>2, <1>6 DEF PolicyInv, Told, Payload, policy
  <1>8. QueriesInOrder'
    BY <1>2 DEF PolicyInv, QueriesInOrder
  <1>9. Awaiting(pending)'
    BY <1>1, <1>2, PurgedAwaiting DEF PolicyInv, Awaiting
  <1>10. epsilon' = EpsilonAfter[total']
    BY <1>2 DEF PolicyInv, EpsilonFollowsUpdates, policy
  <1>11. CASE Saved
    BY <1>3, <1>5, <1>7, <1>8, <1>9, <1>10, <1>11, SavedKeeps
  <1>12. CASE file' = file
    <2>1. EpsilonFollowsUpdates'
      BY <1>10, <1>12 DEF PolicyInv, EpsilonFollowsUpdates
    <2>2. IF file' = Absent THEN LearnedFrom' = {}
          ELSE Awaiting(file.pending)' /\ Told(file, Lessons, Tallies)'
      BY <1>2, <1>6, <1>12 DEF PolicyInv, Awaiting, Told
    <2> QED BY <1>5, <1>7, <1>8, <1>9, <2>1, <2>2 DEF PolicyInv
  <1> QED BY <1>2, <1>11, <1>12

LEMMA NextPolicyInv == PolicyInv /\ [Next]_vars => PolicyInv'
  BY SelectKeeps, RegisterKeeps, ApplyKeeps, OthersKeep, RestartKeeps DEF Next

(* The arms, epsilon, decisions and lessons, in memory and in the file,    *)
(* keep their types; epsilon stays a probability.                          *)
THEOREM PolicyTypeCorrect == Spec => []TypeOK
  <1>1. PolicyInv => TypeOK
    BY DEF PolicyInv
  <1> QED BY <1>1, InitPolicyInv, NextPolicyInv, PTL DEF Spec

(* Pulls and rewards of every arm are those of the feedback on its         *)
(* decisions (ContextualBandit.apply_feedback, _save, _load).              *)
THEOREM PolicyIsItsFeedback == Spec => []ArmsAreTheirFeedback
  <1>1. PolicyInv => ArmsAreTheirFeedback
    BY DEF PolicyInv, ArmsAreTheirFeedback, Agrees, Told, Lessons, Tallies
  <1> QED BY <1>1, InitPolicyInv, NextPolicyInv, PTL DEF Spec

(* Epsilon has decayed once with each update, across restarts as well      *)
(* (apply_feedback and _load).                                             *)
THEOREM PolicyExploresLess == Spec => []EpsilonFollowsUpdates
  <1>1. PolicyInv => EpsilonFollowsUpdates
    BY DEF PolicyInv
  <1> QED BY <1>1, InitPolicyInv, NextPolicyInv, PTL DEF Spec

-----------------------------------------------------------------------------
(* The greedy choice *)

Penalised == LatencyCap \in 1 .. 10 /\ Latencies \subseteq Nat \ {0}

(* A helpful answer is worth no less than nothing, a failure less.         *)
LEMMA RewardSign ==
  ASSUME Penalised, NEW latency \in Latencies
  PROVE  Reward(1, latency) >= 0 /\ Reward(0, latency) < 0
  <1>1. latency \in Nat \ {0} /\ LatencyCap \in 1 .. 10
    BY DEF Penalised
  <1>2. /\ Reward(1, latency) =
              1 * 10 - IF latency <= LatencyCap THEN latency ELSE LatencyCap
        /\ Reward(0, latency) =
              0 * 10 - IF latency <= LatencyCap THEN latency ELSE LatencyCap
    BY <1>1, RewardIs DEF Scores
  <1> QED BY <1>1, <1>2

LEMMA TallySign ==
  ASSUME Penalised, TypeOK, NEW c \in Contexts, NEW a \in Actions
  PROVE  /\ OnlyFailed(c, a) => Tallies[c][a].reward < 0
         /\ ~Failed(c, a) => Tallies[c][a].reward >= 0
  <1> DEFINE S == FeedbackOn(c, a)
  <1>1. S \subseteq LearnedFrom /\ IsFiniteSet(S) /\ Integral(Rewards, S)
    BY LearnedType DEF Integral
  <1>2. Tallies[c][a].reward = SumFunctionOnSet(Rewards, S)
    <2>1. Tallies[c][a] = [pulls  |-> Cardinality(S),
                           reward |-> SumFunctionOnSet(Rewards, S)]
      BY TallyIs
    <2> QED BY <2>1
  <1>3. ASSUME NEW t \in S
        PROVE  /\ learned[t].score \in {0, 1}
               /\ learned[t].score = 0 => Rewards[t] < 0
               /\ learned[t].score = 1 => Rewards[t] >= 0
    <2>1. t \in LearnedFrom /\ learned[t] \in Lesson
      BY <1>1, LearnedType
    <2>2. learned[t].score \in {0, 1} /\ learned[t].decision.latency \in Latencies
      BY <2>1 DEF Lesson, Decision, Scores
    <2>3. Rewards[t] = Reward(learned[t].score, learned[t].decision.latency)
      BY <2>1 DEF Rewards
    <2> QED BY <2>2, <2>3, RewardSign
  <1> HIDE DEF S
  <1>4. CASE OnlyFailed(c, a)
    <2>1. S # {} /\ \A t \in S : Rewards[t] < 0
      BY <1>3, <1>4 DEF OnlyFailed, Failed, S
    <2>2. SumFunctionOnSet(Rewards, S) < 0
      BY <1>1, <2>1, SumSign
    <2> QED BY <1>2, <1>4, <2>2 DEF OnlyFailed
  <1>5. CASE ~Failed(c, a)
    <2>1. \A t \in S : Rewards[t] >= 0
      BY <1>3, <1>5 DEF Failed, S
    <2>2. SumFunctionOnSet(Rewards, S) >= 0
      BY <1>1, <2>1, SumSign
    <2> QED BY <1>2, <1>5, <2>2 DEF OnlyFailed
  <1> QED BY <1>4, <1>5 DEF OnlyFailed

LEMMA SignsMultiply ==
  ASSUME NEW x \in Int, NEW y \in Int, NEW m \in Nat \ {0}, NEW n \in Nat \ {0},
         x >= 0, y < 0
  PROVE  x * m > y * n
  <1>1. x * m >= 0
    OBVIOUS
  <1>2. y * n < 0
    OBVIOUS
  <1>3. x * m \in Int /\ y * n \in Int
    OBVIOUS
  <1> QED BY <1>1, <1>2, <1>3

LEMMA WinsBySign ==
  ASSUME NEW s \in Stats, NEW r \in Stats, s.reward >= 0, r.reward < 0
  PROVE  Better(s, r)
  <1>1. /\ s.pulls \in Nat /\ r.pulls \in Nat
        /\ s.reward \in Int /\ r.reward \in Int
    BY DEF Stats
  <1>2. Weight(s) \in Nat \ {0} /\ Weight(r) \in Nat \ {0}
    BY <1>1, MaxOfTwo DEF Weight
  <1> QED BY <1>1, <1>2, SignsMultiply DEF Better, HigherMean

LEMMA ExploitedIsBest ==
  ASSUME Penalised, PolicyInv, NEW c \in Contexts, NEW a \in Best(Known(c)),
         OnlyFailed(c, a), NEW b \in Configured
  PROVE  Failed(c, b)
  <1> SUFFICES ASSUME ~Failed(c, b) PROVE FALSE
    OBVIOUS
  <1> DEFINE known == Known(c)
  <1>1. TypeOK /\ a \in Actions /\ b \in Actions
    BY DEF PolicyInv, Best, Configured
  <1>2. known[a] # Absent /\ known[b] # Absent
    <2>1. known[b] # Absent
      BY <1>1, AbsentAssumption DEF Known, NewStats, Stats
    <2> QED BY <2>1 DEF Best
  <1>3. known \in [Actions -> Stats \cup {Absent}]
    BY <1>1, KnownSame
  <1>4. known[a] = Tallies[c][a] /\ known[b] = Tallies[c][b]
    <2>1. /\ StatsOf(known[a]) = StatsOf(arms[c][a])
          /\ StatsOf(known[b]) = StatsOf(arms[c][b])
      BY <1>1, KnownSame
    <2> HIDE DEF known
    <2> QED BY <1>1, <1>2, <2>1 DEF PolicyInv, Told, Payload, StatsOf
  <1>5. known[a].reward < 0 /\ known[b].reward >= 0
    BY <1>1, <1>4, TallySign
  <1>6. ~Better(known[b], known[a])
    BY <1>1, <1>2 DEF Best
  <1> HIDE DEF known
  <1> QED BY <1>1, <1>2, <1>3, <1>5, <1>6, WinsBySign

LEMMA StepFailsLast ==
  ASSUME Penalised, PolicyInv, [Next]_vars, NEW t \in Txns,
         chosen'[t] # chosen[t], chosen'[t].policy = "exploit",
         OnlyFailed(chosen'[t].context, chosen'[t].action), NEW b \in Configured
  PROVE  Failed(chosen'[t].context, b)
  <1>1. TypeOK
    BY DEF PolicyInv
  <1>2. PICK u \in Txns, c \in Contexts : SelectAction(u, c)
    BY DEF Next, vars, queries, RegisterPending, ApplyFeedback, ApplyFeedbackUnknown,
       WindowCloses, Snapshot, Restart
  <1>3. u = t
    BY <1>1, <1>2 DEF SelectAction, Choose, TypeOK
  <1>4. PICK a \in Best(Known(c)) : Choose(t, c, a, "exploit")
    <2>1. ASSUME NEW a, Choose(t, c, a, "explore") PROVE FALSE
      BY <1>1, <2>1 DEF Choose, TypeOK
    <2> QED BY <1>2, <1>3, <2>1 DEF SelectAction
  <1>5. chosen'[t].context = c /\ chosen'[t].action = a
    BY <1>1, <1>4 DEF Choose, TypeOK
  <1> QED BY <1>5, ExploitedIsBest

(* While a failure costs, and the cap leaves a helpful answer at zero or   *)
(* above (LatencyCap in 1 .. 10; rl_latency_cap_seconds is 10.0), the      *)
(* greedy choice never falls on an arm that only failed while a configured *)
(* one has not (rewards.py, and bandit.py, select_action).                 *)
THEOREM GreedyAvoidsFailures ==
  ASSUME LatencyCap \in 1 .. 10, Latencies \subseteq Nat \ {0}
  PROVE  Spec => FailureIsLastResort
  <1>1. Penalised
    BY DEF Penalised
  <1>2. ASSUME PolicyInv, [Next]_vars
        PROVE  [\A t \in Txns :
                  chosen'[t] # chosen[t] /\ chosen'[t].policy = "exploit" =>
                    LET c == chosen'[t].context IN
                    OnlyFailed(c, chosen'[t].action) =>
                      \A a \in Configured : Failed(c, a)]_vars
    BY <1>1, <1>2, StepFailsLast
  <1> QED BY <1>2, InitPolicyInv, NextPolicyInv, PTL DEF Spec, FailureIsLastResort

=============================================================================
