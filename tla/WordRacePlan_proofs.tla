------------------------ MODULE WordRacePlan_proofs ------------------------
(***************************************************************************)
(* Theorems about WordRacePlan, for songs, windows, gaps and margins of any *)
(* length, any number of rounds and any catalogue of words.                *)
(***************************************************************************)
EXTENDS WordRacePlan, FiniteSetTheorems, TLAPS

ConfigType == config \in [song : Songs, window : Windows, gap : Gaps, rounds : Rounds]
PointsType == points \in Seq(Nat) /\ Len(points) <= count /\ \A i \in DOMAIN points : points[i] <= slack
PickedType ==
    /\ picked \in Seq(Words) /\ Len(picked) <= count
    /\ IsInjective(picked)
    /\ picked # <<>> => Len(points) = count

PlanInv == ConfigType /\ PointsType /\ PickedType

\* The rounds that fit, and nothing negative is left.
LEMMA Counts ==
    ASSUME ConfigType
    PROVE  /\ first \in Nat /\ end \in Nat /\ lastOpen \in Int /\ step \in Nat \ {0}
           /\ config.song \in Nat /\ config.window \in Nat \ {0} /\ config.gap \in Nat /\ config.rounds \in Nat
           /\ 100 * first >= config.song * StartMargin /\ 100 * end <= config.song * EndMargin
           /\ step >= config.gap /\ step >= config.window
<1>1. config.song \in Nat /\ config.window \in Nat \ {0} /\ config.gap \in Nat /\ config.rounds \in Nat
  BY PlanAssumption DEF ConfigType
<1>2. StartMargin \in Nat /\ EndMargin \in Nat
  BY PlanAssumption
<1>3. step \in Nat \ {0} /\ step >= config.gap /\ step >= config.window
  BY <1>1 DEF step, Larger
<1>4. config.song * StartMargin \in Nat /\ config.song * EndMargin \in Nat
  BY <1>1, <1>2
<1>5. first \in Nat /\ 100 * first >= config.song * StartMargin
  BY <1>4 DEF first
<1>6. end \in Nat /\ 100 * end <= config.song * EndMargin
  BY <1>4 DEF end
<1>7. QED
  BY <1>1, <1>3, <1>5, <1>6 DEF lastOpen

\* Division, as the plan uses it.
LEMMA Quotient ==
    ASSUME NEW a \in Nat, NEW b \in Nat \ {0}
    PROVE  a \div b \in Nat /\ (a \div b) * b <= a /\ a < (a \div b + 1) * b
OBVIOUS

LEMMA Slack ==
    ASSUME ConfigType
    PROVE  /\ count \in Nat /\ count <= config.rounds
           /\ count > 0 => slack \in Nat
           /\ count < config.rounds => first + count * step > lastOpen
<1>1. /\ first \in Nat /\ lastOpen \in Int /\ step \in Nat \ {0} /\ config.rounds \in Nat
  BY Counts
<1>2. CASE config.rounds = 0 \/ lastOpen < first
  <2>1. count = 0
    BY <1>2 DEF count
  <2>2. count * step = 0
    BY <1>1, <2>1
  <2>3. QED
    BY <1>1, <1>2, <2>1, <2>2
<1>3. CASE config.rounds > 0 /\ lastOpen >= first
  <2>1. PICK span \in Nat : span = lastOpen - first
    BY <1>1, <1>3
  <2>2. PICK q \in Nat : q = span \div step /\ q * step <= span /\ span < (q + 1) * step
    BY <1>1, Quotient
  <2>3. count = Smaller(config.rounds, q + 1)
    BY <1>1, <1>3, <2>1, <2>2 DEF count
  <2>4. count \in Nat \ {0} /\ count <= config.rounds /\ count - 1 <= q /\ (count < config.rounds => count = q + 1)
    BY <1>1, <1>3, <2>3 DEF Smaller
  <2>5. (count - 1) * step <= q * step
    BY <1>1, <2>4
  <2>6. slack = span - (count - 1) * step
    BY <2>1 DEF slack
  <2>7. (count - 1) * step \in Nat /\ q * step \in Nat /\ (q + 1) * step \in Nat
    BY <1>1, <2>4
  <2>8. slack \in Nat
    BY <2>2, <2>5, <2>6, <2>7
  <2>9. count < config.rounds => first + count * step > lastOpen
    BY <1>1, <2>1, <2>2, <2>4, <2>7
  <2>10. QED
    BY <2>4, <2>8, <2>9
<1>4. QED
  BY <1>1, <1>2, <1>3

LEMMA PlanStart == Init => PlanInv
<1> SUFFICES ASSUME Init PROVE PlanInv
  OBVIOUS
<1>1. ConfigType
  BY DEF Init, ConfigType
<1>2. count \in Nat
  BY <1>1, Slack
<1>3. points = <<>> /\ picked = <<>>
  BY DEF Init
<1>4. IsInjective(picked)
  BY <1>3 DEF IsInjective
<1>5. QED
  BY <1>1, <1>2, <1>3, <1>4 DEF PlanInv, PointsType, PickedType

LEMMA PlanStep == PlanInv /\ [Next]_vars => PlanInv'
<1> SUFFICES ASSUME PlanInv, [Next]_vars PROVE PlanInv'
  OBVIOUS
<1>1. UNCHANGED config
  BY DEF Next, DrawPoint, DrawWord, vars
<1>2. ConfigType' /\ count' = count /\ slack' = slack
  BY <1>1 DEF PlanInv, ConfigType, count, slack, first, end, lastOpen, step
<1>3. count \in Nat /\ (count > 0 => slack \in Nat)
  BY Slack DEF PlanInv
<1>4. CASE UNCHANGED <<points, picked>>
  BY <1>2, <1>4 DEF PlanInv, PointsType, PickedType, IsInjective
<1>5. CASE DrawPoint
  <2>1. PICK point \in 0..slack : points' = Append(points, point) /\ Len(points) < count /\ UNCHANGED picked
    BY <1>5 DEF DrawPoint
  <2>2. point \in Nat /\ point <= slack /\ points \in Seq(Nat)
    BY <1>3, <2>1 DEF PlanInv, PointsType
  <2>3. PointsType'
    BY <1>2, <1>3, <2>1, <2>2 DEF PlanInv, PointsType
  <2>4. picked = <<>>
    BY <1>3, <2>1 DEF PlanInv, PointsType, PickedType
  <2>5. PickedType'
    BY <1>2, <1>3, <2>1, <2>4 DEF PlanInv, PickedType, IsInjective
  <2>6. QED
    BY <1>2, <2>3, <2>5 DEF PlanInv
<1>6. CASE DrawWord
  <2>1. PICK word \in Words \ Range(picked) :
          /\ picked' = Append(picked, word) /\ Len(picked) < count /\ Len(points) = count /\ UNCHANGED points
    BY <1>6 DEF DrawWord
  <2>2. picked \in Seq(Words) /\ \A i \in DOMAIN picked : picked[i] # word
    BY <2>1 DEF PlanInv, PickedType, Range
  <2>3. IsInjective(picked')
    BY <2>1, <2>2 DEF PlanInv, PickedType, IsInjective
  <2>4. PickedType'
    BY <1>2, <1>3, <2>1, <2>2, <2>3 DEF PickedType
  <2>5. QED
    BY <1>2, <2>1, <2>4 DEF PlanInv, PointsType
<1>7. QED
  BY <1>4, <1>5, <1>6 DEF Next, vars

\* Draws stay in their ranges, the slack is never negative, no word comes twice.
THEOREM PlanTypes == Spec => []PlanTypeOK
<1>1. PlanInv => PlanTypeOK
  <2> SUFFICES ASSUME PlanInv PROVE PlanTypeOK
    OBVIOUS
  <2>1. PICK n \in Nat : n = Larger(slack, 0) /\ \A i \in DOMAIN points : points[i] \in 0..n
    <3>1. count \in Nat /\ (count > 0 => slack \in Nat)
      BY Slack DEF PlanInv
    <3>2. DOMAIN points # {} => count > 0
      BY <3>1 DEF PlanInv, PointsType
    <3>3. CASE count > 0
      BY <3>1, <3>3 DEF Larger, PlanInv, PointsType
    <3>4. CASE count = 0
      <4>1. slack \in Int
        BY <3>4, Counts DEF PlanInv, slack
      <4>2. QED
        BY <3>2, <3>4, <4>1 DEF Larger
    <3>5. QED
      BY <3>1, <3>3, <3>4
  <2>2. points \in Seq(0..n)
    BY <2>1 DEF PlanInv, PointsType
  <2>3. QED
    BY <2>1, <2>2 DEF PlanTypeOK, PlanInv, PointsType, PickedType
<1>2. QED
  BY <1>1, PlanStart, PlanStep, PTL DEF Spec

-----------------------------------------------------------------------------
\* The sort.  i comes before j in the order of the points, equal ones as drawn.
Before(i, j) == points[i] < points[j] \/ (points[i] = points[j] /\ i < j)

\* The points before one before j are before j, with one less at least.
LEMMA BelowGrows ==
    ASSUME points \in Seq(Nat), NEW i \in DOMAIN points, NEW j \in DOMAIN points, Before(i, j)
    PROVE  Cardinality(Below(i)) < Cardinality(Below(j))
<1>1. points \in [1..Len(points) -> Nat] /\ Len(points) \in Nat
  OBVIOUS
<1>2. IsFiniteSet(DOMAIN points)
  BY <1>1, FS_Interval
<1>3. Below(j) \in SUBSET DOMAIN points
  BY DEF Below
<1>4. IsFiniteSet(Below(j))
  BY <1>2, <1>3, FS_Subset
<1>5. \A k \in DOMAIN points : points[k] \in Nat /\ k \in Nat
  BY <1>1
<1>6. Below(i) \in SUBSET Below(j)
  BY <1>5 DEF Below, Before
<1>7. i \in Below(j) /\ i \notin Below(i)
  BY <1>5 DEF Below, Before
<1>8. Cardinality(Below(i)) <= Cardinality(Below(j)) /\ Cardinality(Below(i)) # Cardinality(Below(j))
  BY <1>4, <1>6, <1>7, FS_Subset
<1>9. Cardinality(Below(i)) \in Nat /\ Cardinality(Below(j)) \in Nat
  BY <1>4, <1>6, FS_Subset, FS_CardinalityType
<1>10. QED
  BY <1>8, <1>9

\* Each place is taken by a point: the places are as many as the points.
LEMMA EveryPlaceTaken ==
    ASSUME points \in Seq(Nat), NEW k \in 1..Len(points)
    PROVE  \E i \in DOMAIN points : Cardinality(Below(i)) = k - 1
<1> DEFINE n == Len(points)
<1> DEFINE place == [i \in 1..n |-> Cardinality(Below(i)) + 1]
<1>1. points \in [1..n -> Nat] /\ n \in Nat /\ DOMAIN points = 1..n
  OBVIOUS
<1>2. IsFiniteSet(1..n) /\ Cardinality(1..n) = n
  BY <1>1, FS_Interval
<1>3. \A i \in 1..n : Cardinality(Below(i)) \in 0..(n - 1)
  <2> SUFFICES ASSUME NEW i \in 1..n PROVE Cardinality(Below(i)) \in 0..(n - 1)
    OBVIOUS
  <2>1. Below(i) \in SUBSET (1..n) /\ i \notin Below(i)
    BY <1>1 DEF Below
  <2>2. Cardinality(Below(i)) \in Nat /\ Cardinality(Below(i)) <= n /\ Cardinality(Below(i)) # n
    BY <1>2, <2>1, FS_Subset, FS_CardinalityType
  <2>3. QED
    BY <1>1, <2>2
<1>4. place \in [1..n -> 1..n] /\ \A i \in 1..n : place[i] = Cardinality(Below(i)) + 1
  BY <1>1, <1>3
<1> HIDE DEF place
<1>5. \A i, j \in 1..n : place[i] = place[j] => i = j
  <2> SUFFICES ASSUME NEW i \in 1..n, NEW j \in 1..n, i # j PROVE place[i] # place[j]
    OBVIOUS
  <2>1. points[i] \in Nat /\ points[j] \in Nat /\ i \in Nat /\ j \in Nat
    BY <1>1
  <2>2. Before(i, j) \/ Before(j, i)
    BY <2>1 DEF Before
  <2>3. Cardinality(Below(i)) \in Int /\ Cardinality(Below(j)) \in Int
    BY <1>3
  <2>4. i \in DOMAIN points /\ j \in DOMAIN points
    BY <1>1
  <2>5. CASE Before(i, j)
    <3>1. Cardinality(Below(i)) < Cardinality(Below(j))
      BY <2>4, <2>5, BelowGrows
    <3>2. QED
      BY <1>4, <2>3, <3>1
  <2>6. CASE Before(j, i)
    <3>1. Cardinality(Below(j)) < Cardinality(Below(i))
      BY <2>4, <2>6, BelowGrows
    <3>2. QED
      BY <1>4, <2>3, <3>1
  <2>7. QED
    BY <2>2, <2>5, <2>6
<1>6. place \in Injection(1..n, 1..n)
  BY <1>4, <1>5 DEF Injection, IsInjective
<1>7. place \in Surjection(1..n, 1..n)
  BY <1>2, <1>6, FS_Injection
<1>8. PICK i \in 1..n : place[i] = k
  BY <1>7 DEF Surjection
<1>9. Cardinality(Below(i)) = k - 1
  <2>1. Cardinality(Below(i)) \in Int /\ k \in Int
    BY <1>3
  <2>2. k = Cardinality(Below(i)) + 1
    BY <1>4, <1>8
  <2>3. QED
    BY <2>1, <2>2
<1>10. QED
  BY <1>1, <1>9

\* The k-th of the sorted points is one of them, and none before it is larger.
LEMMA Sorted ==
    ASSUME points \in Seq(Nat), NEW k \in 1..Len(points)
    PROVE  /\ \E i \in DOMAIN points : sorted(k) = points[i]
           /\ sorted(k) \in Nat
           /\ \A l \in 1..k : sorted(l) <= sorted(k)
<1> DEFINE at(m) == CHOOSE i \in DOMAIN points : Cardinality(Below(i)) = m - 1
<1>1. \A m \in 1..Len(points) :
         at(m) \in DOMAIN points /\ Cardinality(Below(at(m))) = m - 1 /\ sorted(m) = points[at(m)]
  BY EveryPlaceTaken DEF sorted
<1>2. \A i \in DOMAIN points : points[i] \in Nat /\ i \in Nat
  OBVIOUS
<1>3. ASSUME NEW l \in 1..k PROVE sorted(l) <= sorted(k)
  <2>1. l \in 1..Len(points)
    OBVIOUS
  <2> HIDE DEF at
  <2>2. CASE points[at(k)] < points[at(l)]
    <3>1. Cardinality(Below(at(k))) < Cardinality(Below(at(l)))
      BY <1>1, <2>1, <2>2, BelowGrows DEF Before
    <3>2. k - 1 < l - 1
      BY <1>1, <2>1, <3>1
    <3>3. QED
      BY <3>2
  <2>3. QED
    BY <1>1, <1>2, <2>1, <2>2
<1>4. QED
  BY <1>1, <1>2, <1>3

-----------------------------------------------------------------------------
LEMMA Monotone ==
    ASSUME NEW a \in Nat, NEW b \in Nat, NEW c \in Nat, a <= b
    PROVE  a * c \in Nat /\ b * c \in Nat /\ a * c <= b * c
<1>1. PICK d \in Nat : b = a + d
  OBVIOUS
<1>2. b * c = a * c + d * c /\ a * c \in Nat /\ d * c \in Nat
  BY <1>1
<1>3. QED
  BY <1>2

\* Where a round opens, once the points are drawn.
LEMMA OpeningAt ==
    ASSUME PlanInv, Planned, NEW j \in DOMAIN opensAt
    PROVE  /\ j \in 1..count /\ count = Len(points) /\ points \in Seq(Nat)
           /\ opensAt[j] = first + sorted(j) + (j - 1) * step
           /\ sorted(j) \in Nat /\ (j - 1) * step \in Nat
           /\ first <= opensAt[j] /\ opensAt[j] <= lastOpen /\ opensAt[j] \in Nat
<1>1. /\ first \in Nat /\ lastOpen \in Int /\ step \in Nat
      /\ count \in Nat /\ (count > 0 => slack \in Nat)
  BY Counts, Slack DEF PlanInv
<1>2. /\ points \in Seq(Nat) /\ \A i \in DOMAIN points : points[i] <= slack
      /\ picked \in Seq(Words) /\ Len(picked) <= count /\ count = Len(points)
  BY DEF PlanInv, PointsType, PickedType, Planned
<1>3. j \in DOMAIN picked /\ opensAt[j] = first + sorted(j) + (j - 1) * step
  BY DEF opensAt
<1>4. j \in 1..count
  BY <1>1, <1>2, <1>3
<1>5. sorted(j) \in Nat /\ sorted(j) <= slack
  BY <1>2, <1>4, Sorted
<1>6. /\ (j - 1) * step \in Nat /\ (count - 1) * step \in Nat
      /\ (j - 1) * step <= (count - 1) * step
  BY <1>1, <1>4, Monotone
<1>7. slack \in Nat /\ first + slack + (count - 1) * step = lastOpen
  BY <1>1, <1>4, <1>6 DEF slack
<1>8. first <= opensAt[j] /\ opensAt[j] <= lastOpen /\ opensAt[j] \in Nat
  <2>1. PICK sj \in Nat, gj \in Nat, gn \in Nat, s \in Nat :
          /\ sj = sorted(j) /\ gj = (j - 1) * step /\ gn = (count - 1) * step /\ s = slack
          /\ sj <= s /\ gj <= gn
    BY <1>5, <1>6, <1>7
  <2>2. opensAt[j] = first + sj + gj /\ first + s + gn = lastOpen
    BY <1>3, <1>7, <2>1
  <2>3. QED
    BY <1>1, <2>1, <2>2
<1>9. QED
  BY <1>2, <1>3, <1>4, <1>5, <1>6, <1>8

\* Whatever is drawn, every planned round is inside the margins and opens only
\* after the one before it has closed and the gap has passed.
THEOREM RoundsFitSafe == Spec => []RoundsFit
<1>1. PlanInv => RoundsFit
  <2> SUFFICES ASSUME PlanInv, Planned, NEW j \in DOMAIN opensAt
               PROVE  /\ 100 * opensAt[j] >= config.song * StartMargin
                      /\ 100 * (opensAt[j] + config.window) <= config.song * EndMargin
                      /\ \A i \in 1..(j - 1) : opensAt[j] >= opensAt[i] + Larger(config.window, config.gap)
    BY DEF RoundsFit
  <2>1. /\ first \in Nat /\ end \in Nat /\ step \in Nat
        /\ config.song \in Nat /\ config.window \in Nat /\ config.gap \in Nat
        /\ 100 * first >= config.song * StartMargin /\ 100 * end <= config.song * EndMargin
        /\ step >= config.gap /\ step >= config.window
    BY Counts DEF PlanInv
  <2>2. config.song * StartMargin \in Nat /\ config.song * EndMargin \in Nat
    BY <2>1, PlanAssumption
  <2>3. /\ first <= opensAt[j] /\ opensAt[j] <= lastOpen /\ opensAt[j] \in Nat
        /\ opensAt[j] = first + sorted(j) + (j - 1) * step
        /\ sorted(j) \in Nat /\ (j - 1) * step \in Nat
        /\ j \in 1..Len(points) /\ points \in Seq(Nat)
    <3>1. j \in 1..count /\ count = Len(points)
      BY OpeningAt
    <3>2. QED
      BY <3>1, OpeningAt
  <2>4. opensAt[j] + config.window <= end
    <3>1. PICK at \in Nat : at = opensAt[j] /\ at <= lastOpen
      BY <2>3
    <3>2. at + config.window <= end
      BY <2>1, <3>1 DEF lastOpen
    <3>3. QED
      BY <3>1, <3>2
  <2>5. ASSUME NEW i \in 1..(j - 1) PROVE opensAt[j] >= opensAt[i] + Larger(config.window, config.gap)
    <3>1. j \in DOMAIN picked /\ picked \in Seq(Words)
      BY DEF opensAt, PlanInv, PickedType
    <3>2. i \in DOMAIN opensAt
      BY <3>1 DEF opensAt
    <3>3. /\ opensAt[i] = first + sorted(i) + (i - 1) * step
          /\ sorted(i) \in Nat /\ (i - 1) * step \in Nat
      BY <3>2, OpeningAt
    <3>4. sorted(i) <= sorted(j)
      BY <2>3, Sorted
    <3>5. i \in Nat /\ j - 1 \in Nat /\ i <= j - 1
      BY <2>3
    <3>6. PICK si \in Nat, sj \in Nat, gi \in Nat, gj \in Nat :
            /\ si = sorted(i) /\ sj = sorted(j) /\ gi = (i - 1) * step /\ gj = (j - 1) * step
            /\ opensAt[i] = first + si + gi /\ opensAt[j] = first + sj + gj /\ si <= sj
      BY <2>3, <3>3, <3>4
    <3>7. i * step <= gj
      BY <2>1, <3>5, <3>6, Monotone
    <3>8. i * step = gi + step
      BY <2>1, <3>5, <3>6
    <3>9. PICK larger \in Nat : larger = Larger(config.window, config.gap) /\ step >= larger
      BY <2>1 DEF Larger
    <3>10. first + sj + gj >= first + si + gi + larger
      BY <2>1, <3>6, <3>7, <3>8, <3>9
    <3>11. QED
      BY <3>6, <3>9, <3>10
  <2>6. 100 * opensAt[j] >= config.song * StartMargin
    <3>1. PICK at \in Nat, low \in Nat : at = opensAt[j] /\ low = config.song * StartMargin /\ first <= at /\ 100 * first >= low
      BY <2>1, <2>2, <2>3
    <3>2. 100 * at >= low
      BY <2>1, <3>1
    <3>3. QED
      BY <3>1, <3>2
  <2>7. 100 * (opensAt[j] + config.window) <= config.song * EndMargin
    <3>1. PICK at \in Nat, high \in Nat :
            at = opensAt[j] /\ high = config.song * EndMargin /\ at + config.window <= end /\ 100 * end <= high
      BY <2>1, <2>2, <2>3, <2>4
    <3>2. 100 * (at + config.window) <= high
      BY <2>1, <3>1
    <3>3. QED
      BY <3>1, <3>2
  <2>8. QED
    BY <2>5, <2>6, <2>7
<1>2. QED
  BY <1>1, PlanStart, PlanStep, PTL DEF Spec

\* A round more than are planned for the song would pass the margin.
LEMMA NoMoreFit ==
    ASSUME ConfigType, count < config.rounds
    PROVE  ~Fit(count + 1)
<1>1. /\ first \in Nat /\ end \in Nat /\ step \in Nat /\ count \in Nat
      /\ config.song \in Nat /\ config.window \in Nat
      /\ first + count * step > lastOpen
  BY Counts, Slack
<1>2. PICK low \in Nat, high \in Nat : low = config.song * StartMargin /\ high = config.song * EndMargin
  BY <1>1, PlanAssumption
<1>3. PICK more \in Nat : more = count * step
  BY <1>1
<1> SUFFICES ASSUME NEW at \in 0..config.song, 100 * at >= low, 100 * (at + more + config.window) <= high
             PROVE  FALSE
  BY <1>1, <1>2, <1>3 DEF Fit
<1>4. first <= at
  BY <1>2 DEF first
<1>5. at + more + config.window <= end
  BY <1>1, <1>2 DEF end
<1>6. QED
  BY <1>1, <1>3, <1>4, <1>5 DEF lastOpen

\* Fewer rounds than asked for are planned only when one more would not fit in
\* the song, or the catalogue has no word left.
THEOREM AsManyAsFitSafe == Spec => []AsManyAsFit
<1>1. PlanInv => AsManyAsFit
  <2> SUFFICES ASSUME PlanInv, Planned
               PROVE  \/ Len(picked) = Smaller(config.rounds, Cardinality(Words))
                      \/ ~Fit(Len(picked) + 1)
    <3>1. PlanInv => Len(opensAt) = Len(picked)
      BY DEF opensAt, PlanInv, PickedType
    <3>2. QED
      BY <3>1 DEF AsManyAsFit
  <2> DEFINE n == Len(picked)
  <2>1. /\ count \in Nat /\ count <= config.rounds /\ config.rounds \in Nat
        /\ picked \in [1..n -> Words] /\ n \in Nat /\ n <= count /\ IsInjective(picked)
    BY Counts, Slack DEF PlanInv, PickedType
  <2>2. /\ IsFiniteSet(Words) /\ IsFiniteSet(1..n) /\ Cardinality(1..n) = n
        /\ Cardinality(Words) \in Nat
    <3>1. IsFiniteSet(Words) /\ Cardinality(Words) \in Nat
      BY PlanAssumption, FS_CardinalityType
    <3>2. ASSUME NEW m \in Nat PROVE IsFiniteSet(1..m) /\ Cardinality(1..m) = m
      BY FS_Interval
    <3>3. IsFiniteSet(1..n) /\ Cardinality(1..n) = n
      BY <2>1, <3>2
    <3>4. QED
      BY <3>1, <3>3
  <2>3. n <= Cardinality(Words)
    <3>1. picked \in Injection(1..n, Words)
      BY <2>1 DEF Injection
    <3>2. QED
      BY <2>2, <3>1, FS_Injection
  <2>4. CASE n # count
    <3>1. Words \subseteq Range(picked)
      BY <2>4 DEF Planned
    <3>2. picked \in Surjection(1..n, Words)
      BY <2>1, <3>1 DEF Surjection, Range
    <3>3. Cardinality(Words) <= n
      BY <2>2, <3>2, FS_Surjection
    <3>4. QED
      BY <2>1, <2>2, <2>3, <3>3 DEF Smaller
  <2>5. CASE n = count /\ count = config.rounds
    BY <2>1, <2>2, <2>3, <2>5 DEF Smaller
  <2>6. CASE n = count /\ count < config.rounds
    BY <2>6, NoMoreFit DEF PlanInv
  <2>7. count = config.rounds \/ count < config.rounds
    BY <2>1
  <2>8. QED
    BY <2>4, <2>5, <2>6, <2>7
<1>2. QED
  BY <1>1, PlanStart, PlanStep, PTL DEF Spec
=============================================================================
