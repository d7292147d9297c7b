---------------------------- MODULE WordRacePlan ----------------------------
(***************************************************************************)
(* How WordRaceService.plan spreads the rounds of a word race over a song:   *)
(* one random draw per step, over every song and configuration within the    *)
(* bounds.  Times are in any unit; the margins are percents, computed         *)
(* exactly where the code multiplies by 0.1 and 0.85.                        *)
(***************************************************************************)
EXTENDS Integers, SequencesExt

CONSTANTS
    Songs, Windows, Gaps,   \* lengths of a song, a window and the gap between openings
    Rounds,                 \* rounds asked for
    StartMargin, EndMargin, \* DEFAULT_WORD_START_MARGIN_RATIO, ..END..
    Words                   \* the words of the catalogue

ASSUME PlanAssumption ==
    /\ Songs \subseteq Nat /\ Windows \subseteq Nat \ {0} /\ Gaps \subseteq Nat /\ Rounds \subseteq Nat
    /\ StartMargin \in 0..100 /\ EndMargin \in StartMargin..100
    /\ IsFiniteSet(Words)

VARIABLES
    config,   \* the song and the options
    points,   \* the points drawn in the slack
    picked    \* the words drawn

vars == <<config, points, picked>>

Init ==
    /\ config \in [song : Songs, window : Windows, gap : Gaps, rounds : Rounds]
    /\ points = <<>>
    /\ picked = <<>>

Larger(a, b) == IF a > b THEN a ELSE b
Smaller(a, b) == IF a < b THEN a ELSE b

first == (config.song * StartMargin + 99) \div 100
end == (config.song * EndMargin) \div 100
lastOpen == end - config.window
step == Larger(config.gap, config.window)

\* Fault: as many gaps as rounds are reserved.
count_OneLess ==
    IF config.rounds = 0 \/ lastOpen < first THEN 0
    ELSE Smaller(config.rounds, (lastOpen - first) \div step)

\* The rounds that fit.
count ==
    IF config.rounds = 0 \/ lastOpen < first THEN 0
    ELSE Smaller(config.rounds, (lastOpen - first) \div step + 1)

\* What is left for chance once the gaps are reserved.
slack == lastOpen - first - (count - 1) * step

DrawPoint ==
    /\ Len(points) < count
    /\ \E point \in 0..slack : points' = Append(points, point)
    /\ UNCHANGED <<config, picked>>

\* pickDistinct: a drawn word leaves the pool; an empty pool ends the draw.
DrawWord ==
    /\ Len(points) = count
    /\ Len(picked) < count
    /\ \E word \in Words \ Range(picked) : picked' = Append(picked, word)
    /\ UNCHANGED <<config, points>>

Next == DrawPoint \/ DrawWord

Spec == Init /\ [][Next]_vars

Planned == Len(points) = count /\ (Len(picked) = count \/ Words \subseteq Range(picked))

\* Fault: the points are not sorted before the gaps are added.
opensAt_Unsorted == [i \in DOMAIN picked |-> first + points[i] + (i - 1) * step]

\* The sort: the point with k - 1 others before it, equal ones in the order drawn.
Below(i) ==
    {j \in DOMAIN points : points[j] < points[i] \/ (points[j] = points[i] /\ j < i)}
sorted(k) == points[CHOOSE i \in DOMAIN points : Cardinality(Below(i)) = k - 1]

\* The points sorted, with the gaps added back; a round for each word.
opensAt == [i \in DOMAIN picked |-> first + sorted(i) + (i - 1) * step]

-----------------------------------------------------------------------------
\* Properties.

\* The draws stay in their ranges and no word is drawn twice.
PlanTypeOK ==
    /\ points \in Seq(0..Larger(slack, 0)) /\ Len(points) <= count
    /\ picked \in Seq(Words) /\ Len(picked) <= count
    /\ IsInjective(picked)

\* Whatever is drawn, every round opens and closes inside the margins of the song,
\* and opens only when the one before has closed and after the minimal gap.
RoundsFit ==
    Planned => \A j \in DOMAIN opensAt :
        /\ 100 * opensAt[j] >= config.song * StartMargin
        /\ 100 * (opensAt[j] + config.window) <= config.song * EndMargin
        /\ \A i \in 1..(j - 1) : opensAt[j] >= opensAt[i] + Larger(config.window, config.gap)

\* n rounds can be placed one behind the other inside the margins.
Fit(n) ==
    \E at \in 0..config.song :
        /\ 100 * at >= config.song * StartMargin
        /\ 100 * (at + (n - 1) * step + config.window) <= config.song * EndMargin

\* "Fewer are planned when the song is too short to fit them", and only then, or
\* when the words run out.
AsManyAsFit ==
    Planned =>
        \/ Len(opensAt) = Smaller(config.rounds, Cardinality(Words))
        \/ ~Fit(Len(opensAt) + 1)
=============================================================================
