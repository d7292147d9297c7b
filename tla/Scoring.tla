------------------------------ MODULE Scoring ------------------------------
(***************************************************************************)
(* What ScoringService promises, as mathematics: how many votes and points *)
(* each remaining dancer has, the competition ranking and the winner.      *)
(* `contenders` is battle.dancerIds as a set, `votes` maps every spectator *)
(* to the dancer voted for (NoPlayer: no vote), `words` counts the word    *)
(* rounds won.  The order of tied rows is presentation and left out.       *)
(***************************************************************************)
EXTENDS Naturals, FiniteSets

CONSTANTS
    NoPlayer,         \* no vote, no winner, no chooser
    VotePoints,       \* VOTE_POINTS
    WordBonusPoints   \* WORD_BONUS_POINTS

ASSUME PointsAssumption == VotePoints \in Nat /\ WordBonusPoints \in Nat

VoteCount(votes, d) == Cardinality({v \in DOMAIN votes : votes[v] = d})

Score(votes, words, d) ==
    VotePoints * VoteCount(votes, d) + WordBonusPoints * words[d]

Ahead(contenders, votes, words, d) ==
    {e \in contenders : Score(votes, words, e) > Score(votes, words, d)}

\* Competition ranking: one more than the dancers strictly ahead (1, 1, 3).
Rank(contenders, votes, words, d) ==
    1 + Cardinality(Ahead(contenders, votes, words, d))

Leaders(contenders, votes, words) ==
    {d \in contenders : Rank(contenders, votes, words, d) = 1}

Winner(contenders, votes, words) ==
    LET leaders == Leaders(contenders, votes, words)
    IN  IF \E d \in leaders : leaders = {d}
        THEN CHOOSE d \in leaders : leaders = {d}
        ELSE NoPlayer

Standing == [votes : Nat, words : Nat, score : Nat, rank : Nat \ {0}]

BattleResult(contenders, votes, words) ==
    [standings |-> [d \in contenders |->
                      [votes |-> VoteCount(votes, d),
                       words |-> words[d],
                       score |-> Score(votes, words, d),
                       rank  |-> Rank(contenders, votes, words, d)]],
     winner    |-> Winner(contenders, votes, words)]
=============================================================================
