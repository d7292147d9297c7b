----------------------------- MODULE Standings ------------------------------
(***************************************************************************)
(* The ranking as ScoringService computes it: rows sorted by score, then a *)
(* walk that gives each row its rank.  Scoring says what it should be.     *)
(***************************************************************************)
EXTENDS Scoring, SequencesExt

\* The sort: equal scores keep their order among the dancers of the battle.
Before(a, b) == a.score > b.score \/ (a.score = b.score /\ a.order < b.order)

Above(rows, i) == {j \in DOMAIN rows : Before(rows[j], rows[i])}

\* rows.sort: the row with k - 1 others before it takes position k.
Sorted(rows) ==
    [k \in DOMAIN rows |->
        rows[CHOOSE i \in DOMAIN rows : Cardinality(Above(rows, i)) = k - 1]]

Rows(order, votes, words) ==
    Sorted([i \in DOMAIN order |->
               [order  |-> i,
                dancer |-> order[i],
                score  |-> Score(votes, words, order[i])]])

\* Fault: the rank after a tie is the next number (1, 1, 2).
RankOfRow_Dense(rows) ==
    LET rank[i \in DOMAIN rows] ==
            IF i = 1 THEN 1
            ELSE rank[i - 1] + (IF rows[i].score = rows[i - 1].score THEN 0 ELSE 1)
    IN  rank

\* The walk: the rank of the row above on equal scores, otherwise the position.
RankOfRow(rows) ==
    LET rank[i \in DOMAIN rows] ==
            IF i > 1 /\ rows[i].score = rows[i - 1].score THEN rank[i - 1] ELSE i
    IN  rank

\* The ranks of the dancers in `order` and the winner, none on a draw at the top.
Computed(order, votes, words) ==
    LET rows    == Rows(order, votes, words)
        rank    == RankOfRow(rows)
        leaders == {i \in DOMAIN rows : rank[i] = 1}
    IN  [ranks  |-> [d \in ToSet(order) |-> rank[CHOOSE i \in DOMAIN rows : rows[i].dancer = d]],
         winner |-> IF Cardinality(leaders) = 1
                    THEN rows[CHOOSE i \in leaders : TRUE].dancer
                    ELSE NoPlayer]
=============================================================================
