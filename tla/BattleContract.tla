--------------------------- MODULE BattleContract ---------------------------
(***************************************************************************)
(* What a room promises about its battles to whoever only sees their        *)
(* beginning and their end: the clients (battle-started, battle-finished),  *)
(* the word races and the match history.  It knows neither seats, roles,    *)
(* votes nor deadlines.                                                     *)
(***************************************************************************)
EXTENDS Naturals

CONSTANTS
    Players,      \* who may dance
    NoPlayer,     \* the winner of a tie
    Lineups       \* the sets of dancers there is a battle between

VARIABLES
    stage,        \* "waiting", "battling", "finished"
    dancing,      \* the dancers still in the battle
    won,          \* word rounds each dancer won
    champion      \* the winner announced

contract == <<stage, dancing, won, champion>>

Waiting == stage = "waiting" /\ dancing = {} /\ won = [p \in Players |-> 0] /\ champion = NoPlayer

\* A battle begins with enough dancers and nothing won.
Begin(D) ==
    /\ stage = "waiting"
    /\ D \in Lineups
    /\ stage' = "battling"
    /\ dancing' = D
    /\ UNCHANGED <<won, champion>>

\* Only somebody dancing wins words, one round at a time.
WinRound(p) ==
    /\ stage = "battling"
    /\ p \in dancing
    /\ won' = [won EXCEPT ![p] = @ + 1]
    /\ UNCHANGED <<stage, dancing, champion>>

\* One dancer less, and still enough of them.
Withdraw(p) ==
    /\ stage = "battling"
    /\ p \in dancing
    /\ dancing' = dancing \ {p}
    /\ dancing' \in Lineups
    /\ UNCHANGED <<stage, won, champion>>

\* The winner announced is one of the dancers who stayed to the end.
Announce ==
    /\ stage' = "finished"
    /\ champion' \in dancing' \cup {NoPlayer}
    /\ UNCHANGED won

\* The battle ends with its song ...
SongEnds ==
    /\ stage = "battling"
    /\ UNCHANGED dancing
    /\ Announce

\* ... or with the departure that leaves too few dancers.
LastWithdraws(p) ==
    /\ stage = "battling"
    /\ p \in dancing
    /\ dancing' = dancing \ {p}
    /\ dancing' \notin Lineups
    /\ Announce

\* What was announced stands until the room is cleared for another battle.
Clear ==
    /\ stage = "finished"
    /\ stage' = "waiting"
    /\ dancing' = {}
    /\ won' = [p \in Players |-> 0]
    /\ champion' = NoPlayer

Next ==
    \/ \E D \in Lineups : Begin(D)
    \/ \E p \in Players : WinRound(p) \/ Withdraw(p) \/ LastWithdraws(p)
    \/ SongEnds
    \/ Clear

Spec == Waiting /\ [][Next]_contract
=============================================================================
