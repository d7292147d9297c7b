--------------------------- MODULE WordRaceScreen ---------------------------
(***************************************************************************)
(* WordRace with one tab of a spectator, and the word it has on screen: what *)
(* word:round-started and word:round-ended leave there, and what a rejoin    *)
(* sends again (resyncWordRound).  The stores are in memory, so the join of a *)
(* tab runs to its end before anything else happens; with remote stores the   *)
(* resync could overtake the end of the round it read.  The client is not in  *)
(* this repository: that it drops the word when the battle ends is assumed.   *)
(***************************************************************************)
EXTENDS WordRace

ASSUME ScreenAssumption == Local

VARIABLES
    watching, \* the tab's socket is in the room's channel
    screen    \* the round whose word it shows

screenVars == <<watching, screen>>
NoRound == <<0, 0>>

ScreenInit == Init /\ watching = FALSE /\ screen = NoRound

\* The rounds told as started by a step, and those told as ended.
RoundStarted == {o.round : o \in {o \in opening \ opening' : o.step = "opened"}}
RoundEnded == {r \in RoundIds : ended'[r] # ended[r]}

Hears ==
    /\ UNCHANGED watching
    /\ screen' \in IF watching /\ RoundStarted # {} THEN RoundStarted
                   ELSE IF screen \in RoundEnded \/ stage' # "battling" THEN {NoRound}
                   ELSE {screen}

\* Fault: the clock is all that is checked.
ActiveRounds_TimeOnly == {r \in RoundIds : Stored(r) /\ state[r[2]] # "scheduled" /\ r[2] \notin over}

\* GetActiveWordRound: the round on screen elsewhere, if there is one.
ActiveRounds == {r \in RoundIds : Stored(r) /\ state[r[2]] = "open" /\ r[2] \notin over}

Drops ==
    /\ watching
    /\ watching' = FALSE /\ screen' = NoRound
    /\ MayFire
    /\ UNCHANGED <<contract, battle, raceVars, timerVars, taskVars, ended>>

\* room:join: the channel first, then the word if a battle is running.
Rejoins ==
    /\ watching' = TRUE
    /\ LET shown == IF stage = "battling" THEN ActiveRounds ELSE {}
       IN  screen' \in IF shown # {} THEN shown ELSE {screen}
    /\ MayFire
    /\ UNCHANGED <<contract, battle, raceVars, timerVars, taskVars, ended>>

ScreenNext ==
    \/ RaceNext /\ Hears
    \/ Drops
    \/ Rejoins
ScreenSpec == ScreenInit /\ [][ScreenNext]_<<vars, screenVars>>

-----------------------------------------------------------------------------
\* Properties.

\* While a battle runs, and whatever order words, expiries, departures and
\* reloads came in, a tab shows the round that is open and no other: none that
\* was won or ran out, none of an earlier battle, and no open one is missing.
ScreenFollows ==
    watching /\ stage = "battling" /\ Quiet =>
        /\ screen # NoRound => Stored(screen) /\ state[screen[2]] = "open"
        /\ raceId = battle => ActiveRounds \subseteq {screen}
=============================================================================
