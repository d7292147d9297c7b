-------------------------- MODULE WordRace_proofs ---------------------------
(***************************************************************************)
(* Theorems about WordRace, for every value of its constants: any number of *)
(* players, rounds, battles, submissions and stops at once, with stores in  *)
(* memory or remote.                                                        *)
(***************************************************************************)
EXTENDS WordRace, FiniteSetTheorems, TLAPS

\* What the handlers under way hold between two of their steps.
TasksType ==
    /\ dancing \subseteq Players
    /\ starting \in [step : {"none", "read", "save", "install"}, id : Nat, who : SUBSET Players]
    /\ stops \in [clear : Nat, delete : Nat]
    /\ opening \subseteq [round : RoundIds, step : {"room", "race", "cas", "opened"}, saw : Nat]
    /\ expiring \subseteq [round : RoundIds, step : {"cas", "find"}, expired : BOOLEAN, late : BOOLEAN]
    /\ submitting \in [Slots -> [step : {"free", "find", "claim", "award"},
                                 player : Players \cup {NoPlayer},
                                 round : RoundIds \cup {<<0, 0>>}]]
    /\ \A s \in Slots : submitting[s].step # "free" =>
          submitting[s].player \in Players /\ submitting[s].round \in RoundIds

\* A start under way is one for the latest battle, whose race is not stored yet.
StartAhead ==
    /\ starting.step # "none" => battle > 0
    /\ starting.step \in {"read", "save"} => raceId < battle
    /\ starting.step \in {"save", "install"} => starting.id = battle

\* Where no race is stored no round is decided.
NothingStored == raceId = 0 => \A i \in RoundNumbers : state[i] = "scheduled"

RaceInv == RaceTypeOK /\ TasksType /\ StartAhead /\ NothingStored

LEMMA RoundIdParts ==
    ASSUME NEW r \in RoundIds
    PROVE  r[1] \in 1..MaxBattles /\ r[2] \in RoundNumbers /\ r = <<r[1], r[2]>>
BY DEF RoundIds

LEMMA RaceStart == Init => RaceInv
<1> SUFFICES ASSUME Init PROVE RaceInv
  OBVIOUS
<1>1. RaceTypeOK
  <2>1. battle \in 0..MaxBattles /\ raceId \in 0..battle
    BY WordRaceAssumption DEF Init
  <2>2. QED
    BY <2>1 DEF Init, RaceTypeOK
<1>2. starting = NotStarting /\ dancing = {} /\ opening = {} /\ expiring = {}
      /\ stops = [clear |-> 0, delete |-> 0] /\ submitting = [s \in Slots |-> Free]
  BY DEF Init, Waiting
<1>3. TasksType
  BY <1>2 DEF NotStarting, Free, TasksType
<1>4. StartAhead /\ NothingStored
  BY DEF Init, NotStarting, StartAhead, NothingStored
<1>5. QED
  BY <1>1, <1>3, <1>4 DEF RaceInv

-----------------------------------------------------------------------------
\* The battles and what they ask of the scheduler.

LEMMA BattleSteps ==
    ASSUME RaceInv,
           \/ \E D \in Lineups : BattleBegins(D)
           \/ \E p \in Players : DancerLeaves(p) \/ Rematch(p) \/ LobbyLeave(p)
           \/ BattleOver
    PROVE  RaceInv'
<1>1. MaxBattles \in Nat
  BY WordRaceAssumption
<1>2. ASSUME NEW D \in Lineups, BattleBegins(D) PROVE RaceInv'
  <2>1. D \subseteq Players
    BY WordRaceAssumption
  <2>2. RaceTypeOK'
    BY <1>1, <1>2 DEF BattleBegins, RaceInv, RaceTypeOK, raceVars, timerVars
  <2>3. TasksType'
    BY <1>2, <2>1 DEF BattleBegins, Begin, RaceInv, TasksType, NotStarting
  <2>4. StartAhead' /\ NothingStored'
    BY <1>2 DEF BattleBegins, RaceInv, RaceTypeOK, StartAhead, NothingStored, NotStarting, raceVars
  <2>5. QED
    BY <2>2, <2>3, <2>4 DEF RaceInv
<1>3. ASSUME UNCHANGED <<battle, raceVars, timerVars, starting, opening, expiring, submitting, ended>>,
             dancing' \subseteq Players, UNCHANGED stops \/ AskStop,
             burst' \in Players \cup {NoPlayer}
      PROVE  RaceInv'
  <2>1. RaceTypeOK'
    BY <1>3 DEF RaceInv, RaceTypeOK, raceVars, timerVars
  <2>2. stops' \in [clear : Nat, delete : Nat]
    BY <1>3 DEF AskStop, RaceInv, TasksType
  <2>3. TasksType'
    BY <1>3, <2>2 DEF RaceInv, TasksType
  <2>4. QED
    BY <1>3, <2>1, <2>3 DEF RaceInv, StartAhead, NothingStored, raceVars
<1>4. dancing \subseteq Players
  BY DEF RaceInv, TasksType
<1>5. ASSUME NEW p \in Players, DancerLeaves(p) \/ Rematch(p) \/ LobbyLeave(p) PROVE RaceInv'
  <2>1. dancing' \subseteq Players
    BY <1>4, <1>5 DEF DancerLeaves, Rematch, LobbyLeave, Withdraw, LastWithdraws, Clear, contract
  <2>2. burst' \in Players \cup {NoPlayer}
    BY <1>5 DEF DancerLeaves, Rematch, LobbyLeave, MayAct
  <2>3. QED
    BY <1>3, <1>5, <2>1, <2>2 DEF DancerLeaves, Rematch, LobbyLeave
<1>6. CASE BattleOver
  BY <1>3, <1>4, <1>6 DEF BattleOver, SongEnds, MayFire
<1>7. QED
  BY <1>2, <1>5, <1>6

-----------------------------------------------------------------------------
\* The scheduler's start and stop.

LEMMA SchedulerSteps ==
    ASSUME RaceInv, StartSteps \/ StopClear \/ StopDelete \/ Tick
    PROVE  RaceInv'
<1>1. CASE StartRead
  <2>1. starting' \in [step : {"none", "read", "save", "install"}, id : Nat, who : SUBSET Players]
    BY <1>1 DEF StartRead, NotStarting, RaceInv, RaceTypeOK, TasksType
  <2>2. TasksType'
    BY <1>1, <2>1 DEF StartRead, RaceInv, TasksType, contract
  <2>3. RaceTypeOK' /\ StartAhead' /\ NothingStored'
    BY <1>1 DEF StartRead, NoTimers, NotStarting, RaceInv, RaceTypeOK, StartAhead, NothingStored, raceVars
  <2>4. QED
    BY <2>2, <2>3 DEF RaceInv
<1>2. CASE StartSave
  <2>1. starting.id = battle /\ battle > 0 /\ starting.who \subseteq Players
    BY <1>2 DEF StartSave, RaceInv, StartAhead, TasksType
  <2>2. RaceTypeOK' /\ StartAhead' /\ NothingStored'
    BY <1>2, <2>1 DEF StartSave, RaceInv, RaceTypeOK, TasksType, StartAhead, NothingStored, timerVars
  <2>3. TasksType'
    BY <1>2 DEF StartSave, RaceInv, TasksType, contract
  <2>4. QED
    BY <2>2, <2>3 DEF RaceInv
<1>3. CASE StartInstall
  <2>1. battle \in 1..MaxBattles /\ starting.id = battle
    BY <1>3, WordRaceAssumption DEF StartInstall, RaceInv, RaceTypeOK, StartAhead
  <2>2. timers' \subseteq {"open", "expire"} \X RoundIds
    BY <1>3, <2>1 DEF StartInstall, RoundIds
  <2>3. RaceTypeOK' /\ StartAhead' /\ NothingStored'
    BY <1>3, <2>2 DEF StartInstall, NotStarting, RaceInv, RaceTypeOK, StartAhead, NothingStored, raceVars
  <2>4. TasksType'
    BY <1>3 DEF StartInstall, NotStarting, RaceInv, TasksType, contract
  <2>5. QED
    BY <2>3, <2>4 DEF RaceInv
<1>4. CASE StopClear
  <2>1. RaceTypeOK' /\ StartAhead' /\ NothingStored'
    BY <1>4 DEF StopClear, NoTimers, RaceInv, RaceTypeOK, StartAhead, NothingStored, raceVars
  <2>2. TasksType'
    BY <1>4 DEF StopClear, RaceInv, TasksType, contract
  <2>3. QED
    BY <2>1, <2>2 DEF RaceInv
<1>5. CASE StopDelete
  <2>1. RaceTypeOK' /\ StartAhead' /\ NothingStored'
    BY <1>5 DEF StopDelete, NoRace, RaceInv, RaceTypeOK, StartAhead, NothingStored, timerVars
  <2>2. TasksType'
    BY <1>5 DEF StopDelete, RaceInv, TasksType, contract
  <2>3. QED
    BY <2>1, <2>2 DEF RaceInv
<1>6. CASE Tick
  BY <1>6 DEF Tick, MayFire, RaceInv, RaceTypeOK, TasksType, StartAhead, NothingStored,
              timerVars, taskVars, contract
<1>7. QED
  BY <1>1, <1>2, <1>3, <1>4, <1>5, <1>6 DEF StartSteps

-----------------------------------------------------------------------------
\* The rounds' openings.

LEMMA FireSteps ==
    ASSUME RaceInv, NEW r \in RoundIds, FireOpen(r) \/ FireExpire(r)
    PROVE  RaceInv'
<1>1. CASE FireOpen(r)
  <2>1. RaceTypeOK' /\ StartAhead' /\ NothingStored'
    BY <1>1 DEF FireOpen, MayFire, RaceInv, RaceTypeOK, StartAhead, NothingStored, raceVars
  <2>2. TasksType'
    BY <1>1 DEF FireOpen, RaceInv, TasksType, contract
  <2>3. QED
    BY <2>1, <2>2 DEF RaceInv
<1>2. CASE FireExpire(r)
  <2>1. RaceTypeOK' /\ StartAhead' /\ NothingStored'
    BY <1>2 DEF FireExpire, MayFire, RaceInv, RaceTypeOK, StartAhead, NothingStored, raceVars
  <2> DEFINE late == Stored(r) => r[2] \in over
             x == [round |-> r, step |-> "cas", expired |-> FALSE, late |-> late]
  <2>3. expiring' = expiring \cup {x} /\ late \in BOOLEAN
    BY <1>2 DEF FireExpire
  <2> HIDE DEF late
  <2>4. x \in [round : RoundIds, step : {"cas", "find"}, expired : BOOLEAN, late : BOOLEAN]
    BY <2>3
  <2> HIDE DEF x
  <2>2. TasksType'
    BY <1>2, <2>3, <2>4 DEF FireExpire, RaceInv, TasksType, contract
  <2>5. QED
    BY <2>1, <2>2 DEF RaceInv
<1>3. QED
  BY <1>1, <1>2

LEMMA OpeningSteps ==
    ASSUME RaceInv, NEW o \in opening, OpenSteps(o)
    PROVE  RaceInv'
<1>0. o \in [round : RoundIds, step : {"room", "race", "cas", "opened"}, saw : Nat]
  BY DEF RaceInv, TasksType
<1>1. CASE OpenReadRoom(o)
  <2>1. opening' \subseteq [round : RoundIds, step : {"room", "race", "cas", "opened"}, saw : Nat]
    <3> DEFINE seen == IF stage = "battling" THEN battle ELSE 0
    <3>3. seen \in Nat
      BY WordRaceAssumption DEF RaceInv, RaceTypeOK
    <3>1. [o EXCEPT !.step = "race", !.saw = seen]
            \in [round : RoundIds, step : {"room", "race", "cas", "opened"}, saw : Nat]
      <4> HIDE DEF seen
      <4> QED
        BY <1>0, <3>3
    <3>2. QED
      BY <1>1, <3>1 DEF OpenReadRoom, Goes, RaceInv, TasksType
  <2>2. QED
    BY <1>1, <2>1 DEF OpenReadRoom, RaceInv, RaceTypeOK, TasksType, StartAhead, NothingStored, contract,
                      raceVars, timerVars
<1>2. CASE OpenReadRace(o)
  <2>1. opening' \subseteq [round : RoundIds, step : {"room", "race", "cas", "opened"}, saw : Nat]
    <3>1. [o EXCEPT !.step = "cas"] \in [round : RoundIds, step : {"room", "race", "cas", "opened"}, saw : Nat]
      BY <1>0
    <3>2. QED
      BY <1>2, <3>1 DEF OpenReadRace, Goes, RaceInv, TasksType
  <2>2. stops' \in [clear : Nat, delete : Nat]
    BY <1>2 DEF OpenReadRace, StopRace, RaceInv, TasksType
  <2>3. tracking' \in BOOLEAN /\ timers' \subseteq {"open", "expire"} \X RoundIds
    BY <1>2 DEF OpenReadRace, StopRace, NoTimers, RaceInv, RaceTypeOK, timerVars
  <2>4. QED
    BY <1>2, <2>1, <2>2, <2>3 DEF OpenReadRace, RaceInv, RaceTypeOK, TasksType, StartAhead, NothingStored,
                                  contract, raceVars
<1>3. CASE OpenRound(o)
  <2>1. opening' \subseteq [round : RoundIds, step : {"room", "race", "cas", "opened"}, saw : Nat]
    <3>1. [o EXCEPT !.step = "opened"] \in [round : RoundIds, step : {"room", "race", "cas", "opened"}, saw : Nat]
      BY <1>0
    <3>2. QED
      BY <1>3, <3>1 DEF OpenRound, Goes, RaceInv, TasksType
  <2>2. TasksType'
    BY <1>3, <2>1 DEF OpenRound, RaceInv, TasksType, contract
  <2>3. RaceTypeOK' /\ NothingStored'
    <3>1. CASE UNCHANGED state
      BY <1>3, <3>1 DEF OpenRound, RaceInv, RaceTypeOK, NothingStored, timerVars
    <3>2. CASE /\ Stored(o.round) /\ state[o.round[2]] = "scheduled"
               /\ state' = [state EXCEPT ![o.round[2]] = "open"]
      <4>1. raceId # 0 /\ o.round[2] \in RoundNumbers
        BY <1>0, <3>2, RoundIdParts DEF Stored
      <4>2. QED
        BY <1>3, <3>2, <4>1 DEF OpenRound, RaceInv, RaceTypeOK, NothingStored, timerVars
    <3>3. QED
      BY <1>3, <3>1, <3>2 DEF OpenRound
  <2>4. QED
    BY <1>3, <2>2, <2>3 DEF OpenRound, RaceInv, StartAhead
<1>4. CASE OpenAnnounce(o)
  <2>1. timers' \subseteq {"open", "expire"} \X RoundIds
    BY <1>0, <1>4 DEF OpenAnnounce, Schedule, RaceInv, RaceTypeOK
  <2>2. QED
    BY <1>4, <2>1 DEF OpenAnnounce, Goes, RaceInv, RaceTypeOK, TasksType, StartAhead, NothingStored,
                      contract, raceVars
<1>5. QED
  BY <1>1, <1>2, <1>3, <1>4 DEF OpenSteps

-----------------------------------------------------------------------------
\* The rounds' expiries.

LEMMA ExpiringSteps ==
    ASSUME RaceInv, NEW x \in expiring, ExpireSteps(x)
    PROVE  RaceInv'
<1> DEFINE Expiries == [round : RoundIds, step : {"cas", "find"}, expired : BOOLEAN, late : BOOLEAN]
<1>0. x \in Expiries
  BY DEF RaceInv, TasksType
<1>1. CASE ExpireRound(x)
  <2>1. PICK done \in BOOLEAN :
            /\ done = Expirable(x)
            /\ state' = IF done THEN [state EXCEPT ![x.round[2]] = "expired"] ELSE state
            /\ expiring' = (expiring \ {x}) \cup {[x EXCEPT !.step = "find", !.expired = done]}
    BY <1>1 DEF ExpireRound
  <2>2. expiring' \subseteq Expiries
    <3>1. [x EXCEPT !.step = "find", !.expired = done] \in Expiries
      BY <1>0
    <3>2. QED
      BY <2>1, <3>1 DEF RaceInv, TasksType
  <2>3. TasksType'
    BY <1>1, <2>2 DEF ExpireRound, RaceInv, TasksType, contract
  <2>4. RaceTypeOK' /\ NothingStored'
    <3>1. CASE ~done
      BY <1>1, <2>1, <3>1 DEF ExpireRound, RaceInv, RaceTypeOK, NothingStored, timerVars
    <3>2. CASE done
      <4>3. Expirable(x) /\ state' = [state EXCEPT ![x.round[2]] = "expired"]
        BY <2>1, <3>2
      <4>4. x.round \in RoundIds
        BY <1>0
      <4>1. raceId # 0 /\ x.round[2] \in RoundNumbers /\ state[x.round[2]] = "open"
        BY <4>3, <4>4, RoundIdParts DEF Expirable, Stored
      <4>2. QED
        BY <1>1, <4>1, <4>3 DEF ExpireRound, RaceInv, RaceTypeOK, NothingStored, timerVars
    <3>3. QED
      BY <3>1, <3>2
  <2>5. QED
    BY <1>1, <2>3, <2>4 DEF ExpireRound, RaceInv, StartAhead
<1>2. CASE ExpireAnswer(x)
  <2>1. timers' \subseteq {"open", "expire"} \X RoundIds
    BY <1>0, <1>2 DEF ExpireAnswer, TryAgain, Schedule, RaceInv, RaceTypeOK
  <2>2. ended' \in [RoundIds -> Nat]
    BY <1>2 DEF ExpireAnswer, RaceInv, RaceTypeOK
  <2>3. QED
    BY <1>2, <2>1, <2>2 DEF ExpireAnswer, RaceInv, RaceTypeOK, TasksType, StartAhead, NothingStored,
                            contract, raceVars
<1>3. QED
  BY <1>1, <1>2 DEF ExpireSteps

-----------------------------------------------------------------------------
\* The words typed.

Submission == [step : {"free", "find", "claim", "award"}, player : Players \cup {NoPlayer},
               round : RoundIds \cup {<<0, 0>>}]

\* A submission that moves on keeps whose it is and for which round.
LEMMA SubmissionMoves ==
    ASSUME TasksType, NEW s \in Slots, NEW m \in Submission,
           m.step # "free" => m.player \in Players /\ m.round \in RoundIds,
           submitting' = [submitting EXCEPT ![s] = m],
           UNCHANGED <<dancing, starting, stops, opening, expiring>>
    PROVE  TasksType'
BY DEF TasksType, Submission

LEMMA SubmittingSteps ==
    ASSUME RaceInv, NEW s \in Slots,
           (\E p \in Players, i \in RoundNumbers : Submit(s, p, i)) \/ SubmitSteps(s)
    PROVE  RaceInv'
<1> DEFINE m == submitting[s]
<1>0. m \in Submission /\ (m.step # "free" => m.player \in Players /\ m.round \in RoundIds) /\ TasksType
  BY DEF RaceInv, TasksType, Submission
<1>1. ASSUME NEW p \in Players, NEW i \in RoundNumbers, Submit(s, p, i) PROVE RaceInv'
  <2> DEFINE n == [step |-> "find", player |-> p, round |-> <<raceId, i>>]
  <2>1. <<raceId, i>> \in RoundIds
    BY <1>1, WordRaceAssumption DEF Submit, RaceInv, RaceTypeOK, RoundIds
  <2>2. TasksType'
    <3>1. n \in Submission /\ n.player \in Players /\ n.round \in RoundIds
      BY <2>1 DEF Submission
    <3>2. submitting' = [submitting EXCEPT ![s] = n] /\ UNCHANGED <<dancing, starting, stops, opening, expiring>>
      BY <1>1 DEF Submit, contract
    <3> HIDE DEF n
    <3>3. QED
      BY <1>0, <3>1, <3>2, SubmissionMoves
  <2>3. QED
    BY <1>1, <2>2 DEF Submit, MayAct, RaceInv, RaceTypeOK, StartAhead, NothingStored, raceVars, timerVars
<1>2. CASE Judge(s)
  <2>1. PICK n \in {[m EXCEPT !.step = "claim"], Free} : submitting' = [submitting EXCEPT ![s] = n]
    BY <1>2 DEF Judge
  <2>2. m.step = "find"
    BY <1>2 DEF Judge
  <2>3. n \in Submission /\ (n.step # "free" => n.player \in Players /\ n.round \in RoundIds)
    BY <1>0, <2>2 DEF Submission, Free
  <2>4. TasksType'
    BY <1>0, <1>2, <2>1, <2>3, SubmissionMoves DEF Judge, contract
  <2>5. QED
    BY <1>2, <2>4 DEF Judge, RaceInv, RaceTypeOK, StartAhead, NothingStored, raceVars, timerVars
<1>3. CASE Claim(s)
  <2>1. PICK n \in {[m EXCEPT !.step = "award"], Free} : submitting' = [submitting EXCEPT ![s] = n]
    BY <1>3 DEF Claim, Late
  <2>2. m.step = "claim" /\ m.player \in Players /\ m.round \in RoundIds
    BY <1>0, <1>3 DEF Claim
  <2>3. n \in Submission /\ (n.step # "free" => n.player \in Players /\ n.round \in RoundIds)
    BY <1>0, <2>2 DEF Submission, Free
  <2>4. TasksType'
    BY <1>0, <1>3, <2>1, <2>3, SubmissionMoves DEF Claim, contract
  <2>5. RaceTypeOK' /\ NothingStored'
    <3>1. CASE UNCHANGED <<state, by>>
      BY <1>3, <3>1 DEF Claim, RaceInv, RaceTypeOK, NothingStored, timerVars
    <3>2. CASE /\ Claimable(m)
               /\ state' = [state EXCEPT ![m.round[2]] = "won"]
               /\ by' = [by EXCEPT ![m.round[2]] = m.player]
      <4>1. raceId # 0 /\ m.round[2] \in RoundNumbers /\ m.player # NoPlayer
        BY <2>2, <3>2, RoundIdParts, WordRaceAssumption DEF Claimable, Stored
      <4>2. QED
        BY <1>3, <2>2, <3>2, <4>1 DEF Claim, RaceInv, RaceTypeOK, NothingStored, timerVars
    <3>3. QED
      BY <1>3, <3>1, <3>2 DEF Claim
  <2>6. QED
    BY <1>3, <2>4, <2>5 DEF Claim, RaceInv, StartAhead
<1>4. CASE Award(s)
  <2>1. Free \in Submission /\ Free.step = "free"
    BY DEF Submission, Free
  <2>2. UNCHANGED dancing
    BY <1>4 DEF Award, WinRound, contract
  <2>3. TasksType'
    BY <1>0, <1>4, <2>1, <2>2, SubmissionMoves DEF Award
  <2>4. ended' \in [RoundIds -> Nat]
    BY <1>0, <1>4 DEF Award, RaceInv, RaceTypeOK
  <2>5. QED
    BY <1>4, <2>3, <2>4 DEF Award, RaceInv, RaceTypeOK, StartAhead, NothingStored, raceVars, timerVars
<1>5. QED
  BY <1>1, <1>2, <1>3, <1>4 DEF SubmitSteps

-----------------------------------------------------------------------------
LEMMA RaceStep == RaceInv /\ [RaceNext]_vars => RaceInv'
<1> SUFFICES ASSUME RaceInv, [RaceNext]_vars PROVE RaceInv'
  OBVIOUS
<1>1. CASE UNCHANGED vars
  BY <1>1 DEF vars, contract, raceVars, timerVars, taskVars, RaceInv, RaceTypeOK, TasksType, StartAhead,
              NothingStored
<1>2. QED
  BY <1>1, BattleSteps, SchedulerSteps, FireSteps, OpeningSteps, ExpiringSteps, SubmittingSteps DEF RaceNext

\* Every stored field and every handler under way keeps its type, and a winner
\* is recorded for exactly the rounds that were won.
THEOREM RaceTypes == RaceSpec => []RaceTypeOK
<1>1. RaceInv => RaceTypeOK
  BY DEF RaceInv
<1>2. QED
  BY <1>1, RaceStart, RaceStep, PTL DEF RaceSpec

-----------------------------------------------------------------------------
\* Who may change what is stored of the rounds.
LEMMA RoundSteps ==
    ASSUME RaceInv, [RaceNext]_vars, ~UNCHANGED <<raceId, state, by>>
    PROVE  \/ StartSave \/ StopDelete
           \/ \E o \in opening : OpenRound(o)
           \/ \E x \in expiring : ExpireRound(x)
           \/ \E s \in Slots : Claim(s)
<1>1. ~UNCHANGED raceVars /\ RaceNext
  BY DEF raceVars, vars
<1>2. QED
  BY <1>1 DEF RaceNext, BattleBegins, DancerLeaves, Rematch, LobbyLeave, BattleOver, StartSteps, StartRead,
       StartInstall, StopClear, FireOpen, FireExpire, OpenSteps, OpenReadRoom, OpenReadRace, OpenAnnounce,
       ExpireSteps, ExpireAnswer, Submit, SubmitSteps, Judge, Award, Tick, raceVars

\* Of all claims and expiries that race for a round one takes effect, and only
\* the next battle's plan replaces it (openRound, expireRound and claimRound of
\* InMemoryWordRaceRepository compare before they set).
THEOREM SettledOnceSafe == RaceSpec => SettledOnce
<1>1. RaceInv /\ [RaceNext]_vars =>
        [\A i \in RoundNumbers :
            raceId' = raceId /\ state[i] \in {"won", "expired"}
              => state'[i] = state[i] /\ by'[i] = by[i]]_vars
  <2> SUFFICES ASSUME RaceInv, [RaceNext]_vars, raceId' = raceId,
                      NEW i \in RoundNumbers, state[i] \in {"won", "expired"}
               PROVE  state'[i] = state[i] /\ by'[i] = by[i]
    OBVIOUS
  <2>0. state \in [RoundNumbers -> {"scheduled", "open", "won", "expired"}] /\ DOMAIN by = RoundNumbers
    BY DEF RaceInv, RaceTypeOK
  <2>1. CASE UNCHANGED <<raceId, state, by>>
    BY <2>1
  <2>2. ASSUME StartSave PROVE FALSE
    <3>1. starting.id = battle /\ raceId < battle /\ raceId' = starting.id
      BY <2>2 DEF StartSave, RaceInv, StartAhead
    <3>2. QED
      BY <3>1, WordRaceAssumption DEF RaceInv, RaceTypeOK
  <2>3. ASSUME StopDelete PROVE FALSE
    BY <2>3 DEF StopDelete, NoRace, RaceInv, NothingStored
  <2>4. ASSUME NEW o \in opening, OpenRound(o) PROVE state'[i] = state[i] /\ by'[i] = by[i]
    BY <2>0, <2>4 DEF OpenRound
  <2>5. ASSUME NEW x \in expiring, ExpireRound(x) PROVE state'[i] = state[i] /\ by'[i] = by[i]
    BY <2>0, <2>5 DEF ExpireRound, Expirable
  <2>6. ASSUME NEW s \in Slots, Claim(s) PROVE state'[i] = state[i] /\ by'[i] = by[i]
    BY <2>0, <2>6 DEF Claim, Claimable
  <2>7. QED
    BY <2>1, <2>2, <2>3, <2>4, <2>5, <2>6, RoundSteps
<1>2. QED
  BY <1>1, RaceStart, RaceStep, PTL DEF RaceSpec, SettledOnce

-----------------------------------------------------------------------------
(***************************************************************************)
(* EndedOnce counts broadcasts, but a broadcast follows its decision by a  *)
(* step: between the two the handler owes it.  At most one handler owes    *)
(* the end of a round, only of one not announced yet, and nobody owes it   *)
(* as long as the round may still be decided.                              *)
(***************************************************************************)
Claimed(s, r) == submitting[s].step = "award" /\ submitting[s].round = r
RanOut(x, r) == x.step = "find" /\ x.expired /\ x.round = r
Owed(r) == (\E s \in Slots : Claimed(s, r)) \/ (\E x \in expiring : RanOut(x, r))

OwedOnce(r) ==
    /\ \A s, t \in Slots : Claimed(s, r) /\ Claimed(t, r) => s = t
    /\ \A x, y \in expiring : RanOut(x, r) /\ RanOut(y, r) => x = y
    /\ \A s \in Slots, x \in expiring : ~(Claimed(s, r) /\ RanOut(x, r))

\* A round of a race to come, or one stored and not decided.
Undecided(r) ==
    \/ r[1] > battle
    \/ r[1] = battle /\ starting.step \in {"read", "save"}
    \/ Stored(r) /\ state[r[2]] \in {"scheduled", "open"}

Announced(r) ==
    /\ ended[r] \in {0, 1}
    /\ OwedOnce(r)
    /\ Owed(r) => ended[r] = 0
    /\ Undecided(r) => ended[r] = 0 /\ ~Owed(r)

AnnouncedOnce == \A r \in RoundIds : Announced(r)

LEMMA AnnouncedStart == Init => AnnouncedOnce
BY DEF Init, Free, AnnouncedOnce, Announced, OwedOnce, Owed, Claimed, RanOut

\* Steps that announce nothing and after which nobody owes more than before.
LEMMA NothingOwed ==
    ASSUME AnnouncedOnce, UNCHANGED ended,
           \A r \in RoundIds : Undecided(r)' => Undecided(r),
           \A s \in Slots, r \in RoundIds : Claimed(s, r)' => Claimed(s, r),
           \A x \in expiring', r \in RoundIds : RanOut(x, r) => x \in expiring
    PROVE  AnnouncedOnce'
<1> SUFFICES ASSUME NEW r \in RoundIds PROVE Announced(r)'
  BY DEF AnnouncedOnce
<1>1. Announced(r)
  BY DEF AnnouncedOnce
<1>2. OwedOnce(r)'
  BY <1>1 DEF Announced, OwedOnce, RanOut
<1>3. Owed(r)' => Owed(r)
  BY DEF Owed, RanOut
<1>4. QED
  BY <1>1, <1>2, <1>3 DEF Announced

\* A handler that decided a round which was not decided owes its end alone.
LEMMA DecidedOwes ==
    ASSUME AnnouncedOnce, UNCHANGED ended, NEW r \in RoundIds, Undecided(r), ~Undecided(r)',
           OwedOnce(r)',
           \A q \in RoundIds : Undecided(q)' => Undecided(q),
           \A s \in Slots, q \in RoundIds \ {r} : Claimed(s, q)' => Claimed(s, q),
           \A x \in expiring', q \in RoundIds \ {r} : RanOut(x, q) => x \in expiring
    PROVE  AnnouncedOnce'
<1> SUFFICES ASSUME NEW q \in RoundIds PROVE Announced(q)'
  BY DEF AnnouncedOnce
<1>1. Announced(q)
  BY DEF AnnouncedOnce
<1>2. CASE q = r
  BY <1>1, <1>2 DEF Announced
<1>3. CASE q # r
  <2>1. OwedOnce(q)'
    BY <1>1, <1>3 DEF Announced, OwedOnce, RanOut
  <2>2. Owed(q)' => Owed(q)
    BY <1>3 DEF Owed, RanOut
  <2>3. QED
    BY <1>1, <2>1, <2>2 DEF Announced
<1>4. QED
  BY <1>2, <1>3

\* The one who owes it announces it, and owes it no more.
LEMMA PaidAnnounces ==
    ASSUME RaceInv, AnnouncedOnce, NEW r \in RoundIds, Owed(r), ~Owed(r)',
           ended' = [ended EXCEPT ![r] = @ + 1],
           \A q \in RoundIds : Undecided(q)' => Undecided(q),
           \A s \in Slots, q \in RoundIds : Claimed(s, q)' => Claimed(s, q),
           \A x \in expiring', q \in RoundIds : RanOut(x, q) => x \in expiring
    PROVE  AnnouncedOnce'
<1> SUFFICES ASSUME NEW q \in RoundIds PROVE Announced(q)'
  BY DEF AnnouncedOnce
<1>1. Announced(q)
  BY DEF AnnouncedOnce
<1>2. OwedOnce(q)' /\ (Owed(q)' => Owed(q))
  BY <1>1 DEF Announced, OwedOnce, Owed, RanOut
<1>3. ended \in [RoundIds -> Nat]
  BY DEF RaceInv, RaceTypeOK
<1>4. CASE q = r
  <2>1. ended[q] = 0 /\ ~Undecided(q)
    BY <1>1, <1>4 DEF Announced
  <2>2. ended'[q] = 1
    BY <1>3, <1>4, <2>1
  <2>3. QED
    BY <1>2, <1>4, <2>1, <2>2 DEF Announced
<1>5. CASE q # r
  BY <1>1, <1>2, <1>3, <1>5 DEF Announced
<1>6. QED
  BY <1>4, <1>5

\* Steps of battles, of the scheduler and of openings.
LEMMA QuietSteps ==
    ASSUME RaceInv, AnnouncedOnce,
           \/ \E D \in Lineups : BattleBegins(D)
           \/ \E p \in Players : DancerLeaves(p) \/ Rematch(p) \/ LobbyLeave(p)
           \/ BattleOver \/ StartSteps \/ StopClear \/ StopDelete \/ Tick
           \/ \E r \in RoundIds : FireOpen(r)
           \/ \E o \in opening : OpenSteps(o)
    PROVE  AnnouncedOnce'
<1>1. UNCHANGED <<submitting, expiring, ended>>
  BY DEF BattleBegins, DancerLeaves, Rematch, LobbyLeave, BattleOver, StartSteps, StartRead, StartSave,
         StartInstall, StopClear, StopDelete, Tick, FireOpen, OpenSteps, OpenReadRoom, OpenReadRace,
         OpenRound, OpenAnnounce, taskVars
<1>2. ASSUME NEW r \in RoundIds, Undecided(r)' PROVE Undecided(r)
  <2>0. r[1] \in Nat \ {0} /\ r[2] \in RoundNumbers /\ battle \in Nat /\ raceId \in Nat
    BY RoundIdParts, WordRaceAssumption DEF RaceInv, RaceTypeOK
  <2>1. ASSUME NEW D \in Lineups, BattleBegins(D) PROVE Undecided(r)
    BY <1>2, <2>0, <2>1 DEF BattleBegins, Undecided, Stored, raceVars
  <2>2. CASE UNCHANGED <<battle, raceId, state, starting>>
    BY <1>2, <2>2 DEF Undecided, Stored
  <2>3. CASE StartRead
    BY <1>2, <2>3 DEF StartRead, NotStarting, Undecided, Stored, raceVars
  <2>4. CASE StartSave
    BY <1>2, <2>4 DEF StartSave, RaceInv, StartAhead, TasksType, Undecided, Stored
  <2>5. CASE StartInstall
    BY <1>2, <2>5 DEF StartInstall, NotStarting, Undecided, Stored, raceVars
  <2>6. CASE StopDelete
    BY <1>2, <2>0, <2>6 DEF StopDelete, NoRace, Undecided, Stored
  <2>7. ASSUME NEW o \in opening, OpenRound(o) PROVE Undecided(r)
    <3>1. o.round \in RoundIds
      BY DEF RaceInv, TasksType
    <3>2. CASE UNCHANGED state
      BY <1>2, <2>7, <3>2 DEF OpenRound, Undecided, Stored
    <3>3. CASE state[o.round[2]] = "scheduled" /\ state' = [state EXCEPT ![o.round[2]] = "open"]
      BY <1>2, <2>0, <2>7, <3>3 DEF OpenRound, Undecided, Stored, RaceInv, RaceTypeOK
    <3>4. QED
      BY <2>7, <3>2, <3>3 DEF OpenRound
  <2>8. QED
    BY <2>1, <2>2, <2>3, <2>4, <2>5, <2>6, <2>7
    DEF DancerLeaves, Rematch, LobbyLeave, BattleOver, StartSteps, StopClear, Tick, FireOpen, OpenSteps,
        OpenReadRoom, OpenReadRace, OpenAnnounce, raceVars, taskVars
<1>3. QED
  BY <1>1, <1>2, NothingOwed DEF Claimed

\* A round that runs out: one expiry decides it, and answers for it.
LEMMA ExpiringAnnounces ==
    ASSUME RaceInv, AnnouncedOnce,
           (\E r \in RoundIds : FireExpire(r)) \/ (\E x \in expiring : ExpireSteps(x))
    PROVE  AnnouncedOnce'
<1> DEFINE Expiries == [round : RoundIds, step : {"cas", "find"}, expired : BOOLEAN, late : BOOLEAN]
<1>1. ASSUME NEW r \in RoundIds, FireExpire(r) PROVE AnnouncedOnce'
  <2>1. UNCHANGED <<submitting, ended, battle, raceId, state, starting>>
    BY <1>1 DEF FireExpire, raceVars
  <2>2. \A x \in expiring', q \in RoundIds : RanOut(x, q) => x \in expiring
    BY <1>1 DEF FireExpire, RanOut
  <2>3. QED
    BY <2>1, <2>2, NothingOwed DEF Claimed, Undecided, Stored
<1>2. ASSUME NEW x \in expiring, ExpireRound(x) PROVE AnnouncedOnce'
  <2>0. x \in Expiries /\ x.round \in RoundIds /\ x.round[2] \in RoundNumbers
    BY RoundIdParts DEF RaceInv, TasksType
  <2>1. PICK done \in BOOLEAN :
            /\ done = Expirable(x)
            /\ state' = IF done THEN [state EXCEPT ![x.round[2]] = "expired"] ELSE state
            /\ expiring' = (expiring \ {x}) \cup {[x EXCEPT !.step = "find", !.expired = done]}
    BY <1>2 DEF ExpireRound
  <2> DEFINE y == [x EXCEPT !.step = "find", !.expired = done]
  <2>2. UNCHANGED <<submitting, ended, battle, raceId, starting>>
    BY <1>2 DEF ExpireRound
  <2>3. y.step = "find" /\ y.expired = done /\ y.round = x.round /\ expiring' = (expiring \ {x}) \cup {y}
    BY <2>0, <2>1
  <2> HIDE DEF y
  <2>4. CASE ~done
    <3>1. \A z \in expiring', q \in RoundIds : RanOut(z, q) => z \in expiring
      BY <2>3, <2>4 DEF RanOut
    <3>2. UNCHANGED state
      BY <2>1, <2>4
    <3>3. QED
      BY <2>2, <3>1, <3>2, NothingOwed DEF Claimed, Undecided, Stored
  <2>5. CASE done
    <3>1. Expirable(x) /\ state' = [state EXCEPT ![x.round[2]] = "expired"]
      BY <2>1, <2>5
    <3>2. Undecided(x.round) /\ ~Undecided(x.round)'
      <4>1. Stored(x.round) /\ state[x.round[2]] = "open" /\ state'[x.round[2]] = "expired"
        BY <2>0, <3>1 DEF Expirable, RaceInv, RaceTypeOK
      <4>2. x.round[1] <= battle /\ (starting.step \in {"read", "save"} => x.round[1] # battle)
        BY <4>1, WordRaceAssumption DEF Stored, RaceInv, RaceTypeOK, StartAhead
      <4>3. x.round[1] \in Nat /\ battle \in Nat
        BY <2>0, RoundIdParts, WordRaceAssumption DEF RaceInv, RaceTypeOK
      <4>4. QED
        BY <2>2, <4>1, <4>2, <4>3 DEF Undecided, Stored
    <3>3. ASSUME NEW q \in RoundIds, Undecided(q)' PROVE Undecided(q)
      <4>1. q[2] \in RoundNumbers
        BY RoundIdParts
      <4>2. QED
        BY <2>2, <3>1, <3>3, <4>1 DEF Undecided, Stored, RaceInv, RaceTypeOK
    <3>4. ~Owed(x.round)
      BY <2>0, <3>2 DEF AnnouncedOnce, Announced
    <3>5. OwedOnce(x.round)'
      BY <2>2, <2>3, <3>4 DEF Owed, OwedOnce, Claimed, RanOut
    <3>6. \A z \in expiring', q \in RoundIds \ {x.round} : RanOut(z, q) => z \in expiring
      BY <2>3 DEF RanOut
    <3>7. QED
      BY <2>0, <2>2, <3>2, <3>3, <3>5, <3>6, DecidedOwes DEF Claimed
  <2>6. QED
    BY <2>4, <2>5
<1>3. ASSUME NEW x \in expiring, ExpireAnswer(x) PROVE AnnouncedOnce'
  <2>0. x.round \in RoundIds
    BY DEF RaceInv, TasksType
  <2>1. UNCHANGED <<submitting, battle, raceId, state, starting>> /\ expiring' = expiring \ {x}
    BY <1>3 DEF ExpireAnswer, raceVars
  <2>2. CASE UNCHANGED ended
    BY <2>1, <2>2, NothingOwed DEF Claimed, Undecided, Stored
  <2>3. CASE x.expired /\ ended' = [ended EXCEPT ![x.round] = @ + 1]
    <3>1. RanOut(x, x.round)
      BY <1>3, <2>3 DEF ExpireAnswer, RanOut
    <3>2. OwedOnce(x.round)
      BY <2>0 DEF AnnouncedOnce, Announced
    <3>3. Owed(x.round) /\ ~Owed(x.round)'
      BY <2>1, <3>1, <3>2 DEF OwedOnce, Owed, Claimed
    <3>4. QED
      BY <2>0, <2>1, <2>3, <3>3, PaidAnnounces DEF Claimed, Undecided, Stored
  <2>4. QED
    BY <1>3, <2>2, <2>3 DEF ExpireAnswer
<1>4. QED
  BY <1>1, <1>2, <1>3 DEF ExpireSteps

\* A word typed: the claim that is first decides the round, and is paid for it.
LEMMA SubmittingAnnounces ==
    ASSUME RaceInv, AnnouncedOnce, NEW s \in Slots,
           (\E p \in Players, i \in RoundNumbers : Submit(s, p, i)) \/ SubmitSteps(s)
    PROVE  AnnouncedOnce'
<1>7. submitting \in [Slots -> Submission]
  BY DEF RaceInv, TasksType, Submission
<1>0. PICK m \in Submission : m = submitting[s] /\ (m.step # "free" => m.round \in RoundIds)
  BY <1>7 DEF RaceInv, TasksType
<1>1. ASSUME NEW n, n.step # "award", submitting' = [submitting EXCEPT ![s] = n],
             UNCHANGED <<ended, battle, raceId, state, starting, expiring>>
      PROVE  AnnouncedOnce'
  <2>1. \A t \in Slots, r \in RoundIds : Claimed(t, r)' => Claimed(t, r)
    BY <1>1, <1>7 DEF Claimed
  <2>2. QED
    BY <1>1, <2>1, NothingOwed DEF Undecided, Stored
<1>2. ASSUME NEW p \in Players, NEW i \in RoundNumbers, Submit(s, p, i) PROVE AnnouncedOnce'
  <2>1. PICK n : n.step = "find" /\ submitting' = [submitting EXCEPT ![s] = n]
    BY <1>2 DEF Submit
  <2>2. QED
    BY <1>1, <1>2, <2>1 DEF Submit, raceVars
<1>3. CASE Judge(s)
  <2>1. PICK n \in {[m EXCEPT !.step = "claim"], Free} : submitting' = [submitting EXCEPT ![s] = n]
    BY <1>0, <1>3 DEF Judge
  <2>2. n.step # "award"
    BY <1>0, <2>1 DEF Free, Submission
  <2>3. QED
    BY <1>1, <1>3, <2>1, <2>2 DEF Judge, raceVars
<1>4. CASE Claim(s)
  <2>0. m.step = "claim" /\ m.round \in RoundIds /\ m.round[2] \in RoundNumbers
    BY <1>0, <1>4, RoundIdParts DEF Claim
  <2>1. UNCHANGED <<ended, battle, raceId, starting, expiring>>
    BY <1>4 DEF Claim
  <2>2. CASE UNCHANGED state /\ submitting' = [submitting EXCEPT ![s] = Free]
    BY <1>1, <2>1, <2>2 DEF Free
  <2>3. CASE /\ Claimable(m)
             /\ state' = [state EXCEPT ![m.round[2]] = "won"]
             /\ submitting' = [submitting EXCEPT ![s] = [m EXCEPT !.step = "award"]]
    <3>1. Undecided(m.round) /\ ~Undecided(m.round)'
      <4>1. Stored(m.round) /\ state[m.round[2]] = "open" /\ state'[m.round[2]] = "won"
        BY <2>0, <2>3 DEF Claimable, RaceInv, RaceTypeOK
      <4>2. m.round[1] <= battle /\ (starting.step \in {"read", "save"} => m.round[1] # battle)
        BY <4>1, WordRaceAssumption DEF Stored, RaceInv, RaceTypeOK, StartAhead
      <4>3. m.round[1] \in Nat /\ battle \in Nat
        BY <2>0, RoundIdParts, WordRaceAssumption DEF RaceInv, RaceTypeOK
      <4>4. QED
        BY <2>1, <4>1, <4>2, <4>3 DEF Undecided, Stored
    <3>2. ASSUME NEW q \in RoundIds, Undecided(q)' PROVE Undecided(q)
      <4>1. q[2] \in RoundNumbers
        BY RoundIdParts
      <4>2. QED
        BY <2>1, <2>3, <3>2, <4>1 DEF Undecided, Stored, RaceInv, RaceTypeOK
    <3>3. ~Owed(m.round)
      BY <2>0, <3>1 DEF AnnouncedOnce, Announced
    <3>4. ASSUME NEW t \in Slots, NEW q \in RoundIds, Claimed(t, q)'
          PROVE  Claimed(t, q) \/ (t = s /\ q = m.round)
      BY <1>0, <1>7, <2>3, <3>4 DEF Claimed, Submission
    <3>5. OwedOnce(m.round)'
      BY <2>0, <2>1, <3>3, <3>4 DEF Owed, OwedOnce, RanOut
    <3>6. QED
      BY <2>0, <2>1, <3>1, <3>2, <3>4, <3>5, DecidedOwes
  <2>4. QED
    BY <1>0, <1>4, <2>2, <2>3 DEF Claim, Late
<1>5. CASE Award(s)
  <2>0. m.step = "award" /\ m.round \in RoundIds
    BY <1>0, <1>5 DEF Award
  <2>1. /\ UNCHANGED <<battle, raceId, state, starting, expiring>>
        /\ submitting' = [submitting EXCEPT ![s] = Free]
        /\ ended' = [ended EXCEPT ![m.round] = @ + 1]
    BY <1>0, <1>5 DEF Award, raceVars
  <2>2. Claimed(s, m.round) /\ OwedOnce(m.round)
    BY <1>0, <2>0 DEF Claimed, AnnouncedOnce, Announced
  <2>3. \A t \in Slots, q \in RoundIds : Claimed(t, q)' => Claimed(t, q) /\ t # s
    BY <1>7, <2>1 DEF Claimed, Free
  <2>4. Owed(m.round) /\ ~Owed(m.round)'
    <3>1. Owed(m.round)
      BY <2>2 DEF Owed
    <3>2. QED
      BY <2>0, <2>1, <2>2, <2>3, <3>1 DEF OwedOnce, Owed
  <2>5. QED
    BY <2>0, <2>1, <2>3, <2>4, PaidAnnounces DEF Undecided, Stored
<1>6. QED
  BY <1>2, <1>3, <1>4, <1>5 DEF SubmitSteps

LEMMA AnnouncedStep == RaceInv /\ AnnouncedOnce /\ [RaceNext]_vars => AnnouncedOnce'
<1> SUFFICES ASSUME RaceInv, AnnouncedOnce, [RaceNext]_vars PROVE AnnouncedOnce'
  OBVIOUS
<1>1. CASE UNCHANGED vars
  <2>1. UNCHANGED <<submitting, expiring, ended, battle, raceId, state, starting>>
    BY <1>1 DEF vars, raceVars, taskVars
  <2>2. QED
    BY <2>1, NothingOwed DEF Claimed, Undecided, Stored
<1>2. QED
  BY <1>1, QuietSteps, ExpiringAnnounces, SubmittingAnnounces DEF RaceNext

\* However claims, expiries, stops and the next battle's start overlap, and with
\* stores in memory or remote, the room is told the end of a round at most once
\* (WordRaceScheduler.ts:10).
THEOREM EndedOnceSafe == RaceSpec => []EndedOnce
<1>1. AnnouncedOnce => EndedOnce
  BY DEF AnnouncedOnce, Announced, EndedOnce
<1>2. QED
  BY <1>1, RaceStart, RaceStep, AnnouncedStart, AnnouncedStep, PTL DEF RaceSpec

-----------------------------------------------------------------------------
(***************************************************************************)
(* Stores in memory.  A timer's handler then runs alone, a start runs with *)
(* at most the messages of one burst, and while a battle runs nothing      *)
(* stops the race: so the race of a battle is its own from the plan on.    *)
(***************************************************************************)
AllScheduled == \A i \in RoundNumbers : state[i] = "scheduled"
NobodyTypes == \A s \in Slots : submitting[s] = Free
NoStops == stops = [clear |-> 0, delete |-> 0]
NothingWon == won = [p \in Players |-> 0]

\* The handler of a timer overlaps no other handler but a stop it asked for.
TimersAlone ==
    /\ opening # {} \/ expiring # {} => burst = NoPlayer /\ starting = NotStarting /\ NobodyTypes
    /\ opening = {} \/ expiring = {}
    /\ \A o, q \in opening : o = q

\* During a start no round is open, and nobody can type a word.
StartAlone == starting.step # "none" => AllScheduled /\ NobodyTypes

\* Once started, the race of a running battle is the stored one.
BattleAlone ==
    stage = "battling" => /\ battle > 0 /\ NoStops
                          /\ starting.step \in {"read", "save"} \/ raceId = battle

\* No open round outlasts its battle, but until the stop that was asked for.
LeftOver == stage # "battling" => AllScheduled \/ ~NoStops

\* What an opening read is still true, and rounds open in their order.
OpeningsSound ==
    \A o \in opening :
        /\ o.step = "race" => o.saw = IF stage = "battling" THEN battle ELSE 0
        /\ o.step \in {"cas", "opened"} => stage = "battling"
        /\ o.step = "opened" => Stored(o.round) /\ state[o.round[2]] = "open"
        /\ Stored(o.round) => \A j \in RoundNumbers : /\ j > o.round[2] => state[j] = "scheduled"
                                                      /\ j < o.round[2] => j \in over
        /\ \A r \in RoundIds : <<"open", r>> \in timers /\ r[1] = o.round[1] => r[2] > o.round[2]

TimersSound ==
    \A r \in RoundIds : <<"open", r>> \in timers /\ Stored(r) =>
        \A j \in RoundNumbers : j >= r[2] => state[j] = "scheduled"

\* A round opens after the windows of all those before it.
InOrder == \A i, j \in RoundNumbers : i < j /\ state[j] # "scheduled" => i \in over

\* Nothing is won before the race of the battle is stored.
NothingWonYet ==
    /\ won \in [Players -> Nat]
    /\ stage = "waiting" => NothingWon
    /\ stage = "battling" /\ starting.step \in {"read", "save"} => NothingWon

LocalInv ==
    /\ TimersAlone
    /\ StartAlone
    /\ BattleAlone
    /\ LeftOver
    /\ OpeningsSound
    /\ TimersSound
    /\ InOrder
    /\ NothingWonYet

LEMMA LocalStart == Init => LocalInv
BY DEF Init, Waiting, NotStarting, Free, LocalInv, TimersAlone, StartAlone, BattleAlone, LeftOver,
       OpeningsSound, TimersSound, InOrder, NothingWonYet, AllScheduled, NobodyTypes, NothingWon

\* A message is handled when no timer's handler is.
LEMMA MessageAlone ==
    ASSUME Local, LocalInv, NEW p \in Players, MayAct(p)
    PROVE  opening = {} /\ expiring = {}
<1>1. CASE Quiet
  BY <1>1 DEF Quiet
<1>2. CASE burst = p
  BY <1>2, WordRaceAssumption DEF LocalInv, TimersAlone
<1>3. QED
  BY <1>1, <1>2 DEF MayAct

LEMMA LocalBattles ==
    ASSUME Local, RaceInv, LocalInv,
           \/ \E D \in Lineups : BattleBegins(D)
           \/ \E p \in Players : DancerLeaves(p) \/ Rematch(p) \/ LobbyLeave(p)
           \/ BattleOver
    PROVE  LocalInv'
<1>1. ASSUME NEW D \in Lineups, BattleBegins(D) PROVE LocalInv'
  <2>1. /\ Quiet /\ stage = "waiting" /\ stage' = "battling"
        /\ UNCHANGED <<raceVars, timerVars, stops, opening, expiring, submitting, won>>
        /\ starting' = [NotStarting EXCEPT !.step = "read"] /\ battle' = battle + 1
    BY <1>1 DEF BattleBegins, Begin
  <2>2. AllScheduled /\ NobodyTypes /\ NoStops /\ opening = {} /\ expiring = {}
    BY <2>1 DEF Quiet, LocalInv, LeftOver, NobodyTypes, NoStops, Free
  <2>3. NothingWon' /\ AllScheduled' /\ NobodyTypes' /\ NoStops' /\ battle' > 0
    BY <2>1, <2>2, WordRaceAssumption DEF LocalInv, NothingWonYet, NothingWon, AllScheduled, NobodyTypes,
       NoStops, raceVars, RaceInv, RaceTypeOK
  <2>4. OpeningsSound' /\ TimersSound' /\ InOrder'
    BY <2>1, <2>2, <2>3 DEF OpeningsSound, TimersSound, InOrder, AllScheduled
  <2>5. QED
    BY <2>1, <2>2, <2>3, <2>4 DEF NotStarting, LocalInv, TimersAlone, StartAlone, BattleAlone, LeftOver,
       NothingWonYet, NothingWon
<1>2. ASSUME UNCHANGED <<battle, raceVars, timerVars, starting, opening, expiring, submitting>>,
             opening = {}, expiring = {}, won' \in {won, [p \in Players |-> 0]},
             \/ stage' = "battling" /\ stage = "battling" /\ UNCHANGED <<stops, won>>
             \/ stage' # "battling" /\ AskStop,
             stage' = "waiting" => won' = [p \in Players |-> 0]
      PROVE  LocalInv'
  <2>1. stage' # "battling" => ~NoStops'
    BY <1>2 DEF AskStop, NoStops, RaceInv, TasksType
  <2>2. TimersAlone' /\ OpeningsSound' /\ TimersSound' /\ InOrder' /\ StartAlone'
    BY <1>2 DEF LocalInv, TimersAlone, OpeningsSound, TimersSound, InOrder, StartAlone, AllScheduled,
       NobodyTypes, Stored, raceVars, timerVars
  <2>3. NothingWonYet'
    BY <1>2 DEF LocalInv, NothingWonYet, NothingWon
  <2>4. BattleAlone' /\ LeftOver'
    BY <1>2, <2>1 DEF LocalInv, BattleAlone, NoStops, LeftOver, raceVars
  <2>5. QED
    BY <2>2, <2>3, <2>4 DEF LocalInv
<1>3. ASSUME NEW p \in Players, DancerLeaves(p) PROVE LocalInv'
  <2>1. opening = {} /\ expiring = {}
    BY <1>3, MessageAlone DEF DancerLeaves
  <2>2. QED
    BY <1>2, <1>3, <2>1 DEF DancerLeaves, Withdraw, LastWithdraws, Announce
<1>4. ASSUME NEW p \in Players, Rematch(p) PROVE LocalInv'
  <2>1. opening = {} /\ expiring = {}
    BY <1>4, MessageAlone DEF Rematch
  <2>2. QED
    BY <1>2, <1>4, <2>1 DEF Rematch, Clear
<1>5. ASSUME NEW p \in Players, LobbyLeave(p) PROVE LocalInv'
  <2>1. opening = {} /\ expiring = {}
    BY <1>5, MessageAlone DEF LobbyLeave
  <2>2. stage = "waiting" => won = [q \in Players |-> 0]
    BY DEF LocalInv, NothingWonYet, NothingWon
  <2>3. QED
    BY <1>2, <1>5, <2>1, <2>2 DEF LobbyLeave, contract
<1>6. CASE BattleOver
  <2>1. opening = {} /\ expiring = {}
    BY <1>6 DEF BattleOver, MayFire, Quiet
  <2>2. QED
    BY <1>2, <1>6, <2>1 DEF BattleOver, SongEnds, Announce
<1>7. QED
  BY <1>1, <1>3, <1>4, <1>5, <1>6

LEMMA LocalScheduler ==
    ASSUME Local, RaceInv, LocalInv, StartSteps \/ StopClear \/ StopDelete \/ Tick
    PROVE  LocalInv'
<1>1. ASSUME StartSteps PROVE opening = {} /\ expiring = {} /\ AllScheduled /\ NobodyTypes
  BY <1>1 DEF StartSteps, StartRead, StartSave, StartInstall, NotStarting, LocalInv, TimersAlone, StartAlone
<1>2. CASE StartRead
  <2>1. /\ UNCHANGED <<stage, won, battle, raceVars, stops, opening, expiring, submitting, burst>>
        /\ timers' = {} /\ starting.step = "read"
        /\ starting' = IF stage = "battling" THEN [step |-> "save", id |-> battle, who |-> dancing]
                                             ELSE NotStarting
    BY <1>2 DEF StartRead, NoTimers, contract
  <2>2. opening = {} /\ expiring = {} /\ AllScheduled /\ NobodyTypes
    BY <1>1, <1>2 DEF StartSteps
  <2>3. TimersAlone' /\ StartAlone' /\ BattleAlone' /\ LeftOver' /\ OpeningsSound' /\ TimersSound'
    BY <2>1, <2>2 DEF LocalInv, TimersAlone, StartAlone, BattleAlone, LeftOver, OpeningsSound, TimersSound,
       AllScheduled, NobodyTypes, NoStops, raceVars
  <2>4. InOrder' /\ NothingWonYet'
    BY <2>1, <2>2 DEF LocalInv, InOrder, NothingWonYet, NothingWon, AllScheduled, raceVars
  <2>5. QED
    BY <2>3, <2>4 DEF LocalInv
<1>3. CASE StartSave
  <2>1. /\ UNCHANGED <<stage, won, battle, timers, stops, opening, expiring, submitting, burst>>
        /\ raceId' = battle /\ AllScheduled'
        /\ starting.step = "save" /\ starting'.step = "install" /\ battle > 0
    BY <1>3 DEF StartSave, contract, timerVars, AllScheduled, RaceInv, StartAhead, TasksType
  <2>2. opening = {} /\ expiring = {} /\ NobodyTypes
    BY <1>1, <1>3 DEF StartSteps
  <2>3. TimersAlone' /\ StartAlone' /\ BattleAlone' /\ LeftOver' /\ OpeningsSound' /\ TimersSound'
    BY <2>1, <2>2 DEF LocalInv, TimersAlone, StartAlone, BattleAlone, LeftOver, OpeningsSound, TimersSound,
       AllScheduled, NobodyTypes, NoStops
  <2>4. InOrder' /\ NothingWonYet'
    BY <2>1, <2>2 DEF LocalInv, InOrder, NothingWonYet, NothingWon, AllScheduled
  <2>5. QED
    BY <2>3, <2>4 DEF LocalInv
<1>4. CASE StartInstall
  <2>1. /\ UNCHANGED <<stage, won, battle, raceVars, stops, opening, expiring, submitting, burst>>
        /\ starting.step = "install" /\ starting' = NotStarting
    BY <1>4 DEF StartInstall, contract
  <2>2. opening = {} /\ expiring = {} /\ AllScheduled /\ NobodyTypes
    BY <1>1, <1>4 DEF StartSteps
  <2>3. TimersAlone' /\ StartAlone' /\ BattleAlone' /\ LeftOver' /\ OpeningsSound' /\ TimersSound'
    BY <2>1, <2>2 DEF LocalInv, TimersAlone, StartAlone, BattleAlone, LeftOver, OpeningsSound, TimersSound,
       AllScheduled, NobodyTypes, NoStops, NotStarting, raceVars
  <2>4. InOrder' /\ NothingWonYet'
    BY <2>1, <2>2 DEF LocalInv, InOrder, NothingWonYet, NothingWon, AllScheduled, NotStarting, raceVars
  <2>5. QED
    BY <2>3, <2>4 DEF LocalInv
<1>5. ASSUME stops.clear > 0 \/ stops.delete > 0 PROVE stage # "battling"
  BY <1>5 DEF LocalInv, BattleAlone, NoStops
<1>6. CASE StopClear
  <2>1. /\ UNCHANGED <<stage, won, battle, raceVars, starting, opening, expiring, submitting, burst>>
        /\ timers' = {} /\ stage # "battling" /\ ~NoStops'
    BY <1>5, <1>6 DEF StopClear, NoTimers, NoStops, contract, RaceInv, TasksType
  <2>2. TimersAlone' /\ StartAlone' /\ BattleAlone' /\ LeftOver'
    BY <2>1 DEF LocalInv, TimersAlone, StartAlone, BattleAlone, LeftOver, AllScheduled, NobodyTypes, raceVars
  <2>3. OpeningsSound' /\ TimersSound'
    BY <2>1 DEF LocalInv, OpeningsSound, TimersSound, Stored, raceVars
  <2>4. InOrder' /\ NothingWonYet'
    BY <2>1 DEF LocalInv, InOrder, NothingWonYet, NothingWon, raceVars
  <2>5. QED
    BY <2>2, <2>3, <2>4 DEF LocalInv
<1>7. CASE StopDelete
  <2>1. /\ UNCHANGED <<stage, won, battle, timers, starting, opening, expiring, submitting, burst>>
        /\ raceId' = 0 /\ AllScheduled' /\ stage # "battling"
    BY <1>5, <1>7 DEF StopDelete, NoRace, AllScheduled, contract, timerVars
  <2>2. TimersAlone' /\ StartAlone' /\ BattleAlone' /\ LeftOver'
    BY <2>1 DEF LocalInv, TimersAlone, StartAlone, BattleAlone, LeftOver, NobodyTypes
  <2>3. \A r \in RoundIds : ~Stored(r)'
    BY <2>1, RoundIdParts DEF Stored
  <2>4. OpeningsSound' /\ TimersSound'
    BY <2>1, <2>3 DEF LocalInv, OpeningsSound, TimersSound, RaceInv, TasksType
  <2>5. InOrder' /\ NothingWonYet'
    BY <2>1 DEF LocalInv, InOrder, NothingWonYet, NothingWon, AllScheduled
  <2>6. QED
    BY <2>2, <2>4, <2>5 DEF LocalInv
<1>8. CASE Tick
  <2>1. /\ UNCHANGED <<stage, won, battle, raceId, state, timers, starting, stops, opening, expiring, submitting>>
        /\ over \subseteq over' /\ opening = {} /\ expiring = {}
    BY <1>8 DEF Tick, MayFire, Quiet, contract, timerVars, taskVars
  <2>2. TimersAlone' /\ StartAlone' /\ BattleAlone' /\ LeftOver' /\ OpeningsSound'
    BY <2>1 DEF LocalInv, TimersAlone, StartAlone, BattleAlone, LeftOver, OpeningsSound, AllScheduled,
       NobodyTypes, NoStops
  <2>3. TimersSound' /\ InOrder' /\ NothingWonYet'
    BY <2>1 DEF LocalInv, TimersSound, Stored, InOrder, NothingWonYet, NothingWon
  <2>4. QED
    BY <2>2, <2>3 DEF LocalInv
<1>9. QED
  BY <1>2, <1>3, <1>4, <1>6, <1>7, <1>8 DEF StartSteps

\* A timer fires with nothing else under way.
LEMMA LocalFires ==
    ASSUME Local, RaceInv, LocalInv, NEW r \in RoundIds, FireOpen(r) \/ FireExpire(r)
    PROVE  LocalInv'
<1>1. /\ UNCHANGED <<stage, won, battle, raceVars, starting, stops, submitting>>
      /\ starting = NotStarting /\ NoStops /\ NobodyTypes /\ opening = {} /\ expiring = {}
      /\ burst' = NoPlayer
  BY DEF FireOpen, FireExpire, MayFire, Quiet, NoStops, NobodyTypes, Free, contract
<1>2. StartAlone' /\ BattleAlone' /\ LeftOver' /\ InOrder' /\ NothingWonYet'
  BY <1>1 DEF LocalInv, StartAlone, BattleAlone, LeftOver, InOrder, NothingWonYet, NothingWon, AllScheduled,
     NobodyTypes, NoStops, raceVars
<1>3. timers' \subseteq timers
  BY DEF FireOpen, FireExpire
<1>4. TimersSound'
  BY <1>1, <1>3 DEF LocalInv, TimersSound, Stored, raceVars
<1>5. CASE FireOpen(r)
  <2>1. opening' = {[round |-> r, step |-> "room", saw |-> 0]} /\ expiring' = {}
    BY <1>1, <1>5 DEF FireOpen
  <2>2. TimersAlone'
    BY <1>1, <2>1 DEF TimersAlone, NobodyTypes
  <2>3. /\ timers' = timers \ {<<"open", r>>} /\ <<"open", r>> \in timers
        /\ \A j \in RoundNumbers : j < r[2] => <<"open", <<r[1], j>>>> \notin timers
        /\ Stored(r) => \A j \in RoundNumbers : j < r[2] => j \in over
    BY <1>5 DEF FireOpen
  <2>4. ASSUME Stored(r), NEW j \in RoundNumbers, j > r[2] PROVE state[j] = "scheduled"
    BY <2>3, <2>4, RoundIdParts, WordRaceAssumption DEF LocalInv, TimersSound
  <2>5. ASSUME NEW q \in RoundIds, <<"open", q>> \in timers', q[1] = r[1] PROVE q[2] > r[2]
    <3>1. q = <<q[1], q[2]>> /\ r = <<r[1], r[2]>> /\ q[2] \in RoundNumbers /\ r[2] \in RoundNumbers
      BY RoundIdParts
    <3>2. ~(q[2] < r[2])
      BY <2>3, <2>5, <3>1
    <3>3. q[2] # r[2]
      BY <2>3, <2>5, <3>1
    <3>4. QED
      BY <3>1, <3>2, <3>3, WordRaceAssumption
  <2>6. OpeningsSound'
    BY <1>1, <2>1, <2>3, <2>4, <2>5 DEF OpeningsSound, Stored, raceVars
  <2>7. QED
    BY <1>2, <1>4, <2>2, <2>6 DEF LocalInv
<1>6. CASE FireExpire(r)
  <2>1. opening' = {}
    BY <1>1, <1>6 DEF FireExpire
  <2>2. TimersAlone' /\ OpeningsSound'
    BY <1>1, <2>1 DEF TimersAlone, NobodyTypes, OpeningsSound
  <2>3. QED
    BY <1>2, <1>4, <2>2 DEF LocalInv
<1>7. QED
  BY <1>5, <1>6

LEMMA LocalOpenings ==
    ASSUME Local, RaceInv, LocalInv, NEW o \in opening, OpenSteps(o)
    PROVE  LocalInv'
<1>0. /\ o.round \in RoundIds /\ opening = {o} /\ expiring = {} /\ burst = NoPlayer
      /\ starting = NotStarting /\ NobodyTypes
      /\ o \in [round : RoundIds, step : {"room", "race", "cas", "opened"}, saw : Nat]
  BY DEF LocalInv, TimersAlone, RaceInv, TasksType
<1>1. UNCHANGED <<stage, won, battle, raceId, over, starting, expiring, submitting, burst>>
  BY DEF OpenSteps, OpenReadRoom, OpenReadRace, OpenRound, OpenAnnounce, contract, raceVars
<1>2. StartAlone' /\ NothingWonYet'
  BY <1>0, <1>1 DEF LocalInv, StartAlone, NothingWonYet, NothingWon, NotStarting
<1>3. ASSUME NEW n, opening' = {n}, n.round = o.round, UNCHANGED <<state, timers, stops>>,
             n.step = "race" => n.saw = IF stage = "battling" THEN battle ELSE 0,
             n.step \in {"cas", "opened"} => stage = "battling",
             n.step # "opened"
      PROVE  LocalInv'
  <2>1. TimersAlone' /\ BattleAlone' /\ LeftOver' /\ TimersSound' /\ InOrder'
    BY <1>0, <1>1, <1>3 DEF LocalInv, TimersAlone, BattleAlone, LeftOver, TimersSound, InOrder, Stored,
       AllScheduled, NobodyTypes, NoStops, NotStarting
  <2>2. OpeningsSound'
    BY <1>0, <1>1, <1>3 DEF LocalInv, OpeningsSound, Stored
  <2>3. QED
    BY <1>2, <2>1, <2>2 DEF LocalInv
<1>4. CASE OpenReadRoom(o)
  <2>1. PICK n : n = [o EXCEPT !.step = "race", !.saw = IF stage = "battling" THEN battle ELSE 0]
    OBVIOUS
  <2>2. n.round = o.round /\ n.step = "race" /\ n.saw = IF stage = "battling" THEN battle ELSE 0
    BY <1>0, <2>1
  <2>3. opening' = {n} /\ UNCHANGED <<state, timers, stops>>
    BY <1>0, <1>4, <2>1 DEF OpenReadRoom, Goes, raceVars, timerVars
  <2>4. QED
    BY <1>3, <2>2, <2>3
<1>5. CASE OpenReadRace(o)
  <2>1. CASE opening' = {} /\ UNCHANGED <<state, timers, stops>>
    BY <1>0, <1>1, <1>2, <2>1 DEF LocalInv, TimersAlone, BattleAlone, LeftOver, TimersSound, InOrder, Stored,
       OpeningsSound, AllScheduled, NoStops
  <2>2. CASE raceId # 0 /\ o.saw = raceId /\ Goes(o, {[o EXCEPT !.step = "cas"]}) /\ UNCHANGED <<timerVars, stops>>
    <3>1. PICK n : n = [o EXCEPT !.step = "cas"]
      OBVIOUS
    <3>2. n.round = o.round /\ n.step = "cas"
      BY <1>0, <3>1
    <3>3. opening' = {n} /\ UNCHANGED <<state, timers, stops>>
      BY <1>0, <1>5, <2>2, <3>1 DEF OpenReadRace, Goes, raceVars, timerVars
    <3>4. stage = "battling"
      BY <1>5, <2>2 DEF OpenReadRace, LocalInv, OpeningsSound
    <3>5. QED
      BY <1>3, <3>2, <3>3, <3>4
  <2>3. CASE raceId # 0 /\ o.saw # raceId /\ Goes(o, {}) /\ StopRace
    <3>1. stage # "battling"
      BY <1>0, <1>5, <2>3 DEF OpenReadRace, NotStarting, LocalInv, OpeningsSound, BattleAlone
    <3>2. opening' = {} /\ timers' = {} /\ UNCHANGED state
      BY <1>0, <1>5, <2>3 DEF OpenReadRace, Goes, StopRace, NoTimers, raceVars
    <3>3. ~NoStops'
      BY <2>3 DEF StopRace, NoStops, RaceInv, TasksType
    <3>4. QED
      BY <1>0, <1>1, <1>2, <3>1, <3>2, <3>3 DEF LocalInv, TimersAlone, BattleAlone, LeftOver, TimersSound,
         InOrder, OpeningsSound
  <2>4. QED
    BY <1>0, <1>5, <2>1, <2>2, <2>3 DEF OpenReadRace, Goes, raceVars, timerVars
<1>6. CASE OpenRound(o)
  <2>1. CASE opening' = {} /\ UNCHANGED <<state, timers, stops>>
    BY <1>0, <1>1, <1>2, <2>1 DEF LocalInv, TimersAlone, BattleAlone, LeftOver, TimersSound, InOrder, Stored,
       OpeningsSound, AllScheduled, NoStops
  <2>2. CASE /\ Stored(o.round) /\ state[o.round[2]] = "scheduled"
             /\ state' = [state EXCEPT ![o.round[2]] = "open"]
             /\ Goes(o, {[o EXCEPT !.step = "opened"]})
    <3>0. state \in [RoundNumbers -> {"scheduled", "open", "won", "expired"}] /\ o.round[2] \in RoundNumbers
      BY <1>0, RoundIdParts DEF RaceInv, RaceTypeOK
    <3>1. PICK n : n = [o EXCEPT !.step = "opened"]
      OBVIOUS
    <3>2. n.round = o.round /\ n.step = "opened"
      BY <1>0, <3>1
    <3>3. opening' = {n} /\ UNCHANGED <<timers, stops>>
      BY <1>0, <1>6, <2>2, <3>1 DEF OpenRound, Goes, timerVars
    <3>4. /\ stage = "battling"
          /\ \A j \in RoundNumbers : /\ j > o.round[2] => state[j] = "scheduled"
                                     /\ j < o.round[2] => j \in over
          /\ \A r \in RoundIds : <<"open", r>> \in timers /\ r[1] = o.round[1] => r[2] > o.round[2]
      BY <1>6, <2>2 DEF OpenRound, LocalInv, OpeningsSound
    <3>5. TimersAlone' /\ BattleAlone' /\ LeftOver'
      BY <1>0, <1>1, <3>3, <3>4 DEF LocalInv, TimersAlone, BattleAlone, LeftOver, NobodyTypes, NoStops
    <3>6. OpeningsSound'
      BY <1>1, <2>2, <3>0, <3>2, <3>3, <3>4, WordRaceAssumption DEF OpeningsSound, Stored
    <3>7. TimersSound'
      <4> SUFFICES ASSUME NEW r \in RoundIds, <<"open", r>> \in timers, Stored(r), NEW j \in RoundNumbers, j >= r[2]
                   PROVE  state'[j] = "scheduled"
        BY <1>1, <3>3 DEF TimersSound, Stored
      <4>1. r[2] > o.round[2] /\ r[2] \in RoundNumbers
        BY <2>2, <3>4, RoundIdParts DEF Stored
      <4>4. j \in Nat /\ r[2] \in Nat /\ o.round[2] \in Nat
        BY <3>0, <4>1, WordRaceAssumption
      <4>2. j # o.round[2]
        BY <4>1, <4>4
      <4>3. QED
        BY <2>2, <3>0, <4>2 DEF LocalInv, TimersSound
    <3>8. InOrder'
      <4> SUFFICES ASSUME NEW i \in RoundNumbers, NEW j \in RoundNumbers, i < j, state'[j] # "scheduled"
                   PROVE  i \in over
        BY <1>1 DEF InOrder
      <4>1. CASE j = o.round[2]
        BY <3>4, <4>1
      <4>2. CASE j # o.round[2]
        BY <2>2, <3>0, <4>2 DEF LocalInv, InOrder
      <4>3. QED
        BY <4>1, <4>2
    <3>9. QED
      BY <1>2, <3>5, <3>6, <3>7, <3>8 DEF LocalInv
  <2>3. QED
    BY <1>0, <1>6, <2>1, <2>2 DEF OpenRound, Goes, timerVars
<1>7. CASE OpenAnnounce(o)
  <2>1. opening' = {} /\ UNCHANGED <<state, stops>>
    BY <1>0, <1>7 DEF OpenAnnounce, Goes, raceVars
  <2>2. \A r \in RoundIds : <<"open", r>> \in timers' => <<"open", r>> \in timers
    BY <1>7 DEF OpenAnnounce, Schedule
  <2>3. TimersSound'
    BY <1>1, <2>1, <2>2 DEF LocalInv, TimersSound, Stored
  <2>4. QED
    BY <1>0, <1>1, <1>2, <2>1, <2>3 DEF LocalInv, TimersAlone, BattleAlone, LeftOver, InOrder,
       OpeningsSound, AllScheduled, NoStops
<1>8. QED
  BY <1>4, <1>5, <1>6, <1>7 DEF OpenSteps

\* An open round that is decided stays behind those that are to open.
LEMMA DecidedInOrder ==
    ASSUME RaceInv, LocalInv, NEW i \in RoundNumbers, state[i] = "open", NEW v, v # "scheduled",
           state' = [state EXCEPT ![i] = v],
           UNCHANGED <<raceId, over, timers, stops, stage>>
    PROVE  TimersSound' /\ InOrder' /\ LeftOver'
<1>0. state \in [RoundNumbers -> {"scheduled", "open", "won", "expired"}]
  BY DEF RaceInv, RaceTypeOK
<1>1. \A j \in RoundNumbers : state'[j] = "scheduled" <=> state[j] = "scheduled"
  BY <1>0
<1>2. TimersSound'
  BY <1>1 DEF LocalInv, TimersSound, Stored
<1>3. InOrder'
  BY <1>1 DEF LocalInv, InOrder
<1>4. LeftOver'
  BY <1>1 DEF LocalInv, LeftOver, AllScheduled, NoStops
<1>5. QED
  BY <1>2, <1>3, <1>4

LEMMA LocalExpiries ==
    ASSUME Local, RaceInv, LocalInv, NEW x \in expiring, ExpireSteps(x)
    PROVE  LocalInv'
<1>0. /\ x.round \in RoundIds /\ opening = {} /\ burst = NoPlayer
      /\ starting = NotStarting /\ NobodyTypes
  BY DEF LocalInv, TimersAlone, RaceInv, TasksType
<1>1. UNCHANGED <<stage, won, battle, raceId, over, starting, stops, opening, submitting, burst>>
  BY DEF ExpireSteps, ExpireRound, ExpireAnswer, contract, raceVars
<1>2. TimersAlone' /\ StartAlone' /\ BattleAlone' /\ OpeningsSound' /\ NothingWonYet'
  BY <1>0, <1>1 DEF LocalInv, TimersAlone, StartAlone, BattleAlone, OpeningsSound, NothingWonYet, NothingWon,
     NotStarting, NobodyTypes, NoStops
<1>3. \A r \in RoundIds : <<"open", r>> \in timers' => <<"open", r>> \in timers
  <2>1. \/ UNCHANGED timers
        \/ timers' = timers \cup {<<"expire", x.round>>}
    BY DEF ExpireSteps, ExpireRound, ExpireAnswer, TryAgain, Schedule, timerVars
  <2>2. QED
    BY <2>1
<1>4. CASE UNCHANGED state
  BY <1>1, <1>2, <1>3, <1>4 DEF LocalInv, TimersSound, InOrder, LeftOver, AllScheduled, NoStops, Stored
<1>5. ASSUME ExpireRound(x), ~UNCHANGED state PROVE LocalInv'
  <2>1. Expirable(x) /\ state' = [state EXCEPT ![x.round[2]] = "expired"] /\ UNCHANGED timers
    BY <1>5 DEF ExpireRound, timerVars
  <2>2. x.round[2] \in RoundNumbers /\ state[x.round[2]] = "open"
    BY <1>0, <2>1, RoundIdParts DEF Expirable
  <2>3. TimersSound' /\ InOrder' /\ LeftOver'
    BY <1>1, <2>1, <2>2, DecidedInOrder
  <2>4. QED
    BY <1>2, <2>3 DEF LocalInv
<1>6. QED
  BY <1>4, <1>5 DEF ExpireSteps, ExpireAnswer, raceVars

\* Whoever types does it with no timer's handler and no start under way.
LEMMA TypingAlone ==
    ASSUME Local, LocalInv, NEW s \in Slots,
           (\E p \in Players, i \in RoundNumbers : Submit(s, p, i)) \/ SubmitSteps(s)
    PROVE  opening = {} /\ expiring = {} /\ starting.step = "none"
<1>1. ASSUME NEW p \in Players, NEW i \in RoundNumbers, Submit(s, p, i)
      PROVE  opening = {} /\ expiring = {} /\ starting.step = "none"
  BY <1>1, MessageAlone DEF Submit, LocalInv, StartAlone, AllScheduled
<1>2. ASSUME SubmitSteps(s) PROVE submitting[s] # Free
  BY <1>2 DEF SubmitSteps, Judge, Claim, Award, Free
<1>3. QED
  BY <1>1, <1>2 DEF LocalInv, TimersAlone, StartAlone, NobodyTypes

LEMMA LocalSubmissions ==
    ASSUME Local, RaceInv, LocalInv, NEW s \in Slots,
           (\E p \in Players, i \in RoundNumbers : Submit(s, p, i)) \/ SubmitSteps(s)
    PROVE  LocalInv'
<1>0. opening = {} /\ expiring = {} /\ starting.step = "none"
  BY TypingAlone
<1>1. UNCHANGED <<stage, dancing, battle, raceId, over, timers, starting, stops, opening, expiring>>
  BY DEF Submit, SubmitSteps, Judge, Claim, Award, WinRound, contract, raceVars, timerVars
<1>2. TimersAlone' /\ StartAlone' /\ BattleAlone' /\ OpeningsSound'
  BY <1>0, <1>1 DEF LocalInv, TimersAlone, StartAlone, BattleAlone, OpeningsSound, NoStops
<1>3. NothingWonYet'
  <2>1. CASE UNCHANGED won
    BY <1>0, <1>1, <2>1 DEF LocalInv, NothingWonYet, NothingWon
  <2>2. CASE WinRound(submitting[s].player)
    BY <1>0, <1>1, <2>2 DEF LocalInv, NothingWonYet, WinRound, RaceInv, TasksType
  <2>3. QED
    BY <2>1, <2>2 DEF Submit, SubmitSteps, Judge, Claim, Award, contract
<1>4. CASE UNCHANGED state
  BY <1>1, <1>2, <1>3, <1>4 DEF LocalInv, TimersSound, InOrder, LeftOver, AllScheduled, NoStops, Stored
<1>5. ASSUME ~UNCHANGED state PROVE LocalInv'
  <2>1. Claim(s)
    BY <1>5 DEF Submit, SubmitSteps, Judge, Award, raceVars
  <2>2. Claimable(submitting[s]) /\ state' = [state EXCEPT ![submitting[s].round[2]] = "won"]
    BY <1>5, <2>1 DEF Claim
  <2>3. submitting[s].round \in RoundIds
    BY <2>1 DEF Claim, RaceInv, TasksType
  <2>4. submitting[s].round[2] \in RoundNumbers /\ state[submitting[s].round[2]] = "open"
    BY <2>2, <2>3, RoundIdParts DEF Claimable
  <2>5. TimersSound' /\ InOrder' /\ LeftOver'
    BY <1>1, <2>2, <2>4, DecidedInOrder
  <2>6. QED
    BY <1>2, <1>3, <2>5 DEF LocalInv
<1>6. QED
  BY <1>4, <1>5

LEMMA LocalStep == Local /\ RaceInv /\ LocalInv /\ [RaceNext]_vars => LocalInv'
<1> SUFFICES ASSUME Local, RaceInv, LocalInv, [RaceNext]_vars PROVE LocalInv'
  OBVIOUS
<1>1. CASE UNCHANGED vars
  BY <1>1 DEF vars, contract, raceVars, timerVars, taskVars, LocalInv, TimersAlone, StartAlone, BattleAlone,
     LeftOver, OpeningsSound, TimersSound, InOrder, NothingWonYet, NothingWon, AllScheduled, NobodyTypes,
     NoStops, Stored
<1>2. QED
  BY <1>1, LocalBattles, LocalScheduler, LocalFires, LocalOpenings, LocalExpiries, LocalSubmissions
  DEF RaceNext

\* With stores in memory: once saved, the race of a running battle is the stored one
\* and nothing asks to stop it; rounds open in their order, after the windows before
\* them; and what an opening read from the stores (WordRaceScheduler.open) is still so.
THEOREM LocalSafe == Local => (RaceSpec => []LocalInv)
<1> SUFFICES ASSUME Local PROVE RaceSpec => []LocalInv
  OBVIOUS
<1>1. RaceInv /\ LocalInv /\ [RaceNext]_vars => LocalInv'
  BY LocalStep
<1>2. QED
  BY <1>1, RaceStart, RaceStep, LocalStart, PTL DEF RaceSpec

-----------------------------------------------------------------------------
(***************************************************************************)
(* The words of the room and of the race.  A claim adds to what the race   *)
(* says was won and to what is to be paid, an award moves one from what is *)
(* to be paid to what was; a new race begins with nothing on either side.  *)
(***************************************************************************)
LEMMA WordCounts ==
    ASSUME RaceInv, NEW p
    PROVE  /\ IsFiniteSet(Winnings(p)) /\ Cardinality(Winnings(p)) \in Nat
           /\ IsFiniteSet(Unpaid(p)) /\ Cardinality(Unpaid(p)) \in Nat
BY WordRaceAssumption, FS_Subset, FS_CardinalityType DEF Winnings, Unpaid

\* Nothing of the two accounts changes.
LEMMA SameAccounts ==
    ASSUME WordsMatchRace, UNCHANGED <<by, won>>, dancing' \subseteq dancing,
           stage' = "battling" /\ raceId' = battle' => stage = "battling" /\ raceId = battle,
           \A p \in dancing' : Unpaid(p)' = Unpaid(p)
    PROVE  WordsMatchRace'
BY DEF WordsMatchRace, Winnings

LEMMA ClaimAccounts ==
    ASSUME RaceInv, LocalInv, WordsMatchRace, NEW s \in Slots, Claim(s)
    PROVE  WordsMatchRace'
<1>1. PICK m : m = submitting[s]
  OBVIOUS
<1>2. /\ submitting \in [Slots -> Submission] /\ m \in Submission /\ m.step = "claim"
      /\ m.player \in Players /\ m.round \in RoundIds /\ m.round[2] \in RoundNumbers
  BY <1>1, RoundIdParts DEF Claim, RaceInv, TasksType, Submission
<1>3. UNCHANGED <<stage, dancing, won, raceId, battle>>
  BY DEF Claim, contract
<1>4. CASE UNCHANGED by /\ submitting' = [submitting EXCEPT ![s] = Free]
  <2>1. \A p : Unpaid(p)' = Unpaid(p)
    BY <1>1, <1>2, <1>4 DEF Unpaid, Free
  <2>2. QED
    BY <1>3, <1>4, <2>1, SameAccounts
<1>5. CASE /\ Claimable(m)
           /\ by' = [by EXCEPT ![m.round[2]] = m.player]
           /\ submitting' = [submitting EXCEPT ![s] = [m EXCEPT !.step = "award"]]
  <2>1. by[m.round[2]] = NoPlayer /\ by \in [RoundNumbers -> Players \cup {NoPlayer}]
    BY <1>2, <1>5 DEF Claimable, RaceInv, RaceTypeOK
  <2> SUFFICES ASSUME stage = "battling", raceId = battle, NEW p \in dancing
               PROVE  won[p] + Cardinality(Unpaid(p)') = Cardinality(Winnings(p)')
    BY <1>3 DEF WordsMatchRace
  <2>2. won[p] + Cardinality(Unpaid(p)) = Cardinality(Winnings(p))
    BY DEF WordsMatchRace
  <2>3. p \in Players /\ p # NoPlayer
    BY WordRaceAssumption DEF RaceInv, TasksType
  <2>4. CASE p # m.player
    <3>1. Unpaid(p)' = Unpaid(p)
      BY <1>1, <1>2, <1>5, <2>4 DEF Unpaid, Submission
    <3>2. Winnings(p)' = Winnings(p)
      BY <1>2, <1>5, <2>1, <2>3, <2>4 DEF Winnings
    <3>3. QED
      BY <2>2, <3>1, <3>2
  <2>5. CASE p = m.player
    <3>1. Unpaid(p)' = Unpaid(p) \cup {s} /\ s \notin Unpaid(p)
      BY <1>1, <1>2, <1>5, <2>5 DEF Unpaid, Submission
    <3>2. Winnings(p)' = Winnings(p) \cup {m.round[2]} /\ m.round[2] \notin Winnings(p)
      BY <1>2, <1>5, <2>1, <2>3, <2>5 DEF Winnings
    <3>3. /\ Cardinality(Unpaid(p)') = Cardinality(Unpaid(p)) + 1
          /\ Cardinality(Winnings(p)') = Cardinality(Winnings(p)) + 1
      BY <3>1, <3>2, WordCounts, FS_AddElement
    <3>4. won[p] \in Nat /\ Cardinality(Unpaid(p)) \in Nat
      BY <2>3, WordCounts DEF LocalInv, NothingWonYet
    <3>5. QED
      BY <2>2, <3>3, <3>4
  <2>6. QED
    BY <2>4, <2>5
<1>6. QED
  BY <1>1, <1>4, <1>5 DEF Claim, Late

LEMMA AwardAccounts ==
    ASSUME RaceInv, LocalInv, WordsMatchRace, NEW s \in Slots, Award(s)
    PROVE  WordsMatchRace'
<1>1. PICK m : m = submitting[s]
  OBVIOUS
<1>2. submitting \in [Slots -> Submission] /\ m.step = "award"
  BY <1>1 DEF Award, RaceInv, TasksType, Submission
<1>3. UNCHANGED <<stage, dancing, by, raceId, battle>> /\ submitting' = [submitting EXCEPT ![s] = Free]
  BY DEF Award, WinRound, contract, raceVars
<1> SUFFICES ASSUME stage = "battling", raceId = battle, NEW p \in dancing
             PROVE  won'[p] + Cardinality(Unpaid(p)') = Cardinality(Winnings(p))
  BY <1>3 DEF WordsMatchRace, Winnings
<1>4. won[p] + Cardinality(Unpaid(p)) = Cardinality(Winnings(p)) /\ p \in Players
      /\ won \in [Players -> Nat]
  BY DEF WordsMatchRace, RaceInv, TasksType, LocalInv, NothingWonYet
<1>5. CASE p # m.player
  <2>1. Unpaid(p)' = Unpaid(p)
    BY <1>1, <1>2, <1>3, <1>5 DEF Unpaid, Free
  <2>2. won'[p] = won[p]
    BY <1>1, <1>4, <1>5 DEF Award, WinRound, contract
  <2>3. QED
    BY <1>4, <2>1, <2>2
<1>6. CASE p = m.player
  <2>1. Unpaid(p)' = Unpaid(p) \ {s} /\ s \in Unpaid(p)
    BY <1>1, <1>2, <1>3, <1>6 DEF Unpaid, Free
  <2>2. won'[p] = won[p] + 1
    BY <1>1, <1>4, <1>6 DEF Award, WinRound
  <2>3. Cardinality(Unpaid(p)') = Cardinality(Unpaid(p)) - 1
    BY <2>1, WordCounts, FS_RemoveElement
  <2>4. QED
    BY <1>4, <2>2, <2>3, WordCounts
<1>7. QED
  BY <1>5, <1>6

LEMMA WordsStep == Local /\ RaceInv /\ LocalInv /\ WordsMatchRace /\ [RaceNext]_vars => WordsMatchRace'
<1> SUFFICES ASSUME Local, RaceInv, LocalInv, WordsMatchRace, [RaceNext]_vars PROVE WordsMatchRace'
  OBVIOUS
<1>1. ASSUME NEW D \in Lineups, BattleBegins(D) PROVE WordsMatchRace'
  <2>1. raceId' # battle'
    BY <1>1, WordRaceAssumption DEF BattleBegins, RaceInv, RaceTypeOK, raceVars
  <2>2. QED
    BY <2>1 DEF WordsMatchRace
<1>2. CASE StartSave
  <2>1. /\ UNCHANGED <<stage, dancing, won, submitting, battle>> /\ starting.step = "save"
        /\ \A i \in RoundNumbers : by'[i] = NoPlayer
    BY <1>2 DEF StartSave, contract
  <2> SUFFICES ASSUME stage = "battling", NEW p \in dancing
               PROVE  won[p] + Cardinality(Unpaid(p)') = Cardinality(Winnings(p)')
    BY <2>1 DEF WordsMatchRace
  <2>2. p \in Players /\ p # NoPlayer
    BY WordRaceAssumption DEF RaceInv, TasksType
  <2>3. won[p] = 0
    BY <2>1, <2>2 DEF LocalInv, NothingWonYet, NothingWon
  <2>4. NobodyTypes
    BY <2>1 DEF LocalInv, StartAlone
  <2>5. Unpaid(p)' = {} /\ Winnings(p)' = {}
    BY <2>1, <2>2, <2>4 DEF Unpaid, Winnings, NobodyTypes, Free
  <2>6. QED
    BY <2>3, <2>5, FS_EmptySet
<1>3. CASE StopDelete
  <2>1. stage' # "battling"
    BY <1>3 DEF StopDelete, contract, LocalInv, BattleAlone, NoStops
  <2>2. QED
    BY <2>1 DEF WordsMatchRace
<1>4. ASSUME NEW p \in Players, Rematch(p) PROVE WordsMatchRace'
  BY <1>4 DEF Rematch, Clear, WordsMatchRace
<1>5. ASSUME UNCHANGED <<by, won, raceId, battle, submitting>>, dancing' \subseteq dancing,
             stage' = "battling" => stage = "battling"
      PROVE  WordsMatchRace'
  BY <1>5, SameAccounts DEF Unpaid
<1>6. ASSUME NEW s \in Slots,
             (\E p \in Players, i \in RoundNumbers : Submit(s, p, i)) \/ Judge(s)
      PROVE  WordsMatchRace'
  <2>1. PICK n : n.step # "award" /\ submitting' = [submitting EXCEPT ![s] = n]
    <3>1. submitting[s] \in Submission
      BY DEF RaceInv, TasksType, Submission
    <3>2. [submitting[s] EXCEPT !.step = "claim"].step # "award" /\ Free.step # "award"
      BY <3>1 DEF Submission, Free
    <3>3. QED
      BY <1>6, <3>2 DEF Submit, Judge
  <2>2. submitting[s].step # "award" /\ submitting \in [Slots -> Submission]
    BY <1>6 DEF Submit, Judge, Free, RaceInv, TasksType, Submission
  <2>3. \A p : Unpaid(p)' = Unpaid(p)
    BY <2>1, <2>2 DEF Unpaid
  <2>4. QED
    BY <1>6, <2>3, SameAccounts DEF Submit, Judge, contract, raceVars
<1>7. CASE UNCHANGED vars
  BY <1>5, <1>7 DEF vars, contract, raceVars, taskVars
<1>8. ASSUME \/ \E p \in Players : DancerLeaves(p) \/ LobbyLeave(p)
             \/ BattleOver
      PROVE  WordsMatchRace'
  BY <1>5, <1>8 DEF DancerLeaves, Withdraw, LastWithdraws, Announce, LobbyLeave, BattleOver, SongEnds,
     contract, raceVars
<1>9. ASSUME \/ StartRead \/ StartInstall \/ StopClear \/ Tick
             \/ \E r \in RoundIds : FireOpen(r) \/ FireExpire(r)
             \/ \E o \in opening : OpenSteps(o)
             \/ \E x \in expiring : ExpireSteps(x)
      PROVE  WordsMatchRace'
  <2>1. UNCHANGED <<by, won, raceId, battle, submitting, dancing, stage>>
    BY <1>9 DEF StartRead, StartInstall, StopClear, Tick, FireOpen, FireExpire, OpenSteps, OpenReadRoom,
       OpenReadRace, OpenRound, OpenAnnounce, ExpireSteps, ExpireRound, ExpireAnswer, contract, raceVars, taskVars
  <2>2. QED
    BY <1>5, <2>1
<1>10. QED
  BY <1>1, <1>2, <1>3, <1>4, <1>6, <1>7, <1>8, <1>9, ClaimAccounts, AwardAccounts
  DEF RaceNext, StartSteps, SubmitSteps

\* With stores in memory, whatever a burst of messages overlaps, a dancer of the
\* running battle was paid (awardWordBonus) every round the race says they won,
\* or is about to be.
THEOREM WordsMatchRaceSafe == Local => (RaceSpec => []WordsMatchRace)
<1> SUFFICES ASSUME Local PROVE RaceSpec => []WordsMatchRace
  OBVIOUS
<1>1. Init => WordsMatchRace
  BY DEF Init, Waiting, WordsMatchRace
<1>2. RaceInv /\ LocalInv /\ WordsMatchRace /\ [RaceNext]_vars => WordsMatchRace'
  BY WordsStep
<1>3. RaceSpec => []LocalInv
  BY LocalSafe
<1>4. QED
  BY <1>1, <1>2, <1>3, RaceStart, RaceStep, PTL DEF RaceSpec
-----------------------------------------------------------------------------
(***************************************************************************)
(* The race goes on.  Between two steps of a handler the timer an undecided *)
(* round waits for may be away: whoever took it then brings the next one.   *)
(***************************************************************************)
OpensLater(i) ==
    state[i] = "scheduled" =>
        \/ <<"open", <<battle, i>>>> \in timers
        \/ \E o \in opening : o.round = <<battle, i>>

ExpiresLater(i) ==
    state[i] = "open" =>
        \/ <<"expire", <<battle, i>>>> \in timers
        \/ \E o \in opening : o.round = <<battle, i>> /\ o.step = "opened"
        \/ \E x \in expiring : x.round = <<battle, i>> /\ (x.step = "cas" \/ ~x.expired)

RoundsTimed ==
    stage = "battling" /\ starting = NotStarting =>
        tracking /\ \A i \in RoundNumbers : OpensLater(i) /\ ExpiresLater(i)

LEMMA TimedScheduler ==
    ASSUME RaceInv, LocalInv, RoundsTimed,
           \/ \E D \in Lineups : BattleBegins(D)
           \/ \E p \in Players : DancerLeaves(p) \/ Rematch(p) \/ LobbyLeave(p)
           \/ BattleOver \/ StartSteps \/ StopClear \/ StopDelete \/ Tick
    PROVE  RoundsTimed'
<1> SUFFICES ASSUME stage' = "battling", starting' = NotStarting
             PROVE  tracking' /\ \A i \in RoundNumbers : OpensLater(i)' /\ ExpiresLater(i)'
  BY DEF RoundsTimed
<1>1. ASSUME UNCHANGED <<battle, state, timerVars, starting, opening, expiring>>, stage = "battling"
      PROVE  tracking' /\ \A i \in RoundNumbers : OpensLater(i)' /\ ExpiresLater(i)'
  BY <1>1 DEF RoundsTimed, OpensLater, ExpiresLater, timerVars
<1>2. ASSUME NEW D \in Lineups, BattleBegins(D) PROVE FALSE
  BY <1>2 DEF BattleBegins, NotStarting
<1>3. ASSUME NEW p \in Players, DancerLeaves(p) \/ Rematch(p) \/ LobbyLeave(p)
      PROVE  stage = "battling" /\ UNCHANGED <<battle, state, timerVars, starting, opening, expiring>>
  <2>1. UNCHANGED <<battle, state, timerVars, starting, opening, expiring>>
    BY <1>3 DEF DancerLeaves, Rematch, LobbyLeave, raceVars
  <2>2. stage = "battling"
    BY <1>3 DEF DancerLeaves, Rematch, LobbyLeave, Withdraw, LastWithdraws, Announce, Clear, contract
  <2>3. QED
    BY <2>1, <2>2
<1>4. ASSUME BattleOver PROVE FALSE
  BY <1>4 DEF BattleOver, SongEnds, Announce
<1>5. ASSUME StartRead PROVE FALSE
  BY <1>5 DEF StartRead, NotStarting, contract
<1>6. ASSUME StartSave PROVE FALSE
  BY <1>6 DEF StartSave, NotStarting, RaceInv, TasksType
<1>7. ASSUME StartInstall PROVE tracking' /\ \A i \in RoundNumbers : OpensLater(i)' /\ ExpiresLater(i)'
  <2>1. /\ tracking' = TRUE /\ battle' = battle /\ state' = state /\ starting.id = battle /\ AllScheduled
        /\ timers' = {<<"open", <<starting.id, i>>>> : i \in RoundNumbers}
    BY <1>7 DEF StartInstall, RaceInv, StartAhead, LocalInv, StartAlone, raceVars
  <2>2. QED
    BY <2>1 DEF AllScheduled, OpensLater, ExpiresLater
<1>8. ASSUME StopClear \/ StopDelete PROVE FALSE
  BY <1>8 DEF StopClear, StopDelete, contract, LocalInv, BattleAlone, NoStops
<1>9. ASSUME Tick
      PROVE  stage = "battling" /\ UNCHANGED <<battle, state, timerVars, starting, opening, expiring>>
  BY <1>9 DEF Tick, contract, taskVars
<1>10. QED
  BY <1>1, <1>2, <1>3, <1>4, <1>5, <1>6, <1>7, <1>8, <1>9 DEF StartSteps

LEMMA TimedFires ==
    ASSUME RoundsTimed, NEW r \in RoundIds, FireOpen(r) \/ FireExpire(r)
    PROVE  RoundsTimed'
<1>1. UNCHANGED <<stage, battle, state, tracking, starting>>
  BY DEF FireOpen, FireExpire, contract, raceVars
<1>2. SUFFICES ASSUME NEW i \in RoundNumbers, OpensLater(i), ExpiresLater(i)
               PROVE  OpensLater(i)' /\ ExpiresLater(i)'
  BY <1>1 DEF RoundsTimed
<1>3. CASE FireOpen(r)
  <2>1. PICK o : /\ o.round = r /\ opening' = opening \cup {o}
                 /\ timers' = timers \ {<<"open", r>>} /\ expiring' = expiring
    BY <1>3 DEF FireOpen
  <2>2. OpensLater(i)'
    BY <1>1, <1>2, <2>1 DEF OpensLater
  <2>3. ExpiresLater(i)'
    BY <1>1, <1>2, <2>1 DEF ExpiresLater
  <2>4. QED
    BY <2>2, <2>3
<1>4. CASE FireExpire(r)
  <2>1. PICK x : /\ x.round = r /\ x.step = "cas" /\ expiring' = expiring \cup {x}
                 /\ timers' = timers \ {<<"expire", r>>} /\ opening' = opening
    <3>1. PICK l : expiring' = expiring \cup {[round |-> r, step |-> "cas", expired |-> FALSE, late |-> l]}
      BY <1>4 DEF FireExpire
    <3>2. QED
      BY <1>4, <3>1 DEF FireExpire
  <2>2. OpensLater(i)'
    <3>1. <<"open", <<battle, i>>>> # <<"expire", r>>
      OBVIOUS
    <3>2. QED
      BY <1>1, <1>2, <2>1, <3>1 DEF OpensLater
  <2>3. ExpiresLater(i)'
    BY <1>1, <1>2, <2>1 DEF ExpiresLater
  <2>4. QED
    BY <2>2, <2>3
<1>5. QED
  BY <1>3, <1>4

LEMMA TimedOpenings ==
    ASSUME RaceInv, LocalInv, RoundsTimed, NEW o \in opening, OpenSteps(o)
    PROVE  RoundsTimed'
<1>1. UNCHANGED <<stage, battle, raceId, starting, expiring>>
  BY DEF OpenSteps, OpenReadRoom, OpenReadRace, OpenRound, OpenAnnounce, contract, raceVars
<1>2. SUFFICES ASSUME stage = "battling", starting = NotStarting
               PROVE  tracking' /\ \A i \in RoundNumbers : OpensLater(i)' /\ ExpiresLater(i)'
  BY <1>1 DEF RoundsTimed
<1>3. raceId = battle /\ battle > 0
  BY <1>2 DEF LocalInv, BattleAlone, NotStarting
<1>4. ASSUME OpenReadRace(o)
      PROVE  Goes(o, {[o EXCEPT !.step = "cas"]}) /\ UNCHANGED timerVars /\ o.step = "race"
  <2>1. o.saw = raceId /\ raceId # 0
    BY <1>2, <1>3, <1>4 DEF OpenReadRace, LocalInv, OpeningsSound, RaceInv, RaceTypeOK
  <2>2. QED
    BY <1>4, <2>1 DEF OpenReadRace, timerVars
<1>5. tracking /\ tracking' = tracking
  BY <1>2, <1>4 DEF RoundsTimed, OpenSteps, OpenReadRoom, OpenRound, OpenAnnounce, timerVars
<1>6. SUFFICES ASSUME NEW i \in RoundNumbers, OpensLater(i), ExpiresLater(i)
               PROVE  OpensLater(i)' /\ ExpiresLater(i)'
  BY <1>2, <1>5 DEF RoundsTimed
<1>7. ASSUME UNCHANGED <<state, timerVars>>, NEW q, q.round = o.round, Goes(o, {q}), o.step # "opened"
      PROVE  OpensLater(i)' /\ ExpiresLater(i)'
  <2>1. opening' = (opening \ {o}) \cup {q}
    BY <1>7 DEF Goes
  <2>2. OpensLater(i)'
    BY <1>1, <1>6, <1>7, <2>1 DEF OpensLater, timerVars
  <2>3. ExpiresLater(i)'
    BY <1>1, <1>6, <1>7, <2>1 DEF ExpiresLater, timerVars
  <2>4. QED
    BY <2>2, <2>3
<1>8. CASE OpenReadRoom(o)
  <2>1. PICK q : q.round = o.round /\ Goes(o, {q})
    BY <1>8 DEF OpenReadRoom, TasksType, RaceInv
  <2>2. UNCHANGED <<state, timerVars>> /\ o.step # "opened"
    BY <1>8 DEF OpenReadRoom, raceVars
  <2>3. QED
    BY <1>7, <2>1, <2>2
<1>9. CASE OpenReadRace(o)
  <2>1. PICK q : q.round = o.round /\ Goes(o, {q})
    BY <1>4, <1>9 DEF TasksType, RaceInv
  <2>2. UNCHANGED <<state, timerVars>> /\ o.step # "opened"
    BY <1>4, <1>9 DEF OpenReadRace, raceVars
  <2>3. QED
    BY <1>7, <2>1, <2>2
<1>10. CASE OpenRound(o)
  <2>1. UNCHANGED timerVars /\ o.step = "cas"
    BY <1>10 DEF OpenRound
  <2>2. CASE Stored(o.round) /\ state[o.round[2]] = "scheduled"
    <3>1. state' = [state EXCEPT ![o.round[2]] = "open"] /\ Goes(o, {[o EXCEPT !.step = "opened"]})
      BY <1>10, <2>2 DEF OpenRound
    <3>2. PICK q : q.round = o.round /\ q.step = "opened" /\ Goes(o, {q})
      BY <3>1 DEF TasksType, RaceInv
    <3>3. opening' = (opening \ {o}) \cup {q}
      BY <3>2 DEF Goes
    <3>4. o.round \in RoundIds /\ state \in [RoundNumbers -> {"scheduled", "open", "won", "expired"}]
      BY DEF RaceInv, TasksType, RaceTypeOK
    <3>5. CASE i = o.round[2]
      <4>1. o.round = <<battle, i>> /\ state'[i] = "open"
        BY <1>3, <2>2, <3>1, <3>4, <3>5, RoundIdParts DEF Stored
      <4>2. QED
        BY <1>1, <1>6, <2>1, <3>2, <3>3, <4>1 DEF OpensLater, ExpiresLater, timerVars
    <3>6. CASE i # o.round[2]
      <4>1. o.round # <<battle, i>> /\ state'[i] = state[i]
        BY <3>1, <3>4, <3>6
      <4>2. OpensLater(i)'
        BY <1>1, <1>6, <2>1, <3>3, <4>1 DEF OpensLater, timerVars
      <4>3. ExpiresLater(i)'
        BY <1>1, <1>6, <2>1, <3>3, <4>1 DEF ExpiresLater, timerVars
      <4>4. QED
        BY <4>2, <4>3
    <3>7. QED
      BY <3>5, <3>6
  <2>3. CASE ~(Stored(o.round) /\ state[o.round[2]] = "scheduled")
    <3>1. opening' = opening \ {o} /\ state' = state
      BY <1>10, <2>3 DEF OpenRound, Goes
    <3>2. state[i] = "scheduled" => o.round # <<battle, i>>
      BY <1>3, <2>3 DEF Stored
    <3>3. OpensLater(i)'
      BY <1>1, <1>6, <2>1, <3>1, <3>2 DEF OpensLater, timerVars
    <3>4. ExpiresLater(i)'
      BY <1>1, <1>6, <2>1, <3>1 DEF ExpiresLater, timerVars
    <3>5. QED
      BY <3>3, <3>4
  <2>4. QED
    BY <2>2, <2>3
<1>11. CASE OpenAnnounce(o)
  <2>1. /\ o.step = "opened" /\ tracking' = tracking /\ state' = state /\ opening' = opening \ {o}
        /\ timers' = timers \cup {<<"expire", o.round>>}
    BY <1>5, <1>11 DEF OpenAnnounce, Schedule, Goes, raceVars
  <2>2. state[o.round[2]] = "open"
    BY <2>1 DEF LocalInv, OpeningsSound
  <2>3. state[i] = "scheduled" => o.round # <<battle, i>>
    BY <2>2
  <2>4. OpensLater(i)'
    BY <1>1, <1>6, <2>1, <2>3 DEF OpensLater
  <2>5. ExpiresLater(i)'
    BY <1>1, <1>6, <2>1 DEF ExpiresLater
  <2>6. QED
    BY <2>4, <2>5
<1>12. QED
  BY <1>8, <1>9, <1>10, <1>11 DEF OpenSteps

LEMMA TimedExpiries ==
    ASSUME RaceInv, LocalInv, RoundsTimed, NEW x \in expiring, ExpireSteps(x)
    PROVE  RoundsTimed'
<1>1. UNCHANGED <<stage, battle, raceId, tracking, starting, opening>>
  BY DEF ExpireSteps, ExpireRound, ExpireAnswer, contract, raceVars, timerVars
<1>2. SUFFICES ASSUME stage = "battling", starting = NotStarting, tracking,
                      NEW i \in RoundNumbers, OpensLater(i), ExpiresLater(i)
               PROVE  OpensLater(i)' /\ ExpiresLater(i)'
  BY <1>1, Zenon DEF RoundsTimed
<1>3. raceId = battle /\ battle > 0
  BY <1>2 DEF LocalInv, BattleAlone, NotStarting
<1>4. x.round \in RoundIds /\ state \in [RoundNumbers -> {"scheduled", "open", "won", "expired"}]
  BY DEF RaceInv, TasksType, RaceTypeOK
<1>5. CASE ExpireRound(x)
  <2>1. PICK done \in BOOLEAN :
          /\ done = Expirable(x)
          /\ state' = IF done THEN [state EXCEPT ![x.round[2]] = "expired"] ELSE state
          /\ expiring' = (expiring \ {x}) \cup {[x EXCEPT !.step = "find", !.expired = done]}
          /\ timers' = timers
    BY <1>5 DEF ExpireRound, timerVars
  <2>2. PICK y : /\ y.round = x.round /\ y.expired = done
                 /\ expiring' = (expiring \ {x}) \cup {y}
    BY <2>1 DEF RaceInv, TasksType
  <2>3. state'[i] \in {state[i], "expired"}
    BY <1>4, <2>1
  <2>4. OpensLater(i)'
    BY <1>1, <1>2, <2>1, <2>3 DEF OpensLater
  <2>5. CASE done
    <3>1. x.round = <<battle, i>> => state'[i] = "expired"
      BY <1>4, <2>1, <2>5
    <3>2. QED
      BY <1>1, <1>2, <2>1, <2>2, <2>3, <2>4, <3>1 DEF ExpiresLater
  <2>6. CASE ~done
    BY <1>1, <1>2, <2>1, <2>2, <2>4, <2>6 DEF ExpiresLater
  <2>7. QED
    BY <2>5, <2>6
<1>6. CASE ExpireAnswer(x)
  <2>1. state' = state /\ expiring' = expiring \ {x} /\ x.step = "find" /\ timers \subseteq timers'
    BY <1>6 DEF ExpireAnswer, TryAgain, Schedule, raceVars
  <2>2. OpensLater(i)'
    BY <1>1, <1>2, <2>1 DEF OpensLater
  <2>3. ASSUME x.round = <<battle, i>>, ~x.expired, state[i] = "open"
        PROVE  <<"expire", <<battle, i>>>> \in timers'
    <3>1. Stored(x.round) /\ state[x.round[2]] = "open"
      BY <1>3, <2>3 DEF Stored
    <3>2. QED
      BY <1>2, <1>6, <2>3, <3>1 DEF ExpireAnswer, TryAgain, Schedule
  <2>4. ExpiresLater(i)'
    BY <1>1, <1>2, <2>1, <2>3 DEF ExpiresLater
  <2>5. QED
    BY <2>2, <2>4
<1>7. QED
  BY <1>5, <1>6 DEF ExpireSteps

LEMMA TimedSubmissions ==
    ASSUME RaceInv, RoundsTimed,
           \/ \E s \in Slots, p \in Players, i \in RoundNumbers : Submit(s, p, i)
           \/ \E s \in Slots : SubmitSteps(s)
           \/ UNCHANGED vars
    PROVE  RoundsTimed'
<1>1. UNCHANGED <<stage, battle, timerVars, starting, opening, expiring>>
  BY DEF Submit, SubmitSteps, Judge, Claim, Award, WinRound, contract, vars, taskVars
<1>2. \A i \in RoundNumbers : state'[i] \in {state[i], "won"}
  BY DEF Submit, SubmitSteps, Judge, Claim, Award, vars, raceVars, RaceInv, RaceTypeOK
<1>3. QED
  BY <1>1, <1>2 DEF RoundsTimed, OpensLater, ExpiresLater, timerVars

LEMMA TimedStep == RaceInv /\ LocalInv /\ RoundsTimed /\ [RaceNext]_vars => RoundsTimed'
BY TimedScheduler, TimedFires, TimedOpenings, TimedExpiries, TimedSubmissions DEF RaceNext

\* With the stores in memory, whenever no handler is under way the running battle
\* has its own race stored and each of its undecided rounds the timer it waits
\* for: no departure or earlier stop took them (announceLeave,
\* socketHandlers.ts:278).
THEOREM RaceGoesOnSafe == Local => (RaceSpec => []RaceGoesOn)
<1> SUFFICES ASSUME Local PROVE RaceSpec => []RaceGoesOn
  OBVIOUS
<1>1. Init => RoundsTimed
  BY DEF Init, Waiting, RoundsTimed
<1>2. LocalInv /\ RoundsTimed => RaceGoesOn
  BY DEF LocalInv, BattleAlone, NotStarting, RoundsTimed, OpensLater, ExpiresLater, Quiet, RaceGoesOn
<1>3. RaceInv /\ LocalInv /\ [RaceNext]_vars => LocalInv'
  BY LocalStep
<1>4. QED
  BY <1>1, <1>2, <1>3, RaceStart, RaceStep, LocalStart, TimedStep, PTL DEF RaceSpec
=============================================================================
