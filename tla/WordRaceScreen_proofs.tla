----------------------- MODULE WordRaceScreen_proofs ------------------------
(***************************************************************************)
(* Theorems about WordRaceScreen, for every value of its constants.  The   *)
(* tab is told of a round a step after it opens and a step after it is     *)
(* decided; in between the handler under way is the one that will tell it. *)
(***************************************************************************)
EXTENDS WordRaceScreen, WordRace_proofs

\* Without a battle, or a socket, there is nothing on the screen.
BlankScreen == ~watching \/ stage # "battling" => screen = NoRound

\* The round shown is open, or whoever decided it is about to say so.
ShownSound ==
    screen # NoRound => /\ screen \in RoundIds /\ Stored(screen)
                        /\ state[screen[2]] = "open" \/ Owed(screen)

\* An open round is shown, or whoever opened it is about to say so.
NoneMissing ==
    watching /\ stage = "battling" =>
        \A r \in ActiveRounds : r = screen \/ \E o \in opening : o.step = "opened" /\ o.round = r

ScreenInv == BlankScreen /\ ShownSound /\ NoneMissing

LEMMA ScreenStart == ScreenInit => ScreenInv
BY DEF ScreenInit, Init, Waiting, ScreenInv, BlankScreen, ShownSound, NoneMissing

\* Steps the tab hears nothing of, and need not.
LEMMA Unheard ==
    ASSUME ScreenInv, UNCHANGED <<stage, raceId, state, watching, screen>>, over \subseteq over',
           \A r \in RoundIds : Owed(r) => Owed(r)',
           \A o \in opening : o.step = "opened" => o \in opening'
    PROVE  ScreenInv'
<1>1. BlankScreen' /\ ShownSound'
  BY DEF ScreenInv, BlankScreen, ShownSound, Stored
<1>2. NoneMissing'
  BY DEF ScreenInv, NoneMissing, ActiveRounds, Stored
<1>3. QED
  BY <1>1, <1>2 DEF ScreenInv

\* A tab hears only what is announced and the end of the battle.
LEMMA NothingHeard ==
    ASSUME ScreenInv, Hears, UNCHANGED <<stage, ended>>,
           \A o \in opening \ opening' : o.step # "opened"
    PROVE  UNCHANGED <<watching, screen>>
<1>1. RoundStarted = {} /\ RoundEnded = {}
  BY DEF RoundStarted, RoundEnded
<1>2. QED
  BY <1>1 DEF Hears, ScreenInv, BlankScreen

\* When the battle is over the word goes.
LEMMA BattleOverBlanks ==
    ASSUME Hears, ScreenInv, stage' # "battling", UNCHANGED opening
    PROVE  ScreenInv'
<1>1. RoundStarted = {}
  BY DEF RoundStarted
<1>2. screen' = NoRound
  BY <1>1 DEF Hears
<1>3. QED
  BY <1>2 DEF ScreenInv, BlankScreen, ShownSound, NoneMissing

\* Who stays owed when no handler that decided a round goes on.
LEMMA StillOwed ==
    ASSUME NEW r,
           \A s \in Slots : Claimed(s, r) => Claimed(s, r)',
           \A x \in expiring : RanOut(x, r) => x \in expiring'
    PROVE  Owed(r) => Owed(r)'
BY DEF Owed, RanOut

\* Battles: one that begins finds no round open.
LEMMA ScreenBattles ==
    ASSUME RaceInv, LocalInv, ScreenInv, Hears, Local,
           \/ \E D \in Lineups : BattleBegins(D)
           \/ \E p \in Players : DancerLeaves(p) \/ Rematch(p) \/ LobbyLeave(p)
           \/ BattleOver
    PROVE  ScreenInv'
<1>1. UNCHANGED <<raceVars, opening, expiring, submitting, ended>>
  BY DEF BattleBegins, DancerLeaves, Rematch, LobbyLeave, BattleOver
<1>2. ASSUME NEW D \in Lineups, BattleBegins(D) PROVE ScreenInv'
  <2>1. stage = "waiting" /\ Quiet
    BY <1>2 DEF BattleBegins, Begin
  <2>2. AllScheduled /\ screen = NoRound
    BY <2>1 DEF LocalInv, LeftOver, NoStops, Quiet, ScreenInv, BlankScreen
  <2>3. RoundStarted = {}
    BY <1>1 DEF RoundStarted
  <2>4. screen' = NoRound
    BY <2>2, <2>3 DEF Hears
  <2>5. ActiveRounds' = {}
    BY <1>1, <2>2, RoundIdParts DEF ActiveRounds, AllScheduled, raceVars
  <2>6. QED
    BY <2>4, <2>5 DEF ScreenInv, BlankScreen, ShownSound, NoneMissing
<1>3. CASE UNCHANGED stage
  <2>1. UNCHANGED <<watching, screen>>
    BY <1>1, <1>3, NothingHeard
  <2>2. QED
    BY <1>1, <1>3, <2>1, Unheard DEF raceVars, Owed, Claimed
<1>4. CASE stage' # "battling"
  BY <1>1, <1>4, BattleOverBlanks
<1>5. QED
  BY <1>2, <1>3, <1>4 DEF DancerLeaves, Withdraw, LastWithdraws, Announce, Rematch, Clear, LobbyLeave,
     BattleOver, SongEnds, contract

\* A start finds nothing on the screen, nor does a stop.
LEMMA ScreenScheduler ==
    ASSUME RaceInv, LocalInv, ScreenInv, Hears, Local, StartSteps \/ StopClear \/ StopDelete \/ Tick
    PROVE  ScreenInv'
<1>1. UNCHANGED <<stage, opening, expiring, submitting, ended>>
  BY DEF StartSteps, StartRead, StartSave, StartInstall, StopClear, StopDelete, Tick, contract, taskVars
<1>2. UNCHANGED <<watching, screen>>
  BY <1>1, NothingHeard
<1>3. CASE StartSave
  <2>1. AllScheduled /\ NobodyTypes /\ expiring = {}
    BY <1>3 DEF StartSave, NotStarting, LocalInv, StartAlone, TimersAlone
  <2>2. screen = NoRound
    BY <2>1, RoundIdParts DEF AllScheduled, NobodyTypes, Free, ScreenInv, ShownSound, Owed, Claimed
  <2>3. ActiveRounds' = {}
    BY <1>3, RoundIdParts DEF StartSave, ActiveRounds
  <2>4. QED
    BY <1>1, <1>2, <2>2, <2>3 DEF ScreenInv, BlankScreen, ShownSound, NoneMissing
<1>4. CASE StopDelete
  <2>1. stage # "battling"
    BY <1>4 DEF StopDelete, LocalInv, BattleAlone, NoStops
  <2>2. QED
    BY <1>1, <1>2, <2>1 DEF ScreenInv, BlankScreen, ShownSound, NoneMissing
<1>5. CASE UNCHANGED <<raceId, state>> /\ over \subseteq over'
  BY <1>1, <1>2, <1>5, Unheard DEF Owed, Claimed
<1>6. QED
  BY <1>3, <1>4, <1>5 DEF StartSteps, StartRead, StartInstall, StopClear, Tick, raceVars

LEMMA ScreenFires ==
    ASSUME ScreenInv, Hears, NEW r \in RoundIds, FireOpen(r) \/ FireExpire(r)
    PROVE  ScreenInv'
<1>1. /\ UNCHANGED <<stage, raceId, state, over, submitting, ended>>
      /\ opening \subseteq opening' /\ expiring \subseteq expiring'
  BY DEF FireOpen, FireExpire, contract, raceVars
<1>2. UNCHANGED <<watching, screen>>
  BY <1>1, NothingHeard
<1>3. QED
  BY <1>1, <1>2, Unheard, StillOwed DEF Claimed

\* A round opens, and the tab hears of it with the step that announces it.
LEMMA ScreenOpenings ==
    ASSUME RaceInv, LocalInv, ScreenInv, Hears, Local, NEW o \in opening, OpenSteps(o)
    PROVE  ScreenInv'
<1>0. /\ o.round \in RoundIds /\ o.round[2] \in RoundNumbers /\ opening = {o}
      /\ o \in [round : RoundIds, step : {"room", "race", "cas", "opened"}, saw : Nat]
  BY RoundIdParts DEF LocalInv, TimersAlone, RaceInv, TasksType
<1>1. UNCHANGED <<stage, raceId, over, expiring, submitting, ended>>
  BY DEF OpenSteps, OpenReadRoom, OpenReadRace, OpenRound, OpenAnnounce, contract, raceVars
<1>2. ASSUME o.step # "opened" PROVE UNCHANGED <<watching, screen>>
  BY <1>0, <1>1, <1>2, NothingHeard
<1>3. ASSUME o.step # "opened", UNCHANGED state PROVE ScreenInv'
  BY <1>0, <1>1, <1>2, <1>3, Unheard DEF Owed, Claimed
<1>4. CASE OpenRound(o) /\ ~UNCHANGED state
  <2>1. PICK n : n = [o EXCEPT !.step = "opened"]
    OBVIOUS
  <2>2. n.round = o.round /\ n.step = "opened"
    BY <1>0, <2>1
  <2>3. /\ o.step = "cas" /\ opening' = {n}
        /\ state' = [state EXCEPT ![o.round[2]] = "open"]
    BY <1>0, <1>4, <2>1 DEF OpenRound, Goes
  <2>4. UNCHANGED <<watching, screen>>
    BY <1>2, <2>3
  <2>5. state \in [RoundNumbers -> {"scheduled", "open", "won", "expired"}]
    BY DEF RaceInv, RaceTypeOK
  <2>6. BlankScreen'
    BY <1>1, <2>4 DEF ScreenInv, BlankScreen
  <2>7. ShownSound'
    BY <1>1, <2>3, <2>4, <2>5, RoundIdParts DEF ScreenInv, ShownSound, Stored, Owed, Claimed
  <2>8. NoneMissing'
    <3> SUFFICES ASSUME watching, stage = "battling", NEW r \in ActiveRounds'
                 PROVE  r = screen \/ r = o.round
      BY <1>1, <2>2, <2>3, <2>4 DEF NoneMissing
    <3>1. r \in RoundIds /\ r = <<r[1], r[2]>> /\ o.round = <<o.round[1], o.round[2]>> /\ o.round[1] = raceId /\ r[1] = raceId
      BY <1>0, <1>1, <1>4, RoundIdParts DEF ActiveRounds, Stored, OpenRound
    <3>2. CASE r[2] = o.round[2]
      BY <3>1, <3>2
    <3>3. CASE r[2] # o.round[2]
      <4>1. r \in ActiveRounds
        BY <1>1, <2>3, <2>5, <3>1, <3>3, RoundIdParts DEF ActiveRounds, Stored
      <4>2. QED
        BY <1>0, <2>3, <4>1 DEF ScreenInv, NoneMissing
    <3>4. QED
      BY <3>2, <3>3
  <2>9. QED
    BY <2>6, <2>7, <2>8 DEF ScreenInv
<1>5. CASE OpenAnnounce(o)
  <2>1. o.step = "opened" /\ opening' = {} /\ UNCHANGED state
    BY <1>0, <1>5 DEF OpenAnnounce, Goes, raceVars
  <2>2. /\ stage = "battling" /\ Stored(o.round) /\ state[o.round[2]] = "open"
        /\ \A j \in RoundNumbers : /\ j > o.round[2] => state[j] = "scheduled"
                                   /\ j < o.round[2] => j \in over
    BY <2>1 DEF LocalInv, OpeningsSound
  <2>3. RoundStarted = {o.round} /\ RoundEnded = {}
    BY <1>0, <1>1, <2>1 DEF RoundStarted, RoundEnded
  <2>4. CASE watching
    <3>1. screen' = o.round /\ UNCHANGED watching
      BY <2>3, <2>4 DEF Hears
    <3>2. BlankScreen' /\ ShownSound'
      BY <1>0, <1>1, <2>1, <2>2, <2>4, <3>1 DEF BlankScreen, ShownSound, Stored
    <3>3. ASSUME NEW r \in ActiveRounds PROVE r = o.round
      <4>1. r \in RoundIds /\ Stored(r) /\ state[r[2]] = "open" /\ r[2] \notin over
        BY DEF ActiveRounds
      <4>2. r[2] \in RoundNumbers /\ r = <<r[1], r[2]>> /\ o.round = <<o.round[1], o.round[2]>>
        BY <1>0, <4>1, RoundIdParts
      <4>3. r[2] = o.round[2]
        BY <1>0, <2>2, <4>1, <4>2, WordRaceAssumption
      <4>4. QED
        BY <2>2, <4>1, <4>2, <4>3 DEF Stored
    <3>4. NoneMissing'
      BY <1>1, <2>1, <3>1, <3>3 DEF NoneMissing, ActiveRounds, Stored
    <3>5. QED
      BY <3>2, <3>4 DEF ScreenInv
  <2>5. CASE ~watching
    BY <2>3, <2>5 DEF Hears, ScreenInv, BlankScreen, ShownSound, NoneMissing
  <2>6. QED
    BY <2>4, <2>5
<1>6. QED
  BY <1>3, <1>4, <1>5 DEF OpenSteps, OpenReadRoom, OpenReadRace, OpenRound, raceVars

\* A round that is decided: whoever decided it owes the end.
LEMMA ScreenDecided ==
    ASSUME RaceInv, ScreenInv, Hears, UNCHANGED <<stage, raceId, over, opening, ended>>,
           NEW i \in RoundNumbers, NEW v, v # "open", state' = [state EXCEPT ![i] = v],
           \A r \in RoundIds : Owed(r) => Owed(r)',
           \A r \in RoundIds : Stored(r) /\ r[2] = i => Owed(r)'
    PROVE  ScreenInv'
<1>1. UNCHANGED <<watching, screen>>
  BY NothingHeard
<1>2. state \in [RoundNumbers -> {"scheduled", "open", "won", "expired"}]
  BY DEF RaceInv, RaceTypeOK
<1>3. BlankScreen'
  BY <1>1 DEF ScreenInv, BlankScreen
<1>4. ShownSound'
  <2> SUFFICES ASSUME NEW q, q = screen, q # NoRound
               PROVE  q \in RoundIds /\ Stored(q) /\ (state'[q[2]] = "open" \/ Owed(q)')
    BY <1>1 DEF ShownSound, Stored, Owed, Claimed
  <2>1. q \in RoundIds /\ Stored(q) /\ (state[q[2]] = "open" \/ Owed(q))
    BY DEF ScreenInv, ShownSound
  <2>2. QED
    BY <1>2, <2>1, RoundIdParts
<1>5. NoneMissing'
  BY <1>1, <1>2, RoundIdParts DEF ScreenInv, NoneMissing, ActiveRounds, Stored
<1>6. QED
  BY <1>3, <1>4, <1>5 DEF ScreenInv

\* The end of a round is told: it goes from the screen, where no other is open.
LEMMA ScreenToldEnd ==
    ASSUME RaceInv, AnnouncedOnce, ScreenInv, Hears, UNCHANGED <<stage, raceId, state, over, opening>>,
           NEW q \in RoundIds, Owed(q), ended' = [ended EXCEPT ![q] = @ + 1],
           \A r \in RoundIds \ {q} : Owed(r) => Owed(r)'
    PROVE  ScreenInv'
<1>1. RoundStarted = {} /\ RoundEnded = {q}
  BY DEF RoundStarted, RoundEnded, RaceInv, RaceTypeOK
<1>2. UNCHANGED watching /\ screen' = IF screen = q THEN NoRound ELSE screen
  BY <1>1 DEF Hears, ScreenInv, BlankScreen
<1>3. q \notin ActiveRounds
  BY DEF AnnouncedOnce, Announced, Undecided, ActiveRounds
<1>4. BlankScreen' /\ ShownSound'
  BY <1>2 DEF ScreenInv, BlankScreen, ShownSound, Stored
<1>5. NoneMissing'
  BY <1>2, <1>3 DEF ScreenInv, NoneMissing, ActiveRounds, Stored
<1>6. QED
  BY <1>4, <1>5 DEF ScreenInv

LEMMA ScreenExpiries ==
    ASSUME RaceInv, AnnouncedOnce, ScreenInv, Hears, NEW x \in expiring, ExpireSteps(x)
    PROVE  ScreenInv'
<1>0. /\ x.round \in RoundIds /\ x.round[2] \in RoundNumbers
      /\ x \in [round : RoundIds, step : {"cas", "find"}, expired : BOOLEAN, late : BOOLEAN]
  BY RoundIdParts DEF RaceInv, TasksType
<1>1. UNCHANGED <<stage, raceId, over, opening, submitting>>
  BY DEF ExpireSteps, ExpireRound, ExpireAnswer, contract, raceVars
<1>2. CASE ExpireRound(x)
  <2>1. PICK done \in BOOLEAN, y \in expiring' :
            /\ done = Expirable(x)
            /\ y = [x EXCEPT !.step = "find", !.expired = done]
            /\ state' = IF done THEN [state EXCEPT ![x.round[2]] = "expired"] ELSE state
            /\ expiring' = (expiring \ {x}) \cup {y}
    BY <1>2 DEF ExpireRound
  <2>2. y.step = "find" /\ y.expired = done /\ y.round = x.round /\ x.step = "cas" /\ UNCHANGED ended
    BY <1>0, <1>2, <2>1 DEF ExpireRound
  <2>3. \A r \in RoundIds : Owed(r) => Owed(r)'
    BY <1>1, <2>1, <2>2, StillOwed DEF Claimed, RanOut
  <2>4. CASE done
    <3>1. ASSUME NEW r \in RoundIds, Stored(r), r[2] = x.round[2] PROVE Owed(r)'
      <4>1. r = x.round
        BY <1>0, <2>1, <2>4, <3>1, RoundIdParts DEF Expirable, Stored
      <4>2. QED
        BY <2>1, <2>2, <2>4, <4>1 DEF Owed, RanOut
    <3>2. QED
      BY <1>0, <1>1, <2>1, <2>2, <2>3, <2>4, <3>1, ScreenDecided
  <2>5. CASE ~done
    <3>1. UNCHANGED <<watching, screen>>
      BY <1>1, <2>2, NothingHeard
    <3>2. QED
      BY <1>1, <2>1, <2>3, <2>5, <3>1, Unheard
  <2>6. QED
    BY <2>4, <2>5
<1>3. CASE ExpireAnswer(x)
  <2>1. x.step = "find" /\ expiring' = expiring \ {x} /\ UNCHANGED state
    BY <1>3 DEF ExpireAnswer, raceVars
  <2>2. \A r \in RoundIds : r # x.round \/ ~x.expired => (Owed(r) => Owed(r)')
    BY <1>1, <2>1, StillOwed DEF Claimed, RanOut
  <2>3. CASE x.expired /\ raceId # 0
    <3>1. Owed(x.round)
      BY <2>1, <2>3 DEF Owed, RanOut
    <3>2. ended' = [ended EXCEPT ![x.round] = @ + 1]
      BY <1>3, <2>3 DEF ExpireAnswer
    <3>3. QED
      BY <1>0, <1>1, <2>1, <2>2, <3>1, <3>2, ScreenToldEnd
  <2>4. CASE ~(x.expired /\ raceId # 0)
    <3>1. UNCHANGED <<watching, screen>>
      BY <1>1, <1>3, <2>4, NothingHeard DEF ExpireAnswer
    <3>2. CASE ~x.expired
      BY <1>1, <2>1, <2>2, <3>1, <3>2, Unheard
    <3>3. CASE raceId = 0
      <4>1. \A r \in RoundIds : ~Stored(r)
        BY <3>3, RoundIdParts DEF Stored
      <4>2. QED
        BY <1>1, <2>1, <3>1, <4>1 DEF ScreenInv, BlankScreen, ShownSound, NoneMissing, ActiveRounds, Stored
    <3>4. QED
      BY <2>4, <3>2, <3>3
  <2>5. QED
    BY <2>3, <2>4
<1>4. QED
  BY <1>2, <1>3 DEF ExpireSteps

LEMMA ScreenSubmissions ==
    ASSUME RaceInv, AnnouncedOnce, ScreenInv, Hears, NEW s \in Slots,
           (\E p \in Players, i \in RoundNumbers : Submit(s, p, i)) \/ SubmitSteps(s)
    PROVE  ScreenInv'
<1>0. PICK m \in Submission : m = submitting[s] /\ (m.step # "free" => m.round \in RoundIds)
  BY DEF RaceInv, TasksType, Submission
<1>1. /\ UNCHANGED <<stage, raceId, over, opening, expiring>>
      /\ submitting \in [Slots -> Submission]
  BY DEF Submit, SubmitSteps, Judge, Claim, Award, WinRound, contract, raceVars, RaceInv, TasksType, Submission
<1>2. ASSUME NEW n, submitting' = [submitting EXCEPT ![s] = n], m.step # "award"
      PROVE  \A r \in RoundIds : Owed(r) => Owed(r)'
  BY <1>0, <1>1, <1>2, StillOwed DEF Claimed
<1>3. ASSUME NEW n, submitting' = [submitting EXCEPT ![s] = n], m.step # "award", UNCHANGED <<state, ended>>
      PROVE  ScreenInv'
  <2>1. UNCHANGED <<watching, screen>>
    BY <1>1, <1>3, NothingHeard
  <2>2. QED
    BY <1>1, <1>2, <1>3, <2>1, Unheard
<1>4. ASSUME NEW p \in Players, NEW i \in RoundNumbers, Submit(s, p, i) PROVE ScreenInv'
  <2>1. m.step # "award"
    BY <1>0, <1>4 DEF Submit, Free
  <2>2. QED
    BY <1>3, <1>4, <2>1 DEF Submit, raceVars
<1>5. CASE Judge(s)
  BY <1>0, <1>3, <1>5 DEF Judge, raceVars
<1>6. CASE Claim(s)
  <2>1. m.step = "claim" /\ m.round \in RoundIds /\ m.round[2] \in RoundNumbers /\ UNCHANGED ended
    BY <1>0, <1>6, RoundIdParts DEF Claim
  <2>2. CASE UNCHANGED state /\ submitting' = [submitting EXCEPT ![s] = Free]
    BY <1>3, <2>1, <2>2
  <2>3. CASE /\ Claimable(m)
             /\ state' = [state EXCEPT ![m.round[2]] = "won"]
             /\ submitting' = [submitting EXCEPT ![s] = [m EXCEPT !.step = "award"]]
    <3>1. Claimed(s, m.round)'
      BY <1>0, <1>1, <2>3 DEF Claimed, Submission
    <3>2. ASSUME NEW r \in RoundIds, Stored(r), r[2] = m.round[2] PROVE Owed(r)'
      <4>1. r = m.round
        BY <2>1, <2>3, <3>2, RoundIdParts DEF Claimable, Stored
      <4>2. QED
        BY <3>1, <4>1 DEF Owed
    <3>3. \A r \in RoundIds : Owed(r) => Owed(r)'
      BY <1>2, <2>1, <2>3
    <3>4. QED
      BY <1>1, <2>1, <2>3, <3>2, <3>3, ScreenDecided
  <2>4. QED
    BY <1>0, <1>6, <2>2, <2>3 DEF Claim, Late
<1>7. CASE Award(s)
  <2>1. /\ m.step = "award" /\ m.round \in RoundIds /\ UNCHANGED state
        /\ submitting' = [submitting EXCEPT ![s] = Free]
        /\ ended' = [ended EXCEPT ![m.round] = @ + 1]
    BY <1>0, <1>7 DEF Award, raceVars
  <2>2. Owed(m.round)
    BY <1>0, <2>1 DEF Owed, Claimed
  <2>3. \A r \in RoundIds \ {m.round} : Owed(r) => Owed(r)'
    BY <1>0, <1>1, <2>1, StillOwed DEF Claimed
  <2>4. QED
    BY <1>1, <2>1, <2>2, <2>3, ScreenToldEnd
<1>8. QED
  BY <1>4, <1>5, <1>6, <1>7 DEF SubmitSteps

-----------------------------------------------------------------------------
\* A tab that drops or comes back changes nothing of the race.
LEMMA TabAlone ==
    ASSUME Drops \/ Rejoins, RaceInv, LocalInv, AnnouncedOnce
    PROVE  RaceInv' /\ LocalInv' /\ AnnouncedOnce'
<1>1. UNCHANGED <<contract, battle, raceVars, timerVars, taskVars, ended>> /\ burst' = NoPlayer
  BY DEF Drops, Rejoins, MayFire
<1>2. RaceInv'
  BY <1>1 DEF contract, raceVars, timerVars, taskVars, RaceInv, RaceTypeOK, TasksType, StartAhead, NothingStored
<1>3. LocalInv'
  BY <1>1 DEF contract, raceVars, timerVars, taskVars, LocalInv, TimersAlone, StartAlone, BattleAlone,
     LeftOver, OpeningsSound, TimersSound, InOrder, NothingWonYet, NothingWon, AllScheduled, NobodyTypes,
     NoStops, Stored
<1>4. AnnouncedOnce'
  <2>1. UNCHANGED <<submitting, expiring, ended, battle, raceId, state, starting>>
    BY <1>1 DEF raceVars, taskVars
  <2>2. QED
    BY <2>1, NothingOwed DEF Claimed, Undecided, Stored
<1>5. QED
  BY <1>2, <1>3, <1>4

\* A tab that comes back is sent the one round that is open.
LEMMA TabFollows ==
    ASSUME Drops \/ Rejoins, Local, RaceInv, LocalInv, ScreenInv
    PROVE  ScreenInv'
<1>1. UNCHANGED <<stage, raceId, state, over, submitting, opening, expiring>> /\ Quiet
  BY DEF Drops, Rejoins, MayFire, contract, raceVars, taskVars
<1>2. CASE Drops
  BY <1>2 DEF Drops, ScreenInv, BlankScreen, ShownSound, NoneMissing
<1>3. CASE Rejoins
  <2>1. /\ watching'
        /\ \/ stage = "battling" /\ screen' \in ActiveRounds
           \/ (stage = "battling" => ActiveRounds = {}) /\ screen' = screen
    BY <1>3 DEF Rejoins
  <2>2. ASSUME NEW q \in ActiveRounds, NEW r \in ActiveRounds PROVE q = r
    <3>1. /\ q \in RoundIds /\ Stored(q) /\ state[q[2]] # "scheduled" /\ q[2] \notin over
          /\ r \in RoundIds /\ Stored(r) /\ state[r[2]] # "scheduled" /\ r[2] \notin over
      BY DEF ActiveRounds
    <3>2. q[2] \in RoundNumbers /\ r[2] \in RoundNumbers /\ q = <<q[1], q[2]>> /\ r = <<r[1], r[2]>>
      BY <3>1, RoundIdParts
    <3>3. ~(q[2] < r[2]) /\ ~(r[2] < q[2])
      BY <3>1, <3>2 DEF LocalInv, InOrder
    <3>4. QED
      BY <3>1, <3>2, <3>3, WordRaceAssumption DEF Stored
  <2>3. CASE stage = "battling" /\ screen' \in ActiveRounds
    <3>1. BlankScreen' /\ ShownSound'
      BY <1>1, <2>1, <2>3 DEF BlankScreen, ShownSound, ActiveRounds, Stored
    <3>2. NoneMissing'
      BY <1>1, <2>2, <2>3 DEF NoneMissing, ActiveRounds, Stored
    <3>3. QED
      BY <3>1, <3>2 DEF ScreenInv
  <2>4. CASE (stage = "battling" => ActiveRounds = {}) /\ screen' = screen
    <3>1. BlankScreen' /\ NoneMissing'
      BY <1>1, <2>1, <2>4 DEF ScreenInv, BlankScreen, NoneMissing, ActiveRounds, Stored
    <3>2. ShownSound'
      BY <1>1, <2>4 DEF ScreenInv, ShownSound, Stored, Owed, Claimed
    <3>3. QED
      BY <3>1, <3>2 DEF ScreenInv
  <2>5. QED
    BY <2>1, <2>3, <2>4
<1>4. QED
  BY <1>2, <1>3

FollowInv == RaceInv /\ LocalInv /\ AnnouncedOnce /\ ScreenInv

LEMMA FollowStep == FollowInv /\ [ScreenNext]_<<vars, screenVars>> => FollowInv'
<1> SUFFICES ASSUME RaceInv, LocalInv, AnnouncedOnce, ScreenInv, [ScreenNext]_<<vars, screenVars>>
             PROVE  FollowInv'
  BY DEF FollowInv
<1>0. Local
  BY ScreenAssumption
<1>1. CASE RaceNext /\ Hears
  <2>1. RaceInv' /\ LocalInv' /\ AnnouncedOnce'
    BY <1>0, <1>1, RaceStep, LocalStep, AnnouncedStep
  <2>2. ScreenInv'
    BY <1>0, <1>1, ScreenBattles, ScreenScheduler, ScreenFires, ScreenOpenings, ScreenExpiries,
       ScreenSubmissions DEF RaceNext
  <2>3. QED
    BY <2>1, <2>2 DEF FollowInv
<1>2. CASE Drops \/ Rejoins
  BY <1>0, <1>2, TabAlone, TabFollows DEF FollowInv
<1>3. CASE UNCHANGED <<vars, screenVars>>
  <2>1. UNCHANGED vars /\ UNCHANGED <<watching, screen>>
    BY <1>3 DEF screenVars
  <2>2. RaceInv' /\ LocalInv' /\ AnnouncedOnce'
    BY <1>0, <2>1, RaceStep, LocalStep, AnnouncedStep
  <2>3. ScreenInv'
    BY <2>1, Unheard DEF vars, contract, raceVars, taskVars, Owed, Claimed
  <2>4. QED
    BY <2>2, <2>3 DEF FollowInv
<1>4. QED
  BY <1>1, <1>2, <1>3 DEF ScreenNext

\* With nothing under way nobody owes an announcement.
LEMMA QuietFollows == ScreenInv => ScreenFollows
<1> SUFFICES ASSUME ScreenInv, watching, stage = "battling", Quiet
             PROVE  /\ screen # NoRound => Stored(screen) /\ state[screen[2]] = "open"
                    /\ ActiveRounds \subseteq {screen}
  BY DEF ScreenFollows
<1>1. \A r : ~Owed(r)
  BY DEF Quiet, Free, Owed, Claimed
<1>2. QED
  BY <1>1 DEF ScreenInv, ShownSound, NoneMissing, Quiet

\* Whatever order words, expiries, departures and reloads come in, once nothing
\* is under way a tab in a running battle shows the round that is open and no
\* other (socketHandlers' resyncWordRound, the scheduler's broadcasts).
THEOREM ScreenFollowsSafe == ScreenSpec => []ScreenFollows
<1>1. ScreenInit => FollowInv
  BY RaceStart, LocalStart, AnnouncedStart, ScreenStart DEF ScreenInit, FollowInv
<1>2. FollowInv => ScreenFollows
  BY QuietFollows DEF FollowInv
<1>3. QED
  BY <1>1, <1>2, FollowStep, PTL DEF ScreenSpec
=============================================================================
