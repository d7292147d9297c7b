------------------------------ MODULE WordRace ------------------------------
(***************************************************************************)
(* The word race of one room (WordRaceScheduler, the word race use cases and *)
(* InMemoryWordRaceRepository) beside the battles it accompanies, which are  *)
(* those of BattleContract.  Race and room are stored apart: every handler   *)
(* is a chain of steps, one per answer it awaits from either store.          *)
(*                                                                           *)
(* Local says what may happen between two steps of a handler.  TRUE: the     *)
(* stores are in memory, so Node runs a timer or a message to its end before  *)
(* the next one, and only messages sent in one burst by one socket overlap.  *)
(* FALSE: the stores are remote (WordRaceRepository.ts is written for that)  *)
(* and anything may happen in between.                                       *)
(***************************************************************************)
EXTENDS BattleContract, FiniteSets

CONSTANTS
    RoundNumbers, \* 1 .. the rounds planned per battle
    MaxBattles,   \* bound: battles of the room
    Slots,        \* bound: word submissions being handled at once
    MaxStops,     \* bound: stops asked for and not finished yet
    Local         \* the stores answer before anything else happens

ASSUME WordRaceAssumption ==
    /\ NoPlayer \notin Players
    /\ Lineups \subseteq SUBSET Players
    /\ RoundNumbers \subseteq Nat \ {0} /\ IsFiniteSet(RoundNumbers)
    /\ IsFiniteSet(Slots)
    /\ MaxBattles \in Nat /\ MaxStops \in Nat \ {0}
    /\ Local \in BOOLEAN

VARIABLES
    battle,       \* room.battle.id, counted
    raceId,       \* battleId of the stored race, 0 when none is stored
    runners,      \* race.participantIds
    state,        \* status of each round of the stored race
    by,           \* winnerId of each round of the stored race
    over,         \* rounds of the stored race whose closesAt has passed
    tracking,     \* the scheduler holds a timer set for the room
    timers,       \* the timers in it: what they do, for which round
    starting,     \* the scheduler.start under way
    stops,        \* the scheduler.stops under way, counted by their next step
    opening,      \* the round openings under way
    expiring,     \* the round expiries under way
    submitting,   \* the word submissions under way
    ended,        \* word:round-ended broadcasts of each round
    burst         \* whose messages are being handled

raceVars  == <<raceId, runners, state, by, over>>
timerVars == <<tracking, timers>>
taskVars  == <<starting, stops, opening, expiring, submitting>>
vars == <<contract, battle, raceVars, timerVars, taskVars, ended, burst>>

RoundIds == (1..MaxBattles) \X RoundNumbers
NotStarting == [step |-> "none", id |-> 0, who |-> {}]
Free == [step |-> "free", player |-> NoPlayer, round |-> <<0, 0>>]

Init ==
    /\ Waiting
    /\ battle = 0
    /\ raceId = 0 /\ runners = {} /\ over = {}
    /\ state = [i \in RoundNumbers |-> "scheduled"]
    /\ by = [i \in RoundNumbers |-> NoPlayer]
    /\ tracking = FALSE /\ timers = {}
    /\ starting = NotStarting
    /\ stops = [clear |-> 0, delete |-> 0]
    /\ opening = {} /\ expiring = {}
    /\ submitting = [s \in Slots |-> Free]
    /\ ended = [r \in RoundIds |-> 0]
    /\ burst = NoPlayer

-----------------------------------------------------------------------------
\* What may begin now.

Quiet ==
    /\ starting = NotStarting
    /\ stops = [clear |-> 0, delete |-> 0]
    /\ opening = {} /\ expiring = {}
    /\ submitting = [s \in Slots |-> Free]

\* A timer, or anything else that comes on its own.
MayFire == (Local => Quiet) /\ burst' = NoPlayer

\* A message of p.
MayAct(p) == (Local => Quiet \/ burst = p) /\ burst' = IF Local THEN p ELSE NoPlayer

-----------------------------------------------------------------------------
\* The race in its store.

NoRace ==
    /\ raceId' = 0
    /\ runners' = {}
    /\ state' = [i \in RoundNumbers |-> "scheduled"]
    /\ by' = [i \in RoundNumbers |-> NoPlayer]
    /\ over' = {}

Stored(r) == raceId = r[1]

\* Time passes: the windows close in order, they never overlap.
Tick ==
    /\ raceId # 0
    /\ \E i \in RoundNumbers \ over :
          /\ \A j \in RoundNumbers : j < i => j \in over
          /\ over' = over \cup {i}
    /\ MayFire
    /\ UNCHANGED <<contract, battle, raceId, runners, state, by, timerVars, taskVars, ended>>

-----------------------------------------------------------------------------
\* scheduler.stop: the timers are cleared at once, then the race is deleted.

AskStop ==
    /\ stops.clear + stops.delete < MaxStops
    /\ stops' = [stops EXCEPT !.clear = @ + 1]

NoTimers == tracking' = FALSE /\ timers' = {}

StopClear ==
    /\ stops.clear > 0
    /\ NoTimers
    /\ stops' = [clear |-> stops.clear - 1, delete |-> stops.delete + 1]
    /\ UNCHANGED <<contract, battle, raceVars, starting, opening, expiring, submitting, ended, burst>>

StopDelete ==
    /\ stops.delete > 0
    /\ NoRace
    /\ stops' = [stops EXCEPT !.delete = @ - 1]
    /\ UNCHANGED <<contract, battle, timerVars, starting, opening, expiring, submitting, ended, burst>>

-----------------------------------------------------------------------------
\* The battles: the steps of BattleContract and what their handlers ask of the
\* scheduler.

\* The next battle needs the other players' messages too, so it never starts in
\* the middle of a burst; the host's own messages may follow it.
BattleBegins(D) ==
    /\ battle < MaxBattles
    /\ starting = NotStarting
    /\ Begin(D)
    /\ battle' = battle + 1
    /\ starting' = [NotStarting EXCEPT !.step = "read"]
    /\ Local => Quiet
    /\ \E p \in Players \cup {NoPlayer} : burst' = IF Local THEN p ELSE NoPlayer
    /\ UNCHANGED <<raceVars, timerVars, stops, opening, expiring, submitting, ended>>

\* Fault: every departure stops the race, also one that leaves enough dancers.
DancerLeaves_AlwaysStops(p) ==
    /\ Withdraw(p) \/ LastWithdraws(p)
    /\ AskStop
    /\ MayAct(p)
    /\ UNCHANGED <<battle, raceVars, timerVars, starting, opening, expiring, submitting, ended>>

DancerLeaves(p) ==
    /\ \/ Withdraw(p) /\ UNCHANGED stops
       \/ LastWithdraws(p) /\ AskStop
    /\ MayAct(p)
    /\ UNCHANGED <<battle, raceVars, timerVars, starting, opening, expiring, submitting, ended>>

BattleOver ==
    /\ SongEnds
    /\ AskStop
    /\ MayFire
    /\ UNCHANGED <<battle, raceVars, timerVars, starting, opening, expiring, submitting, ended>>

\* room:rematch, or the last player leaving a finished room.
Rematch(p) ==
    /\ Clear
    /\ AskStop
    /\ MayAct(p)
    /\ UNCHANGED <<battle, raceVars, timerVars, starting, opening, expiring, submitting, ended>>

\* Somebody leaves while no battle is running: the race is stopped all the same.
LobbyLeave(p) ==
    /\ stage # "battling"
    /\ AskStop
    /\ MayAct(p)
    /\ UNCHANGED <<contract, battle, raceVars, timerVars, starting, opening, expiring, submitting, ended>>

-----------------------------------------------------------------------------
\* scheduler.start: clear the timers and read the room, save the plan, install
\* the timers of the openings.

StartRead ==
    /\ starting.step = "read"
    /\ NoTimers
    /\ starting' = IF stage = "battling" THEN [step |-> "save", id |-> battle, who |-> dancing]
                                         ELSE NotStarting
    /\ UNCHANGED <<contract, battle, raceVars, stops, opening, expiring, submitting, ended, burst>>

StartSave ==
    /\ starting.step = "save"
    /\ raceId' = starting.id
    /\ runners' = starting.who
    /\ state' = [i \in RoundNumbers |-> "scheduled"]
    /\ by' = [i \in RoundNumbers |-> NoPlayer]
    /\ over' = {}
    /\ starting' = [starting EXCEPT !.step = "install"]
    /\ UNCHANGED <<contract, battle, timerVars, stops, opening, expiring, submitting, ended, burst>>

StartInstall ==
    /\ starting.step = "install"
    /\ tracking' = TRUE
    /\ timers' = {<<"open", <<starting.id, i>>>> : i \in RoundNumbers}
    /\ starting' = NotStarting
    /\ UNCHANGED <<contract, battle, raceVars, stops, opening, expiring, submitting, ended, burst>>

\* A timer is only set while the room is tracked.
Schedule(task) == timers' = IF tracking THEN timers \cup {task} ELSE timers

-----------------------------------------------------------------------------
\* A round opens.

\* Node runs the timers that are due in the order they are due, also late ones.
FireOpen(r) ==
    /\ <<"open", r>> \in timers
    /\ \A j \in RoundNumbers : j < r[2] => <<"open", <<r[1], j>>>> \notin timers
    /\ Stored(r) => \A j \in RoundNumbers : j < r[2] => j \in over
    /\ MayFire
    /\ timers' = timers \ {<<"open", r>>}
    /\ opening' = opening \cup {[round |-> r, step |-> "room", saw |-> 0]}
    /\ UNCHANGED <<contract, battle, raceVars, tracking, starting, stops, expiring, submitting, ended>>

Goes(o, next) == opening' = (opening \ {o}) \cup next

\* The room is read first: `saw` is its running battle, 0 for none.
OpenReadRoom(o) ==
    /\ o.step = "room"
    /\ Goes(o, {[o EXCEPT !.step = "race", !.saw = IF stage = "battling" THEN battle ELSE 0]})
    /\ UNCHANGED <<contract, battle, raceVars, timerVars, starting, stops, expiring, submitting, ended, burst>>

\* Fault: a race whose battle is over is left where it is.
StopRace_Never == UNCHANGED <<timerVars, stops>>

\* scheduler.stop from a timer: its first part runs in the same turn.
StopRace == NoTimers /\ stops' = [stops EXCEPT !.delete = @ + 1]

\* Then the race: one whose battle is over is stopped.
OpenReadRace(o) ==
    /\ o.step = "race"
    /\ \/ raceId = 0 /\ Goes(o, {}) /\ UNCHANGED <<timerVars, stops>>
       \/ /\ raceId # 0 /\ o.saw = raceId
          /\ Goes(o, {[o EXCEPT !.step = "cas"]}) /\ UNCHANGED <<timerVars, stops>>
       \/ /\ raceId # 0 /\ o.saw # raceId
          /\ Goes(o, {}) /\ StopRace
    /\ UNCHANGED <<contract, battle, raceVars, starting, expiring, submitting, ended, burst>>

OpenRound(o) ==
    /\ o.step = "cas"
    /\ \/ /\ Stored(o.round) /\ state[o.round[2]] = "scheduled"
          /\ state' = [state EXCEPT ![o.round[2]] = "open"]
          /\ Goes(o, {[o EXCEPT !.step = "opened"]})
       \/ ~(Stored(o.round) /\ state[o.round[2]] = "scheduled") /\ Goes(o, {}) /\ UNCHANGED state
    /\ UNCHANGED <<contract, battle, raceId, runners, by, over, timerVars, starting, stops, expiring,
                   submitting, ended, burst>>

\* word:round-started, and the timer of the expiry.
OpenAnnounce(o) ==
    /\ o.step = "opened"
    /\ Schedule(<<"expire", o.round>>)
    /\ Goes(o, {})
    /\ UNCHANGED <<contract, battle, raceVars, tracking, starting, stops, expiring, submitting, ended, burst>>

-----------------------------------------------------------------------------
\* A round expires.

\* The timer may run a moment early: `late` is what the clock says when it does.
FireExpire(r) ==
    /\ <<"expire", r>> \in timers
    /\ MayFire
    /\ timers' = timers \ {<<"expire", r>>}
    /\ expiring' = expiring \cup {[round |-> r, step |-> "cas", expired |-> FALSE,
                                   late |-> Stored(r) => r[2] \in over]}
    /\ UNCHANGED <<contract, battle, raceVars, tracking, starting, stops, opening, submitting, ended>>

\* Fault: the time is all that is checked.
Expirable_TimeOnly(x) == Stored(x.round) /\ x.late

Expirable(x) == Stored(x.round) /\ state[x.round[2]] = "open" /\ x.late

ExpireRound(x) ==
    /\ x.step = "cas"
    /\ \E done \in BOOLEAN :
          /\ done = Expirable(x)
          /\ state' = IF done THEN [state EXCEPT ![x.round[2]] = "expired"] ELSE state
          /\ expiring' = (expiring \ {x}) \cup {[x EXCEPT !.step = "find", !.expired = done]}
    /\ UNCHANGED <<contract, battle, raceId, runners, by, over, timerVars, starting, stops, opening,
                   submitting, ended, burst>>

\* Fault: an early timer is not set again.
TryAgain_Never(x) == UNCHANGED timers

TryAgain(x) ==
    IF Stored(x.round) /\ state[x.round[2]] = "open" THEN Schedule(<<"expire", x.round>>)
                                                     ELSE UNCHANGED timers

\* The expiry is announced if a race is still there; an early timer is set again.
ExpireAnswer(x) ==
    /\ x.step = "find"
    /\ expiring' = expiring \ {x}
    /\ \/ /\ x.expired /\ raceId # 0
          /\ ended' = [ended EXCEPT ![x.round] = @ + 1]
          /\ UNCHANGED timers
       \/ /\ ~(x.expired /\ raceId # 0)
          /\ TryAgain(x)
          /\ UNCHANGED ended
    /\ UNCHANGED <<contract, battle, raceVars, tracking, starting, stops, opening, submitting, burst>>

-----------------------------------------------------------------------------
\* A dancer types the word.  Wrong words change nothing and are left out.

Submit(s, p, i) ==
    /\ submitting[s] = Free
    /\ raceId # 0 /\ state[i] # "scheduled"
    /\ MayAct(p)
    /\ submitting' = [submitting EXCEPT ![s] = [step |-> "find", player |-> p, round |-> <<raceId, i>>]]
    /\ UNCHANGED <<contract, battle, raceVars, timerVars, starting, stops, opening, expiring, ended>>

\* The race is read and the clock with it: the claim will use this reading.
Judge(s) ==
    LET m == submitting[s]
        i == m.round[2]
        correct == Stored(m.round) /\ m.player \in runners /\ state[i] \in {"open", "won"} /\ i \notin over
    IN  /\ m.step = "find"
        /\ submitting' = [submitting EXCEPT ![s] = IF correct THEN [m EXCEPT !.step = "claim"] ELSE Free]
        /\ UNCHANGED <<contract, battle, raceVars, timerVars, starting, stops, opening, expiring, ended, burst>>

\* Fault: what was read decides, as in a read followed by a save.
Claimable_FromRead(m) == Stored(m.round)

Claimable(m) == Stored(m.round) /\ state[m.round[2]] = "open"

\* Fault: who comes late is paid as well.
Late_Paid(m) == [m EXCEPT !.step = "award"]

Late(m) == Free

\* The claim: first come, first served, whatever was read before.
Claim(s) ==
    LET m == submitting[s]
        i == m.round[2]
    IN  /\ m.step = "claim"
        /\ \/ /\ Claimable(m)
              /\ state' = [state EXCEPT ![i] = "won"]
              /\ by' = [by EXCEPT ![i] = m.player]
              /\ submitting' = [submitting EXCEPT ![s] = [m EXCEPT !.step = "award"]]
           \/ /\ ~Claimable(m)
              /\ submitting' = [submitting EXCEPT ![s] = Late(m)]
              /\ UNCHANGED <<state, by>>
        /\ UNCHANGED <<contract, battle, raceId, runners, over, timerVars, starting, stops, opening,
                       expiring, ended, burst>>

\* The winner is paid, unless the battle is over or they left it, and announced.
Award(s) ==
    LET m == submitting[s]
    IN  /\ m.step = "award"
        /\ \/ WinRound(m.player)
           \/ ~(stage = "battling" /\ m.player \in dancing) /\ UNCHANGED contract
        /\ ended' = [ended EXCEPT ![m.round] = @ + 1]
        /\ submitting' = [submitting EXCEPT ![s] = Free]
        /\ UNCHANGED <<battle, raceVars, timerVars, starting, stops, opening, expiring, burst>>

-----------------------------------------------------------------------------
StartSteps == StartRead \/ StartSave \/ StartInstall
OpenSteps(o) == OpenReadRoom(o) \/ OpenReadRace(o) \/ OpenRound(o) \/ OpenAnnounce(o)
ExpireSteps(x) == ExpireRound(x) \/ ExpireAnswer(x)
SubmitSteps(s) == Judge(s) \/ Claim(s) \/ Award(s)

RaceNext ==
    \/ \E D \in Lineups : BattleBegins(D)
    \/ \E p \in Players : DancerLeaves(p) \/ Rematch(p) \/ LobbyLeave(p)
    \/ BattleOver
    \/ StartSteps
    \/ StopClear \/ StopDelete
    \/ \E r \in RoundIds : FireOpen(r) \/ FireExpire(r)
    \/ \E o \in opening : OpenSteps(o)
    \/ \E x \in expiring : ExpireSteps(x)
    \/ \E s \in Slots, p \in Players, i \in RoundNumbers : Submit(s, p, i)
    \/ \E s \in Slots : SubmitSteps(s)
    \/ Tick

RaceSpec == Init /\ [][RaceNext]_vars

\* The stores answer, and time passes.  However many messages keep coming, the
\* event loop comes back to its due timers, hence strong fairness for them.
\* Nobody has to type, to leave or to ask for a rematch, and no battle has to end.
RaceFairness ==
    /\ WF_vars(StartSteps)
    /\ WF_vars(StopClear) /\ WF_vars(StopDelete)
    /\ \A r \in RoundIds :
          /\ SF_vars(FireOpen(r))
          /\ SF_vars(FireExpire(r))
          /\ WF_vars(\E o \in opening : o.round = r /\ OpenSteps(o))
          /\ WF_vars(\E x \in expiring : x.round = r /\ ExpireSteps(x))
    /\ \A s \in Slots : WF_vars(SubmitSteps(s))
    /\ SF_vars(Tick)

FairRaceSpec == RaceSpec /\ RaceFairness

-----------------------------------------------------------------------------
\* Properties.

Winnings(p) == {i \in RoundNumbers : by[i] = p}
Unpaid(p) == {s \in Slots : submitting[s].step = "award" /\ submitting[s].player = p}

RaceTypeOK ==
    /\ battle \in 0..MaxBattles
    /\ raceId \in 0..battle
    /\ runners \subseteq Players
    /\ state \in [RoundNumbers -> {"scheduled", "open", "won", "expired"}]
    /\ by \in [RoundNumbers -> Players \cup {NoPlayer}]
    /\ \A i \in RoundNumbers : by[i] # NoPlayer <=> state[i] = "won"
    /\ over \subseteq RoundNumbers
    /\ tracking \in BOOLEAN
    /\ timers \subseteq {"open", "expire"} \X RoundIds
    /\ ended \in [RoundIds -> Nat]
    /\ burst \in Players \cup {NoPlayer}

\* A round is decided once: of all claims and expiries that race for it, however
\* old what they read, one takes effect, and it is never undone.
SettledOnce ==
    [][\A i \in RoundNumbers :
         raceId' = raceId /\ state[i] \in {"won", "expired"}
           => state'[i] = state[i] /\ by'[i] = by[i]]_vars

\* The room is told the end of a round at most once, by the winner's claim or by
\* the expiry, never by both (WordRaceScheduler.ts:10).
EndedOnce == \A r \in RoundIds : ended[r] <= 1

\* The score and the race are stored apart and agree: a dancer of the running
\* battle was paid every round the race says they won, or is about to be.
WordsMatchRace ==
    stage = "battling" /\ raceId = battle =>
        \A p \in dancing : won[p] + Cardinality(Unpaid(p)) = Cardinality(Winnings(p))

\* With the stores in memory, no stop asked for by a departure, a rematch or an
\* earlier battle takes the race of a later one (announceLeave,
\* socketHandlers.ts:278): whenever no handler is under way, the running battle
\* has its own race stored and every undecided round has the timer it waits for.
RaceGoesOn ==
    stage = "battling" /\ Quiet =>
        /\ raceId = battle
        /\ \A i \in RoundNumbers :
              /\ state[i] = "scheduled" => <<"open", <<battle, i>>>> \in timers
              /\ state[i] = "open" => <<"expire", <<battle, i>>>> \in timers

\* A round that opened does not stay open for ever, even when its timer ran
\* early, was cleared by a stop or was never set.
RoundSettles ==
    \A r \in RoundIds :
        (Stored(r) /\ state[r[2]] = "open") ~> ~(Stored(r) /\ state[r[2]] = "open")

\* Once a battle is over its race and its timers go, in whatever order the end
\* met a start, an opening or an expiry that was under way.
NothingLeaks ==
    stage # "battling" ~> stage = "battling" \/ (raceId = 0 /\ timers = {})

-----------------------------------------------------------------------------
\* What the documentation says and the code does not do.

\* WordRace.ts:50: late means that another dancer had already won the round.
LateMeansAnother ==
    [][\A s \in Slots :
         LET m == submitting[s]
         IN  m.step = "claim" /\ submitting'[s] = Free /\ Stored(m.round) /\ state[m.round[2]] = "won"
               => by[m.round[2]] # m.player]_vars
=============================================================================
