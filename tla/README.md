# DanceSync: a verification project

TLA+ specifications of the DanceSync backend, checked with TLC and, where a
statement holds for every size of the system, proved with TLAPS. Paths below are
relative to the repository root (`src/` in `PROJECT.json`).

## 1. Inventory

Two services hold behaviour: **battle-service** (TypeScript, rooms in memory,
Socket.IO and HTTP) and **users-service** (Java, PostgreSQL). `api-gateway` only
routes.

| Component | State it keeps | Operations | Interacts with |
|---|---|---|---|
| Room aggregate (`RoomService`, use cases) | players, host, roles, readiness, dancers, spectators, status, battle, last result | create, join, selectRole, setReady, leave, kick, startBattle, castVote, awardWordBonus, finishAtDeadline, rematch | room store; song selection (same stored object) |
| Song selection (`SongSelectionService`) | phase, participants, failed attempts, chooser, deadline, chosen song | start, submit, expire, choose, autoPick, handlePlayerLeft | the room; its timers |
| Scoring (`ScoringService`) | none | voteCounts, standings, result | the battle |
| Room store (`InMemoryRoomRepository`) | rooms by code, version | insert, find, atomic update, delete | every use case |
| Room timers (`RoomTimers`, `armRoomTimers`) | one timer per room and deadline, version last armed from | arm from the published state, clear, fire | timer use cases |
| Word race (`WordRaceScheduler`, store, use cases) | planned rounds, their winner, timers | start, stop, open, expire, submit, claim | room (dancers, bonus) |
| Word race planning (`WordRaceService.plan`) | none | plan, randomOffsets, pickDistinct | word race |
| Socket sessions (`socketHandlers`) | socket bindings and channels, grace timers, seats seen unbound | join, leave, disconnect, pagehide, sweep, release | room |
| Match history (`RecordMatchResult`, `HttpMatchResultPublisher`; `MatchPersistenceAdapter`) | attempts; stored matches | publish with retries; upsert | users-service over HTTP |
| User registration (`UserService`) | users | register | PostgreSQL constraint |
| Chat, WebRTC relay, DTOs, configuration, gateway, CI | none that matters | relays, formatting, wiring | - |

What is hard here, and why tests hardly reach it:

* **Departures at any moment.** A player may leave, be kicked or lose the seat
  (grace timer, sweep, HTTP beacon) during every phase; one departure changes the
  seats, the host, the votes, the dancers, perhaps the end of the battle, the turn
  to choose a song and the existence of the room, in one stored change.
* **Deadlines racing people.** Typing countdown, chooser deadline, end of song,
  word windows and seat grace all race client messages.
* **Repeated state.** `dancers`, `spectators`, `roster`, `audience`,
  `participantIds`, `lastResult` repeat or snapshot parts of `players` and `battle`.
* **Two aggregates.** The word race is stored beside the room; a round is claimed
  in one store and paid in the other.
* **Retries.** A match is published again after a timeout whose request may still
  be running.

The full list, with the line where each one bites, is `hazards` in `PROJECT.json`.

## 2. Modules

| Module | Models | Role |
|---|---|---|
| `Scoring` | `ScoringService` | votes, points, competition ranking and winner as mathematics |
| `Standings` | `ScoringService.standings`, `result` | the sort and the walk that compute the ranking; EXTENDS `Scoring` |
| `Room` | `RoomService`, `SongSelectionService`, their use cases | the core state machine; EXTENDS `Scoring` |
| `RoomChannel` | what leaves the room: `vote:mine`, the ranking of every payload, the match record | `Room` with what its use cases report and its handlers emit |
| `BattleContract` | what a room shows of its battles | abstract specification; `Room` implements it |
| `WordRace` | scheduler, store and use cases of the word race | EXTENDS `BattleContract`: the race composed with the battles of a room |
| `WordRaceScreen` | `wordRaceMessages`, `resyncWordRound`, `GetActiveWordRound` | `WordRace` with a spectator's tab and the word it shows |
| `WordRacePlan` | `WordRaceService.plan` | the arithmetic of the rounds, one random draw per step |
| `Deadlines` | `armRoomTimers`, `RoomTimers`, `RoomRepository` versions | publications out of order, timers early and stale |
| `Sessions` | `socketHandlers` bindings, departures, publications, grace timers, sweep | which socket holds which seat, and which version of the room it was sent |
| `MatchHistory` | `RecordMatchResult`, `MatchPersistenceAdapter` | publishing a match over an unreliable network |
| `MCRoom`, `MCRoomChannel`, `MCWordRace`, `MCWordRaceScreen`, `MCSessions`, `MCWordRacePlan` | - | instances for TLC |
| `Room_proofs`, `RoomChannel_proofs`, `WordRace_proofs`, `WordRaceScreen_proofs`, `WordRacePlan_proofs`, `Deadlines_proofs`, `Sessions_proofs`, `MatchHistory_proofs` | - | theorems |

### Room

`RoomRepository.update` reads the room, runs the decision and stores the outcome
in one synchronous block, so each use case is one action, and its guard is the
conjunction of the checks it makes. A command that is refused, or that returns the
same room, changes nothing: it is a stuttering step and has no action.

| TypeScript | TLA+ |
|---|---|
| `room.players`, `room.hostId` | `players` (a sequence: join order decides the host), `host`; `<<>>` when no room is stored |
| `Player.role`, `Player.ready` | `role[p]`, `p \in ready` |
| `room.dancers`, `room.spectators` | `dancers`, `spectators` (stored beside `players`, as in the code) |
| `room.status` | `status` |
| `room.songSelection` | `phase` (`"none"`: null), `participants`, `failed`, `chooser`, `reason` |
| `room.selectedSong` | `song` |
| `room.battle` | `contenders`, `roster`, `audience`, `votes`, `words`, `endReason`, `result` |
| `room.lastResult` | `lastResult` |
| the wall clock against `challenge.expiresAt`, `chooseDeadline`, `battle.startedAt`, `battle.endsAt` | `clock`: no pending deadline, before the battle's start, before the deadline, past it |

One variable is enough for the clock because at most one deadline is pending
(invariant `OneThingAtATime`): a selection in progress, a running battle and
neither exclude each other. `Tick` moves it; everything else happens on either
side of it.

Abstractions, and why the properties do not see them:

* Identifiers of challenges and battles: a stale timer carries an old one and is
  refused by comparison. A timer that survived would act on the phase only, so
  the timer actions here are enabled in the phase of their own challenge or battle.
* `participants`, `failed`, `chooser` and `reason` are forgotten once the song is
  chosen (`phase = "done"`): nothing reads them afterwards but the previous phrase.
* Names, phrases, song contents, versions and instants. A typed text is exact or
  not; "which song" is an element of `Songs`, never empty, so the automatic pick's
  branch for an empty catalogue is left out (the catalogue is a constant of the code).
* The order of tied rows in the standings.

### Standings and RoomChannel

`Scoring` says what the ranking is; `Standings` computes it the way the code does
(`Rows` is the sort, `RankOfRow` the walk that repeats the rank of the row above). The
sort itself is the engine's `Array.sort`: `Sorted` says what it returns, the row with
`k - 1` others before it at position `k`, and `Before` is the comparison the code hands it.

`RoomChannel` takes each step of `Room` together with what the use case reports
beside the room and what its handler sends. `Room` is not changed by it: every step
of `ChannelNext` is a step of `Room` or leaves all of its variables alone
(`ChannelRoomSafe` is proved that way).

| TypeScript | TLA+ |
|---|---|
| `vote:mine` as a page received it last (`emitVoteMine`, the resync of `room:join`) | `told` |
| `LeaveRoomOutput.discardedVoterIds`, `StartRematchOutput.clearedVoterIds` | `DiscardedVoters`, `ClearedVoters` |
| `LeaveRoomOutput.battleFinished`, `finished` of the deadline | `BattleFinished` |
| `MatchRecordService.fromFinishedRoom`, called once by `announceBattleFinished` | `record`, `FromFinishedRoom` |
| ranks of `toBattleDto` | `RanksShown` |

`attendance` belongs to no program variable: it is written when a battle begins and
when somebody leaves, and is what the record should say. Names, dates and the
document's other columns are left out. A page that is reloaded knows nothing until it
joins again (`Rejoins`), and may do so at any moment. Who is bound to which socket is
`Sessions`' concern, so here every seated player has one page, and handlers of one
burst do not overlap (see Disagreements, 10).

### BattleContract

A room as its observers know it: `stage`, who is still dancing, rounds won, winner.
`Begin`, `WinRound`, `Withdraw` and the endings are the only steps. `Room` maps its
state to it (`Contract == INSTANCE BattleContract WITH ...` in `Room`) and
`ImplementsContract` is checked by `room_rematch` and proved. It matters because
`WordRace` is composed with the contract instead of with all of `Room`: what the
race may assume of the room is exactly what the room has been shown to do.

### WordRace

The race and the room are two aggregates, so a handler is a chain of store calls,
and each call is an action: a start is `StartRead`, `StartSave`, `StartInstall`; an
opening `FireOpen`, `OpenReadRoom`, `OpenReadRace`, `OpenRound`, `OpenAnnounce`; an
expiry `FireExpire`, `ExpireRound`, `ExpireAnswer`; a submission `Submit`, `Judge`,
`Claim`, `Award`; a stop `StopClear`, `StopDelete`.

`Local` says what may come in between. `TRUE` is the deployed program: the
in-memory stores answer in microtasks, which Node drains before the next timer or
message, so only messages that arrive in one burst from one socket (`burst`)
overlap. `FALSE` is the remote store that `WordRaceRepository.ts` and the tables of
`README.md` ("Word race: compare-and-set") provide for: anything may happen between two
steps. `EndedOnce` and `SettledOnce`, the compare-and-set promises, must hold for
both; `WordsMatchRace` (what was paid is what the race says) and `RaceGoesOn` (the running
battle keeps its race and timers) are only checked with `Local`, since a remote stop may
delete a race between a claim and its award, or the race of the next battle.

| TypeScript | TLA+ |
|---|---|
| the stored `WordRace` | `raceId` (0: none), `runners`, `state`, `by`, `over` (windows whose `closesAt` passed) |
| `WordRaceScheduler.timers` | `tracking`, `timers` |
| handlers suspended at an await | `starting`, `stops`, `opening`, `expiring`, `submitting` |
| `word:round-ended` broadcasts | `ended` |

Wrong words, names and payloads are left out; a submission that is incorrect or
refused changes nothing. Rounds are numbered, and windows close in their order,
which is what `WordRacePlan` establishes (`RoundsFit`). Timers due in an order run in that
order, as Node runs them.

### WordRaceScreen

One tab of a spectator: `watching` is its membership of the room's channel, `screen` the
round it shows. `Hears` is what each step of `WordRace` broadcasts (`word:round-started`
when an opening announces its round, `word:round-ended` when `ended` grows); `Rejoins` is
`room:join` in the middle of a battle, with the word `GetActiveWordRound` finds; `Drops`
a disconnect. The stores are in memory (`ScreenAssumption`), so a join runs to its end
before anything else. The client is not in this repository; that it drops the word
when its battle ends is assumed. With remote stores the resync could overtake the end
of the round it read, and `ScreenFollows` is not claimed.

### WordRacePlan

`config` is any song and option set of the constants. `DrawPoint` is one call of
`random(slack + 1)`, `DrawWord` one of `pickDistinct`; `opensAt` sorts the points and
adds the gaps. Margins are percents and exact, the code multiplies by 0.1 and 0.85
in floating point, which may shift an opening by one millisecond.

### Deadlines

Which changes a room goes through is `Room`'s concern. Here any stored change may
set, renew or drop the one pending deadline (`OneThingAtATime` is why there is one),
every change leaves a publication to be made, and publications run in any order.
`Arm` is `armRoomTimers` with its version check; `Fire`, `Settle` and `FollowRoom` are a
timer, the use case that acts and the one that finds nothing to do.

A deadline is named by the change that set it (`since`). For the song challenge and
the battle that is what the code compares (their ids). A renewed turn has the id of
its challenge, so a stale timer of the same challenge may act for it once it is due:
`MayAct`.

### Sessions

A place is a player in a room: `RoomOf` and `PlayerOf` give the two, and one player may
have places in several rooms. `bound` is `socket.data`, `channels` the Socket.IO rooms the
socket has joined for rooms of the game; `grace`, `newRoom` and `unbound` are the three maps
of timers and dates in `socketHandlers`, counted in ticks. A handler under way is a record in `tasks`, which
tells the await it is at.

Stores and the socket.io adapter are in memory, so `await` suspends to a microtask
only. Timers, the sweep and other sockets' messages are therefore atomic with
respect to handlers (`Quiet`), and the handlers of one burst interleave at each of
their awaits, in an order left open: the number of microtasks an await takes is not
something to rely on. `Burst` bounds how many messages one burst has.

Data and channels are two things. A socket acts by its data (`requireOwnSeat`,
`unbindPlayer`); what is published reaches the channel, and `isBound` and the sweep look for
the player among the channel's sockets, whatever room their data names (`IsBound`).
`unbindSocket` leaves the channel its data names (`Unbind`), and a join enters one without
leaving any (`Binds`), so one message at a time a socket is in the channel of its own room
and no other, but a burst may leave it in two. The channels of players (`vote:mine`) are
left out.

A handler holds a copy of the room its use case answered with, and publishes that copy
some awaits later. `held` is the set of copies that are still the stored version, `fresh`
the sockets that were sent it; a use case that stores a new version (`Answers`) makes all
others old, `Publish` sends a copy as it is to the pages of that room in its channel
(`Told`), and a client keeps the newest `version`.
`Act` stands for the events that change the room and nothing else this module has: the
handlers that check `requireOwnSeat`, run a use case and publish.

A kick is done by some other player seated in the room; who is host is `Room`'s
concern. A room whose last player left is not created again: codes are random.

### MatchHistory

`TimeOut` ends the sender's wait while the request goes on in `users-service`, so up
to `Attempts` transactions of one match overlap there. `Find` is the `SELECT ... FOR
UPDATE`, `Insert` waits for a concurrent insert of the same key and then violates the
constraint, `InsertFails` is the single retry in `MatchPersistenceAdapter.upsert`,
`Fail` a database or process failure at any moment (rollback). `document` is whether
validation or some other constraint refuses the match anyway.

### Faults

A definition called `D_Mistake` (`Heir_Newest` beside `Heir`) is `D` with a plausible mistake. No
specification uses it. Substituted for `D`, TLC must report the property it is
paired with in `PROJECT.json` (`mutants`): that is how we know the property can see
the mistake.

## 3. Runs

| Run | Instance | Question |
|---|---|---|
| `room_lobby` | 3 ids, room of 3, minimum 2 dancers, 1 song, 1 word round per dancer, up to the first rematch | do seats, host, lists, turns and deadlines agree over the whole life of a room |
| `room_battle` | 5 players seated, any 2 to 5 dance, up to 2 word rounds per dancer, pages reloaded at any time | departures that do *not* end the battle: votes and what each page is told of them, ranking, result, match record |
| `room_rematch` | 3 ids, room of 2, no bound on battles | does a battle leak into the next one, does the room keep its contract, do the timers alone finish what was started |
| `room_failures` | 3 ids | a disagreement, below |
| `race_local` | 3 dancers, 2 rounds, 2 battles, 2 submissions at once, 2 stops, one spectator's tab | race and score agree, the running battle keeps its race and timers, and the tab shows the open round, in the deployed program |
| `race_remote` | 2 dancers, 1 round, 2 battles, 2 submissions at once | one decision and one announcement per round, with remote stores |
| `race_live` | 2 dancers, 1 round, 2 battles, remote stores | rounds settle, and a finished battle leaves neither race nor timers |
| `race_plan` | 7 songs, 3 windows, 3 gaps, 0 to 4 rounds, 3 words | placement of the rounds |
| `deadlines` | 3 changes, 3 handlers at once | one timer for the pending deadline, and it is settled |
| `sessions` | 2 sockets, 2 places in one room and 1 in another, no bursts, beacons | bindings, channels, seats, timers and the room each tab was sent agree after each handler |
| `sessions_burst` | 1 socket, 2 places in one room and 1 in another, bursts of 2, graces of no tick | no timer takes the seat of somebody who is there; a seat whose player nobody in the channel is gets freed |
| `match_history` | 3 attempts (the default) | no lost match, no conflict seen outside, an end |

Each property is run where its interesting cases are and not repeated elsewhere:
what the smaller room cannot show (votes against departures, the result) runs with
five players, what needs several battles runs in `room_rematch`. What no run lists is
proved: `SnapshotsAccount`, `EndReasonTells`, `EndsForACause` and `CleanAttemptsFirst` of
`Room`, `DeadlinesTypeOK` of `Deadlines`, `PlanTypeOK` of `WordRacePlan`, `HistoryTypeOK`, `StoredOnce`
and `GivesUpForACause` of `MatchHistory`. `room_battle` runs
`RoomChannel`, the other three runs of the room `Room` alone: what they ask is in its own variables.

### Bounds

*Room.* Three players are the smallest number for which two dance and one votes, a
departure hands over the host, and a chooser can be passed over; they cannot show a
dancer leaving a battle that goes on with other dancers and other voters, which is
why `room_battle` has five. `WordRounds` bounds the bonus each dancer can win (0 in
`room_rematch`: `room_lobby` and `room_battle` have the bonus). The lobby run
stops where the first rematch is asked (`FirstBattle`); `room_rematch` goes on from
there with two seats. Three ids over two seats let all participants be replaced.
Players are symmetric in the safety runs; liveness is checked without symmetry.
Ties at the top and in the middle, and a dancer overtaken by a departure, occur with two
votes' worth of points against up to two words each (`VotePoints = 2`, `WordBonusPoints = 1`).
`room_battle` starts in a ready lobby of five and goes on until a rematch, the deletion of
the room or a departure from that lobby; the state such a step leads to is still checked.

*Word race.* Two battles are enough for a start, an opening or a submission of one
to meet the next one's race; two slots for a claim to meet a claim (`race_live` has none: submissions are no
concern of the timers); `MaxStops` bounds
stops being served at once, and one start is served at a time because a battle
starts only after the previous one was finished and restarted by hand. `NoChampion`
keeps only states where the contract's winner is none: it is the room's business and
would multiply states.

*Sessions.* `LongGrace = 1` and `ShortGrace = 0` keep the order of the two graces and a
moment where neither is over; `CreatedGrace = 2`, the new-room timer, adds one tick. Two sockets
are two tabs, or a reload. Two of the three places are one player's, in either room
(`Players`), so that a socket in a second channel can be taken for that player. `sessions_burst` has one, which joins, leaves and switches rooms
within a burst; three places are what it takes to leave a ghost seat behind, without
which the sweep would have nothing to do. Its graces are zero ticks long and may fire
any time later.

*Deadlines.* Three changes with three handlers under way let two publications overtake
each other with a timer in between. A last version is kept for the change that
settles the last deadline. The run does not check deadlock where a room may be gone
with nothing left to do.

*MatchHistory.* Three attempts is the default of `RecordMatchResult`; all three
requests can be alive in `users-service` at once.

*Plan.* Songs shorter than a window, exactly one, and several; gaps below and above
the window; more rounds than fit and more rounds than words. It ends when the plan is
made, hence no deadlock check.

### Fairness

* `Room.FairSpec`: weak fairness of `Tick` and of the three timer steps once due. What
  justifies it is `Deadlines` (`DeadlineSettles`), and `sweep` re-arms every minute.
  Nothing is assumed of players: no vote, attempt, choice or departure is fair.
* `WordRace`: stores answer (weak); timers and time are strongly fair, because
  messages may keep coming but the event loop serves due timers in every turn.
* `Deadlines`: handlers end and time passes (weak), timers fire (strong, same reason);
  neither the sweep nor any further publication is assumed.
* `Sessions`: handlers end, timers fire and the sweep comes round (strong, same reason).
* `MatchHistory`: the sender's timers fire, and a request in `users-service` that
  neither fails nor waits for a lock goes on.

### Disagreements with the documentation

The first is a run. The others are stated at the end of their modules under the name
given here; adding the name to the module's cfg shows the trace (for `Sessions`, to
`Sessions.cfg` with `Burst = 2`, and 11 to `SessionsBurst.cfg`).

1. `NoRoundOfFailures` of `Room` (run `room_failures`). `SongSelectionService.submit` ends the round
   when everybody present misspelled, "one who left can no longer type, so waiting for
   them would hold the round until the countdown runs out". But `handlePlayerLeft`
   looks at the choosing phase only: when the last dancer with a clean attempt leaves
   *after* the others misspelled, the round does wait for the countdown.
2. `FallbackPicksADancer` of `Room`. `README.md:277` passes the turn to "a
   random dancer still in the room"; the code picks among the participants of the
   start, and roles can be changed during the selection, so a spectator may be picked.
3. `TimeoutMeansTime` of `Room`. `README.md:294` says every timer's use case
   checks that the deadline really passed. `SongSelectionService.expire` checks phase
   and challenge id only, so a timer that fires early ends the round (unlike `autoPick`
   and `finishAtDeadline`, which do check).
4. `LateMeansAnother` of `WordRace`. `WordRace.ts:50` says late means another dancer had
   won; the winner's own second submission is answered late too.
5. `NothingLeaks` of `Deadlines`. `README.md:294` says timers are
   cleared when the room is deleted. A publication still under way then (a kick that
   is unbinding several tabs while the host, alone, leaves) sets the deleted room's
   timers again, since the version it would have been compared with is gone too. The
   timer finds no room; the entry in `armedVersions` stays, so another room that got
   the same code would not be armed until its version catches up.
6. `NoGhostSeat` of `Sessions`. Of two joins sent together by a bound socket, both
   read the same previous binding and the slower unbinds what the other bound; its
   seat is held until the sweep, against "never keeps a ghost seat".
7. `BoundIsSeated` of `Sessions`. A join and a leave sent together: the join binds
   the socket after the departure cut it off, so it goes on receiving the room.
8. `NewerDisconnectReplaces` of `Sessions`. The comment on `graceTimers` says a newer
   disconnect replaces the timer; `scheduleGrace` keeps a pending one that is sooner.
9. `TabsUpToDate` of `Sessions`, in bursts. A join as another player of the same room and a
   leave sent together: the departure publishes the room while the socket is unbound,
   and the join then publishes the copy it read before. The tab keeps the older version
   until the next change of the room. The property is claimed, and run, one message at
   a time.
10. `vote:mine` in bursts, by the same mechanism and not modelled: the resync at the end of
    `room:join` is computed from the copy the join began with, so a vote cast in the same
    burst may be followed by an older `vote:mine`.
11. `UnheldSeatFreed` of `Sessions`. After 7, a burst of two joins into different rooms: both
    departures fail together, the faster join binds and enters its channel, the slower
    overwrites the data and enters another channel, the first is never left. If the seat
    of the first room is the same player's, `isBound` and the sweep find that player in
    the channel, and the seat stays taken as long as the socket lives although no socket
    acts for it, against "never keeps a ghost seat nor the old room's events". What the
    code does keep is `AbandonedSeatFreed`: once nobody in the channel is the player, the
    seat goes.

## 4. Proofs

The proof modules assume only what is assumed, by name, where the constants are
declared (`RoomAssumption`, `PointsAssumption`, `WordRaceAssumption`, `ScreenAssumption`,
`PlanAssumption`, `DeadlinesAssumption`, `SessionsAssumption`, `AttemptsAssumption`); TLC evaluates them in
every run. Two groups of theorems have a hypothesis besides, and say so: `Local`
(stores in memory, the deployed program) for four theorems about the word race, `Burst = 1`
(messages one at a time) for three about the sessions. The inductive invariants were
checked with TLC on the instances of section 3 before they were proved.

**`Room_proofs`** proves, for any number of players, songs, minimum of dancers (at least
two) and points: `RoomTypes`, `RoomSafe`, its consequences for each group of
invariants (`VotesSafe`, `BattleSafe`, `SelectionSafe`, `ResultSafe`, `HostSafe`,
`ListsSafe`, `OneThingSafe`), and the four action properties. `TypeOK /\ HostIsEarliest` is inductive by
itself (`TypeStep`): dropping a player from the list needs to know that nobody is
seated twice. On top of it `RoomInv` collects the ten invariants. Most are not
inductive alone: `VotesCoherent` needs `ListsAgree` (who may vote is read from a list
stored beside the seats); `EndReasonTells` ("somebody is left to rank") needs
`EnoughDancers` before the departure; `LastResultKept` needs `ResultFrozen` (a rematch
rewrites the last result with the battle's own). `RoomStep` takes one step per action;
the departure, where everything happens at once, is `LeaveKeeps`.

Its last part proves `RoomImplementsContract`: every step of `Room` is a step
of `BattleContract` or none, through the refinement mapping. Besides `RoomInv` it needs
`Blank`: while no battle is on, the battle's fields are empty, so that a start maps to
`Begin` with nothing won. One lemma per kind of step (`BattleBegins`, `BattleShrinks`,
`LeaveImplements`, ...); a departure may map to a withdrawal, the end or a reset.

**`RoomChannel_proofs`** carries `RoomInv` over to `RoomChannel` (`ChannelRoomSafe`) and proves
`VoteToldSafe`. `VoteTold` alone is not inductive: who takes a seat, and a page that asks
again for the vote of somebody who is no spectator, are told nothing. `Ballots` says why
that is right (no vote is stored outside a battle, and every voter who is seated is a
spectator); `ToldInv` is the two together. One lemma per kind of step; the departure is the
long one: the voters it tells are those whose vote it drops, and the leaver's page shows
nothing. `RecordAccountsSafe` needs `AttendanceTracked`: while a battle runs, who attended is
exactly who its snapshots name, and those of them still seated are those who stayed.
`ClosingRecord` is the step that ends the battle; afterwards nothing touches either side,
which is why a later departure may not write `attendance` any more.

Its last part is the ranking. `RankingComputed` says that `Computed` (sort, then walk) is the
competition ranking of `Scoring`, for any finite set of dancers and any votes and bonuses. The
sort: a row sorted before another has fewer rows above it (`AboveGrows`), so the numbers of
rows above are as many as the rows and each position is taken once (`EveryPositionTaken`);
`SortedRows` is the permutation that results. The walk is a recursive function, about which
induction in the library's form cannot be used; `Walk` shows instead that "one more than the
rows of a higher score" satisfies the function's equation, and that nothing else does, by
looking at the least row where two solutions would differ (`LeastNatural`). Ranks of rows are
then ranks of dancers, as `MappedTo` and `SameSize` count both alike. `RankingAsPromisedSafe` needs
`ResultWhenOver` besides `RoomInv`: the frozen ranks are shown as soon as there is a result,
so there may be none before the end.

**`WordRace_proofs`** holds for any number of players, rounds, battles, submissions and
stops at once. `RaceTypes`, `SettledOnceSafe` and `EndedOnceSafe` hold whether stores are in
memory or remote. `EndedOnce` alone is not inductive: `AnnouncedOnce` counts, for every
round, its announcement together with the handlers that owe one (a claim that won, an
expiry that took effect, before they have spoken), of which there is at most one, and
none while the round is undecided. Compare-and-set gives that (`DecidedOwes`); everything
else only has to leave it alone. `WordsMatchRaceSafe` needs `Local`, and `LocalInv`, what
handlers that do not overlap freely may rely on (`LocalSafe`): while a battle runs its own
race is stored and no stop is pending, a start meets neither open rounds nor submissions,
rounds open in their order. With remote stores the first two fail, and so does the
property. The claim and the award are then counted with cardinalities (`ClaimAccounts`,
`AwardAccounts`). `RaceGoesOnSafe` rests on `LocalInv` too. Between two steps of a handler the timer
of an undecided round may be away; `RoundsTimed` says who then brings the next one: an opening
that has not announced the round, an expiry that has not decided it or came too early.

**`WordRaceScreen_proofs`** adds the tab. The screen is a step behind the race on both
sides, so `ScreenInv` says who will correct it: a shown round is open or owed an
announcement (`ShownSound`, from `AnnouncedOnce`), an open round is shown or its opening has
still to announce it (`NoneMissing`). When nothing is under way the two are `ScreenFollows`.

**`WordRacePlan_proofs`** proves `PlanTypes`, `RoundsFitSafe` and `AsManyAsFitSafe` for songs,
windows, gaps and margins of any length, any number of rounds and any finite catalogue. The
invariant `PlanInv` only says where draws lie; the properties are arithmetic on top of it.
`Slack`: the rounds that fit leave a slack that is not negative, and one round more would
pass the margin. `Sorted`: the points come out in order, by the same counting of places
as in the ranking. `OpeningAt`: the last round then opens at `lastOpen` at the latest, and each
one `step` after the one before at least.

**`Deadlines_proofs`** proves `DeadlinesTypes` and `TimersFollowRoomSafe` for any number of
changes and of handlers under way. `StoredInv`: a publication carries the state its
version had (`PublishesThePast`); either the publication of the newest version is still to
come, or the timers are those of the pending deadline, one of which may just have fired
(`Follows`); and they were armed from no newer version than is stored. The second half is
what the version check in `armRoomTimers` is for: an older publication that comes later is
dropped.

**`Sessions_proofs`** proves for bursts of any size that types are kept (`SessionsTypes`), that
no timer takes the seat of who has a socket (`OnlyRequestsUnseatSafe`) and that a grace is
never postponed (`GraceNeverPostponedSafe`). The second needs `ChannelsJoined`: a socket is
always in the channel its data names, though perhaps in others, so the check that looks in
the channel finds whoever acts by the data. For messages that come one at a time it proves
`BoundIsSeatedSafe`, `NoGhostSeatSafe` and `TabsUpToDateSafe`; in bursts all three fail
(Disagreements, 6, 7 and 9), so the hypothesis is not one of convenience. They speak of the
moments between handlers only; `AloneInv` says what holds during one: sockets hold the
place of somebody seated, except those that the loop of `unbindPlayer` has not come to
(`BoundSound`); every seat has a socket or a timer, except the one being joined
(`SeatsCared`); the handler's copies of the rooms it has still to publish are current
(`CopiesHeld`), and every tab with an older version is in one of those rooms (`StaleTold`). Beside it
`OneChannel`: no socket is in the channel of another room than its own.

**`MatchHistory_proofs`** proves, for any number of attempts, `HistorySafe` and from it
`HistoryKept` (stored once, reported means stored, conflicts stay inside, giving up has
a cause; the first, which no run lists, and the third also by themselves, `StoredOnceSafe` and
`ConflictStaysInsideSafe`) and `StoredForGoodSafe`. The inductive invariant `HistoryInv` says, besides
types, what each request's position tells of the store (`RequestOK(q)`: it holds the
row exactly at `update` and `commit`; a commit writes one copy; a good document's
upsert only runs again after the row exists, so it cannot lose a second insert) and
what the sender may conclude (`SenderOK`). Without the first, two requests could hold
the row and a later commit undo an earlier one; without the last, a conflict could
not be excluded.

Only model-checked:

* liveness (`BattleEnds`, `TypingResolves`, `TurnEnds`, `RoundSettles`, `NothingLeaks` of
  `WordRace`, `DeadlineSettles`, `AbandonedSeatFreed`, `RequestsEnd`): out of the prover's reach;
* `NoRoundOfFailures`, which the run refutes.

Every other property a run checks, each invariant and each action property, is also a
theorem for all values of the constants, under the hypotheses named above where there are any.

## 5. Not modelled

* *User registration* (`UserService`): an existence check and an insert. Which of two
  registrations of one external id survives is decided by a unique constraint of the
  database; a model would restate the constraint.
* *The version check of a remote room store.* `RoomRepository.update` describes how a
  conditional write would be retried; the only implementation is in memory, where a
  conflict cannot happen (`InMemoryRoomRepository.ts:13-14`). The versions themselves are in
  `Deadlines` and `Sessions`.
* *Chat and WebRTC relays*: stateless; they check the seat and forward.
* *Formatting*: the relative times and names of the DTOs, validation messages, catalogue
  contents; the columns of a stored match.
* *Configuration, wiring, shutdown* (`env.ts`, `server.ts`, `close`), the API gateway, CI.
* *HTTP API*: the routes that create a room, leave it, and the pagehide beacon are in `Room`
  and `Sessions`; the others only read.

## 6. Plan

Done, in the order of importance: `Scoring`, `Room`, `BattleContract`, `WordRace`,
`MatchHistory`, `Sessions`, `Deadlines`, `WordRacePlan`; then what reaches the clients and
the history: `Standings`, `RoomChannel`, `WordRaceScreen`, publications in `Sessions`.

Proved since: `RecordAccounts`, the word race with stores in memory and remote, the
spectator's tab, `Deadlines`, `Sessions`, the ranking, the placement of the rounds. No safety
property the runs check is left without a theorem.

Next, if the code grows there: what the three session properties become in bursts once
the handlers of one socket are queued (Disagreements, 6, 7, 9 and 11, would go, and `Burst = 1`
with them).
