-------------------------------- MODULE Room --------------------------------
(***************************************************************************)
(* The Room aggregate of battle-service (RoomService, SongSelectionService *)
(* and the use cases that call them).  RoomRepository.update runs each     *)
(* decision on the latest stored room in one atomic step, so every use     *)
(* case is one action here; a rejected command (DomainError) and a command *)
(* that returns the same room change nothing and are stuttering steps.     *)
(* One room is modelled: `players` is empty while no room is stored.       *)
(* A definition named D_Fault is D with a plausible fault: no specification *)
(* uses it, it shows which property would notice that fault.                *)
(***************************************************************************)
EXTENDS Scoring, SequencesExt

CONSTANTS
    Players,      \* the player ids that may ever join
    MaxPlayers,   \* MAX_PLAYERS
    MinDancers,   \* MIN_DANCERS_PER_BATTLE
    Songs,        \* SONG_CATALOG
    NoSong,       \* selectedSong = null
    WordRounds    \* bound: word rounds one dancer can win in a battle

ASSUME RoomAssumption ==
    /\ IsFiniteSet(Players)
    /\ NoPlayer \notin Players
    /\ MaxPlayers \in Nat \ {0}
    /\ MinDancers \in Nat \ {0, 1}
    /\ Songs # {}
    /\ NoSong \notin Songs
    /\ WordRounds \in Nat

VARIABLES
    players,      \* ids in join order; <<>> when the room is not stored
    host,         \* hostId
    role,         \* chosen role ("undecided" also for whoever is not seated)
    ready,        \* players marked ready
    dancers,      \* room.dancers ({} also stands for null)
    spectators,   \* room.spectators, stored beside players
    status,       \* "waiting", "battling", "finished"
    phase,        \* songSelection.phase, "none" when songSelection is null
    participants, \* songSelection.participantIds
    failed,       \* songSelection.failedIds
    chooser,      \* songSelection.chooserId
    reason,       \* songSelection.chooserReason
    song,         \* selectedSong
    contenders,   \* battle.dancerIds
    roster,       \* battle.roster
    audience,     \* battle.audience
    votes,        \* battle.votes
    words,        \* battle.wordsWon
    endReason,    \* battle.endReason
    result,       \* battle.result
    lastResult,   \* room.lastResult
    clock         \* where the wall clock stands against the pending deadline

seatVars      == <<players, host, role, ready>>
listVars      == <<dancers, spectators>>
selectionVars == <<phase, participants, failed, chooser, reason, song>>
battleVars    == <<contenders, roster, audience, votes, words, endReason, result>>
vars == <<seatVars, listVars, status, selectionVars, battleVars, lastResult, clock>>

Seated == ToSet(players)
Spectating(roles, who) == {p \in who : roles[p] = "spectator"}
InProgress(ph) == ph \in {"typing", "choosing"}

NobodyUndecided == [p \in Players |-> "undecided"]
NoVotes  == [p \in Players |-> NoPlayer]
NoWords  == [p \in Players |-> 0]
NoResult == [standings |-> [d \in {} |-> 0], winner |-> NoPlayer]

-----------------------------------------------------------------------------
\* The parts of the stored room a step resets.

ClearSelection ==
    /\ phase' = "none"
    /\ participants' = {}
    /\ failed' = {}
    /\ chooser' = NoPlayer
    /\ reason' = "none"

\* Fault: the votes and the words stay.
ClearBattle_Kept == UNCHANGED battleVars

ClearBattle ==
    /\ contenders' = {}
    /\ roster' = {}
    /\ audience' = {}
    /\ votes' = NoVotes
    /\ words' = NoWords
    /\ endReason' = "none"
    /\ result' = NoResult

Init ==
    /\ players = <<>>
    /\ host = NoPlayer
    /\ role = NobodyUndecided
    /\ ready = {}
    /\ dancers = {} /\ spectators = {}
    /\ status = "waiting"
    /\ phase = "none" /\ participants = {} /\ failed = {}
    /\ chooser = NoPlayer /\ reason = "none" /\ song = NoSong
    /\ contenders = {} /\ roster = {} /\ audience = {}
    /\ votes = NoVotes /\ words = NoWords
    /\ endReason = "none" /\ result = NoResult
    /\ lastResult = NoResult
    /\ clock = "idle"

-----------------------------------------------------------------------------
\* Lobby: seats, roles and readiness.

CreateRoom(p) ==
    /\ players = <<>>
    /\ players' = <<p>>
    /\ host' = p
    /\ UNCHANGED <<role, ready, listVars, status, selectionVars, battleVars, lastResult, clock>>

Join(p) ==
    /\ players # <<>>
    /\ status = "waiting"
    /\ p \notin Seated
    /\ Len(players) < MaxPlayers
    /\ players' = Append(players, p)
    /\ UNCHANGED <<host, role, ready, listVars, status, selectionVars, battleVars, lastResult, clock>>

\* Fault: the stored spectators are not recomputed.
SelectRole_StaleList(p, r) ==
    /\ status = "waiting"
    /\ p \in Seated
    /\ role' = [role EXCEPT ![p] = r]
    /\ UNCHANGED <<players, host, ready, listVars, status, selectionVars, battleVars, lastResult, clock>>

SelectRole(p, r) ==
    /\ status = "waiting"
    /\ p \in Seated
    /\ role' = [role EXCEPT ![p] = r]
    /\ spectators' = Spectating(role', Seated)
    /\ UNCHANGED <<players, host, ready, dancers, status, selectionVars, battleVars, lastResult, clock>>

SetReady(p, value) ==
    /\ status = "waiting"
    /\ p \in Seated
    /\ ready' = IF value THEN ready \cup {p} ELSE ready \ {p}
    /\ spectators' = Spectating(role, Seated)
    /\ UNCHANGED <<players, host, role, dancers, status, selectionVars, battleVars, lastResult, clock>>

EveryoneReady == Seated \subseteq ready

-----------------------------------------------------------------------------
\* Song selection: the typing round, the chooser's turn, the chosen song.

\* Fault: the new chooser gets no deadline.
Choosing_NoDeadline(p, why, failedNow) ==
    /\ phase' = "choosing"
    /\ chooser' = p
    /\ reason' = why
    /\ failed' = failedNow
    /\ clock' = "idle"
    /\ UNCHANGED participants

\* songSelection.chooseDeadline is renewed with every chooser.
Choosing(p, why, failedNow) ==
    /\ phase' = "choosing"
    /\ chooser' = p
    /\ reason' = why
    /\ failed' = failedNow
    /\ clock' = "running"
    /\ UNCHANGED participants

\* Fault: with nobody left the selection is kept.
AssignFallbackChooser_NoCancel(present, why, failedNow) ==
    \E p \in present : Choosing(p, why, failedNow)

\* The turn passes to a participant among `present`, one who did not misspell
\* if there is any; with nobody left the selection is cancelled.
AssignFallbackChooser(present, why, failedNow) ==
    LET notFailed  == present \ failedNow
        candidates == IF notFailed # {} THEN notFailed ELSE present
    IN  \/ \E p \in candidates : Choosing(p, why, failedNow)
        \/ candidates = {} /\ ClearSelection /\ clock' = "idle"

StartSongChallenge(requester) ==
    /\ players # <<>>
    /\ requester = host
    /\ status = "waiting"
    /\ ~InProgress(phase)
    /\ participants' = {p \in Seated : role[p] = "dancer"}
    /\ Cardinality(participants') >= MinDancers
    /\ EveryoneReady
    /\ phase' = "typing"
    /\ failed' = {}
    /\ chooser' = NoPlayer
    /\ reason' = "none"
    /\ song' = NoSong
    /\ clock' = "running"
    /\ UNCHANGED <<seatVars, listVars, status, battleVars, lastResult>>

\* A submission: the expiry is looked at first, then the used attempt, then
\* the text (`exact`: it is the phrase).
SubmitSongPhrase(p, exact) ==
    LET failedNow == failed \cup {p}
        present   == participants \cap Seated
    IN  /\ phase = "typing"
        /\ p \in present
        /\ \/ clock = "over" /\ AssignFallbackChooser(present, "timeout", failed)
           \/ /\ clock # "over"
              /\ p \notin failed
              /\ \/ exact /\ Choosing(p, "typed", failed)
                 \/ ~exact /\ present \subseteq failedNow
                    /\ AssignFallbackChooser(present, "all-failed", failedNow)
                 \/ ~exact /\ ~(present \subseteq failedNow)
                    /\ failed' = failedNow
                    /\ UNCHANGED <<phase, participants, chooser, reason, clock>>
        /\ UNCHANGED <<song, seatVars, listVars, status, battleVars, lastResult>>

\* Fault: a stale timer of the round acts in the choosing phase too.
ExpireChallenge_AnyPhase ==
    /\ InProgress(phase)
    /\ AssignFallbackChooser(participants \cap Seated, "timeout", failed)
    /\ UNCHANGED <<song, seatVars, listVars, status, battleVars, lastResult>>

\* The countdown timer of the round.  Only the phase and the challenge id are
\* checked: the deadline is not.
ExpireChallenge ==
    /\ phase = "typing"
    /\ AssignFallbackChooser(participants \cap Seated, "timeout", failed)
    /\ UNCHANGED <<song, seatVars, listVars, status, battleVars, lastResult>>

\* The chosen song is stored and the selection is done.  Nothing reads the
\* participants, the failures or the chooser from then on: they are forgotten.
SongChosen(s) ==
    /\ song' = s
    /\ phase' = "done"
    /\ participants' = {}
    /\ failed' = {}
    /\ chooser' = NoPlayer
    /\ reason' = "none"

-----------------------------------------------------------------------------
\* The battle.

DancersByRole == {p \in Seated : role[p] = "dancer"}

\* Everybody who does not dance watches, whatever role was selected.
Watching(chosen) == Seated \ chosen

\* RoomService.startBattle past its guards.  BATTLE_START_COUNTDOWN_MS may be
\* 0, hence the two positions of the clock.
BattleStarts(chosen) ==
    /\ role' = [p \in Players |-> IF p \in chosen THEN "dancer"
                                  ELSE IF p \in Seated THEN "spectator"
                                  ELSE "undecided"]
    /\ dancers' = chosen
    /\ spectators' = Seated \ chosen
    /\ status' = "battling"
    /\ contenders' = chosen
    /\ roster' = chosen
    /\ audience' = Watching(chosen)
    /\ votes' = NoVotes
    /\ words' = NoWords
    /\ endReason' = "none"
    /\ result' = NoResult
    /\ clock' \in {"countdown", "running"}
    /\ UNCHANGED <<players, host, ready, lastResult>>

\* The last step of the lobby flow: the chosen song starts the battle in the
\* same stored change, unless the room cannot start it yet.
ChooseAndStart(s) ==
    /\ SongChosen(s)
    /\ \/ /\ Cardinality(DancersByRole) >= MinDancers
          /\ EveryoneReady
          /\ BattleStarts(DancersByRole)
       \/ /\ ~(Cardinality(DancersByRole) >= MinDancers /\ EveryoneReady)
          /\ clock' = "idle"
          /\ UNCHANGED <<seatVars, listVars, status, battleVars, lastResult>>

\* A choice arriving after the deadline but before the automatic pick counts.
ChooseSong(p, s) ==
    /\ phase = "choosing"
    /\ chooser = p
    /\ ChooseAndStart(s)

\* The chooser's deadline timer; unlike ExpireChallenge it checks the deadline.
AutoPick(s) ==
    /\ phase = "choosing"
    /\ clock = "over"
    /\ ChooseAndStart(s)

\* `chosen` is the role's dancers or the dancerIds the client named.
StartBattle(requester, chosen) ==
    /\ players # <<>>
    /\ requester = host
    /\ status = "waiting"
    /\ ~InProgress(phase)
    /\ chosen \subseteq Seated
    /\ Cardinality(chosen) >= MinDancers
    /\ EveryoneReady
    /\ song # NoSong
    /\ BattleStarts(chosen)
    /\ UNCHANGED selectionVars

\* `choice` is a dancer, or NoPlayer to withdraw the vote.
CastVote(voter, choice) ==
    /\ status = "battling"
    /\ voter \in spectators
    /\ clock = "running"
    /\ choice \in contenders \cup {NoPlayer}
    /\ votes' = [votes EXCEPT ![voter] = choice]
    /\ UNCHANGED <<seatVars, listVars, status, selectionVars, contenders, roster, audience,
                   words, endReason, result, lastResult, clock>>

AwardWordBonus(p) ==
    /\ status = "battling"
    /\ p \in contenders
    /\ words[p] < WordRounds
    /\ words' = [words EXCEPT ![p] = @ + 1]
    /\ UNCHANGED <<seatVars, listVars, status, selectionVars, contenders, roster, audience,
                   votes, endReason, result, lastResult, clock>>

\* Closes the battle over the dancers and the votes given.
FinishBattle(why, dancing, ballots) ==
    /\ status' = "finished"
    /\ endReason' = why
    /\ result' = BattleResult(dancing, ballots, words)
    /\ lastResult' = result'

\* Fault: a battle nobody voted in is not finished.
SongOver_Voted == status = "battling" /\ clock = "over" /\ votes # NoVotes

SongOver == status = "battling" /\ clock = "over"

\* The battle-end timer.
FinishAtDeadline ==
    /\ SongOver
    /\ FinishBattle("song-end", contenders, votes)
    /\ clock' = "idle"
    /\ UNCHANGED <<seatVars, listVars, selectionVars, contenders, roster, audience, votes, words>>

Rematch(requester) ==
    /\ players # <<>>
    /\ requester = host
    /\ status = "finished"
    /\ ready' = {}
    /\ dancers' = {}
    /\ spectators' = Spectating(role, Seated)
    /\ status' = "waiting"
    /\ ClearSelection
    /\ song' = NoSong
    /\ ClearBattle
    /\ lastResult' = result
    /\ UNCHANGED <<players, host, role, clock>>

-----------------------------------------------------------------------------
\* Departures.

\* Ids are unique in a room, so dropping p keeps everybody else in order.
Without(s, p) == RemoveAt(s, CHOOSE i \in DOMAIN s : s[i] = p)

\* Fault: the room goes to the newest player.
Heir_Newest(seats) == Last(seats)

Heir(seats) == seats[1]

\* Fault: who left is remembered with the role they had.
Unseat_KeepsRole(p) ==
    /\ players' = Without(players, p)
    /\ host' = IF host = p THEN Heir(players') ELSE host
    /\ ready' = ready \ {p}
    /\ dancers' = dancers \ {p}
    /\ spectators' = spectators \ {p}
    /\ UNCHANGED role

Unseat(p) ==
    /\ players' = Without(players, p)
    /\ host' = IF host = p THEN Heir(players') ELSE host
    /\ role' = [role EXCEPT ![p] = "undecided"]
    /\ ready' = ready \ {p}
    /\ dancers' = dancers \ {p}
    /\ spectators' = spectators \ {p}

\* Fault: only the vote given by the leaver is discarded.
VotesWithout_Received(p) == [votes EXCEPT ![p] = NoPlayer]

\* The leaver's vote and the votes for the leaver are discarded.
VotesWithout(p) == [v \in Players |-> IF v = p \/ votes[v] = p THEN NoPlayer ELSE votes[v]]

\* Fault: the comparison is off by one.
TooFew_Late(dancing) == Cardinality(dancing) < MinDancers - 1
TooFew(dancing) == Cardinality(dancing) < MinDancers

\* Fault: a departure settles a finished battle again.
Unsettled_Again == status # "waiting"

Unsettled == status = "battling"

\* Too few dancers left end the battle.
SettleBattleAfterLeave(p) ==
    \/ ~Unsettled /\ UNCHANGED <<status, battleVars, lastResult>>
    \/ /\ Unsettled
       /\ contenders' = contenders \ {p}
       /\ votes' = VotesWithout(p)
       /\ UNCHANGED <<roster, audience, words>>
       /\ \/ TooFew(contenders') /\ FinishBattle("not-enough-dancers", contenders', votes')
          \/ ~TooFew(contenders') /\ UNCHANGED <<status, endReason, result, lastResult>>

\* Fault: the departure of the chooser goes unnoticed.
HandlePlayerLeft_Ignored(p) ==
    /\ UNCHANGED selectionVars
    /\ clock' = IF status' = "finished" THEN "idle" ELSE clock

\* The turn of a chooser who leaves is passed on.
HandlePlayerLeft(p) ==
    \/ /\ phase = "choosing" /\ chooser = p
       /\ AssignFallbackChooser((participants \cap Seated) \ {p}, "chooser-left", failed)
       /\ UNCHANGED song
    \/ /\ ~(phase = "choosing" /\ chooser = p)
       /\ UNCHANGED selectionVars
       /\ clock' = IF status' = "finished" THEN "idle" ELSE clock

\* Removing the last player deletes the room in the same step.
DeleteRoom ==
    /\ players' = <<>>
    /\ host' = NoPlayer
    /\ role' = NobodyUndecided
    /\ ready' = {}
    /\ dancers' = {}
    /\ spectators' = {}
    /\ status' = "waiting"
    /\ ClearSelection
    /\ song' = NoSong
    /\ ClearBattle
    /\ lastResult' = NoResult
    /\ clock' = "idle"

\* room:leave, the HTTP leave endpoint, a seat released after the grace period.
Leave(p) ==
    /\ p \in Seated
    /\ \/ Len(players) = 1 /\ DeleteRoom
       \/ /\ Len(players) > 1
          /\ Unseat(p)
          /\ SettleBattleAfterLeave(p)
          /\ HandlePlayerLeft(p)

Kick(requester, p) ==
    /\ players # <<>>
    /\ requester = host
    /\ status = "waiting"
    /\ p # requester
    /\ Leave(p)

-----------------------------------------------------------------------------
\* Wall-clock time moves over the pending deadline, if there is one.
Tick ==
    /\ \/ clock = "countdown" /\ clock' = "running"
       \/ clock = "running" /\ clock' = "over"
    /\ UNCHANGED <<seatVars, listVars, status, selectionVars, battleVars, lastResult>>

Next ==
    \/ \E p \in Players : CreateRoom(p) \/ Join(p) \/ Leave(p)
    \/ \E p \in Players, r \in {"dancer", "spectator"} : SelectRole(p, r)
    \/ \E p \in Players, value \in BOOLEAN : SetReady(p, value)
    \/ \E p, q \in Players : Kick(p, q)
    \/ \E p \in Players : StartSongChallenge(p)
    \/ \E p \in Players, exact \in BOOLEAN : SubmitSongPhrase(p, exact)
    \/ ExpireChallenge
    \/ \E p \in Players, s \in Songs : ChooseSong(p, s)
    \/ \E s \in Songs : AutoPick(s)
    \/ \E p \in Players, chosen \in SUBSET Players : StartBattle(p, chosen)
    \/ \E p \in Players, choice \in Players \cup {NoPlayer} : CastVote(p, choice)
    \/ \E p \in Players : AwardWordBonus(p)
    \/ FinishAtDeadline
    \/ \E p \in Players : Rematch(p)
    \/ Tick

Spec == Init /\ [][Next]_vars

\* Time passes and every deadline has a timer (armRoomTimers and the sweep),
\* so a due deadline is eventually acted upon.  Players owe nothing.
Fairness ==
    /\ WF_vars(Tick)
    /\ WF_vars(clock = "over" /\ ExpireChallenge)
    /\ WF_vars(\E s \in Songs : AutoPick(s))
    /\ WF_vars(FinishAtDeadline)

FairSpec == Spec /\ Fairness

-----------------------------------------------------------------------------
\* Properties.

Roles == {"undecided", "dancer", "spectator"}
IsResult(r) ==
    /\ DOMAIN r.standings \subseteq Players
    /\ r.standings \in [DOMAIN r.standings -> Standing]
    /\ r.winner \in DOMAIN r.standings \cup {NoPlayer}

\* Every stored field keeps its type through every use case.
SeatsType ==
    /\ players \in Seq(Players)
    /\ host \in Players \cup {NoPlayer}
    /\ role \in [Players -> Roles]
    /\ \A p \in Players \ Seated : role[p] = "undecided"
    /\ ready \subseteq Players
    /\ dancers \subseteq Players
    /\ spectators \subseteq Players

SelectionType ==
    /\ phase \in {"none", "typing", "choosing", "done"}
    /\ participants \subseteq Players
    /\ failed \subseteq Players
    /\ chooser \in Players \cup {NoPlayer}
    /\ reason \in {"none", "typed", "timeout", "all-failed", "chooser-left"}
    /\ song \in Songs \cup {NoSong}
    /\ clock \in {"idle", "countdown", "running", "over"}

BattleType ==
    /\ status \in {"waiting", "battling", "finished"}
    /\ contenders \subseteq Players
    /\ roster \subseteq Players
    /\ audience \subseteq Players
    /\ votes \in [Players -> Players \cup {NoPlayer}]
    /\ words \in [Players -> Nat]
    /\ endReason \in {"none", "song-end", "not-enough-dancers"}
    /\ IsResult(result)
    /\ IsResult(lastResult)

TypeOK == SeatsType /\ SelectionType /\ BattleType

\* Host succession: whatever the order of joins, leaves and kicks, the host of
\* a stored room is the player seated longest, and nobody is seated twice.
HostIsEarliest ==
    /\ \A i, j \in DOMAIN players : players[i] = players[j] => i = j
    /\ players # <<>> => host = players[1]

\* room.spectators and room.dancers are stored beside the players they repeat;
\* castVote trusts the first.  They never drift from the seats and the roles.
ListsAgree ==
    /\ spectators = Spectating(role, Seated)
    /\ dancers \subseteq Seated
    /\ status = "battling" =>
          /\ dancers = contenders
          /\ dancers = DancersByRole
          /\ Seated = dancers \cup spectators

\* Whatever votes, moves and departures came before, a stored vote of a running
\* battle belongs to a seated spectator and names a dancer still in it.
VotesCoherent ==
    status = "battling" =>
        \A v \in Players : votes[v] # NoPlayer => v \in spectators /\ votes[v] \in contenders

\* A running battle always has enough dancers, all of them seated: so the last
\* player of a room can never leave a running battle, whose end and result
\* would vanish with the deleted room.
EnoughDancers ==
    status = "battling" => Cardinality(contenders) >= MinDancers /\ contenders \subseteq Seated

\* The snapshots of the start account for everybody: nobody entered since, and
\* who is missing from the roster or the audience left early (MatchRecord's
\* leftEarly is computed from exactly this).
SnapshotsAccount ==
    status = "battling" =>
        /\ contenders = roster \cap Seated
        /\ spectators = audience \cap Seated
        /\ roster \cap audience = {}

\* A turn to choose always belongs to a participant still in the room, so it is
\* never held by somebody who cannot take it; who typed the phrase never
\* misspelled it before.
ChooserCanChoose ==
    phase = "choosing" =>
        /\ chooser \in participants \cap Seated
        /\ reason = "typed" => chooser \notin failed

\* A selection in progress, a running battle and the pending deadline exclude
\* or imply each other: a deadline is pending exactly while one is under way.
OneThingAtATime ==
    /\ InProgress(phase) => status = "waiting" /\ song = NoSong
    /\ status # "waiting" => song # NoSong
    /\ clock = "idle" <=> ~(InProgress(phase) \/ status = "battling")

\* Finishing freezes the battle: after any later departures the stored result
\* is still the one its final votes and words give, and it is the last result.
ResultFrozen ==
    status = "finished" =>
        /\ result = BattleResult(contenders, votes, words)
        /\ lastResult = result

\* The reason recorded tells why the battle ended: short of dancers exactly
\* when it says so, and even then with somebody left to rank.
EndReasonTells ==
    status = "finished" =>
        /\ endReason = "not-enough-dancers" <=> Cardinality(contenders) < MinDancers
        /\ contenders # {}

\* A battle ends when its song is over or for want of dancers, never otherwise.
EndsForACause ==
    [][status = "battling" /\ status' # "battling"
         => clock = "over" \/ Cardinality(contenders') < MinDancers]_vars

\* One chooser per round: however many right answers race each other, a turn
\* goes to somebody else only when its owner left the room.
TurnIsKept ==
    [][phase = "choosing" /\ phase' = "choosing" /\ chooser' # chooser
         => chooser \notin Seated']_vars

\* Somebody who misspelled gets the turn only if no participant in the room
\* still has a clean attempt.
CleanAttemptsFirst ==
    [][phase' = "choosing" /\ chooser' # chooser /\ chooser' \in failed'
         => participants \cap Seated' \subseteq failed']_vars

\* The last result survives everything but the next battle's end and the
\* deletion of the room.
LastResultKept ==
    [][lastResult' # lastResult
         => (status = "battling" /\ status' = "finished") \/ players' = <<>>]_vars

\* A typing round is resolved even if nobody ever types.
TypingResolves == phase = "typing" ~> phase # "typing"

\* No chooser holds the room: each turn is used, passed on or taken by the
\* automatic pick.
TurnEnds ==
    \A p \in Players :
        (phase = "choosing" /\ chooser = p) ~> ~(phase = "choosing" /\ chooser = p)

\* Every battle ends.
BattleEnds == status = "battling" ~> status # "battling"

-----------------------------------------------------------------------------
\* A room, seen through its battle alone, keeps the contract that the word races
\* and the match history rely on: whoever leaves, rejoins or votes, it takes no
\* other step than those of BattleContract.
Lineups == {D \in SUBSET Players : Cardinality(D) >= MinDancers}
Contract == INSTANCE BattleContract
    WITH stage <- status, dancing <- contenders, won <- words, champion <- result.winner

ImplementsContract == Contract!Spec

-----------------------------------------------------------------------------
\* What the documentation says and the code does not do.

\* SongSelectionService.ts:140 and README.md:277: once every dancer still in the
\* room misspelled the phrase the round is over, it does not wait for the others.
NoRoundOfFailures ==
    LET present == participants \cap Seated
    IN  phase = "typing" /\ present # {} => \E p \in present : p \notin failed

\* README.md:277: the fallback passes the turn to a dancer.
FallbackPicksADancer ==
    [][phase' = "choosing" /\ chooser' # chooser /\ reason' # "typed"
         => role'[chooser'] = "dancer"]_vars

\* README.md:294: a timer only acts once the deadline really passed.
TimeoutMeansTime ==
    [][phase = "typing" /\ phase' = "choosing" /\ reason' = "timeout"
         => clock = "over"]_vars
=============================================================================
