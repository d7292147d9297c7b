------------------------ MODULE RoomChannel_proofs ------------------------
(***************************************************************************)
(* Theorems about RoomChannel, for every value of its constants.           *)
(***************************************************************************)
EXTENDS RoomChannel, Room_proofs

\* What leaves the room changes nothing in it: every step is one of Room's.
LEMMA ChannelRefines == [ChannelNext]_allVars => [Next]_vars
<1> SUFFICES ASSUME [ChannelNext]_allVars PROVE [Next]_vars
  OBVIOUS
<1>1. CASE Silent
  BY <1>1 DEF Silent, Next
<1>2. CASE Begins
  BY <1>2 DEF Begins, Next
<1>3. ASSUME NEW p \in Players, NEW choice \in Players \cup {NoPlayer}, Votes(p, choice) PROVE Next
  BY <1>3 DEF Votes, Next
<1>4. CASE Ends
  BY <1>4 DEF Ends, Next
<1>5. ASSUME NEW p \in Players, Departs(p) PROVE Next
  BY <1>5 DEF Departs, Next
<1>6. ASSUME NEW p \in Players, Rematches(p) PROVE Next
  BY <1>6 DEF Rematches, Next
<1>7. ASSUME NEW p \in Players, Rejoins(p) PROVE UNCHANGED vars
  BY <1>7 DEF Rejoins
<1>8. CASE UNCHANGED allVars
  BY <1>8 DEF allVars
<1>9. QED
  BY <1>1, <1>2, <1>3, <1>4, <1>5, <1>6, <1>7, <1>8 DEF ChannelNext

\* Every invariant of Room holds of the rooms seen through their messages.
THEOREM ChannelRoomSafe == ChannelSpec => []RoomInv
<1>1. ChannelInit => RoomInv
  BY RoomStart DEF ChannelInit
<1>2. RoomInv /\ [ChannelNext]_allVars => RoomInv'
  BY ChannelRefines, RoomStep
<1>3. QED
  BY <1>1, <1>2, PTL DEF ChannelSpec

-----------------------------------------------------------------------------
(***************************************************************************)
(* VoteTold alone is not inductive: who takes a seat, and a page that asks *)
(* again for the vote of a player who is no spectator, are told nothing.   *)
(* Both are right because no stored vote is theirs.                        *)
(***************************************************************************)
Ballots ==
    /\ status = "waiting" => votes = NoVotes
    /\ players = <<>> => votes = NoVotes
    /\ \A v \in Players : v \in Seated /\ votes[v] # NoPlayer => v \in spectators

ToldInv == told \in [Players -> Players \cup {NoPlayer}] /\ VoteTold /\ Ballots

LEMMA SeatedPlayers == TypeOK => Seated \subseteq Players
BY DEF TypeOK, SeatsType, Seated, ToSet

\* Steps of the lobby take no vote: a new seat is one of a player without any.
LEMMA SilentTells == ASSUME RoomInv, ToldInv, Silent PROVE ToldInv'
<1>1. /\ UNCHANGED <<votes, told, status>>
      /\ \/ UNCHANGED <<players, spectators>>
         \/ votes = NoVotes /\ players' # <<>>
         \/ status = "waiting" /\ UNCHANGED players
  <2>1. ASSUME NEW p \in Players, CreateRoom(p) \/ Join(p)
        PROVE  /\ UNCHANGED <<votes, told, status>>
               /\ votes = NoVotes /\ players' # <<>>
    <3>1. players \in Seq(Players)
      BY DEF RoomInv, TypeOK, SeatsType
    <3>2. QED
      BY <2>1, <3>1 DEF Silent, CreateRoom, Join, ToldInv, Ballots, battleVars, channelVars
  <2>2. ASSUME NEW p \in Players, StartSongChallenge(p) \/ AwardWordBonus(p)
        PROVE  UNCHANGED <<votes, told, status, players, spectators>>
    BY <2>2 DEF Silent, StartSongChallenge, AwardWordBonus, battleVars, channelVars, seatVars, listVars
  <2>3. ASSUME NEW p \in Players, NEW r \in {"dancer", "spectator"}, SelectRole(p, r)
        PROVE  UNCHANGED <<votes, told, status, players>> /\ status = "waiting"
    BY <2>3 DEF Silent, SelectRole, battleVars, channelVars
  <2>4. ASSUME NEW p \in Players, NEW b \in BOOLEAN, SetReady(p, b)
        PROVE  UNCHANGED <<votes, told, status, players>> /\ status = "waiting"
    BY <2>4 DEF Silent, SetReady, battleVars, channelVars
  <2>5. ASSUME \/ \E p \in Players, b \in BOOLEAN : SubmitSongPhrase(p, b)
               \/ ExpireChallenge
               \/ Tick
        PROVE  UNCHANGED <<votes, told, status, players, spectators>>
    BY <2>5 DEF Silent, SubmitSongPhrase, ExpireChallenge, Tick, battleVars, channelVars, seatVars, listVars
  <2>6. QED
    BY <2>1, <2>2, <2>3, <2>4, <2>5 DEF Silent
<1>2. CASE UNCHANGED <<players, spectators>>
  BY <1>1, <1>2 DEF ToldInv, VoteTold, Ballots, Seated
<1>3. CASE votes = NoVotes
  BY <1>1, <1>3 DEF ToldInv, VoteTold, Ballots, NoVotes
<1>4. QED
  BY <1>1, <1>2, <1>3 DEF ToldInv, Ballots

LEMMA BeginsTells == ASSUME RoomInv, ToldInv, Begins PROVE ToldInv'
<1>1. votes = NoVotes /\ votes' = NoVotes /\ UNCHANGED <<told, players>>
  <2>1. ASSUME NEW s \in Songs, ChooseAndStart(s), phase = "choosing"
        PROVE  votes = NoVotes /\ votes' = NoVotes /\ UNCHANGED players
    BY <2>1 DEF RoomInv, OneThingAtATime, InProgress, ToldInv, Ballots, ChooseAndStart, BattleStarts,
                battleVars, seatVars
  <2>2. ASSUME NEW p \in Players, NEW chosen \in SUBSET Players, StartBattle(p, chosen)
        PROVE  votes = NoVotes /\ votes' = NoVotes /\ UNCHANGED players
    BY <2>2 DEF ToldInv, Ballots, StartBattle, BattleStarts
  <2>3. QED
    BY <2>1, <2>2 DEF Begins, ChooseSong, AutoPick
<1>2. QED
  BY <1>1 DEF ToldInv, VoteTold, Ballots, NoVotes, Seated

\* A vote is told to its voter, who is a seated spectator.
LEMMA VotesTells ==
    ASSUME RoomInv, ToldInv, NEW p \in Players, NEW choice \in Players \cup {NoPlayer},
           Votes(p, choice)
    PROVE  ToldInv'
<1>1. votes \in [Players -> Players \cup {NoPlayer}]
  BY DEF RoomInv, TypeOK, BattleType
<1>2. p \in spectators /\ p \in Seated
  BY DEF RoomInv, ListsAgree, Spectating, Votes, CastVote
<1>3. /\ UNCHANGED <<players, spectators, status>> /\ status = "battling"
      /\ votes' = [votes EXCEPT ![p] = choice]
      /\ told' = [told EXCEPT ![p] = choice]
  BY <1>1 DEF Votes, CastVote, seatVars, listVars
<1>4. players # <<>>
  BY <1>2 DEF Seated, ToSet
<1>5. QED
  BY <1>1, <1>2, <1>3, <1>4 DEF ToldInv, VoteTold, Ballots, Seated

LEMMA EndsTells == ASSUME RoomInv, ToldInv, Ends PROVE ToldInv'
BY DEF Ends, FinishAtDeadline, SongOver, FinishBattle, ToldInv, VoteTold, Ballots, Seated,
       seatVars, listVars

\* A departure takes votes away and tells exactly those still there who lost one.
LEMMA DepartsTells ==
    ASSUME RoomInv, ToldInv, NEW p \in Players, Departs(p)
    PROVE  ToldInv'
<1>1. p \in Seated /\ Leave(p) /\ AnnounceLeave(p)
  BY DEF Departs, Kick, Leave
<1>2. votes \in [Players -> Players \cup {NoPlayer}]
  BY DEF RoomInv, TypeOK, BattleType
<1>3. told' = [q \in Players |-> IF q \in DiscardedVoters(p) \cup {p} THEN NoPlayer ELSE told[q]]
  BY <1>1 DEF AnnounceLeave
<1>4. /\ Seated' = Seated \ {p}
      /\ \A v \in Players : votes'[v] \in {votes[v], NoPlayer}
      /\ Ballots'
  <2>1. CASE Len(players) = 1 /\ DeleteRoom
    <3>1. players \in Seq(Players)
      BY DEF RoomInv, TypeOK, SeatsType
    <3>2. Seated = {p}
      BY <1>1, <2>1, <3>1 DEF Seated, ToSet
    <3>3. Seated' = {}
      BY <2>1 DEF DeleteRoom, Seated, ToSet
    <3>4. QED
      BY <2>1, <3>2, <3>3 DEF DeleteRoom, ClearBattle, NoVotes, Ballots
  <2>2. CASE Len(players) > 1 /\ Unseat(p) /\ SettleBattleAfterLeave(p)
    <3>1. Seated' = Seated \ {p} /\ players' # <<>>
      BY <1>1, <2>2, UnseatSeats DEF RoomInv
    <3>2. votes' \in {votes, VotesWithout(p)} /\ (status = "waiting" => votes' = votes)
      BY <2>2 DEF SettleBattleAfterLeave, Unsettled, battleVars
    <3>3. \A v \in Players : votes'[v] \in {votes[v], NoPlayer}
      BY <3>2 DEF VotesWithout
    <3>4. status' = "waiting" => status = "waiting"
      BY <2>2 DEF SettleBattleAfterLeave, Unsettled, FinishBattle
    <3>5. spectators' = spectators \ {p}
      BY <2>2 DEF Unseat
    <3>6. QED
      BY <3>1, <3>2, <3>3, <3>4, <3>5 DEF ToldInv, Ballots
  <2>3. QED
    BY <1>1, <2>1, <2>2 DEF Leave
<1>5. ASSUME NEW q \in Players PROVE told'[q] = IF q \in Seated' THEN votes'[q] ELSE NoPlayer
  <2>1. told[q] = IF q \in Seated THEN votes[q] ELSE NoPlayer
    BY DEF ToldInv, VoteTold
  <2>2. q \in DiscardedVoters(p) <=> q # p /\ votes[q] # NoPlayer /\ votes'[q] = NoPlayer
    BY DEF DiscardedVoters
  <2>3. QED
    BY <1>3, <1>4, <2>1, <2>2
<1>6. told' \in [Players -> Players \cup {NoPlayer}]
  BY <1>3 DEF ToldInv
<1>7. QED
  BY <1>4, <1>5, <1>6 DEF ToldInv, VoteTold

LEMMA RematchTells ==
    ASSUME RoomInv, ToldInv, NEW p \in Players, Rematches(p)
    PROVE  ToldInv'
<1>1. votes' = NoVotes /\ UNCHANGED players
  BY DEF Rematches, Rematch, ClearBattle
<1>2. told' = [q \in Players |-> IF q \in ClearedVoters THEN NoPlayer ELSE told[q]]
  BY DEF Rematches
<1>3. Seated' = Seated
  BY <1>1 DEF Seated
<1>4. ASSUME NEW q \in Players PROVE told'[q] = NoPlayer
  BY <1>2, <1>3 DEF ToldInv, VoteTold, ClearedVoters
<1>5. told' \in [Players -> Players \cup {NoPlayer}]
  BY <1>2 DEF ToldInv
<1>6. QED
  BY <1>1, <1>4, <1>5 DEF ToldInv, VoteTold, Ballots, NoVotes

\* A page that rejoins is told what is stored, or nothing where nothing is.
LEMMA RejoinTells ==
    ASSUME RoomInv, ToldInv, NEW p \in Players, Rejoins(p)
    PROVE  ToldInv'
<1>1. votes \in [Players -> Players \cup {NoPlayer}]
  BY DEF RoomInv, TypeOK, BattleType
<1>2. p \in Seated /\ UNCHANGED <<players, votes, status, spectators>>
  BY DEF Rejoins, vars, seatVars, listVars, battleVars
<1>3. told' = [told EXCEPT ![p] = votes[p]]
  BY <1>1, <1>2 DEF Rejoins, ToldInv, Ballots, NoVotes
<1>4. QED
  BY <1>1, <1>2, <1>3 DEF ToldInv, VoteTold, Ballots, Seated

LEMMA ToldStep == RoomInv /\ ToldInv /\ [ChannelNext]_allVars => ToldInv'
<1> SUFFICES ASSUME RoomInv, ToldInv, [ChannelNext]_allVars PROVE ToldInv'
  OBVIOUS
<1>1. CASE UNCHANGED allVars
  BY <1>1 DEF allVars, vars, channelVars, seatVars, listVars, battleVars, ToldInv, VoteTold, Ballots, Seated
<1>2. QED
  BY <1>1, SilentTells, BeginsTells, VotesTells, EndsTells, DepartsTells, RematchTells, RejoinTells
  DEF ChannelNext

LEMMA ToldStart == ChannelInit => ToldInv
BY DEF ChannelInit, Init, ToldInv, VoteTold, Ballots, NoVotes, Seated, ToSet

\* Whatever votes, departures, rematches and reloads came before, the page of a
\* seated player shows the vote that is stored for them (the vote:mine messages
\* of announceLeave, vote:cast, room:rematch and room:join).
THEOREM VoteToldSafe == ChannelSpec => []VoteTold
<1>1. ToldInv => VoteTold
  BY DEF ToldInv
<1>2. QED
  BY <1>1, ToldStart, ToldStep, ChannelRoomSafe, PTL DEF ChannelSpec

-----------------------------------------------------------------------------
(***************************************************************************)
(* RecordAccounts says nothing until the battle is over.  What makes it    *)
(* true is known before: the snapshots name everybody who attended, and    *)
(* those of them still seated are those who stayed.                        *)
(***************************************************************************)
AttendanceTracked ==
    status = "battling" =>
        /\ \A p \in Players : attendance[p] # "absent" <=> p \in roster \cup audience
        /\ \A p \in roster \cup audience : attendance[p] = "stayed" <=> p \in Seated

RecordInv ==
    /\ attendance \in [Players -> {"absent", "stayed", "left"}]
    /\ AttendanceTracked
    /\ RecordAccounts

\* ScoringService: a winner is the one dancer of rank 1.
LEMMA WinnerLeads ==
    ASSUME NEW D, NEW b, NEW w, NoPlayer \notin D,
           BattleResult(D, b, w).winner # NoPlayer
    PROVE  {d \in D : BattleResult(D, b, w).standings[d].rank = 1} = {BattleResult(D, b, w).winner}
<1>1. \A d \in D : BattleResult(D, b, w).standings[d].rank = Rank(D, b, w, d)
  BY DEF BattleResult
<1>2. BattleResult(D, b, w).winner = Winner(D, b, w)
  BY DEF BattleResult
<1> HIDE DEF Rank
<1>3. Leaders(D, b, w) = {Winner(D, b, w)}
  BY <1>2 DEF Winner
<1>4. QED
  BY <1>1, <1>2, <1>3 DEF Leaders

\* The record written by the step that closes the battle (MatchRecordService):
\* the attendance decides every leftEarly and every null rank.
LEMMA ClosingRecord ==
    ASSUME RoomInv', attendance' \in [Players -> {"absent", "stayed", "left"}],
           \A p \in Players : attendance'[p] # "absent" <=> p \in roster' \cup audience',
           \A p \in roster' \cup audience' : attendance'[p] = "stayed" <=> p \in Seated',
           contenders' = roster' \cap Seated', status' = "finished",
           record' = FromFinishedRoom'
    PROVE  RecordAccounts'
<1> DEFINE list == record'.participants
           ranks == result'.standings
<1>1. /\ roster' \subseteq Players /\ audience' \subseteq Players /\ contenders' \subseteq Players
      /\ votes' \in [Players -> Players \cup {NoPlayer}] /\ words' \in [Players -> Nat]
  BY DEF RoomInv, TypeOK, BattleType
<1>2. result' = BattleResult(contenders', votes', words')
  BY DEF RoomInv, ResultFrozen
<1>3. DOMAIN ranks = contenders' /\ \A d \in contenders' : ranks[d].rank \in Nat \ {0}
  <2>1. DOMAIN ranks = contenders' /\ IsResult(result')
    BY <1>1, <1>2, ResultType
  <2>2. QED
    BY <2>1 DEF IsResult, Standing
<1>4. /\ DOMAIN list = roster' \cup audience'
      /\ record'.winner = result'.winner
      /\ \A p \in roster' :
            /\ list[p].role = "dancer"
            /\ list[p].rank = (IF p \in contenders' THEN ranks[p].rank ELSE 0)
            /\ list[p].leftEarly <=> p \notin contenders'
      /\ \A p \in audience' \ roster' :
            /\ list[p].role = "spectator"
            /\ list[p].rank = 0
            /\ list[p].leftEarly <=> p \notin Seated'
  BY <1>3 DEF FromFinishedRoom, DancerRecord, SpectatorRecord
<1> HIDE DEF list, ranks
<1>5. DOMAIN list = {p \in Players : attendance'[p] # "absent"}
  BY <1>1, <1>4
<1>6. ASSUME NEW p \in DOMAIN list
      PROVE  /\ list[p].leftEarly <=> attendance'[p] = "left"
             /\ list[p].rank # 0 <=> list[p].role = "dancer" /\ attendance'[p] = "stayed"
  <2>1. p \in Players /\ attendance'[p] \in {"stayed", "left"}
    BY <1>5
  <2>2. attendance'[p] = "stayed" <=> p \in Seated'
    BY <1>4
  <2>3. CASE p \in roster'
    BY <1>3, <1>4, <2>1, <2>2, <2>3
  <2>4. CASE p \in audience' \ roster'
    BY <1>4, <2>1, <2>2, <2>4
  <2>5. QED
    BY <1>4, <2>3, <2>4
<1>7. ASSUME record'.winner # NoPlayer
      PROVE  {p \in DOMAIN list : list[p].rank = 1} = {record'.winner}
  <2>1. {d \in contenders' : ranks[d].rank = 1} = {record'.winner}
    BY <1>1, <1>2, <1>4, <1>7, RoomAssumption, WinnerLeads DEF ranks
  <2>2. {p \in DOMAIN list : list[p].rank = 1} = {d \in contenders' : ranks[d].rank = 1}
    BY <1>4
  <2>3. QED
    BY <2>1, <2>2
<1>8. QED
  BY <1>5, <1>6, <1>7 DEF RecordAccounts, list

\* Steps that write no record and move nobody in a running battle.
LEMMA SameRecord ==
    ASSUME RecordInv, UNCHANGED <<status, record, attendance>>,
           UNCHANGED <<players, roster, audience>> \/ status # "battling"
    PROVE  RecordInv'
BY DEF RecordInv, AttendanceTracked, RecordAccounts, Seated

LEMMA SilentRecords == ASSUME RoomInv, RecordInv, Silent PROVE RecordInv'
<1>1. UNCHANGED <<status, record, attendance>>
  BY DEF Silent, CreateRoom, Join, StartSongChallenge, AwardWordBonus, SelectRole, SetReady,
         SubmitSongPhrase, ExpireChallenge, Tick, channelVars
<1>2. UNCHANGED <<players, roster, audience>> \/ status # "battling"
  <2>1. ASSUME NEW p \in Players, CreateRoom(p) PROVE status # "battling"
    <3>1. Seated = {}
      BY <2>1 DEF CreateRoom, Seated, ToSet
    <3>2. QED
      BY <3>1, RoomAssumption, FS_EmptySet DEF RoomInv, EnoughDancers
  <2>2. QED
    BY <2>1 DEF Silent, Join, StartSongChallenge, AwardWordBonus, SelectRole, SetReady,
           SubmitSongPhrase, ExpireChallenge, Tick, seatVars, battleVars
<1>3. QED
  BY <1>1, <1>2, SameRecord

\* The battle begins with everybody in the room, dancing or watching.
LEMMA BeginsRecords == ASSUME RoomInv, RecordInv, Begins PROVE RecordInv'
<1>1. UNCHANGED record
  BY DEF Begins
<1>2. ASSUME NEW chosen \in SUBSET Seated, BattleStarts(chosen) PROVE RecordInv'
  <2>1. /\ status' = "battling" /\ Seated' = Seated
        /\ roster' \cup audience' = Seated
    BY <1>2 DEF BattleStarts, Watching, Seated
  <2>2. attendance' = [p \in Players |-> IF p \in Seated THEN "stayed" ELSE "absent"]
    BY <2>1 DEF Begins
  <2>3. Seated \subseteq Players
    BY SeatedPlayers DEF RoomInv
  <2>4. QED
    BY <2>1, <2>2, <2>3 DEF RecordInv, AttendanceTracked, RecordAccounts
<1>3. ASSUME phase = "choosing", UNCHANGED status PROVE RecordInv'
  <2>1. status = "waiting"
    BY <1>3 DEF RoomInv, OneThingAtATime, InProgress
  <2>2. UNCHANGED attendance
    BY <1>3, <2>1 DEF Begins
  <2>3. QED
    BY <1>1, <1>3, <2>1, <2>2, SameRecord
<1>4. QED
  BY <1>2, <1>3 DEF Begins, ChooseSong, AutoPick, ChooseAndStart, StartBattle, DancersByRole

LEMMA VotesRecords ==
    ASSUME RecordInv, NEW p \in Players, NEW choice \in Players \cup {NoPlayer}, Votes(p, choice)
    PROVE  RecordInv'
BY SameRecord DEF Votes, CastVote, seatVars

\* The song is over: whoever is there stayed to the end.
LEMMA EndsRecords == ASSUME RoomInv, RoomInv', RecordInv, Ends PROVE RecordInv'
<1>1. /\ status = "battling" /\ status' = "finished"
      /\ UNCHANGED <<players, contenders, roster, audience, attendance>>
  BY DEF Ends, FinishAtDeadline, SongOver, FinishBattle, seatVars
<1>2. record' = FromFinishedRoom' /\ Seated' = Seated
  BY <1>1 DEF Ends, AnnounceBattleFinished, BattleFinished, Seated
<1>3. contenders' = roster' \cap Seated'
  BY <1>1, <1>2 DEF RoomInv, SnapshotsAccount
<1>4. RecordAccounts'
  BY <1>1, <1>2, <1>3, ClosingRecord DEF RecordInv, AttendanceTracked
<1>5. QED
  BY <1>1, <1>4 DEF RecordInv, AttendanceTracked

\* A departure marks the leaver, and may close the battle with them gone.
LEMMA DepartsRecords ==
    ASSUME RoomInv, RoomInv', RecordInv, NEW p \in Players, Departs(p)
    PROVE  RecordInv'
<1>1. p \in Seated /\ Leave(p) /\ AnnounceLeave(p)
  BY DEF Departs, Kick, Leave
<1>2. CASE DeleteRoom
  <2>1. players' = <<>> /\ status' = "waiting"
    BY <1>2 DEF DeleteRoom
  <2>2. attendance' = NobodyCame
    BY <1>1, <2>1 DEF AnnounceLeave
  <2>3. QED
    BY <2>1, <2>2 DEF RecordInv, AttendanceTracked, RecordAccounts, NobodyCame
<1>3. CASE Len(players) > 1 /\ Unseat(p) /\ SettleBattleAfterLeave(p)
  <2>1. Seated' = Seated \ {p} /\ players' # <<>>
    BY <1>1, <1>3, UnseatSeats DEF RoomInv
  <2>2. /\ record' = IF status = "battling" /\ status' = "finished" THEN FromFinishedRoom' ELSE record
        /\ attendance' = IF status = "battling" THEN [attendance EXCEPT ![p] = "left"] ELSE attendance
    BY <1>1, <2>1 DEF AnnounceLeave, AnnounceBattleFinished, BattleFinished
  <2>3. CASE status # "battling"
    <3>1. UNCHANGED status
      BY <1>3, <2>3 DEF SettleBattleAfterLeave, Unsettled
    <3>2. QED
      BY <2>2, <2>3, <3>1, SameRecord
  <2>4. CASE status = "battling"
    <3>1. /\ contenders' = contenders \ {p} /\ UNCHANGED <<roster, audience>>
          /\ status' \in {"battling", "finished"}
      BY <1>3, <2>4 DEF SettleBattleAfterLeave, Unsettled, FinishBattle
    <3>2. p \in roster \cup audience /\ contenders' = roster' \cap Seated'
      BY <1>1, <2>1, <2>4, <3>1 DEF RoomInv, ListsAgree, SnapshotsAccount
    <3>3. attendance' = [attendance EXCEPT ![p] = "left"]
      BY <2>2, <2>4
    <3>4. /\ attendance' \in [Players -> {"absent", "stayed", "left"}]
          /\ \A q \in Players : attendance'[q] # "absent" <=> q \in roster' \cup audience'
          /\ \A q \in roster' \cup audience' : attendance'[q] = "stayed" <=> q \in Seated'
      <4>1. roster \cup audience \subseteq Players
        BY DEF RoomInv, TypeOK, BattleType
      <4>2. QED
        BY <2>1, <2>4, <3>1, <3>2, <3>3, <4>1 DEF RecordInv, AttendanceTracked
    <3>5. CASE status' = "finished"
      <4>1. record' = FromFinishedRoom'
        BY <2>2, <2>4, <3>5
      <4>2. RecordAccounts'
        BY <3>2, <3>4, <3>5, <4>1, ClosingRecord
      <4>3. QED
        BY <3>4, <3>5, <4>2 DEF RecordInv, AttendanceTracked
    <3>6. CASE status' = "battling"
      BY <3>4, <3>6 DEF RecordInv, AttendanceTracked, RecordAccounts
    <3>7. QED
      BY <3>1, <3>5, <3>6
  <2>5. QED
    BY <2>3, <2>4
<1>4. QED
  BY <1>1, <1>2, <1>3 DEF Leave

LEMMA RematchRecords == ASSUME NEW p \in Players, Rematches(p) PROVE RecordInv'
BY DEF Rematches, Rematch, NobodyCame, RecordInv, AttendanceTracked, RecordAccounts

LEMMA RejoinRecords == ASSUME RecordInv, NEW p \in Players, Rejoins(p) PROVE RecordInv'
BY SameRecord DEF Rejoins, vars, seatVars, battleVars

LEMMA RecordStep == RoomInv /\ RoomInv' /\ RecordInv /\ [ChannelNext]_allVars => RecordInv'
<1> SUFFICES ASSUME RoomInv, RoomInv', RecordInv, [ChannelNext]_allVars PROVE RecordInv'
  OBVIOUS
<1>1. CASE UNCHANGED allVars
  BY <1>1, SameRecord DEF allVars, vars, channelVars, seatVars, battleVars
<1>2. QED
  BY <1>1, SilentRecords, BeginsRecords, VotesRecords, EndsRecords, DepartsRecords, RematchRecords,
     RejoinRecords DEF ChannelNext

LEMMA RecordStart == ChannelInit => RecordInv
BY DEF ChannelInit, Init, NobodyCame, RecordInv, AttendanceTracked, RecordAccounts

\* Whoever came, left or stayed, and whether the song or a departure ended the
\* battle, the match record sent (MatchRecordService) names everybody who was
\* there at the start once, marks exactly who left early, ranks exactly the
\* dancers who stayed and crowns the one of rank 1.
THEOREM RecordAccountsSafe == ChannelSpec => []RecordAccounts
<1>1. RecordInv => RecordAccounts
  BY DEF RecordInv
<1>2. QED
  BY <1>1, RecordStart, RecordStep, ChannelRoomSafe, PTL DEF ChannelSpec

-----------------------------------------------------------------------------
(***************************************************************************)
(* The ranking.  The sort gives every row a position of its own, as many   *)
(* positions as rows being taken; a walk down sorted rows gives each one   *)
(* more than the rows of a higher score, by the least row where it would   *)
(* not; and rows are one to one with dancers.                              *)
(***************************************************************************)
\* A set of natural numbers with an element has a least one.
LEMMA LeastNatural ==
    ASSUME NEW T, T \subseteq Nat, T # {}
    PROVE  \E x \in T : \A y \in T : x <= y
<1>1. OpToRel(<, Nat) = {ss \in Nat \X Nat : ss[1] < ss[2]}
  BY DEF OpToRel
<1>2. IsWellFoundedOn({ss \in Nat \X Nat : ss[1] < ss[2]}, Nat)
  BY <1>1, NatLessThanWellFounded
<1>3. PICK x \in T : \A y \in T : ~(<<y, x>> \in {ss \in Nat \X Nat : ss[1] < ss[2]})
  BY <1>2, WFMin
<1>4. ASSUME NEW y \in T, y < x PROVE FALSE
  <2>1. <<y, x>> \in Nat \X Nat /\ <<y, x>>[1] < <<y, x>>[2]
    BY <1>4
  <2>2. <<y, x>> \in {ss \in Nat \X Nat : ss[1] < ss[2]}
    BY <2>1, Zenon
  <2>3. QED
    BY <1>3, <2>2
<1>5. QED
  BY <1>4

\* n rows as the sort gets them: numbered, each with a score.
Scored(rows, n) ==
    /\ DOMAIN rows = 1..n
    /\ \A i \in 1..n : rows[i].score \in Nat /\ rows[i].order = i

\* A row sorted before another has fewer rows above it.
LEMMA AboveGrows ==
    ASSUME NEW n \in Nat, NEW rows, Scored(rows, n), NEW i \in 1..n, NEW j \in 1..n,
           Before(rows[i], rows[j])
    PROVE  Cardinality(Above(rows, i)) < Cardinality(Above(rows, j))
<1>1. IsFiniteSet(1..n)
  BY FS_Interval
<1>2. Above(rows, j) \in SUBSET (1..n)
  BY DEF Above, Scored
<1>3. IsFiniteSet(Above(rows, j))
  BY <1>1, <1>2, FS_Subset
<1>4. \A k \in 1..n : rows[k].score \in Nat /\ rows[k].order \in Nat
  BY DEF Scored
<1>5. Above(rows, i) \in SUBSET Above(rows, j)
  BY <1>4 DEF Above, Before, Scored
<1>6. i \in Above(rows, j) /\ i \notin Above(rows, i)
  BY <1>4 DEF Above, Before, Scored
<1>7. Cardinality(Above(rows, i)) <= Cardinality(Above(rows, j)) /\ Cardinality(Above(rows, i)) # Cardinality(Above(rows, j))
  BY <1>3, <1>5, <1>6, FS_Subset
<1>8. Cardinality(Above(rows, i)) \in Nat /\ Cardinality(Above(rows, j)) \in Nat
  BY <1>3, <1>5, FS_Subset, FS_CardinalityType
<1>9. QED
  BY <1>7, <1>8

\* Every position is taken by a row, as there are as many rows as positions.
LEMMA EveryPositionTaken ==
    ASSUME NEW n \in Nat, NEW rows, Scored(rows, n), NEW k \in 1..n
    PROVE  \E i \in 1..n : Cardinality(Above(rows, i)) = k - 1
<1> DEFINE place == [i \in 1..n |-> Cardinality(Above(rows, i)) + 1]
<1>1. IsFiniteSet(1..n) /\ Cardinality(1..n) = n
  BY FS_Interval
<1>2. \A i \in 1..n : Cardinality(Above(rows, i)) \in 0..(n - 1)
  <2> SUFFICES ASSUME NEW i \in 1..n PROVE Cardinality(Above(rows, i)) \in 0..(n - 1)
    OBVIOUS
  <2>1. Above(rows, i) \in SUBSET (1..n) /\ i \notin Above(rows, i)
    BY DEF Above, Before, Scored
  <2>2. /\ Cardinality(Above(rows, i)) \in Nat /\ Cardinality(Above(rows, i)) <= n
        /\ Cardinality(Above(rows, i)) # n
    BY <1>1, <2>1, FS_Subset, FS_CardinalityType
  <2>3. QED
    BY <2>2
<1>3. place \in [1..n -> 1..n] /\ \A i \in 1..n : place[i] = Cardinality(Above(rows, i)) + 1
  BY <1>2
<1> HIDE DEF place
<1>4. \A i, j \in 1..n : place[i] = place[j] => i = j
  <2> SUFFICES ASSUME NEW i \in 1..n, NEW j \in 1..n, i # j PROVE place[i] # place[j]
    OBVIOUS
  <2>1. Cardinality(Above(rows, i)) \in Int /\ Cardinality(Above(rows, j)) \in Int
    BY <1>2
  <2>2. CASE Before(rows[i], rows[j])
    <3>1. Cardinality(Above(rows, i)) < Cardinality(Above(rows, j))
      BY <2>2, AboveGrows
    <3>2. QED
      BY <1>3, <2>1, <3>1
  <2>3. CASE Before(rows[j], rows[i])
    <3>1. Cardinality(Above(rows, j)) < Cardinality(Above(rows, i))
      BY <2>3, AboveGrows
    <3>2. QED
      BY <1>3, <2>1, <3>1
  <2>4. Before(rows[i], rows[j]) \/ Before(rows[j], rows[i])
    BY DEF Before, Scored
  <2>5. QED
    BY <2>2, <2>3, <2>4
<1>5. place \in Injection(1..n, 1..n)
  BY <1>3, <1>4 DEF Injection, IsInjective
<1>6. place \in Surjection(1..n, 1..n)
  BY <1>1, <1>5, FS_Injection
<1>7. PICK i \in 1..n : place[i] = k
  BY <1>6 DEF Surjection
<1>8. Cardinality(Above(rows, i)) = k - 1
  <2>1. Cardinality(Above(rows, i)) \in Int /\ k \in Int
    BY <1>2
  <2>2. k = Cardinality(Above(rows, i)) + 1
    BY <1>3, <1>7
  <2>3. QED
    BY <2>1, <2>2
<1>9. QED
  BY <1>8

\* The sort rearranges the rows, best score first.
LEMMA SortedRows ==
    ASSUME NEW n \in Nat, NEW rows, Scored(rows, n)
    PROVE  \E from \in [1..n -> 1..n] :
              /\ \A k, l \in 1..n : from[k] = from[l] => k = l
              /\ \A i \in 1..n : \E k \in 1..n : from[k] = i
              /\ Sorted(rows) = [k \in 1..n |-> rows[from[k]]]
              /\ \A k, l \in 1..n : k < l => rows[from[k]].score >= rows[from[l]].score
<1> DEFINE from == [k \in 1..n |-> CHOOSE i \in 1..n : Cardinality(Above(rows, i)) = k - 1]
<1>1. from \in [1..n -> 1..n] /\ \A k \in 1..n : Cardinality(Above(rows, from[k])) = k - 1
  BY EveryPositionTaken
<1>2. Sorted(rows) = [k \in 1..n |-> rows[from[k]]]
  BY DEF Sorted, Scored
<1> HIDE DEF from
<1>3. \A k, l \in 1..n : from[k] = from[l] => k = l
  BY <1>1
<1>4. from \in Injection(1..n, 1..n)
  BY <1>1, <1>3 DEF Injection, IsInjective
<1>5. from \in Surjection(1..n, 1..n)
  <2>1. IsFiniteSet(1..n)
    BY FS_Interval
  <2>2. QED
    BY <1>4, <2>1, FS_Injection
<1>6. \A i \in 1..n : \E k \in 1..n : from[k] = i
  BY <1>5 DEF Surjection
<1>7. ASSUME NEW k \in 1..n, NEW l \in 1..n, k < l, rows[from[k]].score < rows[from[l]].score
      PROVE  FALSE
  <2>1. from[k] \in 1..n /\ from[l] \in 1..n
    BY <1>1
  <2>2. Before(rows[from[l]], rows[from[k]])
    BY <1>7, <2>1 DEF Before, Scored
  <2>3. Cardinality(Above(rows, from[l])) < Cardinality(Above(rows, from[k]))
    BY <2>1, <2>2, AboveGrows
  <2>4. l - 1 < k - 1
    BY <1>1, <2>3
  <2>5. QED
    BY <1>7, <2>4
<1>8. \A k \in 1..n : rows[from[k]].score \in Nat
  BY <1>1 DEF Scored
<1>9. \A k, l \in 1..n : k < l => rows[from[k]].score >= rows[from[l]].score
  BY <1>7, <1>8
<1>10. QED
  BY <1>1, <1>2, <1>3, <1>6, <1>9

\* The walk gives each row one more than the rows of a higher score.
LEMMA Walk ==
    ASSUME NEW n \in Nat, NEW rows, DOMAIN rows = 1..n,
           \A i \in 1..n : rows[i].score \in Nat,
           \A k, l \in 1..n : k < l => rows[k].score >= rows[l].score
    PROVE  RankOfRow(rows) = [i \in 1..n |-> 1 + Cardinality({k \in 1..n : rows[k].score > rows[i].score})]
<1> DEFINE higher(i) == {k \in 1..n : rows[k].score > rows[i].score}
           goal == [i \in 1..n |-> 1 + Cardinality(higher(i))]
           step(f) == [i \in 1..n |-> IF i > 1 /\ rows[i].score = rows[i - 1].score THEN f[i - 1] ELSE i]
<1>1. goal = step(goal)
  <2>1. ASSUME NEW i \in 1..n PROVE goal[i] = step(goal)[i]
    <3>1. CASE i > 1 /\ rows[i].score = rows[i - 1].score
      <4>1. i - 1 \in 1..n /\ higher(i) = higher(i - 1)
        BY <3>1
      <4>2. QED
        BY <3>1, <4>1
    <3>2. CASE ~(i > 1 /\ rows[i].score = rows[i - 1].score)
      <4>1. ASSUME NEW k \in 1..n PROVE k \in higher(i) <=> k < i
        <5>1. CASE k < i
          <6>1. i - 1 \in 1..n /\ rows[i - 1].score > rows[i].score
            <7>1. i - 1 \in 1..n /\ i > 1 /\ i - 1 < i
              BY <5>1
            <7>2. QED
              BY <3>2, <7>1
          <6>2. k = i - 1 \/ k < i - 1
            BY <5>1
          <6>3. rows[k].score >= rows[i - 1].score
            BY <6>1, <6>2
          <6>4. rows[k].score > rows[i].score
            BY <6>1, <6>3
          <6>5. QED
            BY <5>1, <6>4
        <5>2. CASE k >= i
          BY <5>2
        <5>3. QED
          BY <5>1, <5>2
      <4>2. higher(i) = 1..(i - 1)
        BY <4>1
      <4>3. Cardinality(1..(i - 1)) = i - 1
        BY FS_Interval
      <4>4. goal[i] = 1 + Cardinality(higher(i))
        OBVIOUS
      <4> HIDE DEF higher, goal
      <4>5. goal[i] = i
        BY <4>2, <4>3, <4>4
      <4>6. QED
        BY <3>2, <4>5
    <3>3. QED
      BY <3>1, <3>2
  <2>2. QED
    BY <2>1
<1>2. ASSUME NEW f, f = step(f), NEW g, g = step(g) PROVE f = g
  <2> DEFINE differ == {i \in 1..n : f[i] # g[i]}
  <2>1. CASE differ # {}
    <3>0. differ \subseteq Nat
      OBVIOUS
    <3>1. PICK i \in differ : \A j \in differ : i <= j
      <4> HIDE DEF differ
      <4>1. QED
        BY <2>1, <3>0, LeastNatural
    <3>2. i \in 1..n /\ f[i] = step(f)[i] /\ g[i] = step(g)[i]
      BY <1>2
    <3>3. i > 1 /\ rows[i].score = rows[i - 1].score /\ f[i - 1] # g[i - 1]
      BY <3>1, <3>2
    <3>4. i - 1 \in differ /\ i - 1 < i
      BY <3>2, <3>3
    <3>5. QED
      BY <3>1, <3>4
  <2>2. CASE differ = {}
    <3>1. \A i \in 1..n : f[i] = g[i]
      BY <2>2
    <3>2. f = [i \in 1..n |-> f[i]] /\ g = [i \in 1..n |-> g[i]]
      BY <1>2
    <3>3. QED
      BY <3>1, <3>2
  <2>3. QED
    BY <2>1, <2>2
<1> DEFINE rank == CHOOSE rank : rank = step(rank)
<1>3. RankOfRow(rows) = rank
  BY DEF RankOfRow
<1>4. rank = step(rank)
  BY <1>1
<1> HIDE DEF rank, goal
<1>5. rank = goal
  BY <1>1, <1>2, <1>4
<1>6. QED
  BY <1>3, <1>5 DEF goal

\* The dancers in some order: each once.
LEMMA Enumerated ==
    ASSUME NEW D, IsFiniteSet(D)
    PROVE  LET n == Cardinality(D)
           IN  n \in Nat /\ SetToSeq(D) \in Bijection(1..n, D)
<1> DEFINE n == Cardinality(D)
           order == SetToSeq(D)
<1>1. n \in Nat /\ ExistsBijection(1..n, D)
  BY FS_CardinalityType
<1>2. \E f \in [1..n -> D] : IsInjective(f)
  BY <1>1 DEF ExistsBijection, Bijection, Injection
<1>3. order \in [1..n -> D] /\ IsInjective(order)
  BY <1>2 DEF SetToSeq
<1> HIDE DEF order
<1>4. order \in Injection(1..n, D)
  BY <1>3 DEF Injection
<1>5. IsFiniteSet(1..n) /\ Cardinality(1..n) = n
  BY <1>1, FS_Interval
<1> HIDE DEF n
<1>6. order \in Surjection(1..n, D)
  BY <1>4, <1>5, FS_Injection DEF n
<1>7. QED
  BY <1>1, <1>4, <1>6 DEF Bijection, order, n

\* As many are mapped to a set one to one as are in it.
MappedTo(f, S, B) == {x \in S : f[x] \in B}

LEMMA SameSize ==
    ASSUME NEW S, NEW T, IsFiniteSet(T), NEW f \in Bijection(S, T), NEW B \in SUBSET T
    PROVE  Cardinality(MappedTo(f, S, B)) = Cardinality(B)
<1> DEFINE A == MappedTo(f, S, B)
           g == [x \in A |-> f[x]]
<1>1. /\ f \in [S -> T]
      /\ \A x, y \in S : f[x] = f[y] => x = y
      /\ \A t \in T : \E x \in S : f[x] = t
  BY DEF Bijection, Injection, Surjection, IsInjective
<1>2. g \in [A -> B] /\ \A x \in A : g[x] = f[x]
  BY <1>1 DEF MappedTo
<1> HIDE DEF g
<1>3. g \in Injection(A, B)
  BY <1>1, <1>2 DEF Injection, IsInjective, MappedTo
<1>4. g \in Surjection(A, B)
  BY <1>1, <1>2 DEF Surjection, MappedTo
<1>5. IsFiniteSet(B)
  BY FS_Subset
<1>6. IsFiniteSet(A) /\ (Cardinality(A) = Cardinality(B) <=> g \in Surjection(A, B))
  BY <1>3, <1>5, FS_Injection
<1>7. QED
  BY <1>4, <1>6

\* Sorted and walked, each dancer has a row, which holds the rank promised.
LEMMA RankedRows ==
    ASSUME NEW D, IsFiniteSet(D), NEW b, NEW w, \A d \in D : Score(b, w, d) \in Nat
    PROVE  LET rows == Rows(SetToSeq(D), b, w)
               rank == RankOfRow(rows)
               n == Cardinality(D)
           IN  /\ DOMAIN rows = 1..n
               /\ [k \in 1..n |-> rows[k].dancer] \in Bijection(1..n, D)
               /\ \A k \in 1..n : rank[k] = Rank(D, b, w, rows[k].dancer)
<1> DEFINE n == Cardinality(D)
           order == SetToSeq(D)
           given == [i \in 1..n |-> [order |-> i, dancer |-> order[i], score |-> Score(b, w, order[i])]]
           rows == Rows(order, b, w)
           dancer == [k \in 1..n |-> rows[k].dancer]
<1>1. n \in Nat /\ order \in Bijection(1..n, D)
  BY Enumerated
<1> HIDE DEF n, order
<1>2. /\ order \in [1..n -> D]
      /\ \A i, j \in 1..n : order[i] = order[j] => i = j
      /\ \A d \in D : \E i \in 1..n : order[i] = d
  BY <1>1 DEF Bijection, Injection, Surjection, IsInjective
<1>3. /\ Scored(given, n)
      /\ \A i \in 1..n : given[i].dancer = order[i] /\ given[i].score = Score(b, w, order[i])
  BY <1>2 DEF Scored
<1>4. rows = Sorted(given)
  BY <1>2 DEF Rows
<1> HIDE DEF given, rows
<1>5. PICK from \in [1..n -> 1..n] :
              /\ \A k, l \in 1..n : from[k] = from[l] => k = l
              /\ \A i \in 1..n : \E k \in 1..n : from[k] = i
              /\ rows = [k \in 1..n |-> given[from[k]]]
              /\ \A k, l \in 1..n : k < l => given[from[k]].score >= given[from[l]].score
  BY <1>1, <1>3, <1>4, SortedRows
<1>6. /\ DOMAIN rows = 1..n
      /\ \A k \in 1..n : /\ rows[k].dancer = order[from[k]]
                         /\ rows[k].score = Score(b, w, rows[k].dancer)
                         /\ rows[k].score \in Nat
      /\ \A k, l \in 1..n : k < l => rows[k].score >= rows[l].score
  BY <1>2, <1>3, <1>5
<1>7. /\ dancer \in [1..n -> D]
      /\ \A k \in 1..n : dancer[k] = rows[k].dancer
      /\ \A k \in 1..n : dancer[k] = order[from[k]]
  <2>1. ASSUME NEW k \in 1..n
        PROVE  dancer[k] = rows[k].dancer /\ dancer[k] = order[from[k]] /\ dancer[k] \in D
    <3>1. from[k] \in 1..n /\ rows[k].dancer = order[from[k]]
      BY <1>5, <1>6
    <3>2. order[from[k]] \in D
      BY <1>2, <3>1
    <3>3. QED
      BY <3>1, <3>2
  <2>2. QED
    BY <2>1
<1> HIDE DEF dancer
<1>8. dancer \in Injection(1..n, D)
  <2>1. ASSUME NEW k \in 1..n, NEW l \in 1..n, dancer[k] = dancer[l] PROVE k = l
    <3>1. order[from[k]] = order[from[l]] /\ from[k] \in 1..n /\ from[l] \in 1..n
      BY <1>7, <2>1
    <3>2. from[k] = from[l]
      BY <1>2, <3>1
    <3>3. QED
      BY <1>5, <3>2
  <2>2. QED
    BY <1>7, <2>1 DEF Injection, IsInjective
<1>9. dancer \in Surjection(1..n, D)
  <2>1. ASSUME NEW d \in D PROVE \E k \in 1..n : dancer[k] = d
    <3>1. PICK i \in 1..n : order[i] = d
      BY <1>2
    <3>2. PICK k \in 1..n : from[k] = i
      BY <1>5
    <3>3. QED
      BY <1>7, <3>1, <3>2
  <2>2. QED
    BY <1>7, <2>1 DEF Surjection
<1>10. dancer \in Bijection(1..n, D)
  BY <1>8, <1>9 DEF Bijection
<1>11. ASSUME NEW k \in 1..n PROVE RankOfRow(rows)[k] = Rank(D, b, w, rows[k].dancer)
  <2> DEFINE higher == {l \in 1..n : rows[l].score > rows[k].score}
             ahead == Ahead(D, b, w, rows[k].dancer)
  <2>1. \A l \in 1..n : l \in higher <=> dancer[l] \in ahead
    BY <1>6, <1>7 DEF Ahead
  <2>2. higher = MappedTo(dancer, 1..n, ahead) /\ ahead \in SUBSET D
    BY <2>1 DEF Ahead, MappedTo
  <2> HIDE DEF higher, ahead
  <2>3. Cardinality(higher) = Cardinality(ahead)
    <3>1. Cardinality(MappedTo(dancer, 1..n, ahead)) = Cardinality(ahead)
      BY <1>10, <2>2, SameSize
    <3>2. QED
      BY <2>2, <3>1
  <2>4. RankOfRow(rows) = [i \in 1..n |-> 1 + Cardinality({l \in 1..n : rows[l].score > rows[i].score})]
    BY <1>1, <1>6, Walk
  <2>5. RankOfRow(rows)[k] = 1 + Cardinality(higher)
    BY <2>4 DEF higher
  <2>6. QED
    BY <2>3, <2>5 DEF Rank, ahead
<1>12. QED
  BY <1>6, <1>10, <1>11 DEF dancer, rows, order, n

\* ScoringService computes the ranking Scoring states, and its winner.
LEMMA RankingComputed ==
    ASSUME NEW D, IsFiniteSet(D), NEW b, NEW w, \A d \in D : Score(b, w, d) \in Nat
    PROVE  LET computed == Computed(SetToSeq(D), b, w)
           IN  /\ \A d \in D : computed.ranks[d] = Rank(D, b, w, d)
               /\ computed.winner = Winner(D, b, w)
<1> DEFINE n == Cardinality(D)
           order == SetToSeq(D)
           rows == Rows(order, b, w)
           rank == RankOfRow(rows)
           dancer == [k \in 1..n |-> rows[k].dancer]
           leaders == {k \in 1..n : rank[k] = 1}
<1>1. /\ DOMAIN rows = 1..n
      /\ dancer \in Bijection(1..n, D)
      /\ \A k \in 1..n : rank[k] = Rank(D, b, w, rows[k].dancer)
  BY RankedRows
<1>2. ToSet(order) = D
  <2>1. order \in Surjection(1..n, D)
    BY Enumerated DEF Bijection
  <2> HIDE DEF order, n
  <2>2. QED
    BY <2>1 DEF Surjection, ToSet
<1>3. Computed(order, b, w) =
        [ranks  |-> [d \in D |-> rank[CHOOSE k \in 1..n : rows[k].dancer = d]],
         winner |-> IF Cardinality(leaders) = 1
                    THEN rows[CHOOSE k \in leaders : TRUE].dancer
                    ELSE NoPlayer]
  BY <1>1, <1>2 DEF Computed
<1>4. \A k \in 1..n : dancer[k] = rows[k].dancer
  OBVIOUS
<1> HIDE DEF rows, rank, dancer, order, n
<1>5. /\ dancer \in [1..n -> D]
      /\ \A d \in D : \E k \in 1..n : dancer[k] = d
      /\ \A k, l \in 1..n : dancer[k] = dancer[l] => k = l
  BY <1>1 DEF Bijection, Injection, Surjection, IsInjective
<1>6. ASSUME NEW d \in D PROVE rank[CHOOSE k \in 1..n : rows[k].dancer = d] = Rank(D, b, w, d)
  BY <1>1, <1>4, <1>5
<1>7. leaders \in SUBSET (1..n) /\ Leaders(D, b, w) \in SUBSET D
  BY DEF Leaders
<1>8. \A k \in 1..n : k \in leaders <=> dancer[k] \in Leaders(D, b, w)
  BY <1>1, <1>4, <1>5 DEF Leaders
<1> HIDE DEF leaders
<1>9. Cardinality(leaders) = Cardinality(Leaders(D, b, w))
  <2>1. leaders = MappedTo(dancer, 1..n, Leaders(D, b, w))
    BY <1>7, <1>8 DEF MappedTo
  <2>2. Cardinality(MappedTo(dancer, 1..n, Leaders(D, b, w))) = Cardinality(Leaders(D, b, w))
    BY <1>1, <1>7, SameSize
  <2>3. QED
    BY <2>1, <2>2
<1>10. IsFiniteSet(Leaders(D, b, w))
  BY <1>7, FS_Subset
<1>11. (IF Cardinality(leaders) = 1 THEN rows[CHOOSE k \in leaders : TRUE].dancer ELSE NoPlayer)
         = Winner(D, b, w)
  <2>1. CASE Cardinality(leaders) = 1
    <3>1. PICK d : Leaders(D, b, w) = {d}
      BY <1>9, <1>10, <2>1, FS_Singleton
    <3>2. leaders # {}
      BY <1>5, <1>7, <1>8, <3>1
    <3>3. PICK k \in leaders : k = CHOOSE l \in leaders : TRUE
      BY <3>2
    <3>4. rows[k].dancer = d
      BY <1>4, <1>7, <1>8, <3>1, <3>3
    <3>5. Winner(D, b, w) = d
      BY <3>1 DEF Winner
    <3>6. QED
      BY <2>1, <3>3, <3>4, <3>5
  <2>2. CASE Cardinality(leaders) # 1
    <3>1. ~ \E d : Leaders(D, b, w) = {d}
      BY <1>9, <2>2, FS_Singleton
    <3>2. Winner(D, b, w) = NoPlayer
      BY <3>1 DEF Winner
    <3>3. QED
      BY <2>2, <3>2
  <2>3. QED
    BY <2>1, <2>2
<1>12. QED
  BY <1>3, <1>6, <1>11 DEF order

\* Only a finished battle has a result: until then the payloads show the live ranking.
ResultWhenOver == status # "finished" => result = NoResult

LEMMA ResultWhenOverStep ==
    ASSUME ResultWhenOver, [ChannelNext]_allVars
    PROVE  ResultWhenOver'
<1>1. [Next]_vars
  BY ChannelRefines
<1>2. CASE UNCHANGED <<status, result>>
  BY <1>2 DEF ResultWhenOver
<1>3. ASSUME NEW p \in Players, Leave(p) PROVE ResultWhenOver'
  <2>1. CASE DeleteRoom
    BY <2>1 DEF DeleteRoom, ClearBattle, ResultWhenOver
  <2>2. CASE SettleBattleAfterLeave(p)
    BY <2>2 DEF SettleBattleAfterLeave, FinishBattle, battleVars, ResultWhenOver
  <2>3. QED
    BY <1>3, <2>1, <2>2 DEF Leave
<1>4. CASE FinishAtDeadline
  BY <1>4 DEF FinishAtDeadline, FinishBattle, ResultWhenOver
<1>5. ASSUME NEW p \in Players, Rematch(p) PROVE ResultWhenOver'
  BY <1>5 DEF Rematch, ClearBattle, ResultWhenOver
<1>6. CASE \E p \in Players, s \in Songs : ChooseSong(p, s)
  BY <1>2, <1>6 DEF ChooseSong, ChooseAndStart, BattleStarts, ResultWhenOver, battleVars
<1>7. CASE \E s \in Songs : AutoPick(s)
  BY <1>2, <1>7 DEF AutoPick, ChooseAndStart, BattleStarts, ResultWhenOver, battleVars
<1>8. CASE \E p \in Players, chosen \in SUBSET Players : StartBattle(p, chosen)
  BY <1>8 DEF StartBattle, BattleStarts, ResultWhenOver
<1>9. CASE UNCHANGED vars
  BY <1>2, <1>9 DEF vars, battleVars
<1>10. QED
  BY <1>1, <1>2, <1>3, <1>4, <1>5, <1>6, <1>7, <1>8, <1>9 DEF Next, Kick, CreateRoom, Join, SelectRole,
     SetReady, StartSongChallenge, SubmitSongPhrase, ExpireChallenge, CastVote, AwardWordBonus, Tick,
     battleVars

\* Every payload's ranks and winner are those of a competition ranking of the
\* dancers left in the battle: the sort and the walk of ScoringService compute
\* it from the votes and the bonus, and once the battle is over the frozen result
\* still equals it.
THEOREM RankingAsPromisedSafe == ChannelSpec => []RankingAsPromised
<1>1. RoomInv /\ ResultWhenOver => RankingAsPromised
  <2> SUFFICES ASSUME RoomInv, ResultWhenOver, status # "waiting"
               PROVE  /\ \A d \in contenders :
                            RanksShown[d] = BattleResult(contenders, votes, words).standings[d].rank
                      /\ LiveResult.winner = BattleResult(contenders, votes, words).winner
    BY DEF RankingAsPromised
  <2>1. /\ contenders \in SUBSET Players /\ words \in [Players -> Nat]
        /\ votes \in [Players -> Players \cup {NoPlayer}]
    BY DEF RoomInv, TypeOK, BattleType
  <2>2. IsFiniteSet(contenders)
    BY <2>1, RoomAssumption, FS_Subset
  <2>3. \A d \in contenders : Score(votes, words, d) \in Nat
    BY <2>1, ScoreType
  <2>4. /\ \A d \in contenders : LiveResult.ranks[d] = Rank(contenders, votes, words, d)
        /\ LiveResult.winner = Winner(contenders, votes, words)
    BY <2>2, <2>3, RankingComputed DEF LiveResult
  <2>5. /\ BattleResult(contenders, votes, words).winner = Winner(contenders, votes, words)
        /\ DOMAIN BattleResult(contenders, votes, words).standings = contenders
        /\ \A d \in contenders :
              BattleResult(contenders, votes, words).standings[d].rank = Rank(contenders, votes, words, d)
    BY DEF BattleResult
  <2>6. result = NoResult \/ result = BattleResult(contenders, votes, words)
    BY DEF RoomInv, ResultFrozen, ResultWhenOver
  <2>7. QED
    BY <2>4, <2>5, <2>6 DEF RanksShown
<1>2. ChannelInit => ResultWhenOver
  BY DEF ChannelInit, Init, ResultWhenOver
<1>3. QED
  BY <1>1, <1>2, ResultWhenOverStep, ChannelRoomSafe, PTL DEF ChannelSpec
=============================================================================
