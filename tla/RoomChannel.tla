---------------------------- MODULE RoomChannel ----------------------------
(***************************************************************************)
(* What leaves the room: the private vote:mine messages, the ranking every *)
(* payload carries and the match record of a finished battle.  Each step   *)
(* of Room is taken together with what its use case reports and its        *)
(* handler emits (socketHandlers); Room itself is left as it is.           *)
(* `attendance` is a history variable: it is what the record should say.   *)
(***************************************************************************)
EXTENDS Room, Standings

VARIABLES
    told,        \* the vote each player's page shows: its last vote:mine
    record,      \* the match record sent for the room's battle
    attendance   \* who was there when the battle began, and left before its end

channelVars == <<told, record, attendance>>
allVars == <<vars, channelVars>>

NoRecord == [participants |-> [p \in {} |-> 0], winner |-> NoPlayer]
NobodyCame == [p \in Players |-> "absent"]

ChannelInit ==
    /\ Init
    /\ told = NoVotes
    /\ record = NoRecord
    /\ attendance = NobodyCame

-----------------------------------------------------------------------------
\* The match record (MatchRecordService).  `rank` 0 stands for null.

DancerRecord(p) ==
    LET ranked == p \in DOMAIN result.standings
    IN  [role |-> "dancer",
         rank |-> IF ranked THEN result.standings[p].rank ELSE 0,
         words |-> IF ranked THEN result.standings[p].words ELSE words[p],
         leftEarly |-> p \notin contenders]

SpectatorRecord(p) ==
    [role |-> "spectator", rank |-> 0, words |-> 0, leftEarly |-> p \notin Seated]

FromFinishedRoom ==
    [participants |-> [p \in roster \cup audience |->
                          IF p \in roster THEN DancerRecord(p) ELSE SpectatorRecord(p)],
     winner |-> result.winner]

\* Fault: whether the battle is over, not whether this step ended it.
BattleFinished_Already == status' = "finished"

\* Only the update that finished the battle reports it.
BattleFinished == status = "battling" /\ status' = "finished"

AnnounceBattleFinished ==
    record' = IF BattleFinished THEN FromFinishedRoom' ELSE record

\* The ranks every payload shows (toBattleDto): the frozen ones, live ones before.
LiveResult == Computed(SetToSeq(contenders), votes, words)
RanksShown ==
    IF result = NoResult THEN LiveResult.ranks
    ELSE [d \in DOMAIN result.standings |-> result.standings[d].rank]

-----------------------------------------------------------------------------
\* Steps that emit nothing private.
Silent ==
    /\ \/ \E p \in Players : CreateRoom(p) \/ Join(p) \/ StartSongChallenge(p) \/ AwardWordBonus(p)
       \/ \E p \in Players, r \in {"dancer", "spectator"} : SelectRole(p, r)
       \/ \E p \in Players, b \in BOOLEAN : SetReady(p, b) \/ SubmitSongPhrase(p, b)
       \/ ExpireChallenge
       \/ Tick
    /\ UNCHANGED channelVars

\* The host's start or the chosen song.
Begins ==
    /\ \/ \E p \in Players, s \in Songs : ChooseSong(p, s)
       \/ \E s \in Songs : AutoPick(s)
       \/ \E p \in Players, chosen \in SUBSET Players : StartBattle(p, chosen)
    /\ attendance' = IF status' = "battling"
                     THEN [p \in Players |-> IF p \in Seated THEN "stayed" ELSE "absent"]
                     ELSE attendance
    /\ UNCHANGED <<told, record>>

\* The voter is told the stored vote, also when it did not change.
Votes(voter, choice) ==
    /\ CastVote(voter, choice)
    /\ told' = [told EXCEPT ![voter] = votes'[voter]]
    /\ UNCHANGED <<record, attendance>>

Ends ==
    /\ FinishAtDeadline
    /\ AnnounceBattleFinished
    /\ UNCHANGED <<told, attendance>>

\* Fault: a departure that ends the battle reports no discarded vote.
DiscardedVoters_Running(p) ==
    {v \in Players \ {p} : status' = "battling" /\ votes[v] # NoPlayer /\ votes'[v] = NoPlayer}

\* Those still in the room whose vote went with the dancer who left.
DiscardedVoters(p) == {v \in Players \ {p} : votes[v] # NoPlayer /\ votes'[v] = NoPlayer}

\* The leaver's tabs are cut off and show nothing; a deleted room has no battle.
AnnounceLeave(p) ==
    /\ told' = [q \in Players |-> IF q \in DiscardedVoters(p) \cup {p} THEN NoPlayer ELSE told[q]]
    /\ \/ players' = <<>> /\ record' = NoRecord /\ attendance' = NobodyCame
       \/ /\ players' # <<>>
          /\ AnnounceBattleFinished
          /\ attendance' = IF status = "battling" THEN [attendance EXCEPT ![p] = "left"]
                           ELSE attendance

Departs(p) ==
    /\ Leave(p) \/ \E requester \in Players : Kick(requester, p)
    /\ AnnounceLeave(p)

\* Those still in the room who had a vote in the battle just cleared.
ClearedVoters == {v \in Players : votes[v] # NoPlayer /\ v \in Seated'}

Rematches(requester) ==
    /\ Rematch(requester)
    /\ told' = [p \in Players |-> IF p \in ClearedVoters THEN NoPlayer ELSE told[p]]
    /\ record' = NoRecord
    /\ attendance' = NobodyCame

\* A reloaded page knows nothing until room:join (idempotent for who is seated)
\* sends a spectator their vote again.
Rejoins(p) ==
    /\ p \in Seated
    /\ told' = [told EXCEPT ![p] = IF status # "waiting" /\ p \in spectators THEN votes[p] ELSE NoPlayer]
    /\ UNCHANGED <<vars, record, attendance>>

ChannelNext ==
    \/ Silent
    \/ Begins
    \/ \E p \in Players, choice \in Players \cup {NoPlayer} : Votes(p, choice)
    \/ Ends
    \/ \E p \in Players : Departs(p) \/ Rematches(p) \/ Rejoins(p)

ChannelSpec == ChannelInit /\ [][ChannelNext]_allVars

-----------------------------------------------------------------------------
\* Properties.

\* Who voted for whom never leaves the server but through vote:mine, so a page
\* knows its player's vote only from those messages (votes cast, discarded with
\* a dancer, cleared by a rematch, sent again to a page that rejoins).  Whatever
\* happened, the page of a seated player shows exactly the stored vote.
VoteTold == \A p \in Players : told[p] = IF p \in Seated THEN votes[p] ELSE NoPlayer

\* The record accounts for the battle: everybody who was in the room when it
\* began appears once, leftEarly marks exactly who left before its end, only
\* dancers who stayed are ranked, and the winner is the one with rank 1.
\* Departures after the end change none of it.
RecordAccounts ==
    status = "finished" =>
        LET list == record.participants
        IN  /\ DOMAIN list = {p \in Players : attendance[p] # "absent"}
            /\ \A p \in DOMAIN list :
                  /\ list[p].leftEarly <=> attendance[p] = "left"
                  /\ list[p].rank # 0 <=> list[p].role = "dancer" /\ attendance[p] = "stayed"
            /\ record.winner # NoPlayer =>
                  {p \in DOMAIN list : list[p].rank = 1} = {record.winner}

\* The sort and the walk of ScoringService give every dancer left the rank of a
\* competition ranking (ties share it, 1, 1, 3), and the winner that ranking has;
\* once the battle is over everybody goes on being shown that ranking.
RankingAsPromised ==
    status # "waiting" =>
        LET promised == BattleResult(contenders, votes, words)
        IN  /\ \A d \in contenders : RanksShown[d] = promised.standings[d].rank
            /\ LiveResult.winner = promised.winner
=============================================================================
