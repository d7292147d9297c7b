---------------------------- MODULE Room_proofs ----------------------------
(***************************************************************************)
(* Theorems about Room, for every value of its constants.                  *)
(***************************************************************************)
EXTENDS Room, FiniteSetTheorems, TLAPS

\* Dropping a seated player keeps the others in order (RoomService.leave's
\* filter).
LEMMA WithoutSeq ==
    ASSUME NEW s \in Seq(Players), NEW p \in ToSet(s),
           \A i, j \in DOMAIN s : s[i] = s[j] => i = j
    PROVE  /\ Without(s, p) \in Seq(Players)
           /\ Len(Without(s, p)) = Len(s) - 1
           /\ ToSet(Without(s, p)) = ToSet(s) \ {p}
           /\ \A i, j \in DOMAIN Without(s, p) : Without(s, p)[i] = Without(s, p)[j] => i = j
           /\ Len(s) > 1 => Without(s, p)[1] = IF s[1] = p THEN s[2] ELSE s[1]
<1> DEFINE k == CHOOSE i \in DOMAIN s : s[i] = p
           t == Without(s, p)
<1>1. k \in 1..Len(s) /\ s[k] = p
  BY DEF ToSet
<1>2. t = SubSeq(s, 1, k - 1) \o SubSeq(s, k + 1, Len(s))
  BY DEF Without, RemoveAt
<1> HIDE DEF k, t
<1>3. /\ t \in Seq(Players)
      /\ Len(t) = Len(s) - 1
      /\ \A i \in 1..Len(t) : t[i] = IF i < k THEN s[i] ELSE s[i+1]
  <2> DEFINE a == SubSeq(s, 1, k - 1)
             b == SubSeq(s, k + 1, Len(s))
  <2>1. a \in Seq(Players) /\ Len(a) = k - 1 /\ \A i \in 1..k-1 : a[i] = s[i]
    BY <1>1
  <2>2. b \in Seq(Players) /\ Len(b) = Len(s) - k /\ \A i \in 1..Len(s) - k : b[i] = s[k + i]
    BY <1>1
  <2> HIDE DEF a, b
  <2>3. t = a \o b
    BY <1>2 DEF a, b
  <2>4. t \in Seq(Players) /\ Len(t) = Len(s) - 1
    BY <1>1, <2>1, <2>2, <2>3
  <2>5. ASSUME NEW i \in 1..Len(t) PROVE t[i] = IF i < k THEN s[i] ELSE s[i+1]
    <3>1. CASE i < k
      BY <1>1, <2>1, <2>2, <2>3, <2>4, <3>1
    <3>2. CASE i >= k
      <4>1. i - (k - 1) \in 1..Len(s) - k /\ t[i] = b[i - (k - 1)]
        BY <1>1, <2>1, <2>2, <2>3, <2>4, <3>2
      <4>2. QED
        BY <1>1, <2>2, <2>4, <3>2, <4>1
    <3>3. QED
      BY <1>1, <2>4, <3>1, <3>2
  <2>6. QED
    BY <2>4, <2>5
<1> DEFINE from(i) == IF i < k THEN i ELSE i + 1
<1>8. ASSUME NEW i \in DOMAIN t
      PROVE  from(i) \in DOMAIN s /\ from(i) # k /\ t[i] = s[from(i)]
  <2>1. i \in 1..Len(t) /\ DOMAIN s = 1..Len(s)
    BY <1>3
  <2>2. CASE i < k
    BY <1>1, <1>3, <2>1, <2>2
  <2>3. CASE i >= k
    BY <1>1, <1>3, <2>1, <2>3
  <2>4. QED
    BY <1>1, <2>1, <2>2, <2>3
<1>4. ToSet(t) = ToSet(s) \ {p}
  <2>1. ASSUME NEW i \in 1..Len(t) PROVE t[i] \in ToSet(s) \ {p}
    <3>1. i \in DOMAIN t /\ k \in DOMAIN s
      BY <1>1, <1>3
    <3>2. from(i) \in DOMAIN s /\ from(i) # k /\ t[i] = s[from(i)]
      BY <1>8, <3>1
    <3> HIDE DEF from
    <3>3. QED
      BY <1>1, <3>1, <3>2 DEF ToSet
  <2>2. ASSUME NEW i \in 1..Len(s), i # k PROVE s[i] \in ToSet(t)
    <3>1. CASE i < k
      <4>1. i \in DOMAIN t /\ t[i] = s[i]
        BY <1>1, <1>3, <3>1
      <4>2. QED
        BY <4>1 DEF ToSet
    <3>2. CASE i > k
      <4>1. i - 1 \in DOMAIN t /\ t[i - 1] = s[i]
        BY <1>1, <1>3, <3>2
      <4>2. QED
        BY <4>1 DEF ToSet
    <3>3. QED
      BY <1>1, <2>2, <3>1, <3>2
  <2>3. DOMAIN s = 1..Len(s) /\ DOMAIN t = 1..Len(t)
    BY <1>3
  <2>4. QED
    BY <1>1, <2>1, <2>2, <2>3 DEF ToSet
<1>5. \A i, j \in DOMAIN t : t[i] = t[j] => i = j
  <2> SUFFICES ASSUME NEW i \in DOMAIN t, NEW j \in DOMAIN t, t[i] = t[j] PROVE i = j
    OBVIOUS
  <2>1. from(i) = from(j)
    <3>1. /\ from(i) \in DOMAIN s /\ t[i] = s[from(i)]
          /\ from(j) \in DOMAIN s /\ t[j] = s[from(j)]
      BY <1>8
    <3> HIDE DEF from
    <3>2. QED
      BY <3>1
  <2>2. i \in Nat /\ j \in Nat /\ k \in Nat
    BY <1>1, <1>3
  <2>3. QED
    BY <2>1, <2>2
<1>6. Len(s) > 1 => t[1] = IF s[1] = p THEN s[2] ELSE s[1]
  BY <1>1, <1>3
<1>7. QED
  BY <1>3, <1>4, <1>5, <1>6 DEF t

-----------------------------------------------------------------------------
\* ScoringService: the result of a battle is well formed, and its winner is one
\* of the dancers it ranks.
LEMMA ScoreType ==
    ASSUME NEW b \in [Players -> Players \cup {NoPlayer}], NEW w \in [Players -> Nat],
           NEW d \in Players
    PROVE  VoteCount(b, d) \in Nat /\ Score(b, w, d) \in Nat
<1>1. IsFiniteSet({v \in DOMAIN b : b[v] = d})
  BY RoomAssumption, FS_Subset
<1>2. VoteCount(b, d) \in Nat
  BY <1>1, FS_CardinalityType DEF VoteCount
<1>3. VotePoints * VoteCount(b, d) \in Nat /\ WordBonusPoints * w[d] \in Nat
  BY <1>2, PointsAssumption
<1>4. QED
  BY <1>2, <1>3 DEF Score

LEMMA ResultType ==
    ASSUME NEW D \in SUBSET Players, NEW b \in [Players -> Players \cup {NoPlayer}],
           NEW w \in [Players -> Nat]
    PROVE  /\ IsResult(BattleResult(D, b, w))
           /\ DOMAIN BattleResult(D, b, w).standings = D
<1> DEFINE r == BattleResult(D, b, w)
<1>1. \A d \in D : Rank(D, b, w, d) \in Nat \ {0}
  <2> SUFFICES ASSUME NEW d \in D PROVE Rank(D, b, w, d) \in Nat \ {0}
    OBVIOUS
  <2>1. IsFiniteSet(Ahead(D, b, w, d))
    BY RoomAssumption, FS_Subset DEF Ahead
  <2>2. QED
    BY <2>1, FS_CardinalityType DEF Rank
<1>2. \A d \in D : VoteCount(b, d) \in Nat /\ Score(b, w, d) \in Nat /\ w[d] \in Nat
  BY ScoreType
<1>3. r.standings \in [D -> Standing]
  BY <1>1, <1>2 DEF BattleResult, Standing
<1>4. Winner(D, b, w) \in D \cup {NoPlayer}
  BY DEF Winner, Leaders
<1>5. r.winner = Winner(D, b, w) /\ DOMAIN r.standings = D
  BY DEF BattleResult
<1>6. QED
  BY <1>3, <1>4, <1>5 DEF IsResult

LEMMA NoResultType == IsResult(NoResult)
BY DEF IsResult, NoResult

-----------------------------------------------------------------------------
\* Seats.  RoomService.leave removes exactly one player and hands the room to
\* the player seated longest.
LEMMA UnseatSeats ==
    ASSUME TypeOK, HostIsEarliest, NEW p \in Seated, Len(players) > 1, Unseat(p)
    PROVE  /\ players' \in Seq(Players)
           /\ players' # <<>>
           /\ Seated' = Seated \ {p}
           /\ host' \in Players
           /\ HostIsEarliest'
<1>1. players \in Seq(Players) /\ \A i, j \in DOMAIN players : players[i] = players[j] => i = j
  BY DEF TypeOK, SeatsType, HostIsEarliest
<1>2. /\ players' \in Seq(Players)
      /\ Len(players') = Len(players) - 1
      /\ Seated' = Seated \ {p}
      /\ \A i, j \in DOMAIN players' : players'[i] = players'[j] => i = j
      /\ players'[1] = IF players[1] = p THEN players[2] ELSE players[1]
  BY <1>1, WithoutSeq DEF Unseat, Seated
<1>3. host = players[1] /\ players # <<>>
  BY <1>1 DEF HostIsEarliest
<1>4. host' = players'[1]
  BY <1>2, <1>3 DEF Unseat, Heir
<1>5. players' # <<>> /\ players'[1] \in Players
  BY <1>1, <1>2
<1>6. QED
  BY <1>2, <1>4, <1>5 DEF HostIsEarliest

-----------------------------------------------------------------------------
\* Types.

LEMMA FallbackType ==
    ASSUME SelectionType, NEW present \in SUBSET Players, NEW failedNow \in SUBSET Players,
           NEW why \in {"timeout", "all-failed", "chooser-left"},
           AssignFallbackChooser(present, why, failedNow), song' \in Songs \cup {NoSong}
    PROVE  SelectionType'
BY DEF SelectionType, AssignFallbackChooser, Choosing, ClearSelection

LEMMA BattleStartsType ==
    ASSUME TypeOK, NEW chosen \in SUBSET Seated, BattleStarts(chosen)
    PROVE  SeatsType' /\ BattleType' /\ clock' \in {"countdown", "running"}
<1>1. Seated \subseteq Players
  BY DEF TypeOK, SeatsType, Seated, ToSet
<1>2. Seated' = Seated
  BY DEF BattleStarts, Seated
<1>3. SeatsType'
  BY <1>1, <1>2 DEF TypeOK, SeatsType, BattleStarts, Roles
<1>4. BattleType'
  BY <1>1, NoResultType DEF TypeOK, BattleType, BattleStarts, NoVotes, NoWords, Watching
<1>5. QED
  BY <1>3, <1>4 DEF BattleStarts

LEMMA ChooseAndStartType ==
    ASSUME TypeOK, NEW s \in Songs, ChooseAndStart(s)
    PROVE  TypeOK'
<1>1. CASE BattleStarts(DancersByRole)
  <2>1. DancersByRole \subseteq Seated
    BY DEF DancersByRole
  <2>2. SeatsType' /\ BattleType' /\ clock' \in {"countdown", "running"}
    BY <1>1, <2>1, BattleStartsType
  <2>3. QED
    BY <2>2 DEF ChooseAndStart, SongChosen, TypeOK, SelectionType
<1>2. CASE clock' = "idle" /\ UNCHANGED <<seatVars, listVars, status, battleVars, lastResult>>
  <2>1. SeatsType' /\ BattleType'
    BY <1>2 DEF TypeOK, SeatsType, BattleType, Seated, seatVars, listVars, battleVars
  <2>2. QED
    BY <1>2, <2>1 DEF ChooseAndStart, SongChosen, TypeOK, SelectionType
<1>3. QED
  BY <1>1, <1>2 DEF ChooseAndStart

LEMMA SettleType ==
    ASSUME TypeOK, NEW p \in Players, SettleBattleAfterLeave(p)
    PROVE  BattleType'
<1>1. CASE UNCHANGED <<status, battleVars, lastResult>>
  BY <1>1 DEF TypeOK, BattleType, battleVars
<1>2. CASE /\ contenders' = contenders \ {p}
           /\ votes' = VotesWithout(p)
           /\ UNCHANGED <<roster, audience, words>>
           /\ \/ FinishBattle("not-enough-dancers", contenders', votes')
              \/ UNCHANGED <<status, endReason, result, lastResult>>
  <2>1. contenders' \subseteq Players /\ votes' \in [Players -> Players \cup {NoPlayer}]
    BY <1>2 DEF TypeOK, BattleType, VotesWithout
  <2>2. IsResult(BattleResult(contenders', votes', words))
    BY <2>1, ResultType DEF TypeOK, BattleType
  <2>3. QED
    BY <1>2, <2>1, <2>2 DEF TypeOK, BattleType, FinishBattle
<1>3. QED
  BY <1>1, <1>2 DEF SettleBattleAfterLeave, Unsettled

LEMMA LeaveType ==
    ASSUME TypeOK, HostIsEarliest, NEW p \in Players, Leave(p)
    PROVE  TypeOK' /\ HostIsEarliest'
<1>1. CASE DeleteRoom
  <2>1. SeatsType' /\ HostIsEarliest'
    BY <1>1 DEF DeleteRoom, TypeOK, SeatsType, HostIsEarliest, NobodyUndecided, Roles
  <2>2. SelectionType'
    BY <1>1 DEF DeleteRoom, ClearSelection, TypeOK, SelectionType
  <2>3. BattleType'
    BY <1>1, NoResultType DEF DeleteRoom, ClearBattle, TypeOK, BattleType, NoVotes, NoWords
  <2>4. QED
    BY <2>1, <2>2, <2>3 DEF TypeOK
<1>2. CASE Len(players) > 1 /\ Unseat(p) /\ SettleBattleAfterLeave(p) /\ HandlePlayerLeft(p)
  <2>1. p \in Seated
    BY DEF Leave
  <2>2. /\ players' \in Seq(Players)
        /\ Seated' = Seated \ {p}
        /\ host' \in Players
        /\ HostIsEarliest'
    BY <1>2, <2>1, UnseatSeats
  <2>3. SeatsType'
    BY <1>2, <2>2 DEF Unseat, TypeOK, SeatsType, Roles
  <2>4. BattleType'
    BY <1>2, SettleType
  <2>5. SelectionType'
    <3>1. CASE /\ AssignFallbackChooser((participants \cap Seated) \ {p}, "chooser-left", failed)
               /\ UNCHANGED song
      BY <3>1, FallbackType DEF TypeOK, SelectionType
    <3>2. CASE UNCHANGED selectionVars /\ clock' \in {"idle", clock}
      BY <3>2 DEF TypeOK, SelectionType, selectionVars
    <3>3. QED
      BY <1>2, <3>1, <3>2 DEF HandlePlayerLeft
  <2>6. QED
    BY <2>2, <2>3, <2>4, <2>5 DEF TypeOK
<1>3. QED
  BY <1>1, <1>2 DEF Leave

LEMMA SubmitType ==
    ASSUME TypeOK, NEW p \in Players, NEW exact \in BOOLEAN, SubmitSongPhrase(p, exact)
    PROVE  SelectionType'
<1> DEFINE present == participants \cap Seated
           failedNow == failed \cup {p}
<1>1. present \subseteq Players /\ failedNow \subseteq Players /\ failed \subseteq Players
      /\ SelectionType /\ song' \in Songs \cup {NoSong}
  BY DEF TypeOK, SelectionType, SubmitSongPhrase
<1>2. CASE AssignFallbackChooser(present, "timeout", failed)
  BY <1>1, <1>2, FallbackType
<1>3. CASE AssignFallbackChooser(present, "all-failed", failedNow)
  BY <1>1, <1>3, FallbackType
<1>4. CASE Choosing(p, "typed", failed)
  BY <1>1, <1>4 DEF Choosing, SelectionType
<1>5. CASE failed' = failedNow /\ UNCHANGED <<phase, participants, chooser, reason, clock>>
  BY <1>1, <1>5 DEF SelectionType
<1>6. QED
  BY <1>2, <1>3, <1>4, <1>5 DEF SubmitSongPhrase

\* The seats and the types together are inductive: dropping a player from the
\* list needs to know that nobody is seated twice.
LEMMA TypeStep ==
    ASSUME TypeOK, HostIsEarliest, [Next]_vars
    PROVE  TypeOK' /\ HostIsEarliest'
<1>1. ASSUME NEW p \in Players, CreateRoom(p) PROVE TypeOK' /\ HostIsEarliest'
  <2>1. players' = <<p>> /\ Seated = {} /\ Seated' = {p}
    BY <1>1 DEF CreateRoom, Seated, ToSet
  <2>2. SeatsType' /\ HostIsEarliest'
    BY <1>1, <2>1 DEF CreateRoom, TypeOK, SeatsType, HostIsEarliest, listVars
  <2>3. QED
    BY <1>1, <2>2 DEF CreateRoom, TypeOK, SelectionType, BattleType, selectionVars, battleVars
<1>2. ASSUME NEW p \in Players, Join(p) PROVE TypeOK' /\ HostIsEarliest'
  <2>1. players \in Seq(Players) /\ players' = Append(players, p) /\ p \notin Seated
    BY <1>2 DEF Join, TypeOK, SeatsType
  <2>2. Seated' = Seated \cup {p}
    BY <2>1 DEF Seated, ToSet
  <2>3. SeatsType'
    BY <1>2, <2>1, <2>2 DEF Join, TypeOK, SeatsType, listVars
  <2>4. HostIsEarliest'
    BY <1>2, <2>1 DEF Join, HostIsEarliest, Seated, ToSet
  <2>5. QED
    BY <1>2, <2>3, <2>4 DEF Join, TypeOK, SelectionType, BattleType, selectionVars, battleVars
<1>3. ASSUME NEW p \in Players, NEW r \in {"dancer", "spectator"}, SelectRole(p, r)
      PROVE  TypeOK' /\ HostIsEarliest'
  <2>1. SeatsType' /\ HostIsEarliest'
    BY <1>3 DEF SelectRole, TypeOK, SeatsType, HostIsEarliest, Seated, ToSet, Spectating, Roles
  <2>2. QED
    BY <1>3, <2>1 DEF SelectRole, TypeOK, SelectionType, BattleType, selectionVars, battleVars
<1>4. ASSUME NEW p \in Players, NEW value \in BOOLEAN, SetReady(p, value)
      PROVE  TypeOK' /\ HostIsEarliest'
  <2>1. SeatsType' /\ HostIsEarliest'
    BY <1>4 DEF SetReady, TypeOK, SeatsType, HostIsEarliest, Seated, ToSet, Spectating
  <2>2. QED
    BY <1>4, <2>1 DEF SetReady, TypeOK, SelectionType, BattleType, selectionVars, battleVars
<1>5. ASSUME NEW p \in Players, Leave(p) PROVE TypeOK' /\ HostIsEarliest'
  BY <1>5, LeaveType
<1>6. ASSUME NEW p \in Players, NEW q \in Players, Kick(p, q) PROVE TypeOK' /\ HostIsEarliest'
  BY <1>6, LeaveType DEF Kick
<1>7. ASSUME NEW p \in Players, StartSongChallenge(p) PROVE TypeOK' /\ HostIsEarliest'
  <2>1. SelectionType'
    BY <1>7 DEF StartSongChallenge, TypeOK, SelectionType, SeatsType, Seated, ToSet
  <2>2. QED
    BY <1>7, <2>1 DEF StartSongChallenge, TypeOK, SeatsType, BattleType, HostIsEarliest, Seated,
                      seatVars, listVars, battleVars
<1>8. ASSUME NEW p \in Players, NEW exact \in BOOLEAN, SubmitSongPhrase(p, exact)
      PROVE  TypeOK' /\ HostIsEarliest'
  <2>1. SelectionType'
    BY <1>8, SubmitType
  <2>2. QED
    BY <1>8, <2>1 DEF SubmitSongPhrase, TypeOK, SeatsType, BattleType, HostIsEarliest, Seated,
                      seatVars, listVars, battleVars
<1>9. ASSUME ExpireChallenge PROVE TypeOK' /\ HostIsEarliest'
  <2>1. SelectionType'
    BY <1>9, FallbackType DEF ExpireChallenge, TypeOK, SelectionType
  <2>2. QED
    BY <1>9, <2>1 DEF ExpireChallenge, TypeOK, SeatsType, BattleType, HostIsEarliest, Seated,
                      seatVars, listVars, battleVars
<1>10. ASSUME NEW s \in Songs, ChooseAndStart(s) PROVE TypeOK' /\ HostIsEarliest'
  <2>1. UNCHANGED <<players, host>>
    BY <1>10 DEF ChooseAndStart, BattleStarts, seatVars
  <2>2. QED
    BY <1>10, <2>1, ChooseAndStartType DEF HostIsEarliest
<1>11. ASSUME NEW p \in Players, NEW chosen \in SUBSET Players, StartBattle(p, chosen)
       PROVE  TypeOK' /\ HostIsEarliest'
  <2>1. SeatsType' /\ BattleType' /\ clock' \in {"countdown", "running"}
    BY <1>11, BattleStartsType DEF StartBattle
  <2>2. QED
    BY <1>11, <2>1 DEF StartBattle, BattleStarts, TypeOK, SelectionType, HostIsEarliest, selectionVars
<1>12. ASSUME NEW p \in Players, NEW choice \in Players \cup {NoPlayer}, CastVote(p, choice)
       PROVE  TypeOK' /\ HostIsEarliest'
  BY <1>12 DEF CastVote, TypeOK, SeatsType, SelectionType, BattleType, HostIsEarliest, Seated,
               seatVars, listVars, selectionVars
<1>13. ASSUME NEW p \in Players, AwardWordBonus(p) PROVE TypeOK' /\ HostIsEarliest'
  BY <1>13 DEF AwardWordBonus, TypeOK, SeatsType, SelectionType, BattleType, HostIsEarliest, Seated,
               seatVars, listVars, selectionVars
<1>14. ASSUME FinishAtDeadline PROVE TypeOK' /\ HostIsEarliest'
  <2>1. IsResult(BattleResult(contenders, votes, words))
    BY ResultType DEF TypeOK, BattleType
  <2>2. BattleType'
    BY <1>14, <2>1 DEF FinishAtDeadline, SongOver, FinishBattle, TypeOK, BattleType
  <2>3. QED
    BY <1>14, <2>2 DEF FinishAtDeadline, SongOver, TypeOK, SeatsType, SelectionType, HostIsEarliest, Seated,
                       seatVars, listVars, selectionVars
<1>15. ASSUME NEW p \in Players, Rematch(p) PROVE TypeOK' /\ HostIsEarliest'
  <2>1. SeatsType' /\ HostIsEarliest'
    BY <1>15 DEF Rematch, TypeOK, SeatsType, HostIsEarliest, Seated, ToSet, Spectating
  <2>2. BattleType'
    BY <1>15, NoResultType DEF Rematch, ClearBattle, TypeOK, BattleType, NoVotes, NoWords
  <2>3. QED
    BY <1>15, <2>1, <2>2 DEF Rematch, ClearSelection, TypeOK, SelectionType
<1>16. ASSUME Tick PROVE TypeOK' /\ HostIsEarliest'
  BY <1>16 DEF Tick, TypeOK, SeatsType, SelectionType, BattleType, HostIsEarliest, Seated,
               seatVars, listVars, selectionVars, battleVars
<1>17. CASE UNCHANGED vars
  BY <1>17 DEF vars, TypeOK, SeatsType, SelectionType, BattleType, HostIsEarliest, Seated,
               seatVars, listVars, selectionVars, battleVars
<1>18. QED
  BY <1>1, <1>2, <1>3, <1>4, <1>5, <1>6, <1>7, <1>8, <1>9, <1>10, <1>11, <1>12, <1>13, <1>14,
     <1>15, <1>16, <1>17 DEF Next, ChooseSong, AutoPick

LEMMA InitType == Init => TypeOK /\ HostIsEarliest
BY NoResultType DEF Init, TypeOK, SeatsType, SelectionType, BattleType, HostIsEarliest, Seated, ToSet,
                    NobodyUndecided, NoVotes, NoWords, Roles

\* Every field of the stored room keeps its type, and the host is always the
\* player seated longest, for any number of players, songs and dancers.
THEOREM RoomTypes == Spec => [](TypeOK /\ HostIsEarliest)
<1>1. TypeOK /\ HostIsEarliest /\ [Next]_vars => TypeOK' /\ HostIsEarliest'
  BY TypeStep
<1>2. QED
  BY <1>1, InitType, PTL DEF Spec

-----------------------------------------------------------------------------
(***************************************************************************)
(* The safety invariants.  None is inductive alone: that a vote is coherent *)
(* after a departure needs the lists to agree with the seats, that the last *)
(* departure never ends in an empty ranking needs enough dancers before it, *)
(* and all of them need the types and the unique seats.                     *)
(***************************************************************************)
RoomInv ==
    /\ TypeOK
    /\ HostIsEarliest
    /\ ListsAgree
    /\ VotesCoherent
    /\ EnoughDancers
    /\ SnapshotsAccount
    /\ ChooserCanChoose
    /\ OneThingAtATime
    /\ ResultFrozen
    /\ EndReasonTells

\* What the invariants say of the battle and the selection, without the types.
Battling == VotesCoherent /\ EnoughDancers /\ SnapshotsAccount
Deciding == ChooserCanChoose /\ OneThingAtATime
Finished == ResultFrozen /\ EndReasonTells

LEMMA BattleStartsKeeps ==
    ASSUME RoomInv, NEW chosen \in SUBSET Seated, Cardinality(chosen) >= MinDancers,
           BattleStarts(chosen)
    PROVE  ListsAgree' /\ Battling' /\ Finished'
<1>1. Seated' = Seated /\ Seated \subseteq Players
  BY DEF BattleStarts, Seated, RoomInv, TypeOK, SeatsType, ToSet
<1>2. /\ spectators' = Spectating(role', Seated')
      /\ dancers' = DancersByRole'
  BY <1>1 DEF BattleStarts, Spectating, DancersByRole
<1>3. ListsAgree'
  BY <1>1, <1>2 DEF BattleStarts, ListsAgree
<1>4. Battling'
  BY <1>1 DEF BattleStarts, Battling, VotesCoherent, EnoughDancers, SnapshotsAccount, NoVotes, Watching
<1>5. Finished'
  BY DEF BattleStarts, Finished, ResultFrozen, EndReasonTells
<1>6. QED
  BY <1>3, <1>4, <1>5

\* FinishBattle over dancers who are enough, or the departure that leaves too few.
LEMMA RemainingDancers ==
    ASSUME NEW D \in SUBSET Players, Cardinality(D) >= MinDancers, NEW p
    PROVE  D \ {p} # {}
<1>1. IsFiniteSet(D)
  BY RoomAssumption, FS_Subset
<1>2. Cardinality(D) \in Nat
  BY <1>1, FS_CardinalityType
<1>3. CASE p \in D
  <2>1. Cardinality(D \ {p}) = Cardinality(D) - 1
    BY <1>1, <1>3, FS_RemoveElement
  <2>2. Cardinality(D \ {p}) # 0
    BY <1>2, <2>1, RoomAssumption
  <2>3. QED
    BY <2>2, FS_EmptySet
<1>4. CASE p \notin D
  <2>1. D # {}
    BY RoomAssumption, FS_EmptySet
  <2>2. QED
    BY <1>4, <2>1
<1>5. QED
  BY <1>3, <1>4

LEMMA LeaveKeeps ==
    ASSUME RoomInv, NEW p \in Players, Leave(p)
    PROVE  ListsAgree' /\ Battling' /\ Deciding' /\ Finished'
<1>1. CASE DeleteRoom
  BY <1>1 DEF DeleteRoom, ClearSelection, ListsAgree, Battling, VotesCoherent, EnoughDancers,
              SnapshotsAccount, Deciding, ChooserCanChoose, OneThingAtATime, InProgress,
              Finished, ResultFrozen, EndReasonTells, Seated, ToSet, Spectating
<1>2. CASE Len(players) > 1 /\ Unseat(p) /\ SettleBattleAfterLeave(p) /\ HandlePlayerLeft(p)
  <2> DEFINE cast == [v \in Players |-> IF v = p \/ votes[v] = p THEN NoPlayer ELSE votes[v]]
  <2>1. p \in Seated /\ Seated \subseteq Players
    BY DEF Leave, RoomInv, TypeOK, SeatsType, Seated, ToSet
  <2>2. Seated' = Seated \ {p}
    BY <1>2, <2>1, UnseatSeats DEF RoomInv
  <2>3. /\ role' = [role EXCEPT ![p] = "undecided"] /\ role \in [Players -> Roles]
        /\ dancers' = dancers \ {p} /\ spectators' = spectators \ {p}
    BY <1>2 DEF Unseat, RoomInv, TypeOK, SeatsType
  <2>4. spectators' = Spectating(role', Seated') /\ DancersByRole' = DancersByRole \ {p}
    BY <2>1, <2>2, <2>3 DEF Spectating, DancersByRole, RoomInv, ListsAgree
  <2>5. ListsAgree'
    <3>1. dancers' \subseteq Seated'
      BY <2>2, <2>3 DEF RoomInv, ListsAgree
    <3>2. status' = "battling" => status = "battling" /\ contenders' = contenders \ {p}
      BY <1>2 DEF SettleBattleAfterLeave, Unsettled, FinishBattle
    <3>3. QED
      BY <2>2, <2>3, <2>4, <3>1, <3>2 DEF RoomInv, ListsAgree
  <2>6. Battling'
    <3> SUFFICES ASSUME status' = "battling" PROVE Battling'
      BY DEF Battling, VotesCoherent, EnoughDancers, SnapshotsAccount
    <3>1. /\ status = "battling" /\ contenders' = contenders \ {p} /\ votes' = cast
          /\ UNCHANGED <<roster, audience>> /\ ~TooFew(contenders')
      BY <1>2 DEF SettleBattleAfterLeave, Unsettled, FinishBattle, VotesWithout
    <3>5. Cardinality(contenders') \in Nat /\ MinDancers \in Nat
      BY <3>1, RoomAssumption, FS_Subset, FS_CardinalityType DEF RoomInv, TypeOK, BattleType
    <3>2. VotesCoherent'
      BY <2>3, <3>1 DEF RoomInv, VotesCoherent
    <3>3. EnoughDancers'
      BY <2>2, <3>1, <3>5 DEF RoomInv, EnoughDancers, TooFew
    <3>4. SnapshotsAccount'
      BY <2>2, <2>3, <3>1 DEF RoomInv, SnapshotsAccount
    <3>6. QED
      BY <3>2, <3>3, <3>4 DEF Battling
  <2>7. Deciding'
    <3>1. CASE phase = "choosing" /\ chooser = p
      <4>1. status = "waiting" /\ status' = "waiting" /\ song = NoSong
        BY <1>2, <3>1 DEF RoomInv, OneThingAtATime, InProgress, SettleBattleAfterLeave, Unsettled
      <4>2. AssignFallbackChooser((participants \cap Seated) \ {p}, "chooser-left", failed)
            /\ song' = NoSong
        BY <1>2, <3>1, <4>1 DEF HandlePlayerLeft
      <4>3. QED
        BY <2>2, <4>1, <4>2 DEF AssignFallbackChooser, Choosing, ClearSelection, Deciding,
             ChooserCanChoose, OneThingAtATime, InProgress
    <3>2. CASE ~(phase = "choosing" /\ chooser = p)
      <4>1. UNCHANGED selectionVars /\ clock' = IF status' = "finished" THEN "idle" ELSE clock
        BY <1>2, <3>2 DEF HandlePlayerLeft
      <4>2. /\ status' # "finished" => status' = status
            /\ status' = "finished" => status # "waiting"
        BY <1>2 DEF SettleBattleAfterLeave, Unsettled, FinishBattle, battleVars
      <4>3. QED
        BY <2>2, <3>2, <4>1, <4>2 DEF RoomInv, Deciding, ChooserCanChoose, OneThingAtATime, InProgress,
             selectionVars
    <3>3. QED
      BY <3>1, <3>2
  <2>8. Finished'
    <3>1. CASE status # "battling"
      <4>1. UNCHANGED <<status, battleVars, lastResult>>
        BY <1>2, <3>1 DEF SettleBattleAfterLeave, Unsettled
      <4>2. QED
        BY <4>1 DEF RoomInv, Finished, ResultFrozen, EndReasonTells, battleVars
    <3>2. CASE status = "battling"
      <4>1. contenders' # {}
        BY <1>2, <3>2, RemainingDancers DEF SettleBattleAfterLeave, Unsettled, RoomInv, EnoughDancers, TypeOK,
             BattleType
      <4>2. QED
        BY <1>2, <3>2, <4>1 DEF SettleBattleAfterLeave, Unsettled, FinishBattle, Finished, ResultFrozen,
             EndReasonTells, TooFew
    <3>3. QED
      BY <3>1, <3>2
  <2>9. QED
    BY <2>5, <2>6, <2>7, <2>8
<1>3. QED
  BY <1>1, <1>2 DEF Leave

\* The chosen song: it decides the selection, and may start the battle.
LEMMA ChooseAndStartKeeps ==
    ASSUME RoomInv, phase = "choosing", NEW s \in Songs, ChooseAndStart(s)
    PROVE  ListsAgree' /\ Battling' /\ Deciding' /\ Finished'
<1>1. status = "waiting" /\ s # NoSong
  BY RoomAssumption DEF RoomInv, OneThingAtATime, InProgress
<1>2. CASE Cardinality(DancersByRole) >= MinDancers /\ BattleStarts(DancersByRole)
  <2>1. ListsAgree' /\ Battling' /\ Finished'
    BY <1>2, BattleStartsKeeps DEF DancersByRole
  <2>2. Deciding'
    BY <1>1, <1>2 DEF ChooseAndStart, SongChosen, BattleStarts, Deciding, ChooserCanChoose,
                      OneThingAtATime, InProgress
  <2>3. QED
    BY <2>1, <2>2
<1>3. CASE clock' = "idle" /\ UNCHANGED <<seatVars, listVars, status, battleVars, lastResult>>
  <2>1. ListsAgree' /\ Battling' /\ Finished'
    BY <1>1, <1>3 DEF RoomInv, ListsAgree, Battling, VotesCoherent, EnoughDancers, SnapshotsAccount,
         Finished, ResultFrozen, EndReasonTells, Seated, seatVars, listVars, battleVars
  <2>2. Deciding'
    BY <1>1, <1>3 DEF ChooseAndStart, SongChosen, Deciding, ChooserCanChoose, OneThingAtATime, InProgress
  <2>3. QED
    BY <2>1, <2>2
<1>4. QED
  BY <1>2, <1>3 DEF ChooseAndStart

\* A typing round that ends hands the turn to a participant still seated, or
\* cancels the selection.
LEMMA FallbackKeeps ==
    ASSUME RoomInv, phase = "typing", NEW failedNow,
           NEW why \in {"timeout", "all-failed"},
           AssignFallbackChooser(participants \cap Seated, why, failedNow),
           UNCHANGED <<players, status, song>>
    PROVE  Deciding'
<1>1. status = "waiting" /\ song = NoSong /\ Seated' = Seated
  BY DEF RoomInv, OneThingAtATime, InProgress, Seated
<1>2. QED
  BY <1>1 DEF AssignFallbackChooser, Choosing, ClearSelection, Deciding, ChooserCanChoose,
              OneThingAtATime, InProgress

LEMMA SubmitKeeps ==
    ASSUME RoomInv, NEW p \in Players, NEW exact \in BOOLEAN, SubmitSongPhrase(p, exact)
    PROVE  Deciding'
<1>1. phase = "typing" /\ p \in participants \cap Seated /\ UNCHANGED <<players, status, song>>
  BY DEF SubmitSongPhrase, seatVars
<1>2. status = "waiting" /\ song = NoSong /\ Seated' = Seated
  BY <1>1 DEF RoomInv, OneThingAtATime, InProgress, Seated
<1>3. CASE \E why \in {"timeout", "all-failed"}, failedNow \in {failed, failed \cup {p}} :
             AssignFallbackChooser(participants \cap Seated, why, failedNow)
  BY <1>1, <1>3, FallbackKeeps
<1>4. CASE p \notin failed /\ Choosing(p, "typed", failed)
  BY <1>1, <1>2, <1>4 DEF Choosing, Deciding, ChooserCanChoose, OneThingAtATime, InProgress
<1>5. CASE UNCHANGED <<phase, participants, chooser, reason, clock>>
  BY <1>1, <1>2, <1>5 DEF RoomInv, Deciding, ChooserCanChoose, OneThingAtATime, InProgress
<1>6. QED
  BY <1>3, <1>4, <1>5 DEF SubmitSongPhrase

\* Steps outside a running battle, and steps that leave the battle alone.
LEMMA SameBattle ==
    ASSUME RoomInv, status' = status, UNCHANGED <<battleVars, lastResult>>,
           UNCHANGED <<players, spectators>> \/ status # "battling"
    PROVE  Battling' /\ Finished'
BY DEF RoomInv, Battling, VotesCoherent, EnoughDancers, SnapshotsAccount, Finished, ResultFrozen,
       EndReasonTells, Seated, battleVars

LEMMA SameSelection ==
    ASSUME RoomInv, status' = status, UNCHANGED selectionVars, Seated \subseteq Seated',
           clock' = clock \/ {clock, clock'} \subseteq {"countdown", "running", "over"}
    PROVE  Deciding'
BY DEF RoomInv, Deciding, ChooserCanChoose, OneThingAtATime, InProgress, selectionVars

LEMMA SameLists ==
    ASSUME RoomInv, UNCHANGED <<seatVars, listVars>>,
           UNCHANGED <<status, contenders>> \/ status' # "battling"
    PROVE  ListsAgree'
BY DEF RoomInv, ListsAgree, Seated, Spectating, DancersByRole, seatVars, listVars

\* One step of the room, action by action.
LEMMA RoomStep ==
    ASSUME RoomInv, [Next]_vars
    PROVE  RoomInv'
<1> DEFINE Keeps == ListsAgree' /\ Battling' /\ Deciding' /\ Finished'
<1>1. ASSUME NEW p \in Players, CreateRoom(p) PROVE Keeps
  <2>1. Seated = {} /\ Seated' = {p} /\ Seated \subseteq Seated'
    BY <1>1 DEF CreateRoom, Seated, ToSet
  <2>2. status # "battling"
    <3>1. SUFFICES ASSUME status = "battling" PROVE FALSE
      OBVIOUS
    <3>2. contenders = {} /\ Cardinality(contenders) >= MinDancers
      BY <2>1, <3>1 DEF RoomInv, EnoughDancers
    <3>3. QED
      BY <3>2, RoomAssumption, FS_EmptySet
  <2>3. Battling' /\ Finished' /\ Deciding'
    BY <1>1, <2>1, <2>2, SameBattle, SameSelection DEF CreateRoom
  <2>4. ListsAgree'
    BY <1>1, <2>1, <2>2 DEF CreateRoom, RoomInv, ListsAgree, TypeOK, SeatsType, Spectating, listVars
  <2>5. QED
    BY <2>3, <2>4
<1>2. ASSUME NEW p \in Players, Join(p) PROVE Keeps
  <2>1. Seated' = Seated \cup {p} /\ p \notin Seated
    BY <1>2 DEF Join, RoomInv, TypeOK, SeatsType, Seated, ToSet
  <2>2. Battling' /\ Finished' /\ Deciding'
    BY <1>2, <2>1, SameBattle, SameSelection DEF Join
  <2>3. ListsAgree'
    BY <1>2, <2>1 DEF Join, RoomInv, ListsAgree, TypeOK, SeatsType, Spectating, listVars
  <2>4. QED
    BY <2>2, <2>3
<1>3. ASSUME NEW p \in Players, NEW r \in {"dancer", "spectator"}, SelectRole(p, r) PROVE Keeps
  <2>1. Seated' = Seated
    BY <1>3 DEF SelectRole, Seated
  <2>2. Battling' /\ Finished' /\ Deciding'
    BY <1>3, <2>1, SameBattle, SameSelection DEF SelectRole
  <2>3. ListsAgree'
    BY <1>3, <2>1 DEF SelectRole, RoomInv, ListsAgree, Spectating
  <2>4. QED
    BY <2>2, <2>3
<1>4. ASSUME NEW p \in Players, NEW value \in BOOLEAN, SetReady(p, value) PROVE Keeps
  <2>1. Seated' = Seated
    BY <1>4 DEF SetReady, Seated
  <2>2. Battling' /\ Finished' /\ Deciding'
    BY <1>4, <2>1, SameBattle, SameSelection DEF SetReady
  <2>3. ListsAgree'
    BY <1>4, <2>1 DEF SetReady, RoomInv, ListsAgree, Spectating
  <2>4. QED
    BY <2>2, <2>3
<1>5. ASSUME NEW p \in Players, Leave(p) PROVE Keeps
  BY <1>5, LeaveKeeps
<1>6. ASSUME NEW p \in Players, NEW q \in Players, Kick(p, q) PROVE Keeps
  BY <1>6, LeaveKeeps DEF Kick
<1>7. ASSUME NEW p \in Players, StartSongChallenge(p) PROVE Keeps
  <2>1. UNCHANGED <<seatVars, listVars, status, battleVars, lastResult>> /\ status = "waiting"
    BY <1>7 DEF StartSongChallenge
  <2>2. Battling' /\ Finished'
    BY <2>1, SameBattle
  <2>3. ListsAgree'
    BY <2>1, SameLists
  <2>4. Deciding'
    BY <1>7, <2>1 DEF StartSongChallenge, Deciding, ChooserCanChoose, OneThingAtATime, InProgress
  <2>5. QED
    BY <2>2, <2>3, <2>4
<1>8. ASSUME NEW p \in Players, NEW exact \in BOOLEAN, SubmitSongPhrase(p, exact) PROVE Keeps
  <2>1. UNCHANGED <<seatVars, listVars, status, battleVars, lastResult>>
    BY <1>8 DEF SubmitSongPhrase
  <2>2. Battling' /\ Finished'
    BY <2>1, SameBattle DEF seatVars, listVars
  <2>3. ListsAgree'
    BY <2>1, SameLists DEF battleVars
  <2>4. QED
    BY <1>8, <2>2, <2>3, SubmitKeeps
<1>9. ASSUME ExpireChallenge PROVE Keeps
  <2>1. UNCHANGED <<seatVars, listVars, status, battleVars, lastResult>>
    BY <1>9 DEF ExpireChallenge
  <2>2. Battling' /\ Finished'
    BY <2>1, SameBattle DEF seatVars, listVars
  <2>3. ListsAgree'
    BY <2>1, SameLists DEF battleVars
  <2>4. Deciding'
    BY <1>9, FallbackKeeps DEF ExpireChallenge, seatVars
  <2>5. QED
    BY <2>2, <2>3, <2>4
<1>10. ASSUME NEW s \in Songs, phase = "choosing", ChooseAndStart(s) PROVE Keeps
  BY <1>10, ChooseAndStartKeeps
<1>11. ASSUME NEW p \in Players, NEW chosen \in SUBSET Players, StartBattle(p, chosen) PROVE Keeps
  <2>1. chosen \subseteq Seated /\ Cardinality(chosen) >= MinDancers /\ BattleStarts(chosen)
    BY <1>11 DEF StartBattle
  <2>2. ListsAgree' /\ Battling' /\ Finished'
    BY <2>1, BattleStartsKeeps
  <2>3. Deciding'
    BY <1>11, <2>1 DEF StartBattle, BattleStarts, Deciding, ChooserCanChoose, OneThingAtATime,
         InProgress, selectionVars
  <2>4. QED
    BY <2>2, <2>3
<1>12. ASSUME NEW p \in Players, NEW choice \in Players \cup {NoPlayer}, CastVote(p, choice) PROVE Keeps
  <2>1. /\ status = "battling" /\ p \in spectators /\ choice \in contenders \cup {NoPlayer}
        /\ votes' = [votes EXCEPT ![p] = choice] /\ votes \in [Players -> Players \cup {NoPlayer}]
        /\ UNCHANGED <<seatVars, listVars, status, selectionVars, contenders, roster, audience, clock>>
    BY <1>12 DEF CastVote, RoomInv, TypeOK, BattleType
  <2>2. ListsAgree'
    BY <2>1, SameLists
  <2>3. Deciding'
    BY <2>1, SameSelection DEF seatVars, Seated
  <2>4. VotesCoherent'
    BY <2>1 DEF RoomInv, VotesCoherent, listVars
  <2>5. QED
    BY <2>1, <2>2, <2>3, <2>4 DEF RoomInv, Battling, EnoughDancers, SnapshotsAccount, Finished,
         ResultFrozen, EndReasonTells, Seated, seatVars, listVars
<1>13. ASSUME NEW p \in Players, AwardWordBonus(p) PROVE Keeps
  <2>1. /\ status = "battling"
        /\ UNCHANGED <<seatVars, listVars, status, selectionVars, contenders, roster, audience,
                       votes, clock>>
    BY <1>13 DEF AwardWordBonus
  <2>2. ListsAgree'
    BY <2>1, SameLists
  <2>3. Deciding'
    BY <2>1, SameSelection DEF seatVars, Seated
  <2>4. QED
    BY <2>1, <2>2, <2>3 DEF RoomInv, Battling, VotesCoherent, EnoughDancers, SnapshotsAccount, Finished,
         ResultFrozen, EndReasonTells, Seated, seatVars, listVars
<1>14. ASSUME FinishAtDeadline PROVE Keeps
  <2>1. /\ status = "battling" /\ status' = "finished" /\ clock' = "idle"
        /\ UNCHANGED <<seatVars, listVars, selectionVars, contenders, votes, words>>
    BY <1>14 DEF FinishAtDeadline, SongOver, FinishBattle
  <2>2. ListsAgree' /\ Battling'
    BY <2>1, SameLists DEF Battling, VotesCoherent, EnoughDancers, SnapshotsAccount
  <2>3. Deciding'
    BY <2>1 DEF RoomInv, Deciding, ChooserCanChoose, OneThingAtATime, InProgress, selectionVars
  <2>4. contenders # {} /\ ~(Cardinality(contenders) < MinDancers)
    <3>1. contenders \subseteq Players /\ Cardinality(contenders) >= MinDancers
      BY <2>1 DEF RoomInv, EnoughDancers, TypeOK, BattleType
    <3>2. Cardinality(contenders) \in Nat
      BY <3>1, RoomAssumption, FS_Subset, FS_CardinalityType
    <3>3. QED
      BY <3>1, <3>2, RoomAssumption, FS_EmptySet
  <2>5. Finished'
    BY <1>14, <2>1, <2>4 DEF FinishAtDeadline, SongOver, FinishBattle, Finished, ResultFrozen, EndReasonTells
  <2>6. QED
    BY <2>2, <2>3, <2>5
<1>15. ASSUME NEW p \in Players, Rematch(p) PROVE Keeps
  <2>1. /\ status = "finished" /\ status' = "waiting" /\ clock' = clock /\ clock = "idle"
    BY <1>15 DEF Rematch, RoomInv, OneThingAtATime, InProgress
  <2>2. ListsAgree'
    BY <1>15, <2>1 DEF Rematch, ListsAgree, Spectating, Seated
  <2>3. Deciding'
    BY <1>15, <2>1 DEF Rematch, ClearSelection, Deciding, ChooserCanChoose, OneThingAtATime, InProgress
  <2>4. QED
    BY <2>1, <2>2, <2>3 DEF Battling, VotesCoherent, EnoughDancers, SnapshotsAccount, Finished,
         ResultFrozen, EndReasonTells
<1>16. ASSUME Tick PROVE Keeps
  <2>1. UNCHANGED <<seatVars, listVars, status, selectionVars, battleVars, lastResult>>
    BY <1>16 DEF Tick
  <2>2. {clock, clock'} \subseteq {"countdown", "running", "over"}
    BY <1>16 DEF Tick
  <2>3. Deciding'
    BY <2>1, <2>2, SameSelection DEF seatVars, Seated
  <2>4. Battling' /\ Finished' /\ ListsAgree'
    BY <2>1, SameBattle, SameLists DEF seatVars, listVars, battleVars
  <2>5. QED
    BY <2>3, <2>4
<1>17. ASSUME UNCHANGED vars PROVE Keeps
  <2>1. UNCHANGED <<seatVars, listVars, status, selectionVars, battleVars, lastResult, clock>>
    BY <1>17 DEF vars
  <2>2. ListsAgree'
    BY <2>1, SameLists DEF battleVars
  <2>3. Deciding'
    BY <2>1, SameSelection DEF seatVars, Seated
  <2>4. Battling' /\ Finished'
    BY <2>1, SameBattle DEF seatVars, listVars
  <2>5. QED
    BY <2>2, <2>3, <2>4
<1> HIDE DEF Keeps
<1>18. Keeps
  BY <1>1, <1>2, <1>3, <1>4, <1>5, <1>6, <1>7, <1>8, <1>9, <1>10, <1>11, <1>12, <1>13, <1>14,
     <1>15, <1>16, <1>17 DEF Next, ChooseSong, AutoPick
<1>19. TypeOK' /\ HostIsEarliest'
  BY TypeStep DEF RoomInv
<1>20. QED
  BY <1>18, <1>19 DEF Keeps, RoomInv, Battling, Deciding, Finished

LEMMA RoomStart == Init => RoomInv
BY InitType DEF Init, RoomInv, ListsAgree, VotesCoherent, EnoughDancers, SnapshotsAccount,
   ChooserCanChoose, OneThingAtATime, ResultFrozen, EndReasonTells, InProgress, Seated, ToSet, Spectating

\* The inductive invariant holds in every reachable state.
THEOREM RoomSafe == Spec => []RoomInv
<1>1. RoomInv /\ [Next]_vars => RoomInv'
  BY RoomStep
<1>2. QED
  BY <1>1, RoomStart, PTL DEF Spec

\* Votes and lists: a stored vote of a running battle is always by a seated
\* spectator for a dancer still in it, and the stored lists agree with the seats.
THEOREM VotesSafe == Spec => [](ListsAgree /\ VotesCoherent)
<1>1. RoomInv => ListsAgree /\ VotesCoherent
  BY DEF RoomInv
<1>2. QED
  BY <1>1, RoomSafe, PTL

\* A running battle has enough seated dancers and its start's snapshots account
\* for everybody who is in it or left early.
THEOREM BattleSafe == Spec => [](EnoughDancers /\ SnapshotsAccount)
<1>1. RoomInv => EnoughDancers /\ SnapshotsAccount
  BY DEF RoomInv
<1>2. QED
  BY <1>1, RoomSafe, PTL

\* The turn to choose is held by a participant who is there; a selection, a
\* battle and a pending deadline go together.
THEOREM SelectionSafe == Spec => [](ChooserCanChoose /\ OneThingAtATime)
<1>1. RoomInv => ChooserCanChoose /\ OneThingAtATime
  BY DEF RoomInv
<1>2. QED
  BY <1>1, RoomSafe, PTL

\* A finished battle keeps its result, and its reason tells why it ended.
THEOREM ResultSafe == Spec => [](ResultFrozen /\ EndReasonTells)
<1>1. RoomInv => ResultFrozen /\ EndReasonTells
  BY DEF RoomInv
<1>2. QED
  BY <1>1, RoomSafe, PTL

\* Whatever the order of joins, leaves and kicks, the host is the player seated
\* longest (RoomService.leave hands the room over).
THEOREM HostSafe == Spec => []HostIsEarliest
<1>1. RoomInv => HostIsEarliest
  BY DEF RoomInv
<1>2. QED
  BY <1>1, RoomSafe, PTL

\* The stored dancers and spectators never drift from the seats and the roles.
THEOREM ListsSafe == Spec => []ListsAgree
<1>1. RoomInv => ListsAgree
  BY DEF RoomInv
<1>2. QED
  BY <1>1, RoomSafe, PTL

\* A deadline is pending exactly while a selection or a battle is under way.
THEOREM OneThingSafe == Spec => []OneThingAtATime
<1>1. RoomInv => OneThingAtATime
  BY DEF RoomInv
<1>2. QED
  BY <1>1, RoomSafe, PTL

-----------------------------------------------------------------------------
\* What a step may never do.

\* Only a departure and the end timer close a battle.
LEMMA ClosingSteps ==
    ASSUME RoomInv, [Next]_vars, status = "battling", status' # "battling"
    PROVE  FinishAtDeadline \/ \E p \in Players : Leave(p)
<1>1. ~InProgress(phase)
  BY DEF RoomInv, OneThingAtATime
<1>2. Next
  BY DEF vars
<1>3. UNCHANGED status => FALSE
  OBVIOUS
<1>4. QED
  BY <1>1, <1>2 DEF Next, CreateRoom, Join, SelectRole, SetReady, Kick, StartSongChallenge,
       SubmitSongPhrase, ExpireChallenge, ChooseSong, AutoPick, StartBattle, CastVote, AwardWordBonus,
       Rematch, Tick, InProgress

\* A battle closes when the song is over or when too few dancers are left.
THEOREM EndsForACauseSafe == Spec => EndsForACause
<1>1. RoomInv /\ [Next]_vars =>
        [status = "battling" /\ status' # "battling"
           => clock = "over" \/ Cardinality(contenders') < MinDancers]_vars
  <2> SUFFICES ASSUME RoomInv, [Next]_vars, status = "battling", status' # "battling"
               PROVE  clock = "over" \/ Cardinality(contenders') < MinDancers
    OBVIOUS
  <2>1. CASE FinishAtDeadline
    BY <2>1 DEF FinishAtDeadline, SongOver
  <2>2. ASSUME NEW p \in Players, Leave(p) PROVE Cardinality(contenders') < MinDancers
    <3>1. CASE DeleteRoom /\ Len(players) = 1
      <4>1. IsFiniteSet(Seated) /\ Cardinality(Seated) = 1
        <5>1. DOMAIN players = {1}
          BY <3>1 DEF RoomInv, TypeOK, SeatsType
        <5>2. Seated = {players[1]}
          BY <5>1 DEF Seated, ToSet
        <5>3. QED
          BY <5>2, FS_Singleton
      <4>2. contenders \subseteq Seated
        BY DEF RoomInv, EnoughDancers
      <4>3. Cardinality(contenders) \in Nat /\ Cardinality(contenders) <= 1
        BY <4>1, <4>2, FS_Subset, FS_CardinalityType
      <4>4. QED
        BY <4>3, RoomAssumption DEF RoomInv, EnoughDancers
    <3>2. CASE SettleBattleAfterLeave(p)
      BY <3>2 DEF SettleBattleAfterLeave, Unsettled, TooFew
    <3>3. QED
      BY <2>2, <3>1, <3>2 DEF Leave
  <2>3. QED
    BY <2>1, <2>2, ClosingSteps
<1>2. QED
  BY <1>1, RoomSafe, PTL DEF Spec, EndsForACause

\* Whatever races with it, a turn that was given is not taken away from a
\* chooser who stays.
THEOREM TurnIsKeptSafe == Spec => TurnIsKept
<1>1. RoomInv /\ [Next]_vars =>
        [phase = "choosing" /\ phase' = "choosing" /\ chooser' # chooser => chooser \notin Seated']_vars
  <2> SUFFICES ASSUME RoomInv, [Next]_vars, phase = "choosing", phase' = "choosing", chooser' # chooser
               PROVE  chooser \notin Seated'
    OBVIOUS
  <2>1. Next
    BY DEF vars, selectionVars
  <2>2. PICK p \in Players : Leave(p)
    BY <2>1 DEF Next, CreateRoom, Join, SelectRole, SetReady, Kick, StartSongChallenge, SubmitSongPhrase,
         ExpireChallenge, ChooseSong, AutoPick, ChooseAndStart, SongChosen, StartBattle, CastVote,
         AwardWordBonus, FinishAtDeadline, SongOver, Rematch, ClearSelection, Tick, InProgress, selectionVars
  <2>3. Len(players) > 1 /\ Unseat(p) /\ HandlePlayerLeft(p)
    BY <2>2 DEF Leave, DeleteRoom, ClearSelection
  <2>4. chooser = p
    BY <2>3 DEF HandlePlayerLeft, selectionVars
  <2>5. Seated' = Seated \ {p}
    BY <2>2, <2>3, UnseatSeats DEF RoomInv, Leave
  <2>6. QED
    BY <2>4, <2>5
<1>2. QED
  BY <1>1, RoomSafe, PTL DEF Spec, TurnIsKept

\* The turn falls to somebody with a clean attempt whenever one is present.
LEMMA FallbackIsClean ==
    ASSUME NEW present, NEW failedNow, NEW why,
           AssignFallbackChooser(present, why, failedNow),
           phase' = "choosing", chooser' \in failed'
    PROVE  present \subseteq failed'
BY DEF AssignFallbackChooser, Choosing, ClearSelection

\* A player who misspelled gets the turn only after every participant still in
\* the room misspelled.
THEOREM CleanAttemptsFirstSafe == Spec => CleanAttemptsFirst
<1>1. RoomInv /\ [Next]_vars =>
        [phase' = "choosing" /\ chooser' # chooser /\ chooser' \in failed'
           => participants \cap Seated' \subseteq failed']_vars
  <2> SUFFICES ASSUME RoomInv, [Next]_vars, phase' = "choosing", chooser' # chooser, chooser' \in failed'
               PROVE  participants \cap Seated' \subseteq failed'
    OBVIOUS
  <2>1. Next
    BY DEF vars, selectionVars
  <2>2. \/ \E p \in Players : Leave(p)
        \/ \E p \in Players, exact \in BOOLEAN : SubmitSongPhrase(p, exact)
        \/ ExpireChallenge
    BY <2>1 DEF Next, CreateRoom, Join, SelectRole, SetReady, Kick, StartSongChallenge,
         ChooseSong, AutoPick, ChooseAndStart, SongChosen, StartBattle, CastVote,
         AwardWordBonus, FinishAtDeadline, SongOver, Rematch, ClearSelection, Tick, selectionVars
  <2>3. ASSUME NEW p \in Players, Leave(p) PROVE participants \cap Seated' \subseteq failed'
    <3>1. Len(players) > 1 /\ Unseat(p) /\ HandlePlayerLeft(p)
      BY <2>3 DEF Leave, DeleteRoom, ClearSelection
    <3>2. Seated' = Seated \ {p}
      BY <2>3, <3>1, UnseatSeats DEF RoomInv, Leave
    <3>3. AssignFallbackChooser((participants \cap Seated) \ {p}, "chooser-left", failed)
      BY <3>1 DEF HandlePlayerLeft, selectionVars
    <3>4. (participants \cap Seated) \ {p} \subseteq failed'
      BY <3>3, FallbackIsClean
    <3>5. QED
      BY <3>2, <3>4
  <2>4. ASSUME NEW p \in Players, NEW exact \in BOOLEAN, SubmitSongPhrase(p, exact)
        PROVE  participants \cap Seated' \subseteq failed'
    <3>1. Seated' = Seated
      BY <2>4 DEF SubmitSongPhrase, Seated, seatVars
    <3>2. \E why \in {"timeout", "all-failed"}, failedNow \in {failed, failed \cup {p}} :
             AssignFallbackChooser(participants \cap Seated, why, failedNow)
      BY <2>4 DEF SubmitSongPhrase, Choosing
    <3>3. QED
      BY <3>1, <3>2, FallbackIsClean
  <2>5. ASSUME ExpireChallenge PROVE participants \cap Seated' \subseteq failed'
    <3>1. Seated' = Seated
      BY <2>5 DEF ExpireChallenge, Seated, seatVars
    <3>2. QED
      BY <2>5, <3>1, FallbackIsClean DEF ExpireChallenge
  <2>6. QED
    BY <2>2, <2>3, <2>4, <2>5
<1>2. QED
  BY <1>1, RoomSafe, PTL DEF Spec, CleanAttemptsFirst

\* The last result is replaced only by the end of the next battle.
THEOREM LastResultKeptSafe == Spec => LastResultKept
<1>1. RoomInv /\ [Next]_vars =>
        [lastResult' # lastResult
           => (status = "battling" /\ status' = "finished") \/ players' = <<>>]_vars
  <2> SUFFICES ASSUME RoomInv, [Next]_vars, lastResult' # lastResult
               PROVE  (status = "battling" /\ status' = "finished") \/ players' = <<>>
    OBVIOUS
  <2>1. Next
    BY DEF vars
  <2>2. \/ \E p \in Players : Leave(p)
        \/ FinishAtDeadline
        \/ \E p \in Players : Rematch(p)
    BY <2>1 DEF Next, CreateRoom, Join, SelectRole, SetReady, Kick, StartSongChallenge, SubmitSongPhrase,
         ExpireChallenge, ChooseSong, AutoPick, ChooseAndStart, StartBattle, BattleStarts, CastVote,
         AwardWordBonus, Tick
  <2>3. CASE FinishAtDeadline
    BY <2>3 DEF FinishAtDeadline, SongOver, FinishBattle
  <2>4. ASSUME NEW p \in Players, Rematch(p) PROVE FALSE
    BY <2>4 DEF Rematch, RoomInv, ResultFrozen
  <2>5. ASSUME NEW p \in Players, Leave(p)
        PROVE  (status = "battling" /\ status' = "finished") \/ players' = <<>>
    BY <2>5 DEF Leave, DeleteRoom, SettleBattleAfterLeave, Unsettled, FinishBattle
  <2>6. QED
    BY <2>2, <2>3, <2>4, <2>5
<1>2. QED
  BY <1>1, RoomSafe, PTL DEF Spec, LastResultKept

-----------------------------------------------------------------------------
(***************************************************************************)
(* Room implements BattleContract: the initial states map to initial states *)
(* and every step to a step of the contract or to none.                     *)
(***************************************************************************)
\* Outside of a battle nothing of one is left behind.
Blank == status = "waiting" => contenders = {} /\ words = NoWords /\ result = NoResult

LEMMA SettleKeepsBlank ==
    ASSUME Blank, NEW p, SettleBattleAfterLeave(p)
    PROVE  Blank'
BY DEF Blank, SettleBattleAfterLeave, Unsettled, battleVars, FinishBattle

LEMMA BlankStep ==
    ASSUME RoomInv, Blank, [Next]_vars
    PROVE  Blank'
<1>1. CASE UNCHANGED <<status, battleVars>>
  BY <1>1 DEF Blank, battleVars
<1>2. CASE status' # "waiting"
  BY <1>2 DEF Blank
<1>3. ASSUME NEW p \in Players, Leave(p) PROVE Blank'
  BY <1>3, SettleKeepsBlank DEF Leave, DeleteRoom, ClearBattle, Blank
<1>4. ASSUME NEW p \in Players, Rematch(p) PROVE Blank'
  BY <1>4 DEF Rematch, ClearBattle, Blank
<1>5. ASSUME Next, ~UNCHANGED <<status, battleVars>>, status' = "waiting"
      PROVE  \E p \in Players : Leave(p) \/ Rematch(p)
  BY <1>5 DEF Next, CreateRoom, Join, SelectRole, SetReady, Kick, StartSongChallenge, SubmitSongPhrase,
       ExpireChallenge, ChooseSong, AutoPick, ChooseAndStart, BattleStarts, StartBattle, CastVote,
       AwardWordBonus, FinishAtDeadline, SongOver, FinishBattle, Tick
<1>6. UNCHANGED vars => UNCHANGED <<status, battleVars>>
  BY DEF vars
<1>7. QED
  BY <1>1, <1>2, <1>3, <1>4, <1>5, <1>6

LEMMA WinnerDanced ==
    ASSUME NEW D, NEW b, NEW w
    PROVE  BattleResult(D, b, w).winner \in D \cup {NoPlayer}
<1>1. Winner(D, b, w) \in D \cup {NoPlayer}
  BY DEF Winner, Leaders
<1>2. QED
  BY <1>1 DEF BattleResult

-----------------------------------------------------------------------------
\* The steps of a battle and what the contract calls them.

Seen == <<status, contenders, words, result.winner>>

LEMMA BattleBegins ==
    ASSUME Blank, status = "waiting", NEW chosen \in SUBSET Players,
           Cardinality(chosen) >= MinDancers, BattleStarts(chosen)
    PROVE  Contract!Begin(chosen)
<1>1. words = NoWords /\ result = NoResult
  BY DEF Blank
<1>2. QED
  BY <1>1 DEF BattleStarts, Lineups, Contract!Begin

LEMMA BattleShrinks ==
    ASSUME RoomInv, status = "battling", NEW p \in Players, SettleBattleAfterLeave(p)
    PROVE  [Contract!Next]_Seen
<1>1. contenders' = contenders \ {p} /\ words' = words
  BY DEF SettleBattleAfterLeave, Unsettled
<1>0. Cardinality(contenders) \in Nat /\ Cardinality(contenders') \in Nat
  BY <1>1, RoomAssumption, FS_Subset, FS_CardinalityType DEF RoomInv, TypeOK, BattleType
<1>2. CASE TooFew(contenders') /\ FinishBattle("not-enough-dancers", contenders', votes')
  <2>1. status' = "finished" /\ result'.winner \in contenders' \cup {NoPlayer}
    BY <1>2, WinnerDanced DEF FinishBattle
  <2>2. p \in contenders
    <3>1. contenders' # contenders
      BY <1>0, <1>2, RoomAssumption DEF TooFew, RoomInv, EnoughDancers
    <3>2. QED
      BY <1>1, <3>1
  <2>3. contenders' \notin Lineups
    BY <1>0, <1>2, RoomAssumption DEF Lineups, TooFew
  <2>4. Contract!LastWithdraws(p)
    BY <1>1, <2>1, <2>2, <2>3 DEF Contract!LastWithdraws, Contract!Announce
  <2>5. QED
    BY <2>4 DEF Contract!Next
<1>3. CASE ~TooFew(contenders') /\ UNCHANGED <<status, endReason, result, lastResult>>
  <2>1. CASE p \notin contenders
    BY <1>1, <1>3, <2>1 DEF Seen
  <2>2. CASE p \in contenders
    <3>1. IsFiniteSet(contenders')
      BY <1>1, RoomAssumption, FS_Subset DEF RoomInv, TypeOK, BattleType
    <3>2. Cardinality(contenders') >= MinDancers
      BY <1>3, <3>1, FS_CardinalityType, RoomAssumption DEF TooFew
    <3>3. contenders' \in Lineups
      BY <1>1, <3>2 DEF Lineups, RoomInv, TypeOK, BattleType
    <3>4. Contract!Withdraw(p)
      BY <1>1, <1>3, <2>2, <3>3 DEF Contract!Withdraw
    <3>5. QED
      BY <3>4 DEF Contract!Next
  <2>3. QED
    BY <2>1, <2>2
<1>4. QED
  BY <1>2, <1>3 DEF SettleBattleAfterLeave, Unsettled

\* A room is deleted with its last player, so never in the middle of a battle.
LEMMA DeletedIdle ==
    ASSUME RoomInv, Len(players) = 1
    PROVE  status # "battling"
<1> SUFFICES ASSUME status = "battling" PROVE FALSE
  OBVIOUS
<1>1. DOMAIN players = {1}
  BY DEF RoomInv, TypeOK, SeatsType
<1>2. IsFiniteSet(Seated) /\ Cardinality(Seated) = 1
  <2>1. Seated = {players[1]}
    BY <1>1 DEF Seated, ToSet
  <2>2. QED
    BY <2>1, FS_Singleton
<1>3. contenders \subseteq Seated /\ Cardinality(contenders) >= MinDancers
  BY DEF RoomInv, EnoughDancers
<1>4. Cardinality(contenders) \in Nat /\ Cardinality(contenders) <= 1
  BY <1>2, <1>3, FS_Subset, FS_CardinalityType
<1>5. QED
  BY <1>3, <1>4, RoomAssumption

LEMMA BattleCleared ==
    ASSUME Blank, status \in {"waiting", "finished"}, status' = "waiting", ClearBattle
    PROVE  [Contract!Next]_Seen
<1>1. contenders' = {} /\ words' = NoWords /\ result' = NoResult
  BY DEF ClearBattle
<1>2. CASE status = "waiting"
  BY <1>1, <1>2 DEF Blank, Seen
<1>3. CASE status = "finished"
  <2>1. Contract!Clear
    BY <1>1, <1>3 DEF Contract!Clear, NoWords, NoResult
  <2>2. QED
    BY <2>1 DEF Contract!Next
<1>4. QED
  BY <1>2, <1>3

LEMMA LeaveImplements ==
    ASSUME RoomInv, Blank, NEW p \in Players, Leave(p)
    PROVE  [Contract!Next]_Seen
<1>1. CASE Len(players) = 1 /\ DeleteRoom
  <2>1. status \in {"waiting", "finished"}
    BY <1>1, DeletedIdle DEF RoomInv, TypeOK, BattleType
  <2>2. QED
    BY <1>1, <2>1, BattleCleared DEF DeleteRoom
<1>2. CASE SettleBattleAfterLeave(p)
  <2>1. CASE status = "battling"
    BY <1>2, <2>1, BattleShrinks
  <2>2. CASE status # "battling"
    BY <1>2, <2>2 DEF SettleBattleAfterLeave, Unsettled, battleVars, Seen
  <2>3. QED
    BY <2>1, <2>2
<1>3. QED
  BY <1>1, <1>2 DEF Leave

LEMMA ChooseImplements ==
    ASSUME RoomInv, Blank, NEW s \in Songs, phase = "choosing", ChooseAndStart(s)
    PROVE  [Contract!Next]_Seen
<1>1. status = "waiting"
  BY DEF RoomInv, OneThingAtATime, InProgress
<1>2. CASE Cardinality(DancersByRole) >= MinDancers /\ BattleStarts(DancersByRole)
  <2>1. DancersByRole \in SUBSET Players
    BY DEF RoomInv, TypeOK, SeatsType, DancersByRole, Seated, ToSet
  <2>2. Contract!Begin(DancersByRole)
    BY <1>1, <1>2, <2>1, BattleBegins
  <2>3. QED
    BY <2>1, <2>2 DEF Contract!Next, Contract!Begin
<1>3. CASE UNCHANGED <<seatVars, listVars, status, battleVars, lastResult>>
  BY <1>3 DEF battleVars, Seen
<1>4. QED
  BY <1>2, <1>3 DEF ChooseAndStart

LEMMA StepImplements ==
    ASSUME RoomInv, Blank, [Next]_vars
    PROVE  [Contract!Next]_Seen
<1>1. CASE UNCHANGED <<status, battleVars>>
  BY <1>1 DEF battleVars, Seen
<1>2. ASSUME NEW p \in Players, Leave(p) PROVE [Contract!Next]_Seen
  BY <1>2, LeaveImplements
<1>3. ASSUME NEW p \in Players, NEW s \in Songs, ChooseSong(p, s) PROVE [Contract!Next]_Seen
  BY <1>3, ChooseImplements DEF ChooseSong
<1>4. ASSUME NEW s \in Songs, AutoPick(s) PROVE [Contract!Next]_Seen
  BY <1>4, ChooseImplements DEF AutoPick
<1>5. ASSUME NEW p \in Players, NEW chosen \in SUBSET Players, StartBattle(p, chosen)
      PROVE  [Contract!Next]_Seen
  <2>1. Contract!Begin(chosen)
    BY <1>5, BattleBegins DEF StartBattle
  <2>2. QED
    BY <2>1 DEF Contract!Next, Contract!Begin
<1>6. ASSUME NEW p \in Players, NEW choice \in Players \cup {NoPlayer}, CastVote(p, choice)
      PROVE  [Contract!Next]_Seen
  BY <1>6 DEF CastVote, Seen
<1>7. ASSUME NEW p \in Players, AwardWordBonus(p) PROVE [Contract!Next]_Seen
  <2>1. Contract!WinRound(p)
    BY <1>7 DEF AwardWordBonus, Contract!WinRound
  <2>2. QED
    BY <2>1 DEF Contract!Next
<1>8. ASSUME FinishAtDeadline PROVE [Contract!Next]_Seen
  <2>1. result'.winner \in contenders' \cup {NoPlayer}
    BY <1>8, WinnerDanced DEF FinishAtDeadline, SongOver, FinishBattle
  <2>2. Contract!SongEnds
    BY <1>8, <2>1 DEF FinishAtDeadline, SongOver, FinishBattle, Contract!SongEnds, Contract!Announce
  <2>3. QED
    BY <2>2 DEF Contract!Next
<1>9. ASSUME NEW p \in Players, Rematch(p) PROVE [Contract!Next]_Seen
  BY <1>9, BattleCleared DEF Rematch
<1>10. ASSUME Next, ~UNCHANGED <<status, battleVars>>
       PROVE  \/ FinishAtDeadline
              \/ \E p \in Players : Leave(p) \/ Rematch(p) \/ AwardWordBonus(p)
              \/ \E p \in Players, s \in Songs : ChooseSong(p, s)
              \/ \E s \in Songs : AutoPick(s)
              \/ \E p \in Players, chosen \in SUBSET Players : StartBattle(p, chosen)
              \/ \E p \in Players, choice \in Players \cup {NoPlayer} : CastVote(p, choice)
  BY <1>10 DEF Next, CreateRoom, Join, SelectRole, SetReady, Kick, StartSongChallenge,
       SubmitSongPhrase, ExpireChallenge, Tick
<1>11. UNCHANGED vars => UNCHANGED <<status, battleVars>>
  BY DEF vars
<1>12. QED
  BY <1>1, <1>2, <1>3, <1>4, <1>5, <1>6, <1>7, <1>8, <1>9, <1>10, <1>11

\* Seen through its battle, a room keeps the contract.
THEOREM RoomImplementsContract == Spec => ImplementsContract
<1>1. Init => Blank /\ Contract!Waiting
  BY DEF Init, Blank, Contract!Waiting, NoWords, NoResult
<1>2. RoomInv /\ Blank /\ [Next]_vars => Blank'
  BY BlankStep
<1>3. RoomInv /\ Blank /\ [Next]_vars => [Contract!Next]_(Contract!contract)
  BY StepImplements DEF Seen, Contract!contract
<1>4. QED
  BY <1>1, <1>2, <1>3, RoomSafe, PTL DEF Spec, ImplementsContract, Contract!Spec
=============================================================================
