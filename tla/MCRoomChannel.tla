---------------------------- MODULE MCRoomChannel ----------------------------
(***************************************************************************)
(* One battle of a larger room, with what its handlers send.  It begins in *)
(* a lobby where every player is seated and ready and a song is chosen, so *)
(* the host may start.                                                     *)
(***************************************************************************)
EXTENDS RoomChannel

\* Player ids are compared only for equality, and no property orders them.
Symmetry == Permutations(Players)

ReadyLobby ==
    /\ players \in {s \in [1..Cardinality(Players) -> Players] : ToSet(s) = Players}
    /\ host = players[1]
    /\ role = [p \in Players |-> "dancer"]
    /\ ready = Players
    /\ dancers = {} /\ spectators = {}
    /\ status = "waiting"
    /\ phase = "done" /\ participants = {} /\ failed = {}
    /\ chooser = NoPlayer /\ reason = "none" /\ song \in Songs
    /\ contenders = {} /\ roster = {} /\ audience = {}
    /\ votes = NoVotes /\ words = NoWords
    /\ endReason = "none" /\ result = NoResult
    /\ lastResult = NoResult
    /\ clock = "idle"
    /\ told = NoVotes /\ record = NoRecord /\ attendance = NobodyCame

BattleSpec == ReadyLobby /\ [][ChannelNext]_allVars

\* Bound: that lobby, where roles may still change, and the battle; the run stops at
\* a rematch, the deletion of the room or a departure from the lobby.
OneBattle == status # "waiting" \/ (ready = Players /\ phase = "done")
=============================================================================
