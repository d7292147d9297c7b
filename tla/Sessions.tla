------------------------------ MODULE Sessions ------------------------------
(***************************************************************************)
(* Sockets, seats and the timers that release abandoned seats                *)
(* (infrastructure/ws/socketHandlers.ts).                                    *)
(*                                                                           *)
(* Stores and socket.io adapter are in memory: whatever a handler awaits is  *)
(* a microtask, so timers, the sweep and the messages of another socket wait *)
(* until every handler has ended.  Only messages that arrive together from   *)
(* one socket (a burst) have handlers that overlap, at each await.           *)
(***************************************************************************)
EXTENDS Integers, Sequences, FiniteSets

CONSTANTS
    RoomOf,       \* RoomOf[n]: the room of place n; a place is a player in a room
    PlayerOf,     \* PlayerOf[n]: its player, who may have places in several rooms
    MaxSockets,   \* connections ever made
    Burst,        \* messages of one socket handled together
    LongGrace,    \* disconnectGraceMs, in ticks
    ShortGrace,   \* pagehideGraceMs
    CreatedGrace, \* createdRoomGraceMs
    Beacons       \* pages send a beacon when they are hidden

ASSUME SessionsAssumption ==
    /\ RoomOf \in Seq(Nat)
    /\ PlayerOf \in [DOMAIN RoomOf -> Nat]
    /\ \A n, m \in DOMAIN RoomOf : RoomOf[n] = RoomOf[m] /\ PlayerOf[n] = PlayerOf[m] => n = m
    /\ MaxSockets \in Nat /\ Burst \in Nat \ {0}
    /\ LongGrace \in Nat /\ ShortGrace \in 0..LongGrace /\ CreatedGrace \in Nat
    /\ Beacons \in BOOLEAN

Places == DOMAIN RoomOf
Rooms == {RoomOf[n] : n \in Places}
Sockets == 1..MaxSockets
Nowhere == 0
Off == -1            \* a timer that is not set, a seat not seen unbound
NoSocket == 0        \* an HTTP request

VARIABLES
    seats,       \* places taken, over all rooms (room.players)
    created,     \* rooms created so far
    connected,   \* how many sockets connected so far, in the order of sockets
    open,        \* those still connected
    bound,       \* socket.data: the place of each socket
    channels,    \* the channels of rooms each socket is in, whatever its data
    grace,       \* graceTimers: ticks left
    newRoom,     \* newRoomTimers: ticks left
    unbound,     \* unboundSince: ticks since
    tasks,       \* handlers under way
    held,        \* which of the room copies they hold are the stored version
    fresh        \* sockets that were sent the stored version of their room

timers == <<grace, newRoom, unbound>>
views == <<held, fresh>>
sockets == <<connected, open, bound, channels>>
vars == <<seats, created, sockets, timers, tasks, views>>

\* A handler: where it is, on behalf of which socket, for which place; the place it
\* releases and the socket its loop has come to.
Idle == [at |-> "idle", socket |-> NoSocket, place |-> Nowhere, old |-> Nowhere, seen |-> 0]

Init ==
    /\ seats = {} /\ created = {}
    /\ connected = 0 /\ open = {}
    /\ bound = [s \in Sockets |-> Nowhere]
    /\ channels = [s \in Sockets |-> {}]
    /\ grace = [n \in Places |-> Off]
    /\ newRoom = [n \in Places |-> Off]
    /\ unbound = [n \in Places |-> Off]
    /\ tasks = [t \in 1..Burst |-> Idle]
    /\ held = {} /\ fresh = {}

\* Sockets in the channel of a room, and those whose data names it.
In(r) == {s \in open : r \in channels[s]}
Pages(r) == {s \in open : bound[s] # Nowhere /\ RoomOf[bound[s]] = r}

Quiet == \A t \in 1..Burst : tasks[t] = Idle
RoomLives(n) == \E m \in seats : RoomOf[m] = RoomOf[n]
HasTab(n) == \E s \in open : bound[s] = n

\* isBound, and the sweep: somebody in the channel is the player, in whichever room.
IsBound(n) ==
    \E s \in In(RoomOf[n]) : bound[s] # Nowhere /\ PlayerOf[bound[s]] = PlayerOf[n]

Set(timer, n, ticks) == timer' = [timer EXCEPT ![n] = ticks]
Task(t, task) == tasks' = [tasks EXCEPT ![t] = task]

\* unbindSocket: the data is cleared and the channel it named is left, no other.
Unbind(s) ==
    /\ bound' = [bound EXCEPT ![s] = Nowhere]
    /\ channels' = IF bound[s] = Nowhere THEN channels
                   ELSE [channels EXCEPT ![s] = @ \ {RoomOf[bound[s]]}]

\* A handler ends; a burst is over when its last one does.
Ends(t) ==
    /\ tasks' = IF \A u \in (1..Burst) \ {t} : tasks[u].at \in {"idle", "done"}
                THEN [u \in 1..Burst |-> Idle]
                ELSE [tasks EXCEPT ![t] = [Idle EXCEPT !.at = "done"]]
    /\ held' = {copy \in held : copy[1] # t}

\* The room a copy is of: the one joined or acted in, or the one left.
CopyOf(copy) ==
    RoomOf[IF copy[2] = "room" THEN tasks[copy[1]].place ELSE tasks[copy[1]].old]

\* A use case answers handler t with room r, stored anew if it `changed`: then
\* all other copies, and what every socket was sent, are of an older version.
Answers(t, copy, r, changed) ==
    /\ held' = (IF changed THEN {c \in held : CopyOf(c) # r} ELSE held) \cup {<<t, copy>>}
    /\ fresh' = IF changed THEN fresh \ Pages(r) ELSE fresh

\* A version of room r sent to its channel reaches these pages of the room.
Told(r) == In(r) \cap Pages(r)

\* publishRoom: room:updated carries its version, and a client keeps the newest.
Publish(t, copy) ==
    fresh' = IF <<t, copy>> \in held THEN fresh \cup Told(CopyOf(<<t, copy>>)) ELSE fresh

\* The messages of a burst are all taken up before any of their handlers goes on:
\* a handler starts in the first free slot, beside unmoved ones of its socket.
Starts(t, s, task) ==
    /\ \A u \in 1..Burst : u < t <=> tasks[u] # Idle
    /\ \A u \in 1..(t - 1) :
          /\ tasks[u].socket = s
          /\ \/ tasks[u].at \in {"joined", "acted"}
             \/ tasks[u].at = "left" /\ tasks[u].place = Nowhere
    /\ Task(t, task)

-----------------------------------------------------------------------------
\* Connections and rooms.

\* POST /api/rooms: the host is seated and has to show up.
CreateRoom(n) ==
    /\ Quiet
    /\ RoomOf[n] \notin created
    /\ created' = created \cup {RoomOf[n]}
    /\ seats' = seats \cup {n}
    /\ Set(unbound, n, 0)
    /\ Set(newRoom, n, CreatedGrace)
    /\ UNCHANGED <<sockets, grace, tasks, views>>

Connect ==
    /\ Quiet
    /\ connected < MaxSockets
    /\ connected' = connected + 1
    /\ open' = open \cup {connected'}
    /\ UNCHANGED <<seats, created, bound, channels, timers, tasks, views>>

\* Fault: the newest grace counts.
ScheduleGrace_Newest(n, ticks) ==
    /\ Set(grace, n, ticks)
    /\ Set(unbound, n, IF unbound[n] = Off THEN 0 ELSE unbound[n])

\* scheduleGrace: a grace never postpones a pending one.
ScheduleGrace(n, ticks) ==
    IF grace[n] # Off /\ grace[n] <= ticks
    THEN UNCHANGED <<grace, unbound>>
    ELSE /\ Set(grace, n, ticks)
         /\ Set(unbound, n, IF unbound[n] = Off THEN 0 ELSE unbound[n])

\* The socket of a closed tab, a reload or a network drop: its data is out of reach.
Disconnect(s) ==
    /\ Quiet
    /\ s \in open
    /\ open' = open \ {s}
    /\ IF bound[s] = Nowhere THEN UNCHANGED <<grace, unbound>>
       ELSE ScheduleGrace(bound[s], LongGrace)
    /\ bound' = [bound EXCEPT ![s] = Nowhere]
    /\ channels' = [channels EXCEPT ![s] = {}]
    /\ fresh' = fresh \ {s}
    /\ UNCHANGED <<seats, created, connected, newRoom, tasks, held>>

\* POST /api/rooms/:code/leave with reason "pagehide".
Pagehide(n) ==
    /\ Beacons
    /\ Quiet
    /\ n \in seats
    /\ ScheduleGrace(n, ShortGrace)
    /\ UNCHANGED <<seats, created, sockets, newRoom, tasks, views>>

-----------------------------------------------------------------------------
\* room:join.

\* Fault: the room is not looked up.
RoomFound_Always(n) == TRUE

\* updateRoom: a room nobody is in is not stored.
RoomFound(n) == RoomLives(n)

\* joinRoom.execute: a seated player gets the room back, a new one may be refused.
Join(s, n) ==
    /\ s \in open
    /\ RoomFound(n)
    /\ seats' = seats \cup {n}
    /\ \E t \in 1..Burst :
          /\ Starts(t, s, [Idle EXCEPT !.at = "joined", !.socket = s, !.place = n])
          /\ Answers(t, "room", RoomOf[n], n \notin seats)
    /\ UNCHANGED <<created, sockets, timers>>

\* The socket becomes the player's and joins the room's channel, beside any other it
\* is in: a binding made since the old one was given up is overwritten, not left.
\* Nothing checks the seat again.
Binds(t) ==
    LET n == tasks[t].place
        s == tasks[t].socket
    IN  /\ Set(grace, n, Off)
        /\ Set(unbound, n, Off)
        /\ bound' = [bound EXCEPT ![s] = n]
        /\ channels' = [channels EXCEPT ![s] = @ \cup {RoomOf[n]}]
        /\ Task(t, [tasks[t] EXCEPT !.at = "bound"])
        /\ fresh' = IF bound[s] = n THEN fresh ELSE fresh \ {s}
        /\ UNCHANGED <<seats, newRoom, held>>

\* Fault: the new place replaces the old binding, whose seat stays taken.
JoinGoesOn_KeepsOld(t) ==
    /\ tasks[t].at = "joined"
    /\ Binds(t)
    /\ UNCHANGED <<created, connected, open>>

\* The binding found after the await is given up first: its seat is released
\* through leaveRoom, which fails when it is no longer taken.
JoinGoesOn(t) ==
    LET old == bound[tasks[t].socket]
    IN  /\ tasks[t].at = "joined"
        /\ \/ old \in {Nowhere, tasks[t].place} /\ Binds(t)
           \/ /\ old \in seats \ {tasks[t].place}
              /\ seats' = seats \ {old}
              /\ Task(t, [tasks[t] EXCEPT !.at = "left", !.old = old])
              /\ Answers(t, "left", RoomOf[old], TRUE)
              /\ UNCHANGED <<bound, channels, timers>>
           \/ /\ old \notin seats \cup {Nowhere, tasks[t].place}
              /\ Task(t, [tasks[t] EXCEPT !.at = "unbind", !.old = old])
              /\ UNCHANGED <<seats, bound, channels, timers, views>>
        /\ UNCHANGED <<created, connected, open>>

\* unbindSocket of leavePreviousBinding, whatever the socket is bound to by now.
UnbindOwn(t) ==
    /\ tasks[t].at = "unbind"
    /\ Unbind(tasks[t].socket)
    /\ Task(t, [tasks[t] EXCEPT !.at = "unbound"])
    /\ fresh' = fresh \ {tasks[t].socket}
    /\ UNCHANGED <<seats, created, connected, open, timers, held>>

\* Fault: the room is not read again after the departure.
SameRoom_Never(t) == FALSE

SameRoom(t) == RoomOf[tasks[t].place] = RoomOf[tasks[t].old]

\* Another room: bound at once.  The same room: the departure changed it, so it is
\* joined again, which may fail if the seat was lost meanwhile.
JoinEnds(t) ==
    LET n == tasks[t].place IN
    /\ tasks[t].at = "unbound"
    /\ \/ ~SameRoom(t) /\ Binds(t)
       \/ /\ SameRoom(t)
          /\ RoomLives(n)
          /\ seats' = seats \cup {n}
          /\ Task(t, [tasks[t] EXCEPT !.at = "rejoined"])
          /\ Answers(t, "room", RoomOf[n], n \notin seats)
          /\ UNCHANGED <<bound, channels, timers>>
       \/ /\ SameRoom(t)
          /\ n \notin seats
          /\ Ends(t)
          /\ UNCHANGED <<seats, bound, channels, timers, fresh>>
    /\ UNCHANGED <<created, connected, open>>

Rejoined(t) ==
    /\ tasks[t].at = "rejoined"
    /\ Binds(t)
    /\ UNCHANGED <<created, connected, open>>

\* The channels are joined; the copy of the room, however old by now, is sent.
Published(t) ==
    /\ tasks[t].at \in {"bound", "acted"}
    /\ Publish(t, "room")
    /\ Ends(t)
    /\ UNCHANGED <<seats, created, sockets, timers>>

-----------------------------------------------------------------------------
\* requireOwnSeat: the socket acts as the player it is bound to; the use case
\* refuses who is not seated.
OwnSeat(s) == s \in open /\ bound[s] \in seats

\* Any other event that changes the room.
Act(s) ==
    /\ OwnSeat(s)
    /\ \E t \in 1..Burst :
          /\ Starts(t, s, [Idle EXCEPT !.at = "acted", !.socket = s, !.place = bound[s]])
          /\ Answers(t, "room", RoomOf[bound[s]], TRUE)
    /\ UNCHANGED <<seats, created, sockets, timers>>

-----------------------------------------------------------------------------
\* Departures.

\* The seat is given up in the store.
Leave(s) ==
    /\ OwnSeat(s)
    /\ seats' = seats \ {bound[s]}
    /\ \E t \in 1..Burst :
          /\ Starts(t, s, [Idle EXCEPT !.at = "left", !.socket = s, !.old = bound[s]])
          /\ Answers(t, "left", RoomOf[bound[s]], TRUE)
    /\ UNCHANGED <<created, sockets, timers>>

\* The host, here any other player of the room, removes a player.
Kick(s, n) ==
    /\ OwnSeat(s)
    /\ n \in seats
    /\ n # bound[s] /\ RoomOf[n] = RoomOf[bound[s]]
    /\ seats' = seats \ {n}
    /\ \E t \in 1..Burst :
          /\ Starts(t, s, [Idle EXCEPT !.at = "left", !.socket = s, !.old = n])
          /\ Answers(t, "left", RoomOf[n], TRUE)
    /\ UNCHANGED <<created, sockets, timers>>

\* POST /api/rooms/:code/leave.
HttpLeave(n) ==
    /\ Quiet
    /\ n \in seats
    /\ seats' = seats \ {n}
    /\ \E t \in 1..Burst :
          /\ Starts(t, NoSocket, [Idle EXCEPT !.at = "left", !.old = n])
          /\ Answers(t, "left", RoomOf[n], TRUE)
    /\ UNCHANGED <<created, sockets, timers>>

\* Fault: only the first socket of the player is unbound.
TabsLeft_First(t) ==
    {s \in open : tasks[t].seen = 0 /\ bound[s] = tasks[t].old
                  /\ \A r \in open : bound[r] = tasks[t].old => s <= r}

\* The sockets of the departed player the loop of unbindPlayer has not come to.
TabsLeft(t) == {s \in open : s > tasks[t].seen /\ bound[s] = tasks[t].old}

\* cancelGrace, then every other socket of the player in turn, then announceLeave.
Detach(t) ==
    /\ tasks[t].at \in {"left", "detaching"}
    /\ IF tasks[t].at = "left" THEN Set(grace, tasks[t].old, Off) ELSE UNCHANGED grace
    /\ \/ \E next \in TabsLeft(t) :
              /\ \A s \in TabsLeft(t) : next <= s
              /\ Unbind(next)
              /\ Task(t, [tasks[t] EXCEPT !.at = "detaching", !.seen = next])
              /\ fresh' = fresh \ {next}
              /\ UNCHANGED held
       \/ /\ TabsLeft(t) = {}
          /\ Publish(t, "left")
          /\ \/ tasks[t].place = Nowhere /\ Ends(t)
             \/ /\ tasks[t].place # Nowhere
                /\ Task(t, [tasks[t] EXCEPT !.at = "unbind"])
                /\ held' = held \ {<<t, "left">>}
          /\ UNCHANGED <<bound, channels>>
    /\ UNCHANGED <<seats, created, connected, open, newRoom, unbound>>

-----------------------------------------------------------------------------
\* Timers and the sweep: their handlers run alone.

\* Fault: nobody looks whether the player is back.
Abandoned_Unchecked(places) == places \cap seats

\* releaseSeatIfAbandoned for each of the places: the seat is kept for a player
\* with a socket. leaveRoom then cancels the grace (no socket is bound).
Abandoned(places) == {n \in places \cap seats : ~IsBound(n)}

\* leaveRoom of each of them, which ends by publishing the room.
Release(gone) ==
    /\ seats' = seats \ gone
    /\ fresh' = fresh \cup UNION {Told(RoomOf[n]) : n \in gone}

Tick ==
    /\ Quiet
    /\ LET down(timer) == [n \in Places |-> IF timer[n] > 0 THEN timer[n] - 1 ELSE timer[n]]
       IN  grace' = down(grace) /\ newRoom' = down(newRoom)
    /\ unbound' = [n \in Places |->
          IF unbound[n] \in 0..(LongGrace - 1) THEN unbound[n] + 1 ELSE unbound[n]]
    /\ UNCHANGED <<seats, created, sockets, tasks, views>>

GraceFires(n) ==
    /\ Quiet
    /\ grace[n] = 0
    /\ Set(grace, n, Off)
    /\ Release(Abandoned({n}))
    /\ UNCHANGED <<created, sockets, newRoom, unbound, tasks, held>>

\* A pending grace decides instead.
NewRoomFires(n) ==
    /\ Quiet
    /\ newRoom[n] = 0
    /\ Set(newRoom, n, Off)
    /\ Release(IF grace[n] = Off THEN Abandoned({n}) ELSE {})
    /\ UNCHANGED <<created, sockets, grace, unbound, tasks, held>>

\* Fault: only seats dated by a disconnect are watched.
FirstSeen_Never(undecided) == {}

\* Seats not known to be unbound until now.
FirstSeen(undecided) == {n \in undecided : unbound[n] = Off}

\* Seats unbound for the whole grace are released, those first seen so are dated.
Sweep ==
    LET undecided == {n \in seats : ~IsBound(n) /\ grace[n] = Off /\ newRoom[n] = Off}
        overdue == {n \in undecided : unbound[n] >= LongGrace}
    IN  /\ Quiet
        /\ Release(Abandoned(overdue))
        /\ unbound' = [n \in Places |->
              IF n \notin seats \/ IsBound(n) \/ n \in overdue THEN Off
              ELSE IF n \in FirstSeen(undecided) THEN 0
              ELSE unbound[n]]
        /\ UNCHANGED <<created, sockets, grace, newRoom, tasks, held>>

-----------------------------------------------------------------------------
Request ==
    \/ Connect
    \/ \E n \in Places : CreateRoom(n) \/ Pagehide(n) \/ HttpLeave(n)
    \/ \E s \in Sockets :
          \/ Disconnect(s) \/ Leave(s) \/ Act(s)
          \/ \E n \in Places : Join(s, n) \/ Kick(s, n)

Handler ==
    \E t \in 1..Burst :
        \/ JoinGoesOn(t) \/ UnbindOwn(t) \/ JoinEnds(t) \/ Rejoined(t)
        \/ Published(t) \/ Detach(t)

Timer == Tick \/ \E n \in Places : GraceFires(n) \/ NewRoomFires(n)

Next == Request \/ Handler \/ Timer \/ Sweep

Spec == Init /\ [][Next]_vars

\* Handlers end, time passes, timers fire once due and the sweep comes round,
\* however many messages arrive: the event loop serves its timers in every turn.
Fairness ==
    /\ WF_vars(Handler) /\ SF_vars(Tick) /\ SF_vars(Sweep)
    /\ SF_vars(\E n \in Places : GraceFires(n)) /\ SF_vars(\E n \in Places : NewRoomFires(n))

FairSpec == Spec /\ Fairness

-----------------------------------------------------------------------------
\* Properties.

SessionsTypeOK ==
    /\ seats \subseteq Places
    /\ created \subseteq Rooms
    /\ connected \in 0..MaxSockets
    /\ open \subseteq 1..connected
    /\ bound \in [Sockets -> Places \cup {Nowhere}]
    /\ channels \in [Sockets -> SUBSET Rooms]
    /\ grace \in [Places -> Off..LongGrace]
    /\ newRoom \in [Places -> Off..CreatedGrace]
    /\ unbound \in [Places -> Off..LongGrace]
    /\ tasks \in [1..Burst ->
          [at : {"idle", "done", "joined", "left", "detaching", "unbind", "unbound", "rejoined",
                "bound", "acted"},
           socket : Sockets \cup {NoSocket}, place : Places \cup {Nowhere},
           old : Places \cup {Nowhere}, seen : Sockets \cup {0}]]
    /\ held \subseteq (1..Burst) \X {"room", "left"}
    /\ fresh \subseteq open
    /\ \A n \in seats : RoomOf[n] \in created

\* When no handler is under way a socket only holds the place of a player of the
\* room: one who left, was kicked or was released is cut off in every tab, and no tab
\* is left in the channel of a room it is not bound to.
BoundIsSeated ==
    Quiet => \A s \in open :
        /\ bound[s] \in seats \cup {Nowhere}
        /\ \A r \in channels[s] : s \in Pages(r)

\* ... and every seat has a socket or a timer that will decide about it; the
\* sweep is only needed when something failed.
NoGhostSeat ==
    Quiet => \A n \in seats : HasTab(n) \/ grace[n] # Off \/ newRoom[n] # Off

\* Every page of a player in the room ends up with its newest version: whichever
\* handlers changed the room meanwhile, each was published, by someone who still
\* held that version and to everybody in the channel by then.
TabsUpToDate == Quiet => \A s \in open : bound[s] \in seats => s \in fresh

\* The seat of a player with a socket is only taken by a request, never by a timer or
\* the sweep, however late they are and in whatever channels bursts left the socket:
\* these look for the player in the channel, while the socket acts by its data.
OnlyRequestsUnseat ==
    [][\A n \in seats \ seats' : HasTab(n) => tasks' # tasks]_vars

\* A pending grace only gets longer by first being given up for a socket or a
\* departure: a beacon is not stretched by the disconnect that follows it.
GraceNeverPostponed ==
    [][\A n \in Places : grace[n] # Off => grace'[n] <= grace[n]]_vars

\* A disconnect starts the grace anew, as the comment on graceTimers says ("A newer
\* disconnect replaces the timer"); in the code the first of two tabs decides.
NewerDisconnectReplaces ==
    [][\A s \in open \ open' : bound[s] # Nowhere => grace'[bound[s]] = LongGrace]_vars

\* A seat whose player nobody in the room's channel is gets freed in the end, whatever
\* became of the timers and of bursts, unless the player comes back.
AbandonedSeatFreed ==
    \A n \in Places : n \in seats ~> (n \notin seats \/ IsBound(n))

\* A seat no socket acts for is freed in the end, as "the socket never keeps a ghost
\* seat" says; in the code a burst may leave a socket in a second channel, where the
\* sweep takes it for the player's as long as it lives.
UnheldSeatFreed ==
    \A n \in Places : n \in seats ~> (n \notin seats \/ HasTab(n))
=============================================================================
