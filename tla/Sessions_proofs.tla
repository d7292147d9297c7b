-------------------------- MODULE Sessions_proofs ---------------------------
(***************************************************************************)
(* Theorems about Sessions, for any number of rooms, places and sockets and *)
(* any graces.  Those of the first part hold for bursts of any size, those  *)
(* of the second where messages come one at a time (Burst = 1).             *)
(***************************************************************************)
EXTENDS Sessions, TLAPS

\* A handler of a join or of an action knows its place, and whose socket it serves.
Records ==
    [at : {"idle", "done", "joined", "left", "detaching", "unbind", "unbound", "rejoined", "bound", "acted"},
     socket : Sockets \cup {NoSocket}, place : Places \cup {Nowhere},
     old : Places \cup {Nowhere}, seen : Sockets \cup {0}]
TaskType ==
    {m \in Records :
        /\ m.at \in {"joined", "unbind", "unbound", "rejoined", "bound", "acted"} => m.place \in Places
        /\ m.place \in Places => m.socket \in Sockets}

\* The type invariant, in the parts that steps leave alone.
SeatsType ==
    /\ seats \subseteq Places
    /\ created \subseteq Rooms
    /\ \A n \in seats : RoomOf[n] \in created
SocketsType ==
    /\ connected \in 0..MaxSockets
    /\ open \subseteq 1..connected
    /\ bound \in [Sockets -> Places \cup {Nowhere}]
    /\ channels \in [Sockets -> SUBSET Rooms]
TimersType ==
    /\ grace \in [Places -> Off..LongGrace]
    /\ newRoom \in [Places -> Off..CreatedGrace]
    /\ unbound \in [Places -> Off..LongGrace]
TasksType == tasks \in [1..Burst -> TaskType]
ViewsType == held \subseteq (1..Burst) \X {"room", "left"} /\ fresh \subseteq open

TypeInv == SeatsType /\ SocketsType /\ TimersType /\ TasksType /\ ViewsType

LEMMA NoPlaceZero == Nowhere \notin Places /\ Places \subseteq Nat
BY SessionsAssumption DEF Places, Nowhere

LEMMA Ticks ==
    /\ Off \in Off..LongGrace /\ 0 \in Off..LongGrace /\ LongGrace \in Off..LongGrace /\ ShortGrace \in Off..LongGrace
    /\ Off \in Off..CreatedGrace /\ CreatedGrace \in Off..CreatedGrace
    /\ LongGrace # Off /\ ShortGrace # Off /\ CreatedGrace # Off /\ Off # 0
BY SessionsAssumption DEF Off

LEMMA IdleType == Idle \in TaskType /\ Idle.at = "idle" /\ Idle.place = Nowhere
BY NoPlaceZero DEF Idle, TaskType, Records

LEMMA SessionsStart == Init => TypeInv
<1> SUFFICES ASSUME Init PROVE TypeInv
  OBVIOUS
<1>1. SeatsType /\ SocketsType /\ ViewsType
  BY SessionsAssumption DEF Init, SeatsType, SocketsType, ViewsType
<1>2. TimersType /\ TasksType
  BY Ticks, IdleType DEF Init, TimersType, TasksType
<1>3. QED
  BY <1>1, <1>2 DEF TypeInv

-----------------------------------------------------------------------------
\* What the operators of the handlers leave.

LEMMA SetKeeps ==
    ASSUME NEW T, NEW S, NEW f \in [S -> T], NEW x, NEW y \in T
    PROVE  [f EXCEPT ![x] = y] \in [S -> T]
OBVIOUS

LEMMA EndsType ==
    ASSUME TasksType, ViewsType, NEW t \in 1..Burst, Ends(t)
    PROVE  TasksType' /\ held' \subseteq held
<1>1. [Idle EXCEPT !.at = "done"] \in TaskType
  BY NoPlaceZero DEF Idle, TaskType, Records
<1>2. QED
  BY <1>1, IdleType DEF Ends, TasksType

\* A handler that starts does so in a free slot.
LEMMA StartsType ==
    ASSUME TasksType, NEW t \in 1..Burst, NEW s, NEW task \in TaskType, Starts(t, s, task)
    PROVE  TasksType' /\ tasks[t] = Idle /\ tasks' = [tasks EXCEPT ![t] = task]
BY SessionsAssumption DEF Starts, Task, TasksType

LEMMA AnswersType ==
    ASSUME ViewsType, UNCHANGED open, NEW t \in 1..Burst, NEW copy \in {"room", "left"}, NEW r, NEW changed,
           Answers(t, copy, r, changed)
    PROVE  ViewsType'
BY DEF Answers, ViewsType

LEMMA PublishType ==
    ASSUME ViewsType, UNCHANGED open, NEW t, NEW copy, Publish(t, copy)
    PROVE  fresh' \subseteq open'
BY DEF Publish, ViewsType, Told, Pages

LEMMA BindsType ==
    ASSUME TypeInv, NEW t \in 1..Burst, Binds(t), tasks[t].place \in Places, UNCHANGED <<created, connected, open>>
    PROVE  TypeInv'
<1>1. tasks[t] \in TaskType 
  BY DEF TypeInv, TasksType
<1>2. SeatsType'
  BY DEF TypeInv, Binds, SeatsType
<1>3. SocketsType'
  BY <1>1 DEF TypeInv, Binds, SocketsType, Rooms
<1>4. TimersType'
  BY Ticks DEF TypeInv, Binds, Set, TimersType
<1>5. TasksType'
  <2>1. [tasks[t] EXCEPT !.at = "bound"] \in TaskType
    BY <1>1 DEF TaskType, Records
  <2>2. QED
    BY <2>1 DEF TypeInv, Binds, Task, TasksType
<1>6. ViewsType'
  BY DEF TypeInv, Binds, ViewsType
<1>7. QED
  BY <1>2, <1>3, <1>4, <1>5, <1>6 DEF TypeInv

LEMMA UnbindType ==
    ASSUME SocketsType, NEW s, Unbind(s), UNCHANGED <<connected, open>>
    PROVE  SocketsType'
<1>1. bound' \in [Sockets -> Places \cup {Nowhere}]
  BY DEF Unbind, SocketsType
<1>2. channels' \in [Sockets -> SUBSET Rooms]
  BY DEF Unbind, SocketsType
<1>3. QED
  BY <1>1, <1>2 DEF SocketsType

LEMMA GraceType ==
    ASSUME TimersType, NEW n \in Places, NEW ticks \in {LongGrace, ShortGrace}, ScheduleGrace(n, ticks)
    PROVE  grace' \in [Places -> Off..LongGrace] /\ unbound' \in [Places -> Off..LongGrace]
<1>1. ticks \in Off..LongGrace
  BY Ticks
<1>2. CASE UNCHANGED <<grace, unbound>>
  BY <1>2 DEF TimersType
<1>3. CASE /\ grace' = [grace EXCEPT ![n] = ticks]
           /\ unbound' = [unbound EXCEPT ![n] = IF unbound[n] = Off THEN 0 ELSE unbound[n]]
  BY <1>1, <1>3, Ticks DEF TimersType
<1>4. QED
  BY <1>2, <1>3 DEF ScheduleGrace, Set

LEMMA ReleaseType ==
    ASSUME SeatsType, ViewsType, NEW gone, Release(gone), UNCHANGED <<created, open, held>>
    PROVE  SeatsType' /\ ViewsType'
<1>1. SeatsType'
  BY DEF Release, SeatsType
<1>2. \A n : Told(RoomOf[n]) \subseteq open
  BY DEF Told, Pages
<1>3. ViewsType'
  BY <1>2 DEF Release, ViewsType
<1>4. QED
  BY <1>1, <1>3

-----------------------------------------------------------------------------
LEMMA ConnectionTypes ==
    ASSUME TypeInv,
           \/ Connect
           \/ \E n \in Places : CreateRoom(n) \/ Pagehide(n)
           \/ \E s \in Sockets : Disconnect(s)
    PROVE  TypeInv'
<1>1. CASE Connect
  <2>1. SocketsType'
    BY <1>1, SessionsAssumption DEF Connect, TypeInv, SocketsType
  <2>2. ViewsType'
    BY <1>1 DEF Connect, TypeInv, ViewsType, views
  <2>3. QED
    BY <1>1, <2>1, <2>2 DEF Connect, TypeInv, SeatsType, TimersType, TasksType, timers
<1>2. ASSUME NEW n \in Places, CreateRoom(n) PROVE TypeInv'
  <2>1. SeatsType'
    BY <1>2 DEF CreateRoom, TypeInv, SeatsType, Rooms
  <2>2. TimersType'
    BY <1>2, Ticks DEF CreateRoom, Set, TypeInv, TimersType
  <2>3. QED
    BY <1>2, <2>1, <2>2 DEF CreateRoom, TypeInv, SocketsType, sockets, TasksType, ViewsType, views
<1>3. ASSUME NEW n \in Places, Pagehide(n) PROVE TypeInv'
  <2>1. TimersType'
    BY <1>3, GraceType DEF Pagehide, TypeInv, TimersType
  <2>2. QED
    BY <1>3, <2>1 DEF Pagehide, TypeInv, SeatsType, SocketsType, sockets, TasksType, ViewsType, views
<1>4. ASSUME NEW s \in Sockets, Disconnect(s) PROVE TypeInv'
  <2>0. PICK n : n = bound[s]
    OBVIOUS
  <2>1. UNCHANGED <<grace, unbound>> \/ (n \in Places /\ ScheduleGrace(n, LongGrace))
    BY <1>4, <2>0 DEF Disconnect, ScheduleGrace, Set, TypeInv, SocketsType
  <2>2. TimersType'
    BY <1>4, <2>1, GraceType DEF Disconnect, TypeInv, TimersType
  <2>3. SocketsType' /\ ViewsType'
    BY <1>4 DEF Disconnect, TypeInv, SocketsType, ViewsType
  <2>4. QED
    BY <1>4, <2>2, <2>3 DEF Disconnect, TypeInv, SeatsType, TasksType
<1>5. QED
  BY <1>1, <1>2, <1>3, <1>4

\* A message that starts a handler: the use case answers it at once.
LEMMA MessageTypes ==
    ASSUME TypeInv,
           \/ \E n \in Places : HttpLeave(n)
           \/ \E s \in Sockets : Leave(s) \/ Act(s) \/ \E n \in Places : Join(s, n) \/ Kick(s, n)
    PROVE  TypeInv'
<1>1. ASSUME NEW t \in 1..Burst, NEW s, NEW task \in TaskType, Starts(t, s, task),
             NEW copy \in {"room", "left"}, NEW r, NEW changed, Answers(t, copy, r, changed),
             SeatsType', UNCHANGED <<sockets, timers>>
      PROVE  TypeInv'
  <2>1. TasksType' /\ ViewsType'
    BY <1>1, StartsType, AnswersType DEF TypeInv, sockets
  <2>2. QED
    BY <1>1, <2>1 DEF TypeInv, SocketsType, sockets, TimersType, timers
<1>2. ASSUME NEW s \in Sockets, NEW n \in Places
      PROVE  /\ [Idle EXCEPT !.at = "joined", !.socket = s, !.place = n] \in TaskType
             /\ [Idle EXCEPT !.at = "acted", !.socket = s, !.place = n] \in TaskType
             /\ [Idle EXCEPT !.at = "left", !.socket = s, !.old = n] \in TaskType
  BY <1>2, NoPlaceZero DEF Idle, TaskType, Records
<1>3. \A gone : SeatsType /\ seats' = seats \ gone /\ UNCHANGED created => SeatsType'
  BY DEF SeatsType
<1>4. \A s : OwnSeat(s) => bound[s] \in Places
  BY DEF OwnSeat, TypeInv, SeatsType
<1>5. ASSUME NEW n \in Places, HttpLeave(n) PROVE TypeInv'
  <2>1. SeatsType'
    BY <1>3, <1>5 DEF HttpLeave, TypeInv
  <2>2. [Idle EXCEPT !.at = "left", !.old = n] \in TaskType
    BY NoPlaceZero DEF Idle, TaskType, Records
  <2>3. QED
    BY <1>1, <1>5, <2>1, <2>2 DEF HttpLeave
<1>6. ASSUME NEW s \in Sockets, Leave(s) PROVE TypeInv'
  <2>1. SeatsType'
    BY <1>3, <1>6 DEF Leave, TypeInv
  <2>2. QED
    BY <1>1, <1>2, <1>4, <1>6, <2>1 DEF Leave
<1>7. ASSUME NEW s \in Sockets, Act(s) PROVE TypeInv'
  <2>1. SeatsType'
    BY <1>7 DEF Act, TypeInv, SeatsType
  <2>2. QED
    BY <1>1, <1>2, <1>4, <1>7, <2>1 DEF Act
<1>8. ASSUME NEW s \in Sockets, NEW n \in Places, Join(s, n) PROVE TypeInv'
  <2>1. SeatsType'
    BY <1>8 DEF Join, RoomFound, RoomLives, TypeInv, SeatsType
  <2>2. QED
    BY <1>1, <1>2, <1>8, <2>1 DEF Join
<1>9. ASSUME NEW s \in Sockets, NEW n \in Places, Kick(s, n) PROVE TypeInv'
  <2>1. SeatsType'
    BY <1>3, <1>9 DEF Kick, TypeInv
  <2>2. QED
    BY <1>1, <1>2, <1>9, <2>1 DEF Kick
<1>10. QED
  BY <1>5, <1>6, <1>7, <1>8, <1>9

LEMMA HandlerTypes ==
    ASSUME TypeInv, Handler
    PROVE  TypeInv'
<1>1. PICK t \in 1..Burst : JoinGoesOn(t) \/ UnbindOwn(t) \/ JoinEnds(t) \/ Rejoined(t) \/ Published(t) \/ Detach(t)
  BY DEF Handler
<1>2. PICK m \in TaskType : m = tasks[t]
  BY DEF TypeInv, TasksType
<1>3. /\ m.place \in Places => \A at \in {"bound", "unbind", "unbound", "rejoined"} : [m EXCEPT !.at = at] \in TaskType
      /\ \A n \in Places : [m EXCEPT !.at = "left", !.old = n] \in TaskType
      /\ \A n \in Places : [m EXCEPT !.at = "unbind", !.old = n] \in TaskType \/ m.place \notin Places
      /\ \A n \in Sockets : [m EXCEPT !.at = "detaching", !.seen = n] \in TaskType
  BY DEF TaskType, Records
<1>4. ASSUME NEW n \in TaskType, Task(t, n) PROVE TasksType'
  BY <1>4, SetKeeps DEF Task, TypeInv, TasksType
<1>5. ASSUME UNCHANGED <<seats, created>> PROVE SeatsType'
  BY <1>5 DEF TypeInv, SeatsType
<1>6. ASSUME UNCHANGED timers PROVE TimersType'
  BY <1>6 DEF TypeInv, TimersType, timers
<1>7. ASSUME UNCHANGED <<connected, open, bound, channels>> PROVE SocketsType'
  BY <1>7 DEF TypeInv, SocketsType
<1>8. CASE JoinGoesOn(t)
  <2>1. PICK old : old = bound[m.socket]
    OBVIOUS
  <2>2. m.at = "joined" /\ m.place \in Places /\ m.socket \in Sockets /\ old \in Places \cup {Nowhere}
    BY <1>2, <1>8, <2>1 DEF JoinGoesOn, TaskType, TypeInv, SocketsType
  <2>3. UNCHANGED <<created, connected, open>>
    BY <1>8 DEF JoinGoesOn
  <2>4. CASE Binds(t)
    BY <1>2, <2>2, <2>3, <2>4, BindsType
  <2>5. CASE /\ old \in seats /\ seats' = seats \ {old}
             /\ Task(t, [m EXCEPT !.at = "left", !.old = old])
             /\ Answers(t, "left", RoomOf[old], TRUE) /\ UNCHANGED <<bound, channels, timers>>
    <3>1. SeatsType' /\ old \in Places
      BY <2>3, <2>5 DEF TypeInv, SeatsType
    <3>2. TasksType' /\ ViewsType'
      BY <1>3, <1>4, <2>3, <2>5, <3>1, AnswersType DEF TypeInv
    <3>3. QED
      BY <1>6, <1>7, <2>3, <2>5, <3>1, <3>2 DEF TypeInv
  <2>6. CASE /\ old # Nowhere /\ Task(t, [m EXCEPT !.at = "unbind", !.old = old])
             /\ UNCHANGED <<seats, bound, channels, timers, views>>
    <3>1. TasksType'
      BY <1>3, <1>4, <2>2, <2>6
    <3>2. ViewsType'
      BY <2>3, <2>6 DEF TypeInv, ViewsType, views
    <3>3. QED
      BY <1>5, <1>6, <1>7, <2>3, <2>6, <3>1, <3>2 DEF TypeInv
  <2>7. QED
    BY <1>2, <1>8, <2>1, <2>4, <2>5, <2>6 DEF JoinGoesOn
<1>9. CASE UnbindOwn(t)
  <2>1. TasksType'
    BY <1>2, <1>3, <1>4, <1>9 DEF UnbindOwn, TaskType
  <2>2. SocketsType' /\ ViewsType'
    BY <1>9, UnbindType DEF UnbindOwn, TypeInv, ViewsType
  <2>3. QED
    BY <1>5, <1>6, <1>9, <2>1, <2>2 DEF UnbindOwn, TypeInv
<1>10. CASE JoinEnds(t)
  <2>1. m.place \in Places /\ UNCHANGED <<created, connected, open>>
    BY <1>2, <1>10 DEF JoinEnds, TaskType
  <2>2. CASE Binds(t)
    BY <1>2, <2>1, <2>2, BindsType
  <2>3. CASE /\ RoomLives(m.place) /\ seats' = seats \cup {m.place}
             /\ Task(t, [m EXCEPT !.at = "rejoined"])
             /\ Answers(t, "room", RoomOf[m.place], m.place \notin seats)
             /\ UNCHANGED <<bound, channels, timers>>
    <3>1. SeatsType'
      BY <2>1, <2>3 DEF RoomLives, TypeInv, SeatsType
    <3>2. TasksType' /\ ViewsType'
      BY <1>3, <1>4, <2>1, <2>3, AnswersType DEF TypeInv
    <3>3. QED
      BY <1>6, <1>7, <2>1, <2>3, <3>1, <3>2 DEF TypeInv
  <2>4. CASE Ends(t) /\ UNCHANGED <<seats, bound, channels, timers, fresh>>
    <3>1. TasksType' /\ ViewsType'
      BY <2>1, <2>4, EndsType DEF TypeInv, ViewsType
    <3>2. QED
      BY <1>5, <1>6, <1>7, <2>1, <2>4, <3>1 DEF TypeInv
  <2>5. QED
    BY <1>2, <1>10, <2>2, <2>3, <2>4 DEF JoinEnds
<1>11. CASE Rejoined(t)
  BY <1>2, <1>11, BindsType DEF Rejoined, TaskType
<1>12. CASE Published(t)
  <2>1. UNCHANGED <<seats, created, connected, open, bound, channels, timers>>
    BY <1>12 DEF Published, sockets
  <2>2. TasksType' /\ ViewsType'
    BY <1>12, <2>1, EndsType, PublishType DEF Published, TypeInv, ViewsType
  <2>3. QED
    BY <1>5, <1>6, <1>7, <2>1, <2>2 DEF TypeInv
<1>13. CASE Detach(t)
  <2>1. UNCHANGED <<seats, created, connected, open, newRoom, unbound>>
    BY <1>13 DEF Detach
  <2>2. TimersType'
    BY <1>13, <2>1, Ticks DEF Detach, Set, TypeInv, TimersType
  <2>3. CASE \E next \in TabsLeft(t) : /\ Unbind(next) /\ fresh' = fresh \ {next} /\ UNCHANGED held
                                      /\ Task(t, [m EXCEPT !.at = "detaching", !.seen = next])
    <3>1. TabsLeft(t) \subseteq Sockets
      <4>1. TabsLeft(t) \subseteq open /\ open \subseteq 1..connected /\ connected \in 0..MaxSockets
        BY DEF TabsLeft, TypeInv, SocketsType
      <4>2. MaxSockets \in Nat
        BY SessionsAssumption
      <4>3. 1..connected \subseteq 1..MaxSockets
        BY <4>1, <4>2
      <4>4. QED
        BY <4>1, <4>3 DEF Sockets
    <3>2. SocketsType' /\ ViewsType'
      BY <2>1, <2>3, UnbindType DEF TypeInv, ViewsType
    <3>3. TasksType'
      BY <1>3, <1>4, <2>3, <3>1
    <3>4. QED
      BY <1>5, <2>1, <2>2, <3>2, <3>3 DEF TypeInv
  <2>4. CASE /\ Publish(t, "left") /\ UNCHANGED <<bound, channels>>
             /\ \/ Ends(t)
                \/ /\ m.place # Nowhere /\ Task(t, [m EXCEPT !.at = "unbind"])
                   /\ held' = held \ {<<t, "left">>}
    <3>1. fresh' \subseteq open'
      BY <2>1, <2>4, PublishType DEF TypeInv
    <3>2. TasksType' /\ held' \subseteq held
      <4>1. m.place # Nowhere => [m EXCEPT !.at = "unbind"] \in TaskType
        BY <1>3 DEF TaskType, Records
      <4>2. QED
        BY <1>4, <2>4, <4>1, EndsType DEF TypeInv
    <3>3. QED
      BY <1>5, <1>7, <2>1, <2>2, <2>4, <3>1, <3>2 DEF TypeInv, ViewsType
  <2>5. QED
    BY <1>2, <1>13, <2>3, <2>4 DEF Detach
<1>14. QED
  BY <1>1, <1>8, <1>9, <1>10, <1>11, <1>12, <1>13

LEMMA TimerTypes ==
    ASSUME TypeInv, Timer \/ Sweep
    PROVE  TypeInv'
<1>1. ASSUME NEW gone, Release(gone), UNCHANGED <<created, sockets, tasks, held>>, TimersType'
      PROVE  TypeInv'
  <2>1. SeatsType' /\ ViewsType'
    BY <1>1, ReleaseType DEF TypeInv, sockets
  <2>2. QED
    BY <1>1, <2>1 DEF TypeInv, SocketsType, sockets, TasksType
<1>2. CASE Tick
  <2>1. /\ grace' = [n \in Places |-> IF grace[n] > 0 THEN grace[n] - 1 ELSE grace[n]]
        /\ newRoom' = [n \in Places |-> IF newRoom[n] > 0 THEN newRoom[n] - 1 ELSE newRoom[n]]
        /\ unbound' = [n \in Places |-> IF unbound[n] \in 0..(LongGrace - 1) THEN unbound[n] + 1 ELSE unbound[n]]
    BY <1>2 DEF Tick
  <2>2. TimersType'
    BY <2>1, SessionsAssumption DEF TypeInv, TimersType, Off
  <2>3. QED
    BY <1>2, <2>2 DEF Tick, TypeInv, SeatsType, SocketsType, sockets, TasksType, ViewsType, views
<1>3. ASSUME NEW n \in Places, GraceFires(n) PROVE TypeInv'
  <2>1. TimersType'
    BY <1>3, Ticks DEF GraceFires, Set, TypeInv, TimersType
  <2>2. QED
    BY <1>1, <1>3, <2>1 DEF GraceFires
<1>4. ASSUME NEW n \in Places, NewRoomFires(n) PROVE TypeInv'
  <2>1. TimersType'
    BY <1>4, Ticks DEF NewRoomFires, Set, TypeInv, TimersType
  <2>2. QED
    BY <1>1, <1>4, <2>1 DEF NewRoomFires
<1>5. CASE Sweep
  <2>1. TimersType'
    BY <1>5, Ticks DEF Sweep, TypeInv, TimersType
  <2>2. QED
    BY <1>1, <1>5, <2>1 DEF Sweep
<1>6. QED
  BY <1>2, <1>3, <1>4, <1>5 DEF Timer

LEMMA SessionsStep == TypeInv /\ [Next]_vars => TypeInv'
<1> SUFFICES ASSUME TypeInv, [Next]_vars PROVE TypeInv'
  OBVIOUS
<1>1. CASE UNCHANGED vars
  BY <1>1 DEF vars, sockets, timers, views, TypeInv, SeatsType, SocketsType, TimersType, TasksType, ViewsType
<1>2. QED
  BY <1>1, ConnectionTypes, MessageTypes, HandlerTypes, TimerTypes DEF Next, Request

\* Seats, bindings, timers, handlers and the copies they hold keep their types, and
\* whoever is seated sits in a room that was created.
THEOREM SessionsTypes == Spec => []SessionsTypeOK
<1>1. TypeInv => SessionsTypeOK
  BY DEF TypeInv, SeatsType, SocketsType, TimersType, TasksType, ViewsType, TaskType, Records, SessionsTypeOK
<1>2. QED
  BY <1>1, SessionsStart, SessionsStep, PTL DEF Spec

-----------------------------------------------------------------------------
\* A handler that starts is seen in the handlers under way.
LEMMA StartsSeen ==
    ASSUME TypeInv, NEW t \in 1..Burst, NEW s, NEW task, task.at # "idle", Starts(t, s, task)
    PROVE  tasks' # tasks
<1>1. tasks[t] = Idle /\ tasks' = [tasks EXCEPT ![t] = task]
  BY SessionsAssumption DEF Starts, Task
<1>2. tasks'[t] = task
  BY <1>1 DEF TypeInv, TasksType
<1>3. QED
  BY <1>1, <1>2, IdleType

LEMMA DepartureSeen ==
    ASSUME TypeInv,
           \/ \E n \in Places : HttpLeave(n)
           \/ \E s \in Sockets : Leave(s) \/ \E n \in Places : Kick(s, n)
    PROVE  tasks' # tasks
<1>1. \A s, n : /\ [Idle EXCEPT !.at = "left", !.socket = s, !.old = n].at # "idle"
                /\ [Idle EXCEPT !.at = "left", !.old = n].at # "idle"
  BY DEF Idle
<1>2. ASSUME NEW n \in Places, HttpLeave(n) PROVE tasks' # tasks
  BY <1>1, <1>2, StartsSeen DEF HttpLeave
<1>3. ASSUME NEW s \in Sockets, Leave(s) PROVE tasks' # tasks
  BY <1>1, <1>3, StartsSeen DEF Leave
<1>4. ASSUME NEW s \in Sockets, NEW n \in Places, Kick(s, n) PROVE tasks' # tasks
  BY <1>1, <1>4, StartsSeen DEF Kick
<1>5. QED
  BY <1>2, <1>3, <1>4

\* Who may take a seat: a departure, a socket that moves on, or a timer.
LEMMA SeatSteps ==
    ASSUME [Next]_vars, ~(seats \subseteq seats')
    PROVE  \/ \E n \in Places : HttpLeave(n) \/ GraceFires(n) \/ NewRoomFires(n)
           \/ \E s \in Sockets : Leave(s) \/ \E n \in Places : Kick(s, n)
           \/ \E t \in 1..Burst : JoinGoesOn(t)
           \/ Sweep
<1>1. ~UNCHANGED seats /\ Next
  BY DEF vars
<1>2. QED
  BY <1>1 DEF Next, Request, Connect, CreateRoom, Pagehide, Disconnect, Act, Join, Handler, UnbindOwn, JoinEnds,
     Binds, Rejoined, Published, Detach, Timer, Tick

\* What becomes of a socket's data and of its channels.
LEMMA SocketSteps ==
    ASSUME [Next]_vars
    PROVE  \/ UNCHANGED <<bound, channels>>
           \/ \E s \in Sockets : /\ bound' = [bound EXCEPT ![s] = Nowhere]
                                 /\ channels' = [channels EXCEPT ![s] = {}]
           \/ \E s : Unbind(s)
           \/ \E t \in 1..Burst :
                 /\ Binds(t)
                 /\ \/ tasks[t].at = "joined" /\ bound[tasks[t].socket] \in {Nowhere, tasks[t].place}
                    \/ tasks[t].at \in {"unbound", "rejoined"}
<1>1. CASE UNCHANGED vars
  BY <1>1 DEF vars, sockets
<1>2. CASE Request
  BY <1>2 DEF Request, Connect, CreateRoom, Pagehide, HttpLeave, Disconnect, Leave, Act, Join, Kick, sockets
<1>3. ASSUME NEW t \in 1..Burst, JoinGoesOn(t) \/ JoinEnds(t) \/ Rejoined(t)
      PROVE  \/ UNCHANGED <<bound, channels>>
             \/ /\ Binds(t)
                /\ \/ tasks[t].at = "joined" /\ bound[tasks[t].socket] \in {Nowhere, tasks[t].place}
                   \/ tasks[t].at \in {"unbound", "rejoined"}
  BY <1>3 DEF JoinGoesOn, JoinEnds, Rejoined
<1>4. ASSUME NEW t \in 1..Burst, UnbindOwn(t) \/ Published(t) \/ Detach(t)
      PROVE  UNCHANGED <<bound, channels>> \/ \E s : Unbind(s)
  BY <1>4 DEF UnbindOwn, Published, Detach, sockets
<1>5. CASE Handler
  BY <1>3, <1>4, <1>5 DEF Handler
<1>6. CASE Timer \/ Sweep
  BY <1>6 DEF Timer, Tick, GraceFires, NewRoomFires, Sweep, sockets
<1>7. QED
  BY <1>1, <1>2, <1>5, <1>6 DEF Next

\* Whatever a burst does, a socket is in the channel of the room its data names.
ChannelsJoined == \A s \in Sockets : bound[s] # Nowhere => RoomOf[bound[s]] \in channels[s]

LEMMA ChannelsStep ==
    ASSUME TypeInv, ChannelsJoined, [Next]_vars
    PROVE  ChannelsJoined'
<1>0. bound \in [Sockets -> Places \cup {Nowhere}] /\ channels \in [Sockets -> SUBSET Rooms]
  BY DEF TypeInv, SocketsType
<1>1. CASE UNCHANGED <<bound, channels>>
  BY <1>1 DEF ChannelsJoined
<1>2. ASSUME NEW s, bound' = [bound EXCEPT ![s] = Nowhere],
             \A r \in Sockets \ {s} : channels'[r] = channels[r]
      PROVE  ChannelsJoined'
  BY <1>0, <1>2 DEF ChannelsJoined
<1>3. ASSUME NEW s, Unbind(s) PROVE ChannelsJoined'
  <2>1. \A r \in Sockets \ {s} : channels'[r] = channels[r]
    BY <1>0, <1>3 DEF Unbind
  <2>2. QED
    BY <1>2, <1>3, <2>1 DEF Unbind
<1>4. ASSUME NEW t \in 1..Burst, Binds(t) PROVE ChannelsJoined'
  <2>1. PICK s, n : /\ bound' = [bound EXCEPT ![s] = n]
                    /\ channels' = [channels EXCEPT ![s] = channels[s] \cup {RoomOf[n]}]
    BY <1>4 DEF Binds
  <2>2. QED
    BY <1>0, <2>1 DEF ChannelsJoined
<1>5. QED
  BY <1>0, <1>1, <1>2, <1>3, <1>4, SocketSteps

LEMMA ChannelsAlways == Spec => [](TypeInv /\ ChannelsJoined)
<1>1. Init => ChannelsJoined
  BY DEF Init, ChannelsJoined
<1>2. QED
  BY <1>1, SessionsStart, SessionsStep, ChannelsStep, PTL DEF Spec

\* The timers see every player a socket acts for, and a publication reaches every page.
LEMMA TabsSeen ==
    ASSUME TypeInv, ChannelsJoined
    PROVE  /\ \A n \in Places : HasTab(n) => IsBound(n)
           /\ \A r : Told(r) = Pages(r)
<1>1. open \subseteq Sockets
  BY SessionsAssumption DEF TypeInv, SocketsType, Sockets
<1>2. ASSUME NEW n \in Places, HasTab(n) PROVE IsBound(n)
  <2>1. PICK s \in open : bound[s] = n
    BY <1>2 DEF HasTab
  <2>2. s \in In(RoomOf[n]) /\ bound[s] # Nowhere
    BY <1>1, <2>1, NoPlaceZero DEF ChannelsJoined, In
  <2>3. QED
    BY <2>1, <2>2 DEF IsBound
<1>3. QED
  BY <1>1, <1>2 DEF ChannelsJoined, Told, In, Pages

\* However late they are, the timers and the sweep leave the seat of a player who
\* has a socket, also when they meet a burst (releaseSeatIfAbandoned looks again):
\* whatever other channels the socket is in, it is in the one of its room.
THEOREM OnlyRequestsUnseatSafe == Spec => OnlyRequestsUnseat
<1>1. TypeInv /\ ChannelsJoined /\ [Next]_vars => [\A n \in seats \ seats' : HasTab(n) => tasks' # tasks]_vars
  <2> SUFFICES ASSUME TypeInv, ChannelsJoined, [Next]_vars, NEW n \in seats \ seats', HasTab(n)
               PROVE  tasks' # tasks
    OBVIOUS
  <2>0. IsBound(n)
    BY TabsSeen DEF TypeInv, SeatsType
  <2>1. ASSUME NEW places, Release(Abandoned(places)) PROVE FALSE
    BY <2>0, <2>1 DEF Release, Abandoned
  <2>2. ASSUME NEW m \in Places, GraceFires(m) PROVE FALSE
    BY <2>1, <2>2 DEF GraceFires
  <2>3. ASSUME NEW m \in Places, NewRoomFires(m) PROVE FALSE
    BY <2>1, <2>3 DEF NewRoomFires, Release
  <2>4. ASSUME Sweep PROVE FALSE
    BY <2>1, <2>4 DEF Sweep
  <2>5. ASSUME NEW t \in 1..Burst, JoinGoesOn(t) PROVE tasks' # tasks
    <3>1. tasks[t].at = "joined" /\ Task(t, [tasks[t] EXCEPT !.at = "left", !.old = bound[tasks[t].socket]])
      BY <2>5 DEF JoinGoesOn, Binds
    <3>2. tasks[t] \in TaskType /\ tasks \in [1..Burst -> TaskType]
      BY DEF TypeInv, TasksType
    <3>3. tasks'[t].at = "left"
      BY <3>1, <3>2 DEF Task, TaskType, Records
    <3>4. QED
      BY <3>1, <3>3
  <2>6. QED
    BY <2>2, <2>3, <2>4, <2>5, SeatSteps, DepartureSeen
<1>2. QED
  BY <1>1, ChannelsAlways, PTL DEF Spec, OnlyRequestsUnseat

\* Who may touch a pending grace.
LEMMA GraceSteps ==
    ASSUME [Next]_vars, ~UNCHANGED grace
    PROVE  \/ \E n \in Places : Pagehide(n) \/ GraceFires(n)
           \/ \E s \in Sockets : Disconnect(s)
           \/ \E t \in 1..Burst : Binds(t) \/ Detach(t)
           \/ Tick
<1>1. ~UNCHANGED timers /\ Next
  BY DEF vars, timers
<1>2. QED
  BY <1>1 DEF Next, Request, Connect, CreateRoom, HttpLeave, Leave, Kick, Act, Join, Handler, JoinGoesOn,
     UnbindOwn, JoinEnds, Rejoined, Published, Timer, NewRoomFires, Sweep, timers

\* A disconnect that follows a beacon, or the second of two tabs, never gives a seat
\* longer than was granted first (scheduleGrace keeps the pending timer that is sooner).
THEOREM GraceNeverPostponedSafe == Spec => GraceNeverPostponed
<1>1. TypeInv /\ [Next]_vars => [\A n \in Places : grace[n] # Off => grace'[n] <= grace[n]]_vars
  <2> SUFFICES ASSUME TypeInv, [Next]_vars, NEW n \in Places, grace[n] # Off PROVE grace'[n] <= grace[n]
    OBVIOUS
  <2>0. grace \in [Places -> Off..LongGrace] /\ grace[n] \in Nat /\ LongGrace \in Nat /\ ShortGrace \in Nat
    BY SessionsAssumption DEF TypeInv, TimersType, Off
  <2>1. CASE UNCHANGED grace
    BY <2>0, <2>1
  <2>2. ASSUME NEW m, NEW ticks \in Nat, ScheduleGrace(m, ticks) PROVE grace'[n] <= grace[n]
    <3>1. CASE UNCHANGED grace
      BY <2>0, <3>1
    <3>2. CASE grace' = [grace EXCEPT ![m] = ticks] /\ ~(grace[m] # Off /\ grace[m] <= ticks)
      BY <2>0, <3>2
    <3>3. QED
      BY <2>2, <3>1, <3>2 DEF ScheduleGrace, Set
  <2>3. ASSUME NEW m, Set(grace, m, Off) PROVE grace'[n] <= grace[n]
    BY <2>0, <2>3 DEF Set, Off
  <2>4. ASSUME NEW m \in Places, Pagehide(m) PROVE grace'[n] <= grace[n]
    BY <2>0, <2>2, <2>4 DEF Pagehide
  <2>5. ASSUME NEW m \in Places, GraceFires(m) PROVE grace'[n] <= grace[n]
    BY <2>3, <2>5 DEF GraceFires
  <2>6. ASSUME NEW s \in Sockets, Disconnect(s) PROVE grace'[n] <= grace[n]
    <3>0. PICK m : m = bound[s]
      OBVIOUS
    <3>1. UNCHANGED grace \/ ScheduleGrace(m, LongGrace)
      BY <2>6, <3>0 DEF Disconnect, ScheduleGrace, Set
    <3>2. QED
      BY <2>0, <2>1, <2>2, <3>1
  <2>7. ASSUME NEW t \in 1..Burst, Binds(t) PROVE grace'[n] <= grace[n]
    <3>0. PICK m : m = tasks[t].place
      OBVIOUS
    <3>1. Set(grace, m, Off)
      BY <2>7, <3>0 DEF Binds, Set
    <3>2. QED
      BY <2>3, <3>1
  <2>8. ASSUME NEW t \in 1..Burst, Detach(t) PROVE grace'[n] <= grace[n]
    <3>0. PICK m : m = tasks[t].old
      OBVIOUS
    <3>1. Set(grace, m, Off) \/ UNCHANGED grace
      BY <2>8, <3>0 DEF Detach, Set
    <3>2. QED
      BY <2>1, <2>3, <3>1
  <2>9. CASE Tick
    <3>1. grace'[n] = IF grace[n] > 0 THEN grace[n] - 1 ELSE grace[n]
      BY <2>9 DEF Tick
    <3>2. QED
      BY <2>0, <3>1
  <2>10. QED
    BY <2>1, <2>4, <2>5, <2>6, <2>7, <2>8, <2>9, GraceSteps
<1>2. QED
  BY <1>1, SessionsStart, SessionsStep, PTL DEF Spec, GraceNeverPostponed

-----------------------------------------------------------------------------
(***************************************************************************)
(* Messages one at a time.  There is then one handler at most, and nothing *)
(* but its own steps happens until it has ended: what the properties say   *)
(* of the moments in between holds up to what this handler has still to do. *)
(***************************************************************************)
Only == tasks[1]
Parting == {"left", "detaching"}
Moving == Parting \cup {"unbind", "unbound"}
Answered == {"joined", "rejoined", "bound", "acted"}
JoinUnderWay == Only.at \in Moving \cup {"joined", "rejoined"} /\ Only.place # Nowhere
Apart == Only.place # Nowhere /\ RoomOf[Only.place] # RoomOf[Only.old]

\* What the handler knows is still so: its player is seated and its socket open, and
\* the place it releases is given up.
OneHandler ==
    /\ Only.at # "done"
    /\ Only.at = "idle" => Only = Idle
    /\ Only.at \in {"joined", "left"} => Only.seen = 0
    /\ Only.at \in Parting => Only.old \in Places \ seats
    /\ Only.place # Nowhere => Only.place \in seats /\ Only.socket \in open

\* Sockets hold the place of somebody seated, but those the loop has not come to.
BoundSound ==
    /\ \A s \in Sockets \ open : bound[s] = Nowhere
    /\ \A s \in open : \/ bound[s] \in seats \cup {Nowhere}
                       \/ Only.at \in Parting /\ bound[s] = Only.old /\ s > Only.seen
    /\ Only.place # Nowhere =>
          /\ Only.at \in Parting => bound[Only.socket] \in {Only.old, Nowhere}
          /\ Only.at \in {"unbind", "unbound", "rejoined"} => bound[Only.socket] = Nowhere

\* Seats have a socket or a timer, but the one whose player is joining.
SeatsCared ==
    \A n \in seats : \/ HasTab(n) \/ grace[n] # Off \/ newRoom[n] # Off
                     \/ JoinUnderWay /\ n = Only.place

\* The handler holds the copies it has still to publish, and they are current.
CopiesHeld ==
    /\ Only.at \in Answered => <<1, "room">> \in held
    /\ Only.at \in Parting => <<1, "left">> \in held
    /\ Only.at \in Moving /\ Apart => <<1, "room">> \in held

\* Tabs with an older version are in a room it has still to publish.
StaleTold ==
    \A s \in open : bound[s] \in seats /\ s \notin fresh =>
        \/ Only.at \in Answered /\ RoomOf[bound[s]] = RoomOf[Only.place]
        \/ Only.at \in Parting /\ RoomOf[bound[s]] = RoomOf[Only.old]
        \/ Only.at \in Moving /\ Apart /\ RoomOf[bound[s]] = RoomOf[Only.place]

\* A socket is in no channel but that of its room.
OneChannel == \A s \in Sockets : \A r \in channels[s] : bound[s] # Nowhere /\ r = RoomOf[bound[s]]

AloneInv == OneHandler /\ BoundSound /\ SeatsCared /\ CopiesHeld /\ StaleTold

LEMMA AloneStart == Burst = 1 /\ Init => AloneInv
<1> SUFFICES ASSUME Burst = 1, Init PROVE AloneInv
  OBVIOUS
<1>1. Only = Idle /\ seats = {} /\ open = {} /\ \A s \in Sockets : bound[s] = Nowhere
  BY DEF Init, Only
<1>2. QED
  BY <1>1 DEF Idle, AloneInv, OneHandler, BoundSound, SeatsCared, CopiesHeld, StaleTold, Parting, Moving, Answered

LEMMA QuietAlone == Burst = 1 => (Quiet <=> Only = Idle)
BY DEF Quiet, Only

\* With no handler under way: what the three properties say.
LEMMA QuietMeans ==
    ASSUME TypeInv, AloneInv, Only = Idle
    PROVE  /\ \A s \in open : bound[s] \in seats \cup {Nowhere}
           /\ \A n \in seats : HasTab(n) \/ grace[n] # Off \/ newRoom[n] # Off
           /\ \A s \in open : bound[s] \in seats => s \in fresh
BY DEF AloneInv, BoundSound, SeatsCared, StaleTold, Idle, JoinUnderWay, Parting, Moving, Answered

\* ... and it is all there is to show of a step that ends with none.
LEMMA QuietSuffices ==
    ASSUME Only' = Idle,
           \A s \in Sockets \ open' : bound'[s] = Nowhere,
           \A s \in open' : bound'[s] \in seats' \cup {Nowhere},
           \A n \in seats' : HasTab(n)' \/ grace'[n] # Off \/ newRoom'[n] # Off,
           \A s \in open' : bound'[s] \in seats' => s \in fresh'
    PROVE  AloneInv'
BY DEF AloneInv, OneHandler, BoundSound, SeatsCared, CopiesHeld, StaleTold, Idle, JoinUnderWay, Parting, Moving, Answered

LEMMA StartsAlone ==
    ASSUME Burst = 1, TypeInv, NEW t \in 1..Burst, NEW s, NEW task \in TaskType, Starts(t, s, task)
    PROVE  t = 1 /\ Only = Idle /\ Only' = task
<1>1. t = 1
  OBVIOUS
<1>2. QED
  BY <1>1, StartsType DEF TypeInv, TasksType, Only

LEMMA EndsAlone ==
    ASSUME Burst = 1, ViewsType, Ends(1)
    PROVE  Only' = Idle /\ held' = {}
BY DEF ViewsType, Ends, Only

LEMMA GoesOnAlone ==
    ASSUME Burst = 1, TypeInv, NEW m, Task(1, m)
    PROVE  Only' = m
BY DEF TypeInv, TasksType, Task, Only

LEMMA GraceSet ==
    ASSUME TypeInv, NEW n \in Places, NEW ticks \in Nat, ScheduleGrace(n, ticks)
    PROVE  grace'[n] # Off /\ \A k \in Places : grace[k] # Off => grace'[k] # Off
BY DEF ScheduleGrace, Set, TypeInv, TimersType, Off

\* The timers then take a socket for its own player's only.
LEMMA BoundByTab ==
    ASSUME TypeInv, ChannelsJoined, OneChannel, NEW n \in Places
    PROVE  IsBound(n) <=> HasTab(n)
<1>1. ASSUME IsBound(n) PROVE HasTab(n)
  <2>1. PICK s \in open : /\ RoomOf[n] \in channels[s] /\ bound[s] # Nowhere
                          /\ PlayerOf[bound[s]] = PlayerOf[n]
    BY <1>1 DEF IsBound, In
  <2>2. s \in Sockets
    BY SessionsAssumption DEF TypeInv, SocketsType, Sockets
  <2>3. bound[s] \in Places /\ RoomOf[bound[s]] = RoomOf[n]
    BY <2>1, <2>2 DEF OneChannel, TypeInv, SocketsType
  <2>4. bound[s] = n
    BY <2>1, <2>3, SessionsAssumption DEF Places
  <2>5. QED
    BY <2>4 DEF HasTab
<1>2. QED
  BY <1>1, TabsSeen

LEMMA OneChannelStep ==
    ASSUME Burst = 1, TypeInv, OneChannel, AloneInv, [Next]_vars
    PROVE  OneChannel'
<1>0. bound \in [Sockets -> Places \cup {Nowhere}] /\ channels \in [Sockets -> SUBSET Rooms]
  BY DEF TypeInv, SocketsType
<1>1. CASE UNCHANGED <<bound, channels>>
  BY <1>1 DEF OneChannel
<1>2. ASSUME NEW s \in Sockets, bound' = [bound EXCEPT ![s] = Nowhere], channels' = [channels EXCEPT ![s] = {}]
      PROVE  OneChannel'
  BY <1>0, <1>2 DEF OneChannel
<1>3. ASSUME NEW s, Unbind(s) PROVE OneChannel'
  <2>1. /\ bound' = [bound EXCEPT ![s] = Nowhere]
        /\ channels' = IF bound[s] = Nowhere THEN channels
                       ELSE [channels EXCEPT ![s] = channels[s] \ {RoomOf[bound[s]]}]
    BY <1>3 DEF Unbind
  <2>2. ASSUME NEW k \in Sockets, NEW r \in channels'[k] PROVE k # s /\ r \in channels[k]
    BY <1>0, <2>1, <2>2 DEF OneChannel
  <2>3. QED
    BY <1>0, <2>1, <2>2 DEF OneChannel
<1>4. ASSUME Binds(1), \/ tasks[1].at = "joined" /\ bound[tasks[1].socket] \in {Nowhere, tasks[1].place}
                       \/ tasks[1].at \in {"unbound", "rejoined"}
      PROVE  OneChannel'
  <2>1. PICK s, n : s = Only.socket /\ n = Only.place
    OBVIOUS
  <2>2. /\ bound' = [bound EXCEPT ![s] = n]
        /\ channels' = [channels EXCEPT ![s] = channels[s] \cup {RoomOf[n]}]
    BY <1>4, <2>1 DEF Binds, Only
  <2>3. n # Nowhere /\ bound[s] \in {Nowhere, n}
    <3>1. Only \in TaskType /\ Only.at \in {"joined", "unbound", "rejoined"}
      BY <1>4 DEF TypeInv, TasksType, Only
    <3>2. n # Nowhere
      BY <2>1, <3>1, NoPlaceZero DEF TaskType
    <3>3. QED
      BY <1>4, <2>1, <3>1, <3>2 DEF AloneInv, BoundSound, Only
  <2>4. QED
    BY <1>0, <2>2, <2>3 DEF OneChannel
<1>5. QED
  BY <1>1, <1>2, <1>3, <1>4, SocketSteps

\* Connections, rooms and beacons.
LEMMA AloneConnections ==
    ASSUME Burst = 1, TypeInv, AloneInv,
           \/ Connect
           \/ \E n \in Places : CreateRoom(n) \/ Pagehide(n)
           \/ \E s \in Sockets : Disconnect(s)
    PROVE  AloneInv'
<1>1. Only = Idle /\ Only' = Idle
  BY QuietAlone DEF Connect, CreateRoom, Pagehide, Disconnect, Only
<1>2. /\ \A s \in open : bound[s] \in seats \cup {Nowhere}
      /\ \A n \in seats : HasTab(n) \/ grace[n] # Off \/ newRoom[n] # Off
      /\ \A s \in open : bound[s] \in seats => s \in fresh
      /\ \A s \in Sockets \ open : bound[s] = Nowhere
      /\ seats \subseteq Places /\ Nowhere \notin Places
  BY <1>1, QuietMeans, NoPlaceZero DEF AloneInv, BoundSound, TypeInv, SeatsType
<1>3. LongGrace \in Nat /\ ShortGrace \in Nat
  BY SessionsAssumption
<1>4. CASE Connect
  <2>1. PICK c : c = connected + 1 /\ open' = open \cup {c} /\ c \in Sockets \ open
    BY <1>4, SessionsAssumption DEF Connect, TypeInv, SocketsType, Sockets
  <2>2. UNCHANGED <<seats, bound, grace, newRoom, fresh>>
    BY <1>4 DEF Connect, timers, views
  <2>3. bound[c] = Nowhere /\ \A n : HasTab(n) => HasTab(n)'
    BY <1>2, <2>1, <2>2 DEF HasTab
  <2>4. QED
    BY <1>1, <1>2, <2>1, <2>2, <2>3, QuietSuffices
<1>5. ASSUME NEW n \in Places, CreateRoom(n) PROVE AloneInv'
  <2>1. /\ UNCHANGED <<open, bound, grace, fresh>> /\ seats' = seats \cup {n} /\ n \notin seats
        /\ newRoom' = [newRoom EXCEPT ![n] = CreatedGrace]
    BY <1>5 DEF CreateRoom, Set, sockets, views, TypeInv, SeatsType
  <2>2. newRoom'[n] # Off /\ \A k \in Places : newRoom[k] # Off => newRoom'[k] # Off
    BY <2>1, Ticks DEF TypeInv, TimersType
  <2>3. \A s \in open : bound[s] # n
    BY <1>2, <2>1
  <2>4. QED
    BY <1>1, <1>2, <2>1, <2>2, <2>3, QuietSuffices DEF HasTab
<1>6. ASSUME NEW n \in Places, Pagehide(n) PROVE AloneInv'
  <2>1. UNCHANGED <<seats, open, bound, newRoom, fresh>> /\ ScheduleGrace(n, ShortGrace)
    BY <1>6 DEF Pagehide, sockets, views
  <2>2. \A k \in Places : grace[k] # Off => grace'[k] # Off
    BY <1>3, <2>1, GraceSet
  <2>3. QED
    BY <1>1, <1>2, <2>1, <2>2, QuietSuffices DEF HasTab
<1>7. ASSUME NEW s \in Sockets, Disconnect(s) PROVE AloneInv'
  <2>1. PICK n \in Places \cup {Nowhere} : n = bound[s]
    BY DEF TypeInv, SocketsType
  <2>2. /\ UNCHANGED <<seats, newRoom>> /\ open' = open \ {s} /\ fresh' = fresh \ {s}
        /\ bound' = [bound EXCEPT ![s] = Nowhere]
        /\ (n = Nowhere /\ UNCHANGED grace) \/ (n \in Places /\ ScheduleGrace(n, LongGrace))
    BY <1>7, <2>1 DEF Disconnect, ScheduleGrace, Set
  <2>3. (n \in Places => grace'[n] # Off) /\ \A k \in Places : grace[k] # Off => grace'[k] # Off
    BY <1>2, <1>3, <2>2, GraceSet
  <2>4. \A r \in Sockets : bound'[r] = IF r = s THEN Nowhere ELSE bound[r]
    BY <2>2 DEF TypeInv, SocketsType
  <2>5. open \subseteq Sockets
    BY SessionsAssumption DEF TypeInv, SocketsType, Sockets
  <2>6. ASSUME NEW k \in seats PROVE HasTab(k)' \/ grace'[k] # Off \/ newRoom'[k] # Off
    <3>1. CASE \E r \in open : bound[r] = k /\ r # s
      BY <2>2, <2>4, <2>5, <3>1 DEF HasTab
    <3>2. CASE k = n
      BY <1>2, <2>3, <3>2
    <3>3. CASE grace[k] # Off \/ newRoom[k] # Off
      BY <1>2, <2>2, <2>3, <3>3
    <3>4. QED
      BY <1>2, <2>1, <3>1, <3>2, <3>3 DEF HasTab
  <2>7. QED
    BY <1>1, <1>2, <2>2, <2>4, <2>5, <2>6, QuietSuffices
<1>8. QED
  BY <1>4, <1>5, <1>6, <1>7

\* Timers and the sweep.
LEMMA AloneTimers ==
    ASSUME Burst = 1, TypeInv, ChannelsJoined, OneChannel, AloneInv, Timer \/ Sweep
    PROVE  AloneInv'
<1>0. \A n \in Places : IsBound(n) <=> HasTab(n)
  BY BoundByTab
<1>1. Only = Idle /\ Only' = Idle
  BY QuietAlone DEF Timer, Tick, GraceFires, NewRoomFires, Sweep, Only
<1>2. /\ \A s \in open : bound[s] \in seats \cup {Nowhere}
      /\ \A n \in seats : HasTab(n) \/ grace[n] # Off \/ newRoom[n] # Off
      /\ \A s \in open : bound[s] \in seats => s \in fresh
      /\ \A s \in Sockets \ open : bound[s] = Nowhere
      /\ seats \subseteq Places
  BY <1>1, QuietMeans DEF AloneInv, BoundSound, TypeInv, SeatsType
<1>3. CASE Tick
  <2>1. /\ UNCHANGED <<seats, open, bound, fresh>>
        /\ grace' = [n \in Places |-> IF grace[n] > 0 THEN grace[n] - 1 ELSE grace[n]]
        /\ newRoom' = [n \in Places |-> IF newRoom[n] > 0 THEN newRoom[n] - 1 ELSE newRoom[n]]
    BY <1>3 DEF Tick, sockets, views
  <2>2. \A n \in Places : (grace[n] # Off => grace'[n] # Off) /\ (newRoom[n] # Off => newRoom'[n] # Off)
    BY <2>1, SessionsAssumption DEF TypeInv, TimersType, Off
  <2>3. QED
    BY <1>1, <1>2, <2>1, <2>2, QuietSuffices DEF HasTab
<1>4. ASSUME NEW gone, Release(gone), gone \subseteq Abandoned(gone), UNCHANGED <<open, bound>>,
             \A n \in seats \ gone : HasTab(n) \/ grace'[n] # Off \/ newRoom'[n] # Off
      PROVE  AloneInv'
  <2>1. seats' = seats \ gone /\ fresh \subseteq fresh' /\ \A n \in gone : ~HasTab(n)
    BY <1>0, <1>2, <1>4 DEF Release, Abandoned
  <2>2. \A s \in open : bound[s] \notin gone
    BY <2>1 DEF HasTab
  <2>3. QED
    BY <1>1, <1>2, <1>4, <2>1, <2>2, QuietSuffices DEF HasTab
<1>5. ASSUME NEW n \in Places, GraceFires(n) PROVE AloneInv'
  <2>1. Release(Abandoned({n})) /\ UNCHANGED <<open, bound, newRoom>> /\ grace' = [grace EXCEPT ![n] = Off]
    BY <1>5 DEF GraceFires, Set, sockets
  <2>2. PICK gone : gone = Abandoned({n})
    OBVIOUS
  <2>3. ASSUME NEW m \in seats \ gone PROVE HasTab(m) \/ grace'[m] # Off \/ newRoom'[m] # Off
    <3>1. CASE m = n
      BY <1>0, <2>2, <3>1 DEF Abandoned
    <3>2. CASE m # n
      BY <1>2, <2>1, <3>2 DEF TypeInv, TimersType
    <3>3. QED
      BY <3>1, <3>2
  <2>4. gone \subseteq Abandoned(gone)
    BY <2>2 DEF Abandoned
  <2>5. Release(gone)
    BY <2>1, <2>2 DEF Release
  <2>6. QED
    BY <1>4, <2>1, <2>3, <2>4, <2>5
<1>6. ASSUME NEW n \in Places, NewRoomFires(n) PROVE AloneInv'
  <2>1. PICK gone : gone = IF grace[n] = Off THEN Abandoned({n}) ELSE {}
    OBVIOUS
  <2>2. Release(gone) /\ UNCHANGED <<open, bound, grace>> /\ newRoom' = [newRoom EXCEPT ![n] = Off]
    BY <1>6, <2>1 DEF NewRoomFires, Set, Release, sockets
  <2>3. ASSUME NEW m \in seats \ gone PROVE HasTab(m) \/ grace'[m] # Off \/ newRoom'[m] # Off
    <3>1. CASE m = n
      BY <1>0, <2>1, <2>2, <3>1 DEF Abandoned
    <3>2. CASE m # n
      BY <1>2, <2>2, <3>2 DEF TypeInv, TimersType
    <3>3. QED
      BY <3>1, <3>2
  <2>4. gone \subseteq Abandoned(gone)
    BY <2>1 DEF Abandoned
  <2>5. QED
    BY <1>4, <2>2, <2>3, <2>4
<1>7. CASE Sweep
  <2>1. PICK gone : Release(gone) /\ gone \subseteq Abandoned(gone)
    <3>1. PICK overdue : Release(Abandoned(overdue))
      BY <1>7 DEF Sweep
    <3>2. Abandoned(overdue) \subseteq Abandoned(Abandoned(overdue))
      BY DEF Abandoned
    <3>3. QED
      BY <3>1, <3>2
  <2>2. UNCHANGED <<open, bound, grace, newRoom>>
    BY <1>7 DEF Sweep, sockets
  <2>3. QED
    BY <1>2, <1>4, <2>1, <2>2
<1>8. QED
  BY <1>3, <1>5, <1>6, <1>7 DEF Timer

-----------------------------------------------------------------------------
\* A handler that starts with a departure: the tabs of the room have still to be told.
LEMMA DepartsAlone ==
    ASSUME Burst = 1, TypeInv, AloneInv, Only = Idle, NEW n \in seats,
           Only'.at = "left", Only'.place = Nowhere, Only'.old = n, Only'.seen = 0,
           seats' = seats \ {n}, <<1, "left">> \in held',
           \A s \in open : s \in fresh \ fresh' => RoomOf[bound[s]] = RoomOf[n],
           UNCHANGED <<open, bound, timers>>
    PROVE  AloneInv'
<1>1. /\ \A s \in open : bound[s] \in seats \cup {Nowhere}
      /\ \A k \in seats : HasTab(k) \/ grace[k] # Off \/ newRoom[k] # Off
      /\ \A s \in open : bound[s] \in seats => s \in fresh
      /\ \A s \in Sockets \ open : bound[s] = Nowhere
      /\ n \in Places
  BY QuietMeans DEF AloneInv, BoundSound, TypeInv, SeatsType
<1>2. \A s \in open : s > 0
  BY DEF TypeInv, SocketsType
<1>3. OneHandler' /\ CopiesHeld'
  BY <1>1 DEF OneHandler, CopiesHeld, Apart, Parting, Moving, Answered
<1>4. BoundSound'
  BY <1>1, <1>2 DEF BoundSound, Parting
<1>5. SeatsCared'
  BY <1>1 DEF SeatsCared, HasTab, timers
<1>6. StaleTold'
  BY <1>1 DEF StaleTold, Parting
<1>7. QED
  BY <1>3, <1>4, <1>5, <1>6 DEF AloneInv

\* ... with a join or an action: its copy is current and has still to be sent.
LEMMA BeginsAlone ==
    ASSUME Burst = 1, TypeInv, AloneInv, Only = Idle, NEW n \in Places,
           Only'.at \in {"joined", "acted"}, Only'.place = n, Only'.socket \in open, Only'.seen = 0,
           n \in seats', seats' = seats \cup {n}, Only'.at = "acted" => n \in seats,
           <<1, "room">> \in held',
           \A s \in open : s \in fresh \ fresh' => RoomOf[bound[s]] = RoomOf[n],
           UNCHANGED <<open, bound, timers>>
    PROVE  AloneInv'
<1>1. /\ \A s \in open : bound[s] \in seats \cup {Nowhere}
      /\ \A k \in seats : HasTab(k) \/ grace[k] # Off \/ newRoom[k] # Off
      /\ \A s \in open : bound[s] \in seats => s \in fresh
      /\ \A s \in Sockets \ open : bound[s] = Nowhere
      /\ n # Nowhere
  BY QuietMeans, NoPlaceZero DEF AloneInv, BoundSound
<1>2. OneHandler' /\ CopiesHeld'
  BY <1>1 DEF OneHandler, CopiesHeld, Parting, Moving
<1>3. BoundSound'
  BY <1>1 DEF BoundSound, Parting
<1>4. SeatsCared'
  BY <1>1 DEF SeatsCared, HasTab, JoinUnderWay, timers
<1>5. StaleTold'
  BY <1>1 DEF StaleTold, Answered
<1>6. QED
  BY <1>2, <1>3, <1>4, <1>5 DEF AloneInv

\* Whose version an answer makes old, in terms of places.
LEMMA AnswersAlone ==
    ASSUME ViewsType, NEW copy, NEW r, NEW changed, Answers(1, copy, r, changed)
    PROVE  /\ <<1, copy>> \in held'
           /\ \A s \in open : s \in fresh \ fresh' => RoomOf[bound[s]] = r
           /\ \A c \in held : CopyOf(c) # r => c \in held'
           /\ ~changed => held \subseteq held' /\ fresh' = fresh
           /\ fresh' \subseteq fresh
BY DEF Answers, Pages

LEMMA AloneMessages ==
    ASSUME Burst = 1, TypeInv, AloneInv,
           \/ \E n \in Places : HttpLeave(n)
           \/ \E s \in Sockets : Leave(s) \/ Act(s) \/ \E n \in Places : Join(s, n) \/ Kick(s, n)
    PROVE  AloneInv'
<1>1. seats \subseteq Places /\ ViewsType
  BY DEF TypeInv, SeatsType
<1>2. ASSUME NEW s, NEW n \in seats, NEW t \in 1..Burst, NEW m \in TaskType,
             m.at = "left" /\ m.place = Nowhere /\ m.old = n /\ m.seen = 0,
             Starts(t, s, m), Answers(t, "left", RoomOf[n], TRUE),
             seats' = seats \ {n}, UNCHANGED <<open, bound, timers>>
      PROVE  AloneInv'
  <2>1. t = 1 /\ Only = Idle /\ Only' = m
    BY <1>2, StartsAlone
  <2>2. <<1, "left">> \in held' /\ \A k \in open : k \in fresh \ fresh' => RoomOf[bound[k]] = RoomOf[n]
    BY <1>1, <1>2, <2>1, AnswersAlone
  <2>3. QED
    BY <1>2, <2>1, <2>2, DepartsAlone
<1>3. ASSUME NEW s \in open, s \in Sockets, NEW n \in Places, NEW at \in {"joined", "acted"}, NEW t \in 1..Burst,
             Starts(t, s, [Idle EXCEPT !.at = at, !.socket = s, !.place = n]),
             NEW changed, Answers(t, "room", RoomOf[n], changed),
             seats' = seats \cup {n}, at = "acted" => n \in seats,
             UNCHANGED <<open, bound, timers>>
      PROVE  AloneInv'
  <2>1. PICK m : m = [Idle EXCEPT !.at = at, !.socket = s, !.place = n]
    OBVIOUS
  <2>2. m \in TaskType /\ m.at = at /\ m.place = n /\ m.socket = s /\ m.seen = 0
    BY <1>3, <2>1 DEF Idle, TaskType, Records
  <2>3. t = 1 /\ Only = Idle /\ Only' = m
    BY <1>3, <2>1, <2>2, StartsAlone
  <2>4. <<1, "room">> \in held' /\ \A k \in open : k \in fresh \ fresh' => RoomOf[bound[k]] = RoomOf[n]
    BY <1>1, <1>3, <2>3, AnswersAlone
  <2>5. QED
    BY <1>3, <2>2, <2>3, <2>4, BeginsAlone
<1>4. ASSUME NEW n \in Places, HttpLeave(n) PROVE AloneInv'
  <2>1. PICK m : m = [Idle EXCEPT !.at = "left", !.old = n]
    OBVIOUS
  <2>2. m \in TaskType /\ m.at = "left" /\ m.place = Nowhere /\ m.old = n /\ m.seen = 0
    BY <2>1, NoPlaceZero DEF Idle, TaskType, Records
  <2>3. QED
    BY <1>2, <1>4, <2>1, <2>2 DEF HttpLeave, sockets
<1>5. ASSUME NEW s \in Sockets, Leave(s) PROVE AloneInv'
  <2>1. PICK n : n = bound[s]
    OBVIOUS
  <2>2. PICK m : m = [Idle EXCEPT !.at = "left", !.socket = s, !.old = n]
    OBVIOUS
  <2>3. n \in seats /\ seats' = seats \ {n} /\ UNCHANGED <<open, bound, timers>>
    BY <1>5, <2>1 DEF Leave, OwnSeat, sockets
  <2>4. PICK t \in 1..Burst : Starts(t, s, m) /\ Answers(t, "left", RoomOf[n], TRUE)
    BY <1>5, <2>1, <2>2 DEF Leave
  <2>5. m \in TaskType /\ m.at = "left" /\ m.place = Nowhere /\ m.old = n /\ m.seen = 0
    BY <1>1, <2>2, <2>3, NoPlaceZero DEF Idle, TaskType, Records
  <2>6. QED
    BY <1>2, <2>3, <2>4, <2>5
<1>6. ASSUME NEW s \in Sockets, Act(s) PROVE AloneInv'
  <2>1. PICK n : n = bound[s]
    OBVIOUS
  <2>2. n \in seats /\ seats' = seats \cup {n} /\ s \in open /\ UNCHANGED <<open, bound, timers>>
    BY <1>6, <2>1 DEF Act, OwnSeat, sockets
  <2>3. PICK t \in 1..Burst : /\ Starts(t, s, [Idle EXCEPT !.at = "acted", !.socket = s, !.place = n])
                              /\ Answers(t, "room", RoomOf[n], TRUE)
    BY <1>6, <2>1 DEF Act
  <2>4. QED
    BY <1>1, <1>3, <2>2, <2>3
<1>7. ASSUME NEW s \in Sockets, NEW n \in Places, Join(s, n) PROVE AloneInv'
  <2>1. PICK changed : changed = (n \notin seats)
    OBVIOUS
  <2>2. PICK t \in 1..Burst : /\ Starts(t, s, [Idle EXCEPT !.at = "joined", !.socket = s, !.place = n])
                              /\ Answers(t, "room", RoomOf[n], changed)
    BY <1>7, <2>1 DEF Join
  <2>3. s \in open /\ seats' = seats \cup {n} /\ UNCHANGED <<open, bound, timers>>
    BY <1>7 DEF Join, sockets
  <2>4. QED
    BY <1>3, <2>2, <2>3
<1>8. ASSUME NEW s \in Sockets, NEW n \in Places, Kick(s, n) PROVE AloneInv'
  <2>1. PICK m : m = [Idle EXCEPT !.at = "left", !.socket = s, !.old = n]
    OBVIOUS
  <2>2. m \in TaskType /\ m.at = "left" /\ m.place = Nowhere /\ m.old = n /\ m.seen = 0
    BY <1>1, <1>8, <2>1, NoPlaceZero DEF Kick, Idle, TaskType, Records
  <2>3. PICK t \in 1..Burst : Starts(t, s, m) /\ Answers(t, "left", RoomOf[n], TRUE)
    BY <1>8, <2>1 DEF Kick
  <2>4. n \in seats /\ seats' = seats \ {n} /\ UNCHANGED <<open, bound, timers>>
    BY <1>8 DEF Kick, sockets
  <2>5. QED
    BY <1>2, <2>2, <2>3, <2>4
<1>9. QED
  BY <1>4, <1>5, <1>6, <1>7, <1>8

\* A socket is bound: everybody it leaves uninformed is in the room of its copy.
LEMMA BindsAlone ==
    ASSUME Burst = 1, TypeInv, AloneInv, Binds(1), UNCHANGED open,
           Only.at \in {"joined", "unbound", "rejoined"}, Only.place \in Places,
           bound[Only.socket] \in {Nowhere, Only.place}, <<1, "room">> \in held,
           \A s \in open : bound[s] \in seats /\ s \notin fresh => RoomOf[bound[s]] = RoomOf[Only.place]
    PROVE  AloneInv'
<1>1. PICK n \in Places : n = Only.place
  OBVIOUS
<1>2. PICK s \in open : s = Only.socket
  BY <1>1, NoPlaceZero DEF AloneInv, OneHandler
<1>3. PICK m \in TaskType : m = Only
  BY DEF TypeInv, TasksType, Only
<1>4. /\ Only' = [m EXCEPT !.at = "bound"]
      /\ bound' = [bound EXCEPT ![s] = n] /\ grace' = [grace EXCEPT ![n] = Off]
      /\ \A r \in open : r # s /\ r \in fresh => r \in fresh'
      /\ UNCHANGED <<seats, newRoom, held, open>>
  BY <1>1, <1>2, <1>3, GoesOnAlone DEF Binds, Set, Only
<1>5. /\ Only'.at = "bound" /\ Only'.place = n /\ Only'.socket = s /\ Only'.seen = m.seen
      /\ Only.place = n /\ Only.socket = s /\ Only.at \notin Parting
  BY <1>1, <1>2, <1>3, <1>4 DEF TaskType, Records, Parting
<1>6. /\ n \in seats /\ n # Nowhere
      /\ \A r \in Sockets \ open : bound[r] = Nowhere
      /\ \A r \in open : bound[r] \in seats \cup {Nowhere}
      /\ \A k \in seats : HasTab(k) \/ grace[k] # Off \/ newRoom[k] # Off \/ k = n
      /\ seats \subseteq Places
  BY <1>5, NoPlaceZero DEF AloneInv, OneHandler, BoundSound, SeatsCared, TypeInv, SeatsType
<1>7. open \subseteq Sockets
  BY SessionsAssumption DEF TypeInv, SocketsType, Sockets
<1>8. \A r \in Sockets : bound'[r] = IF r = s THEN n ELSE bound[r]
  BY <1>4, <1>7 DEF TypeInv, SocketsType
<1>9. OneHandler' /\ CopiesHeld'
  BY <1>2, <1>4, <1>5, <1>6 DEF OneHandler, CopiesHeld, Parting, Moving
<1>10. BoundSound'
  BY <1>4, <1>5, <1>6, <1>7, <1>8 DEF BoundSound, Parting
<1>11. SeatsCared'
  <2> SUFFICES ASSUME NEW k \in seats, k # n PROVE HasTab(k)' \/ grace'[k] # Off \/ newRoom'[k] # Off
    BY <1>2, <1>4, <1>7, <1>8 DEF SeatsCared, HasTab
  <2>1. bound[s] \in {Nowhere, n} /\ k # Nowhere
    BY <1>1, <1>2, <1>6, NoPlaceZero
  <2>2. CASE HasTab(k)
    BY <1>4, <1>7, <1>8, <2>1, <2>2 DEF HasTab
  <2>3. CASE grace[k] # Off \/ newRoom[k] # Off
    BY <1>4, <1>6, <2>3 DEF TypeInv, TimersType
  <2>4. QED
    BY <1>6, <2>2, <2>3
<1>12. StaleTold'
  BY <1>1, <1>4, <1>5, <1>7, <1>8 DEF StaleTold, Answered
<1>13. QED
  BY <1>9, <1>10, <1>11, <1>12 DEF AloneInv

\* What the handler of a join knows of its player, whatever it is doing.
LEMMA JoinKnows ==
    ASSUME Burst = 1, TypeInv, AloneInv, Only.at \in {"joined", "unbind", "unbound", "rejoined", "bound", "acted"}
    PROVE  /\ Only \in TaskType /\ Only.place \in seats /\ Only.place # Nowhere
           /\ Only.socket \in open /\ Only.socket \in Sockets
           /\ \A s \in open : bound[s] \in seats \cup {Nowhere}
<1>1. Only \in TaskType
  BY DEF TypeInv, TasksType, Only
<1>2. Only.place \in Places /\ Only.socket \in Sockets
  BY <1>1 DEF TaskType
<1>3. QED
  BY <1>1, <1>2, NoPlaceZero DEF AloneInv, OneHandler, BoundSound, Parting

\* The join goes on with the binding it finds: its own, none, or one it gives up.
LEMMA AloneJoins ==
    ASSUME Burst = 1, TypeInv, AloneInv, JoinGoesOn(1)
    PROVE  AloneInv'
<1>1. PICK m \in TaskType : m = Only /\ m = tasks[1] /\ m.at = "joined"
  BY DEF JoinGoesOn, TypeInv, TasksType, Only
<1>2. PICK n \in seats, s \in open : n = m.place /\ s = m.socket
  BY <1>1, JoinKnows
<1>3. /\ \A r \in open : bound[r] \in seats \cup {Nowhere}
      /\ \A r \in Sockets \ open : bound[r] = Nowhere
      /\ \A r \in open : bound[r] \in seats /\ r \notin fresh => RoomOf[bound[r]] = RoomOf[n]
      /\ <<1, "room">> \in held /\ m.seen = 0
      /\ UNCHANGED open
  BY <1>1, <1>2, JoinKnows DEF AloneInv, OneHandler, BoundSound, StaleTold, CopiesHeld, Answered, Parting, Moving, JoinGoesOn
<1>4. n # Nowhere /\ n \in Places
  BY <1>2, NoPlaceZero DEF TypeInv, SeatsType
<1>5. PICK old : old = bound[s]
  OBVIOUS
<1>6. CASE old \in {Nowhere, n} /\ Binds(1)
  BY <1>1, <1>2, <1>3, <1>4, <1>5, <1>6, BindsAlone
<1>7. CASE /\ old \in seats \ {n} /\ seats' = seats \ {old}
           /\ Task(1, [m EXCEPT !.at = "left", !.old = old])
           /\ Answers(1, "left", RoomOf[old], TRUE)
           /\ UNCHANGED <<bound, timers>>
  <2>1. Only' = [m EXCEPT !.at = "left", !.old = old]
    BY <1>7, GoesOnAlone
  <2>2. Only'.at = "left" /\ Only'.old = old /\ Only'.place = n /\ Only'.socket = s /\ Only'.seen = 0
    BY <1>2, <1>3, <2>1 DEF TaskType, Records
  <2>3. /\ <<1, "left">> \in held'
        /\ \A r \in open : r \in fresh \ fresh' => RoomOf[bound[r]] = RoomOf[old]
        /\ CopyOf(<<1, "room">>) # RoomOf[old] => <<1, "room">> \in held'
    BY <1>3, <1>7, AnswersAlone DEF TypeInv
  <2>4. CopyOf(<<1, "room">>) = RoomOf[n]
    BY <1>1, <1>2 DEF CopyOf
  <2>5. OneHandler' /\ CopiesHeld'
    BY <1>2, <1>3, <1>7, <2>2, <2>3, <2>4 DEF OneHandler, CopiesHeld, Apart, Parting, Moving, Answered, TypeInv, SeatsType
  <2>6. \A r \in open : r > 0
    BY DEF TypeInv, SocketsType
  <2>7. BoundSound'
    BY <1>2, <1>3, <1>5, <1>7, <2>2, <2>6 DEF BoundSound, Parting
  <2>8. SeatsCared'
    <3>1. \A k \in seats : HasTab(k) \/ grace[k] # Off \/ newRoom[k] # Off \/ k = n
      BY <1>1, <1>2 DEF AloneInv, SeatsCared
    <3>2. QED
      BY <1>3, <1>4, <1>7, <2>2, <3>1 DEF SeatsCared, HasTab, JoinUnderWay, Moving, Parting, timers
  <2>9. StaleTold'
    BY <1>3, <1>4, <1>7, <2>2, <2>3 DEF StaleTold, Parting, Moving, Apart
  <2>10. QED
    BY <2>5, <2>7, <2>8, <2>9 DEF AloneInv
<1>8. old \in seats \cup {Nowhere}
  BY <1>3, <1>5
<1>9. QED
  BY <1>1, <1>2, <1>5, <1>6, <1>7, <1>8 DEF JoinGoesOn

\* After a departure from the same room or from another one.
LEMMA AloneMoves ==
    ASSUME Burst = 1, TypeInv, AloneInv, UnbindOwn(1) \/ JoinEnds(1) \/ Rejoined(1)
    PROVE  AloneInv'
<1>1. PICK m \in TaskType : m = Only /\ m = tasks[1] /\ m.at \in {"unbind", "unbound", "rejoined"}
  BY DEF UnbindOwn, JoinEnds, Rejoined, TypeInv, TasksType, Only
<1>2. PICK n \in seats, s \in open : n = m.place /\ s = m.socket /\ s \in Sockets
  BY <1>1, JoinKnows
<1>3. /\ bound[s] = Nowhere /\ n # Nowhere /\ n \in Places
      /\ \A r \in open : bound[r] \in seats \cup {Nowhere}
      /\ \A r \in Sockets \ open : bound[r] = Nowhere
      /\ \A k \in seats : HasTab(k) \/ grace[k] # Off \/ newRoom[k] # Off \/ k = n
      /\ UNCHANGED open
  BY <1>1, <1>2, JoinKnows DEF AloneInv, BoundSound, SeatsCared, UnbindOwn, JoinEnds, Rejoined, TypeInv, SeatsType
<1>4. ASSUME NEW at \in {"unbound", "rejoined"}, Only' = [m EXCEPT !.at = at],
             at = "unbound" => m.at = "unbind", at = "rejoined" => ~Apart /\ m.at = "unbound" /\ <<1, "room">> \in held',
             held \subseteq held', UNCHANGED <<seats, bound, timers>>,
             \A r \in open : r \in fresh \ fresh' => bound[r] = Nowhere
      PROVE  AloneInv'
  <2>1. Only'.at = at /\ Only'.old = m.old /\ Only'.place = n /\ Only'.socket = s
    BY <1>2, <1>4 DEF TaskType, Records
  <2>2. OneHandler' /\ BoundSound' /\ SeatsCared'
    BY <1>2, <1>3, <1>4, <2>1 DEF OneHandler, BoundSound, SeatsCared, HasTab, JoinUnderWay, Moving, Parting, timers
  <2>3. Apart <=> RoomOf[n] # RoomOf[m.old]
    BY <1>1, <1>2, <1>3 DEF Apart
  <2>4. Apart' <=> RoomOf[n] # RoomOf[m.old]
    BY <1>3, <2>1 DEF Apart
  <2>5. CopiesHeld'
    BY <1>1, <1>4, <2>1, <2>3, <2>4 DEF AloneInv, CopiesHeld, Answered, Parting, Moving
  <2>6. StaleTold'
    <3> SUFFICES ASSUME NEW r \in open, bound[r] \in seats, r \notin fresh'
                 PROVE  at = "unbound" /\ Apart /\ RoomOf[bound[r]] = RoomOf[n]
      BY <1>3, <1>4, <2>1, <2>3, <2>4 DEF StaleTold, Moving
    <3>1. r \notin fresh
      BY <1>4, NoPlaceZero DEF TypeInv, SeatsType
    <3>2. Apart /\ RoomOf[bound[r]] = RoomOf[n]
      BY <1>1, <1>2, <1>4, <3>1 DEF AloneInv, StaleTold, Answered, Parting, Moving
    <3>3. QED
      BY <1>4, <3>2
  <2>7. QED
    BY <2>2, <2>5, <2>6 DEF AloneInv
<1>5. CASE UnbindOwn(1)
  <2>1. UNCHANGED bound
    BY <1>1, <1>2, <1>3, <1>5 DEF UnbindOwn, Unbind, TypeInv, SocketsType
  <2>2. Only' = [m EXCEPT !.at = "unbound"] /\ m.at = "unbind"
    BY <1>1, <1>5, GoesOnAlone DEF UnbindOwn
  <2>3. UNCHANGED <<seats, timers, held>> /\ fresh' = fresh \ {s}
    BY <1>1, <1>2, <1>5 DEF UnbindOwn
  <2>4. QED
    BY <1>3, <1>4, <2>1, <2>2, <2>3
<1>6. CASE JoinEnds(1)
  <2>1. m.at = "unbound" /\ (SameRoom(1) <=> ~Apart)
    BY <1>1, <1>2, <1>3, <1>6 DEF JoinEnds, SameRoom, Apart
  <2>2. CASE ~SameRoom(1) /\ Binds(1)
    <3>1. <<1, "room">> \in held
      BY <1>1, <2>1, <2>2 DEF AloneInv, CopiesHeld, Moving
    <3>2. \A r \in open : bound[r] \in seats /\ r \notin fresh => RoomOf[bound[r]] = RoomOf[n]
      BY <1>1, <1>2, <2>1 DEF AloneInv, StaleTold, Answered, Parting
    <3>3. QED
      BY <1>1, <1>2, <1>3, <2>1, <2>2, <3>1, <3>2, BindsAlone
  <2>3. CASE /\ SameRoom(1) /\ seats' = seats \cup {n}
             /\ Task(1, [m EXCEPT !.at = "rejoined"])
             /\ Answers(1, "room", RoomOf[n], n \notin seats)
             /\ UNCHANGED <<bound, timers>>
    <3>1. PICK changed \in BOOLEAN : changed = (n \notin seats) /\ Answers(1, "room", RoomOf[n], changed)
      BY <2>3
    <3>2. held \subseteq held' /\ fresh' = fresh /\ <<1, "room">> \in held'
      BY <1>2, <3>1, AnswersAlone DEF TypeInv
    <3>3. Only' = [m EXCEPT !.at = "rejoined"]
      BY <2>3, GoesOnAlone
    <3>4. QED
      BY <1>2, <1>4, <2>1, <2>3, <3>2, <3>3
  <2>4. QED
    BY <1>1, <1>2, <1>6, <2>2, <2>3 DEF JoinEnds
<1>7. CASE Rejoined(1)
  <2>1. m.at = "rejoined" /\ Binds(1)
    BY <1>1, <1>7 DEF Rejoined
  <2>2. /\ <<1, "room">> \in held
        /\ \A r \in open : bound[r] \in seats /\ r \notin fresh => RoomOf[bound[r]] = RoomOf[n]
    BY <1>1, <1>2, <2>1 DEF AloneInv, CopiesHeld, StaleTold, Answered, Parting, Moving
  <2>3. QED
    BY <1>1, <1>2, <1>3, <2>1, <2>2, BindsAlone
<1>8. QED
  BY <1>5, <1>6, <1>7

\* The copy sent at the end is current: everybody left uninformed gets it.
LEMMA AlonePublishes ==
    ASSUME Burst = 1, TypeInv, ChannelsJoined, AloneInv, Published(1)
    PROVE  AloneInv'
<1>1. Only.at \in {"bound", "acted"}
  BY DEF Published, Only
<1>2. Only' = Idle /\ UNCHANGED <<seats, open, bound, timers>>
  BY EndsAlone DEF Published, TypeInv, sockets
<1>3. /\ \A s \in open : bound[s] \in seats \cup {Nowhere}
      /\ \A s \in Sockets \ open : bound[s] = Nowhere
      /\ \A n \in seats : HasTab(n) \/ grace[n] # Off \/ newRoom[n] # Off
      /\ <<1, "room">> \in held
      /\ \A s \in open : bound[s] \in seats /\ s \notin fresh => RoomOf[bound[s]] = RoomOf[Only.place]
  BY <1>1 DEF AloneInv, BoundSound, SeatsCared, CopiesHeld, StaleTold, JoinUnderWay, Answered, Parting, Moving
<1>4. fresh' = fresh \cup Pages(CopyOf(<<1, "room">>))
  BY <1>3, TabsSeen DEF Published, Publish
<1>5. CopyOf(<<1, "room">>) = RoomOf[Only.place]
  BY DEF CopyOf, Only
<1>6. \A s \in open : bound[s] \in seats => s \in fresh'
  BY <1>3, <1>4, <1>5, NoPlaceZero DEF Pages, TypeInv, SeatsType
<1>7. QED
  BY <1>2, <1>3, <1>6, QuietSuffices DEF HasTab, timers

\* The tabs of a departed player are cut off in turn, then the others are told.
LEMMA AloneDetaches ==
    ASSUME Burst = 1, TypeInv, ChannelsJoined, AloneInv, Detach(1)
    PROVE  AloneInv'
<1>1. Only.at \in Parting
  BY DEF Detach, Only, Parting
<1>2. PICK m \in TaskType : m = Only /\ m = tasks[1] /\ m.at \in Parting
  BY <1>1 DEF TypeInv, TasksType, Only
<1>3. PICK old \in Places \ seats : old = m.old
  BY <1>2 DEF AloneInv, OneHandler
<1>4. /\ m.place # Nowhere => m.place \in seats /\ m.socket \in open /\ bound[m.socket] \in {old, Nowhere}
      /\ \A s \in Sockets \ open : bound[s] = Nowhere
      /\ \A s \in open : bound[s] \in seats \cup {Nowhere} \/ (bound[s] = old /\ s > m.seen)
      /\ \A n \in seats : HasTab(n) \/ grace[n] # Off \/ newRoom[n] # Off \/ (n = m.place /\ m.place # Nowhere)
      /\ <<1, "left">> \in held /\ (Apart => <<1, "room">> \in held)
  BY <1>2, <1>3 DEF AloneInv, OneHandler, BoundSound, SeatsCared, JoinUnderWay, CopiesHeld, Parting, Moving
<1>5. /\ UNCHANGED <<seats, open, newRoom>> /\ Nowhere \notin seats
      /\ \A n \in seats : grace'[n] = grace[n]
  BY <1>2, <1>3, NoPlaceZero DEF Detach, Set, TypeInv, SeatsType, TimersType
<1>6. \A s \in open : bound[s] \in seats /\ s \notin fresh =>
          RoomOf[bound[s]] = RoomOf[old] \/ (Apart /\ RoomOf[bound[s]] = RoomOf[m.place])
  BY <1>2, <1>3 DEF AloneInv, StaleTold, Answered, Parting
<1>7. Apart <=> m.place # Nowhere /\ RoomOf[m.place] # RoomOf[old]
  BY <1>2, <1>3 DEF Apart
<1>8. open \subseteq Sockets /\ Sockets \subseteq Nat
  BY SessionsAssumption DEF TypeInv, SocketsType, Sockets
<1>9. ASSUME NEW next \in TabsLeft(1), \A s \in TabsLeft(1) : next <= s,
             bound' = [bound EXCEPT ![next] = Nowhere], fresh' = fresh \ {next}, UNCHANGED held,
             Task(1, [m EXCEPT !.at = "detaching", !.seen = next])
      PROVE  AloneInv'
  <2>1. next \in open /\ next \in Sockets /\ bound[next] = old
        /\ \A s \in open : bound[s] = old /\ s > m.seen => next <= s
    BY <1>2, <1>3, <1>8, <1>9 DEF TabsLeft
  <2>2. \A s \in Sockets : bound'[s] = IF s = next THEN Nowhere ELSE bound[s]
    BY <1>9 DEF TypeInv, SocketsType
  <2>3. Only' = [m EXCEPT !.at = "detaching", !.seen = next]
    BY <1>9, GoesOnAlone
  <2>4. /\ Only'.at = "detaching" /\ Only'.place = m.place /\ Only'.socket = m.socket
        /\ Only'.old = old /\ Only'.seen = next
    BY <1>3, <2>3 DEF TaskType, Records
  <2>5. OneHandler' /\ CopiesHeld'
    BY <1>3, <1>4, <1>5, <1>7, <1>9, <2>4 DEF OneHandler, CopiesHeld, Apart, Parting, Moving, Answered
  <2>6. BoundSound'
    <3>1. ASSUME NEW s \in open PROVE bound'[s] \in seats \cup {Nowhere} \/ (bound'[s] = old /\ s > next)
      BY <1>4, <1>8, <2>1, <2>2
    <3>2. m.place # Nowhere => bound'[m.socket] \in {old, Nowhere}
      BY <1>4, <1>8, <2>2
    <3>3. QED
      BY <1>4, <1>5, <1>8, <2>1, <2>2, <2>4, <3>1, <3>2 DEF BoundSound, Parting
  <2>7. SeatsCared'
    <3>1. \A n \in seats : HasTab(n) => HasTab(n)'
      BY <1>3, <1>5, <1>8, <2>1, <2>2 DEF HasTab
    <3>2. QED
      BY <1>4, <1>5, <2>4, <3>1 DEF SeatsCared, JoinUnderWay, Moving, Parting
  <2>8. StaleTold'
    <3> SUFFICES ASSUME NEW s \in open, bound'[s] \in seats, s \notin fresh'
                 PROVE  RoomOf[bound'[s]] = RoomOf[old] \/ (Apart /\ RoomOf[bound'[s]] = RoomOf[m.place])
      BY <1>5, <1>7, <2>4 DEF StaleTold, Parting, Moving, Apart
    <3>1. s # next /\ bound'[s] = bound[s] /\ s \notin fresh
      BY <1>5, <1>8, <1>9, <2>1, <2>2
    <3>2. QED
      BY <1>6, <3>1
  <2>9. QED
    BY <2>5, <2>6, <2>7, <2>8 DEF AloneInv
<1>10. ASSUME TabsLeft(1) = {}, Publish(1, "left"), UNCHANGED bound,
             \/ m.place = Nowhere /\ Ends(1)
             \/ /\ m.place # Nowhere /\ Task(1, [m EXCEPT !.at = "unbind"])
                /\ held' = held \ {<<1, "left">>}
      PROVE  AloneInv'
  <2>1. \A s \in open : bound[s] \in seats \cup {Nowhere}
    BY <1>2, <1>3, <1>4, <1>10 DEF TabsLeft
  <2>2. CopyOf(<<1, "left">>) = RoomOf[old]
    BY <1>2, <1>3 DEF CopyOf
  <2>3. fresh' = fresh \cup {s \in open : bound[s] # Nowhere /\ RoomOf[bound[s]] = RoomOf[old]}
    BY <1>4, <1>10, <2>2, TabsSeen DEF Publish, Pages
  <2>4. \A s \in open : bound[s] \in seats /\ s \notin fresh' => Apart /\ RoomOf[bound[s]] = RoomOf[m.place]
    BY <1>5, <1>6, <2>3
  <2>5. CASE m.place = Nowhere /\ Ends(1)
    <3>1. Only' = Idle
      BY <2>5, EndsAlone DEF TypeInv
    <3>2. \A n \in seats : HasTab(n)' \/ grace'[n] # Off \/ newRoom'[n] # Off
      BY <1>4, <1>5, <1>10, <2>5 DEF HasTab
    <3>3. QED
      BY <1>4, <1>5, <1>7, <1>10, <2>1, <2>4, <2>5, <3>1, <3>2, QuietSuffices
  <2>6. CASE /\ m.place # Nowhere /\ Task(1, [m EXCEPT !.at = "unbind"])
             /\ held' = held \ {<<1, "left">>}
    <3>1. Only' = [m EXCEPT !.at = "unbind"]
      BY <2>6, GoesOnAlone
    <3>2. Only'.at = "unbind" /\ Only'.place = m.place /\ Only'.socket = m.socket /\ Only'.old = old
      BY <1>3, <3>1 DEF TaskType, Records
    <3>3. bound[m.socket] = Nowhere
      BY <1>3, <1>4, <2>1, <2>6
    <3>4. OneHandler' /\ BoundSound'
      BY <1>4, <1>5, <1>10, <2>1, <2>6, <3>2, <3>3 DEF OneHandler, BoundSound, Parting
    <3>5. SeatsCared'
      BY <1>4, <1>5, <1>10, <3>2 DEF SeatsCared, HasTab, JoinUnderWay, Moving
    <3>6. Apart' <=> Apart
      BY <1>7, <3>2 DEF Apart
    <3>7. CopiesHeld' /\ StaleTold'
      BY <1>4, <1>5, <1>10, <2>4, <2>6, <3>2, <3>6 DEF CopiesHeld, StaleTold, Moving, Answered, Parting
    <3>8. QED
      BY <3>4, <3>5, <3>7 DEF AloneInv
  <2>7. QED
    BY <1>10, <2>5, <2>6
<1>11. QED
  BY <1>2, <1>9, <1>10 DEF Detach, Unbind

LEMMA AloneStep ==
    Burst = 1 /\ TypeInv /\ ChannelsJoined /\ OneChannel /\ AloneInv /\ [Next]_vars => AloneInv'
<1> SUFFICES ASSUME Burst = 1, TypeInv, ChannelsJoined, OneChannel, AloneInv, [Next]_vars PROVE AloneInv'
  OBVIOUS
<1>1. CASE UNCHANGED vars
  BY <1>1 DEF vars, sockets, timers, views, AloneInv, OneHandler, BoundSound, SeatsCared, CopiesHeld, StaleTold, Only,
     HasTab, JoinUnderWay, Apart
<1>2. CASE Handler
  <2>1. PICK t \in 1..Burst : JoinGoesOn(t) \/ UnbindOwn(t) \/ JoinEnds(t) \/ Rejoined(t) \/ Published(t) \/ Detach(t)
    BY <1>2 DEF Handler
  <2>2. t = 1
    OBVIOUS
  <2>3. QED
    BY <2>1, <2>2, AloneJoins, AloneMoves, AlonePublishes, AloneDetaches
<1>3. QED
  BY <1>1, <1>2, AloneConnections, AloneMessages, AloneTimers DEF Next, Request

AlwaysAlone == TypeInv /\ ChannelsJoined /\ OneChannel /\ AloneInv

LEMMA AloneAlways == ASSUME Burst = 1 PROVE Spec => []AlwaysAlone
<1>1. Init => AlwaysAlone
  BY SessionsStart, AloneStart DEF AlwaysAlone, Init, ChannelsJoined, OneChannel
<1>2. AlwaysAlone /\ [Next]_vars => AlwaysAlone'
  BY SessionsStep, ChannelsStep, OneChannelStep, AloneStep DEF AlwaysAlone
<1>3. QED
  BY <1>1, <1>2, PTL DEF Spec

\* Where messages come one at a time, no tab stays tied to a place whose player left,
\* was kicked or was released: the loop of unbindPlayer reaches every socket, and every
\* tab is in the channel of its own room alone. In a
\* burst a socket may be bound to a seat lost since (leavePreviousBinding awaits).
THEOREM BoundIsSeatedSafe == ASSUME Burst = 1 PROVE Spec => []BoundIsSeated
<1>1. AlwaysAlone => BoundIsSeated
  <2> SUFFICES ASSUME AlwaysAlone, Quiet, NEW s \in open
               PROVE  bound[s] \in seats \cup {Nowhere} /\ \A r \in channels[s] : s \in Pages(r)
    BY DEF BoundIsSeated
  <2>1. bound[s] \in seats \cup {Nowhere}
    BY QuietAlone, QuietMeans DEF AlwaysAlone
  <2>2. s \in Sockets
    BY SessionsAssumption DEF AlwaysAlone, TypeInv, SocketsType, Sockets
  <2>3. QED
    BY <2>1, <2>2 DEF AlwaysAlone, OneChannel, Pages
<1>2. QED
  BY <1>1, AloneAlways, PTL

\* ... no seat is left without a socket or a timer that decides about it: what the
\* sweep is there for happens only in bursts.
THEOREM NoGhostSeatSafe == ASSUME Burst = 1 PROVE Spec => []NoGhostSeat
<1>1. AlwaysAlone => NoGhostSeat
  BY QuietAlone, QuietMeans DEF NoGhostSeat, AlwaysAlone
<1>2. QED
  BY <1>1, AloneAlways, PTL

\* ... and no tab of a player keeps an older version of the room than the store: the
\* copy each handler publishes at its end is still the newest.
THEOREM TabsUpToDateSafe == ASSUME Burst = 1 PROVE Spec => []TabsUpToDate
<1>1. AlwaysAlone => TabsUpToDate
  BY QuietAlone, QuietMeans DEF TabsUpToDate, AlwaysAlone
<1>2. QED
  BY <1>1, AloneAlways, PTL
=============================================================================
