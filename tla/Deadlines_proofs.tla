-------------------------- MODULE Deadlines_proofs --------------------------
(***************************************************************************)
(* Theorems about Deadlines, for any number of stored changes and of       *)
(* handlers under way.                                                     *)
(***************************************************************************)
EXTENDS Deadlines, TLAPS

Tasks == [do : {"publish", "forget", "fire"}, version : Gone..MaxVersion + 1, deadline : Pending \cup {None}]

\* Nothing is pending in a room that is gone, nor after its last change.
RoomType ==
    /\ version \in Gone..MaxVersion + 1
    /\ deadline \in Pending \cup {None}
    /\ due \in BOOLEAN
    /\ version = Gone \/ version > MaxVersion => deadline = None
    /\ due => deadline # None

TimersType ==
    /\ armed \in Gone..MaxVersion + 1
    /\ timer \in [Kinds -> Pending \cup {None}]
    /\ \A k \in Kinds : timer[k] # None => timer[k].kind = k

\* Publications, firings and a forgetting are told apart.
Sound(task) ==
    \/ task.do = "publish" /\ task.version >= 0
    \/ task = Forgetting
    \/ task.do = "fire" /\ task.deadline # None
TasksType == tasks \subseteq Tasks /\ \A task \in tasks : Sound(task)

TypeInv == RoomType /\ TimersType /\ TasksType

\* What a publication carries: the state of the room when it was read.
PublishesThePast ==
    \A task \in tasks : task.do = "publish" =>
        task.version <= version /\ (task.version = version => task.deadline = deadline)

Owed == Publication(version, deadline) \in tasks

\* The timers are those of the pending deadline, or its own timer has just fired.
Follows ==
    \A k \in Kinds :
        \/ timer[k] = IF deadline.kind = k THEN deadline ELSE None
        \/ deadline.kind = k /\ timer[k] = None /\ Firing(deadline) \in tasks

\* While the room is stored the timers follow it, or the publication that will
\* make them is under way; only that one can be newer than what they were armed
\* from, so an older one that is still to come changes nothing for good.
StoredInv ==
    version # Gone =>
        /\ Forgetting \notin tasks
        /\ PublishesThePast
        /\ armed <= version
        /\ armed < version /\ version > 0 => Owed
        /\ Owed \/ Follows

LEMMA DeadlinesStart == Init => TypeInv /\ StoredInv
<1> SUFFICES ASSUME Init PROVE TypeInv /\ StoredInv
  OBVIOUS
<1>1. TypeInv
  <2>1. 0 \in Gone..MaxVersion + 1 /\ Gone \in Gone..MaxVersion + 1 /\ ~(0 > MaxVersion)
    BY DeadlinesAssumption DEF Gone
  <2>2. RoomType
    BY <2>1 DEF Init, RoomType
  <2>3. TimersType /\ TasksType
    BY <2>1 DEF Init, TimersType, TasksType
  <2>4. QED
    BY <2>2, <2>3 DEF TypeInv
<1>2. StoredInv
  <2>1. tasks = {} /\ version = 0 /\ armed <= version
    BY DEF Init, Gone
  <2>2. Follows
    BY DEF Init, Follows
  <2>3. QED
    BY <2>1, <2>2 DEF StoredInv, PublishesThePast
<1>3. QED
  BY <1>1, <1>2

\* The tasks that are started are of their kind.
LEMMA TaskKinds ==
    /\ \A v \in 0..MaxVersion + 1, d \in Pending \cup {None} : Publication(v, d) \in Tasks /\ Sound(Publication(v, d))
    /\ \A d \in Pending : Firing(d) \in Tasks /\ Sound(Firing(d))
    /\ Forgetting \in Tasks /\ Sound(Forgetting)
BY DeadlinesAssumption DEF Tasks, Sound, Publication, Firing, Forgetting, Gone, None, Pending, Kinds

LEMMA TaskFields ==
    /\ \A v, d : Publication(v, d).do = "publish" /\ Publication(v, d).version = v /\ Publication(v, d).deadline = d
    /\ \A d : Firing(d).do = "fire" /\ Firing(d).deadline = d
    /\ Forgetting.do = "forget"
BY DEF Publication, Firing, Forgetting

LEMMA NoneAside == None \notin Pending /\ \A d \in Pending : d.kind \in Kinds /\ d # None
BY DEF None, Pending, Kinds

\* What a stored change leaves of the room; the last one leaves nothing pending.
LEMMA Stores ==
    ASSUME TypeInv, NEW d \in NewDeadlines \cup {deadline}, Store(d), version < MaxVersion \/ d # deadline
    PROVE  /\ version' = version + 1 /\ version \in Nat /\ deadline' = d
           /\ version' \in 0..MaxVersion + 1 /\ deadline' \in Pending \cup {None}
           /\ version' > MaxVersion => deadline' = None
           /\ due' \in BOOLEAN /\ (due' => deadline' # None)
<1>1. version \in 0..MaxVersion + 1 /\ version' = version + 1 /\ deadline' = d
  BY DeadlinesAssumption DEF Store, TypeInv, RoomType, Gone
<1>2. MaxVersion \in Nat
  BY DeadlinesAssumption
<1>3. due' \in BOOLEAN /\ (due' => d # None)
  BY DEF Store, TypeInv, RoomType
<1>4. CASE version < MaxVersion
  <2>1. d \in Pending \cup {None}
    BY <1>1, <1>2, <1>4 DEF NewDeadlines, Pending, TypeInv, RoomType
  <2>2. version' \in 0..MaxVersion + 1 /\ ~(version' > MaxVersion)
    BY <1>1, <1>2, <1>4
  <2>3. QED
    BY <1>1, <1>3, <2>1, <2>2
<1>5. CASE d = None /\ d # deadline
  <2>1. version <= MaxVersion
    BY <1>1, <1>2, <1>5 DEF TypeInv, RoomType
  <2>2. version' \in 0..MaxVersion + 1
    BY <1>1, <1>2, <2>1
  <2>3. QED
    BY <1>1, <1>3, <1>5, <2>2
<1>6. QED
  BY <1>4, <1>5 DEF Store

\* A handler that goes on, ends or starts leaves every task of its kind.
LEMMA TasksGoOn ==
    ASSUME TasksType, NEW next \in Tasks, Sound(next), tasks' \subseteq tasks \cup {next}
    PROVE  TasksType'
BY DEF TasksType, Sound

LEMMA RoomSteps ==
    ASSUME TypeInv, StoredInv,
           \/ \E d \in NewDeadlines \cup {deadline} : Change(d)
           \/ Republish \/ Delete \/ Tick
    PROVE  TypeInv' /\ StoredInv'
<1>1. ASSUME NEW d \in NewDeadlines \cup {deadline}, Change(d) PROVE TypeInv' /\ StoredInv'
  <2>1. /\ version' = version + 1 /\ version \in Nat /\ deadline' = d
        /\ version' \in 0..MaxVersion + 1 /\ deadline' \in Pending \cup {None}
        /\ version' > MaxVersion => deadline' = None
        /\ due' \in BOOLEAN /\ (due' => deadline' # None)
    BY <1>1, Stores DEF Change
  <2>2. UNCHANGED <<armed, timer>> /\ tasks' = tasks \cup {Publication(version', deadline')}
    BY <1>1 DEF Change, Starts
  <2>3. RoomType' /\ TimersType'
    BY <2>1, <2>2, DeadlinesAssumption DEF TypeInv, RoomType, TimersType, Gone
  <2>4. TasksType'
    BY <2>1, <2>2, TaskKinds, TasksGoOn DEF TypeInv
  <2>5. version # Gone
    BY <2>1 DEF Gone
  <2>6. PublishesThePast' /\ Forgetting \notin tasks'
    BY <2>1, <2>2, <2>5, TaskFields DEF StoredInv, PublishesThePast, TypeInv, TasksType, Tasks, Gone
  <2>7. Owed' /\ armed' <= version'
    BY <2>1, <2>2, <2>5 DEF Owed, StoredInv, TypeInv, TimersType, Gone
  <2>8. QED
    BY <2>3, <2>4, <2>6, <2>7 DEF TypeInv, StoredInv
<1>2. CASE Republish
  <2>1. /\ UNCHANGED <<version, deadline, due, armed, timer>> /\ version # Gone
        /\ tasks' = tasks \cup {Publication(version, deadline)}
    BY <1>2 DEF Republish, Starts
  <2>2. version \in 0..MaxVersion + 1 /\ deadline \in Pending \cup {None}
    BY <2>1, DeadlinesAssumption DEF TypeInv, RoomType, Gone
  <2>3. TypeInv'
    <3>1. TasksType'
      BY <2>1, <2>2, TaskKinds, TasksGoOn DEF TypeInv
    <3>2. QED
      BY <2>1, <3>1 DEF TypeInv, RoomType, TimersType
  <2>4. Owed' /\ PublishesThePast' /\ Forgetting \notin tasks'
    BY <2>1, <2>2, TaskFields DEF Owed, StoredInv, PublishesThePast
  <2>5. QED
    BY <2>1, <2>3, <2>4 DEF StoredInv
<1>3. CASE Delete
  <2>1. /\ version' = Gone /\ deadline' = None /\ due' = FALSE /\ UNCHANGED <<armed, timer>>
        /\ tasks' = tasks \cup {Forgetting}
    BY <1>3 DEF Delete, Starts
  <2>2. TasksType'
    BY <2>1, TaskKinds, TasksGoOn DEF TypeInv
  <2>3. RoomType' /\ TimersType'
    <3>1. Gone \in Gone..MaxVersion + 1
      BY DeadlinesAssumption DEF Gone
    <3>2. QED
      BY <2>1, <3>1 DEF TypeInv, RoomType, TimersType
  <2>4. QED
    BY <2>1, <2>2, <2>3 DEF TypeInv, StoredInv
<1>4. CASE Tick
  BY <1>4 DEF Tick, TypeInv, RoomType, TimersType, TasksType, Sound, StoredInv, PublishesThePast, Owed, Follows
<1>5. QED
  BY <1>1, <1>2, <1>3, <1>4

\* A timer fires and leaves its place empty, with the firing under way.
LEMMA FireStep ==
    ASSUME TypeInv, StoredInv, NEW k \in Kinds, Fire(k)
    PROVE  TypeInv' /\ StoredInv'
<1>1. /\ UNCHANGED <<version, deadline, due, armed>> /\ timer[k] # None
      /\ timer' = [timer EXCEPT ![k] = None] /\ tasks' = tasks \cup {Firing(timer[k])}
  BY DEF Fire, Starts
<1>2. timer[k] \in Pending /\ timer[k].kind = k
  BY <1>1 DEF TypeInv, TimersType
<1>3. TimersType' /\ RoomType'
  BY <1>1 DEF TypeInv, TimersType, RoomType
<1>4. TasksType'
  BY <1>1, <1>2, TaskKinds, TasksGoOn DEF TypeInv
<1>5. StoredInv'
  <2> SUFFICES ASSUME version # Gone PROVE StoredInv'
    BY <1>1 DEF StoredInv
  <2>1. PublishesThePast' /\ Forgetting \notin tasks' /\ (Owed => Owed')
    BY <1>1, TaskFields DEF StoredInv, PublishesThePast, Owed
  <2>2. ASSUME Follows PROVE Follows'
    <3>1. timer[k] = deadline /\ deadline.kind = k
      BY <1>1, <2>2 DEF Follows
    <3>2. ASSUME NEW j \in Kinds, j # k PROVE timer'[j] = None /\ deadline.kind # j
      <4>1. timer'[j] = timer[j]
        BY <1>1, <3>2 DEF TypeInv, TimersType
      <4>2. QED
        BY <2>2, <3>1, <3>2, <4>1 DEF Follows
    <3>3. timer'[k] = None /\ Firing(deadline) \in tasks'
      BY <1>1, <3>1 DEF TypeInv, TimersType
    <3>4. QED
      BY <1>1, <3>1, <3>2, <3>3 DEF Follows
  <2>3. QED
    BY <1>1, <2>1, <2>2 DEF StoredInv
<1>6. QED
  BY <1>3, <1>4, <1>5 DEF TypeInv

\* A publication that comes late is ignored, or the newest is still to come.
LEMMA PublishStep ==
    ASSUME TypeInv, StoredInv, NEW task \in tasks, Publish(task)
    PROVE  TypeInv' /\ StoredInv'
<1>0. PICK v, d : v = task.version /\ d = task.deadline
  OBVIOUS
<1>1. /\ task.do = "publish" /\ v \in 0..MaxVersion + 1 /\ d \in Pending \cup {None}
      /\ UNCHANGED <<version, deadline, due>> /\ tasks' = tasks \ {task} /\ Arm(v, d)
  <2>1. task.do = "publish" /\ task # Forgetting /\ task \in Tasks /\ Sound(task)
    BY TaskFields DEF Publish, TypeInv, TasksType
  <2>2. v \in 0..MaxVersion + 1 /\ d \in Pending \cup {None}
    BY <1>0, <2>1, DeadlinesAssumption DEF Tasks, Sound, Gone
  <2>3. QED
    BY <1>0, <2>1, <2>2 DEF Publish, Ends
<1>2. \/ v < armed /\ UNCHANGED <<armed, timer>>
      \/ ~(v < armed) /\ armed' = v /\ timer' = [k \in Kinds |-> IF d.kind = k THEN d ELSE None]
  BY <1>1 DEF Arm
<1>3. TypeInv'
  <2>1. RoomType' /\ TasksType'
    BY <1>1 DEF TypeInv, RoomType, TasksType, Sound
  <2>2. TimersType'
    <3>1. v \in Gone..MaxVersion + 1
      BY <1>1, DeadlinesAssumption DEF Gone
    <3>2. QED
      BY <1>1, <1>2, <3>1 DEF TypeInv, TimersType
  <2>3. QED
    BY <2>1, <2>2 DEF TypeInv
<1>4. StoredInv'
  <2> SUFFICES ASSUME version # Gone PROVE StoredInv'
    BY <1>1 DEF StoredInv
  <2>1. PublishesThePast' /\ Forgetting \notin tasks'
    BY <1>1 DEF StoredInv, PublishesThePast
  <2>2. version \in Nat /\ armed <= version /\ armed \in Int /\ v \in Nat /\ v <= version /\ (v = version => d = deadline)
    BY <1>0, <1>1, DeadlinesAssumption DEF StoredInv, PublishesThePast, TypeInv, RoomType, TimersType, Gone
  <2>3. v # version /\ Owed => Owed'
    BY <1>0, <1>1, TaskFields DEF Owed
  <2>4. Firing(deadline) \in tasks => Firing(deadline)' \in tasks'
    BY <1>1, TaskFields
  <2>5. CASE v < armed
    <3>1. UNCHANGED <<armed, timer>> /\ v # version
      BY <1>2, <2>2, <2>5
    <3>2. Follows => Follows'
      BY <1>1, <2>4, <3>1 DEF Follows
    <3>3. QED
      BY <1>1, <2>1, <2>3, <3>1, <3>2 DEF StoredInv
  <2>6. CASE ~(v < armed) /\ v = version
    <3>1. armed' = version /\ Follows'
      BY <1>1, <1>2, <2>2, <2>6 DEF Follows
    <3>2. QED
      BY <1>1, <2>1, <2>2, <3>1 DEF StoredInv
  <2>7. CASE ~(v < armed) /\ v # version
    <3>1. armed < version /\ version > 0 /\ armed' = v /\ v < version
      BY <1>2, <2>2, <2>7
    <3>2. Owed'
      BY <2>3, <2>7, <3>1 DEF StoredInv
    <3>3. QED
      BY <1>1, <2>1, <2>2, <3>1, <3>2 DEF StoredInv
  <2>8. QED
    BY <2>5, <2>6, <2>7
<1>5. QED
  BY <1>3, <1>4

LEMMA ForgetStep ==
    ASSUME TypeInv, StoredInv, NEW task \in tasks, Forget(task)
    PROVE  TypeInv' /\ StoredInv'
<1>1. /\ UNCHANGED <<version, deadline, due>> /\ armed' = Gone
      /\ timer' = [k \in Kinds |-> None] /\ tasks' = tasks \ {task}
  BY DEF Forget, Ends
<1>2. task = Forgetting
  BY DEF Forget, TypeInv, TasksType, Sound
<1>3. version = Gone
  BY <1>2 DEF StoredInv
<1>4. TypeInv'
  <2>1. Gone \in Gone..MaxVersion + 1
    BY DeadlinesAssumption DEF Gone
  <2>2. QED
    BY <1>1, <2>1 DEF TypeInv, RoomType, TimersType, TasksType, Sound
<1>5. QED
  BY <1>1, <1>3, <1>4 DEF StoredInv

\* The use case that settles a deadline owes the publication of what it stored.
LEMMA SettleStep ==
    ASSUME TypeInv, StoredInv, NEW task \in tasks, NEW d \in NewDeadlines, Settle(task, d)
    PROVE  TypeInv' /\ StoredInv'
<1>1. /\ version' = version + 1 /\ version \in Nat /\ deadline' = d
      /\ version' \in 0..MaxVersion + 1 /\ deadline' \in Pending \cup {None}
      /\ version' > MaxVersion => deadline' = None
      /\ due' \in BOOLEAN /\ (due' => deadline' # None)
  BY Stores DEF Settle
<1>2. /\ UNCHANGED <<armed, timer>>
      /\ tasks' = (tasks \ {task}) \cup {Publication(version', deadline')}
  BY DEF Settle, Continues
<1>3. RoomType' /\ TimersType'
  BY <1>1, <1>2, DeadlinesAssumption DEF TypeInv, RoomType, TimersType, Gone
<1>4. TasksType'
  BY <1>1, <1>2, TaskKinds, TasksGoOn DEF TypeInv
<1>5. version # Gone
  BY <1>1 DEF Gone
<1>6. PublishesThePast' /\ Forgetting \notin tasks'
  BY <1>1, <1>2, <1>5, TaskFields DEF StoredInv, PublishesThePast, TypeInv, TasksType, Tasks, Gone
<1>7. Owed' /\ armed' <= version'
  BY <1>1, <1>2, <1>5 DEF Owed, StoredInv, TypeInv, TimersType, Gone
<1>8. QED
  BY <1>3, <1>4, <1>6, <1>7 DEF TypeInv, StoredInv

\* A firing that changes nothing makes the timers follow the room again; only a
\* song challenge that is no longer the pending deadline may end at once.
LEMMA FollowRoomStep ==
    ASSUME TypeInv, StoredInv, NEW task \in tasks, FollowRoom(task)
    PROVE  TypeInv' /\ StoredInv'
<1>1. UNCHANGED <<version, deadline, due, armed, timer>> /\ task.do = "fire" /\ ~MustAct(task)
  BY DEF FollowRoom
<1>2. CASE /\ version # Gone /\ task.deadline.kind # "song-challenge"
           /\ tasks' = (tasks \ {task}) \cup {Publication(version, deadline)}
  <2>1. version \in 0..MaxVersion + 1 /\ deadline \in Pending \cup {None}
    BY <1>2, DeadlinesAssumption DEF TypeInv, RoomType, Gone
  <2>2. TasksType'
    BY <1>2, <2>1, TaskKinds, TasksGoOn DEF TypeInv
  <2>3. Owed' /\ PublishesThePast' /\ Forgetting \notin tasks'
    BY <1>1, <1>2, <2>1, TaskFields DEF Owed, StoredInv, PublishesThePast
  <2>4. QED
    BY <1>1, <1>2, <2>2, <2>3 DEF TypeInv, RoomType, TimersType, StoredInv
<1>3. CASE (version = Gone \/ task.deadline.kind = "song-challenge") /\ tasks' = tasks \ {task}
  <2>1. TypeInv'
    BY <1>1, <1>3 DEF TypeInv, RoomType, TimersType, TasksType, Sound
  <2>2. ASSUME version # Gone PROVE StoredInv'
    <3>1. task.deadline.kind = "song-challenge" /\ task.deadline # deadline
      BY <1>1, <1>3, <2>2 DEF MustAct
    <3>2. Owed => Owed'
      BY <1>1, <1>3, TaskFields DEF Owed
    <3>3. Firing(deadline) \in tasks => Firing(deadline) \in tasks'
      BY <1>3, <3>1, TaskFields
    <3>4. Follows => Follows'
      BY <1>1, <3>3 DEF Follows
    <3>5. PublishesThePast' /\ Forgetting \notin tasks'
      BY <1>1, <1>3, <2>2 DEF StoredInv, PublishesThePast
    <3>6. QED
      BY <1>1, <2>2, <3>2, <3>4, <3>5 DEF StoredInv
  <2>3. QED
    BY <1>1, <2>1, <2>2 DEF StoredInv
<1>4. QED
  BY <1>2, <1>3 DEF FollowRoom, Ends, Continues

LEMMA DeadlinesStep == TypeInv /\ StoredInv /\ [Next]_vars => TypeInv' /\ StoredInv'
<1> SUFFICES ASSUME TypeInv, StoredInv, [Next]_vars PROVE TypeInv' /\ StoredInv'
  OBVIOUS
<1>1. CASE UNCHANGED vars
  BY <1>1 DEF vars, TypeInv, RoomType, TimersType, TasksType, Sound, StoredInv, PublishesThePast, Owed, Follows
<1>2. QED
  BY <1>1, RoomSteps, FireStep, PublishStep, ForgetStep, SettleStep, FollowRoomStep DEF Next, Handler

-----------------------------------------------------------------------------
\* Versions, the pending deadline, timers and handlers keep their types, and a
\* room that is gone has nothing pending.
THEOREM DeadlinesTypes == Spec => []DeadlinesTypeOK
<1>1. TypeInv => DeadlinesTypeOK
  <2> SUFFICES ASSUME TypeInv PROVE DeadlinesTypeOK
    OBVIOUS
  <2>1. \A k \in Kinds : timer[k] \in {d \in Pending : d.kind = k} \cup {None}
    BY DEF TypeInv, TimersType
  <2>2. ASSUME NEW task \in tasks
        PROVE  \/ task.do = "publish" /\ task.version \in 0..MaxVersion + 1 /\ task.deadline \in Pending \cup {None}
               \/ task = Forgetting
               \/ task.do = "fire" /\ task.deadline \in Pending
    BY DeadlinesAssumption DEF TypeInv, TasksType, Tasks, Sound, Gone
  <2>3. QED
    BY <2>1, <2>2 DEF DeadlinesTypeOK, TypeInv, RoomType, TimersType
<1>2. QED
  BY <1>1, DeadlinesStart, DeadlinesStep, PTL DEF Spec

\* In whatever order handlers publish the states of a room, and however early or
\* late its timers run, once they have ended exactly the pending deadline has a
\* timer (armRoomTimers and followRoom in socketHandlers).
THEOREM TimersFollowRoomSafe == Spec => []TimersFollowRoom
<1>1. TypeInv /\ StoredInv => TimersFollowRoom
  <2> SUFFICES ASSUME TypeInv, StoredInv, tasks = {}, version # Gone
               PROVE  timer = [k \in Kinds |-> IF deadline.kind = k THEN deadline ELSE None]
    BY DEF TimersFollowRoom
  <2>1. Follows
    BY DEF StoredInv, Owed
  <2>2. \A k \in Kinds : timer[k] = IF deadline.kind = k THEN deadline ELSE None
    BY <2>1 DEF Follows
  <2>3. QED
    BY <2>2 DEF TypeInv, TimersType
<1>2. QED
  BY <1>1, DeadlinesStart, DeadlinesStep, PTL DEF Spec
=============================================================================
