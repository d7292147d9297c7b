----------------------------- MODULE Deadlines ------------------------------
(***************************************************************************)
(* The deadline timers of one room: armed from every published state, by     *)
(* handlers that may publish out of order (armRoomTimers in socketHandlers,  *)
(* RoomTimers).  Which changes a room goes through is left to Room: here any *)
(* stored change may set, renew or drop the one pending deadline.            *)
(***************************************************************************)
EXTENDS Integers, FiniteSets

CONSTANTS
    MaxVersion,   \* stored changes of the room
    MaxTasks      \* handlers under way

ASSUME DeadlinesAssumption == MaxVersion \in Nat /\ MaxTasks \in Nat \ {0}

Kinds == {"song-challenge", "song-choose", "battle-end"}
Gone == -1     \* the version of a room that is not stored, or not armed from yet
Pending == [kind : Kinds, since : 1..MaxVersion]
None == [kind |-> "none", since |-> 0]

VARIABLES
    version,    \* room.version
    deadline,   \* the pending deadline: its kind and the change that set it
    due,        \* it has passed
    armed,      \* armedVersions: the version the timers were last armed from
    timer,      \* RoomTimers: the deadline each kind's timer was set for
    tasks       \* what handlers have still to do

vars == <<version, deadline, due, armed, timer, tasks>>

Init ==
    /\ version = 0
    /\ deadline = None
    /\ due = FALSE
    /\ armed = Gone
    /\ timer = [k \in Kinds |-> None]
    /\ tasks = {}

Publication(v, d) == [do |-> "publish", version |-> v, deadline |-> d]
Forgetting == [do |-> "forget", version |-> Gone, deadline |-> None]
Firing(d) == [do |-> "fire", version |-> Gone, deadline |-> d]

Starts(task) ==
    /\ Cardinality(tasks) < MaxTasks
    /\ tasks' = tasks \cup {task}
Continues(task, next) == tasks' = (tasks \ {task}) \cup {next}
Ends(task) == tasks' = tasks \ {task}

-----------------------------------------------------------------------------
\* The room.

\* A use case stores a change that keeps, sets, drops or renews (later) the
\* deadline. The last version is left for the change that settles the last one.
Store(d) ==
    /\ version # Gone
    /\ version < MaxVersion \/ d = None
    /\ version' = version + 1
    /\ deadline' = d
    /\ due' = (due /\ d = deadline)

NewDeadlines == {None} \cup {[kind |-> k, since |-> version + 1] : k \in Kinds}

Change(d) ==
    /\ version < MaxVersion
    /\ Store(d)
    /\ Starts(Publication(version', deadline'))
    /\ UNCHANGED <<armed, timer>>

\* A rejoin or the sweep publishes the room as it is.
Republish ==
    /\ version # Gone
    /\ Starts(Publication(version, deadline))
    /\ UNCHANGED <<version, deadline, due, armed, timer>>

\* The last player leaves.
Delete ==
    /\ version # Gone
    /\ version' = Gone /\ deadline' = None /\ due' = FALSE
    /\ Starts(Forgetting)
    /\ UNCHANGED <<armed, timer>>

Tick ==
    /\ deadline # None /\ ~due
    /\ due' = TRUE
    /\ UNCHANGED <<version, deadline, armed, timer, tasks>>

-----------------------------------------------------------------------------
\* Publications.

\* Fault: an older state clears and replaces what a newer one set.
Arm_AnyVersion(v, d) ==
    /\ armed' = v
    /\ timer' = [k \in Kinds |-> IF d.kind = k THEN d ELSE None]

\* armRoomTimers: an older state than the last one is ignored.
Arm(v, d) ==
    IF v < armed THEN UNCHANGED <<armed, timer>>
    ELSE /\ armed' = v
         /\ timer' = [k \in Kinds |-> IF d.kind = k THEN d ELSE None]

Publish(task) ==
    /\ task.do = "publish"
    /\ Arm(task.version, task.deadline)
    /\ Ends(task)
    /\ UNCHANGED <<version, deadline, due>>

\* forgetRoomTimers.
Forget(task) ==
    /\ task.do = "forget"
    /\ armed' = Gone
    /\ timer' = [k \in Kinds |-> None]
    /\ Ends(task)
    /\ UNCHANGED <<version, deadline, due>>

\* A timer may run a moment early.
Fire(k) ==
    /\ timer[k] # None
    /\ Starts(Firing(timer[k]))
    /\ timer' = [timer EXCEPT ![k] = None]
    /\ UNCHANGED <<version, deadline, due, armed>>

\* The use case of the timer decides on the stored room.
MustAct(task) == deadline = task.deadline /\ (due \/ deadline.kind = "song-challenge")

\* A turn renewed within its challenge is not told from the one the timer was for.
MayAct(task) ==
    \/ MustAct(task)
    \/ due /\ deadline.kind = "song-choose" /\ task.deadline.kind = "song-choose"

Settle(task, d) ==
    /\ task.do = "fire"
    /\ MayAct(task)
    /\ d # deadline
    /\ Store(d)
    /\ Continues(task, Publication(version', deadline'))
    /\ UNCHANGED <<armed, timer>>

\* Fault: a timer that ran early is forgotten.
FollowRoom_Drops(task) ==
    /\ task.do = "fire"
    /\ ~MustAct(task)
    /\ Ends(task)
    /\ UNCHANGED <<version, deadline, due, armed, timer>>

\* Early, or for a deadline that is no longer pending: armed again from the stored
\* state. A stale song challenge ends without.
FollowRoom(task) ==
    /\ task.do = "fire"
    /\ ~MustAct(task)
    /\ IF version = Gone \/ task.deadline.kind = "song-challenge" THEN Ends(task)
       ELSE Continues(task, Publication(version, deadline))
    /\ UNCHANGED <<version, deadline, due, armed, timer>>

Handler ==
    \E task \in tasks :
        \/ Publish(task) \/ Forget(task) \/ FollowRoom(task)
        \/ \E d \in NewDeadlines : Settle(task, d)

Next ==
    \/ \E d \in NewDeadlines \cup {deadline} : Change(d)
    \/ Republish \/ Delete \/ Tick \/ Handler
    \/ \E k \in Kinds : Fire(k)

Spec == Init /\ [][Next]_vars

\* Handlers end, time passes and timers fire; no publication is assumed beyond
\* those the handlers owe.
Fairness ==
    /\ WF_vars(Tick)
    /\ \A v \in 0..MaxVersion + 1, d \in Pending \cup {None} :
          /\ WF_vars(Publication(v, d) \in tasks /\ Publish(Publication(v, d)))
          /\ WF_vars(Firing(d) \in tasks /\ (FollowRoom(Firing(d)) \/ \E e \in NewDeadlines : Settle(Firing(d), e)))
    /\ \A k \in Kinds : SF_vars(Fire(k))

FairSpec == Spec /\ Fairness

-----------------------------------------------------------------------------
\* Properties.

DeadlinesTypeOK ==
    /\ version \in Gone..MaxVersion + 1 /\ armed \in Gone..MaxVersion + 1
    /\ deadline \in Pending \cup {None}
    /\ due \in BOOLEAN
    /\ \A k \in Kinds : timer[k] \in {d \in Pending : d.kind = k} \cup {None}
    /\ \A task \in tasks :
          \/ task.do = "publish" /\ task.version \in 0..MaxVersion + 1 /\ task.deadline \in Pending \cup {None}
          \/ task = Forgetting
          \/ task.do = "fire" /\ task.deadline \in Pending
    /\ version = Gone => deadline = None
    /\ due => deadline # None

\* When every handler has ended, exactly the pending deadline of a stored room has
\* a timer, in whatever order the states were published.
TimersFollowRoom ==
    tasks = {} /\ version # Gone =>
        timer = [k \in Kinds |-> IF deadline.kind = k THEN deadline ELSE None]

\* When every handler has ended, a deleted room has no timers.
NothingLeaks ==
    tasks = {} /\ version = Gone => \A k \in Kinds : timer[k] = None

\* A deadline is settled in the end, without the sweep's help, unless it is renewed
\* or the room goes.
DeadlineSettles == \A d \in Pending : deadline = d ~> deadline # d
=============================================================================
