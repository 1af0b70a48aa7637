------------------------------ MODULE Elevator ------------------------------
(***************************************************************************)
(* One elevator of the world: the car's persisted parameters, the asyncio  *)
(* task that drives it, and the handlers of the connected clients that     *)
(* call it, board it, leave it or delete it.                               *)
(*                                                                         *)
(* The server is one event loop, so what runs between two awaits is one    *)
(* step here.  A handler or a task suspended in an await is a program      *)
(* counter; an await after which nothing of this state changes any more    *)
(* has none.  Squares are left out: a client outside the car is free to    *)
(* walk onto the shaft's square of its floor.  Items in riders' hands are  *)
(* module CarriedItems.                                                    *)
(***************************************************************************)
EXTENDS Integers, FiniteSets

CONSTANTS
    Client,         \* connections
    TaskId,         \* names of run_cycle tasks
    NoTask,         \* "no entry in _tasks"
    Ground, Upper,  \* floorZs of the elevator
    Restarts        \* whether the process may stop and start again

ASSUME FloorsAssumption == /\ Ground \in Nat
                           /\ Upper \in Nat
                           /\ Ground < Upper

ASSUME TaskAssumption == NoTask \notin TaskId

ASSUME RestartsAssumption == Restarts \in BOOLEAN

Floors  == {Ground, Upper}
Heights == Ground..Upper
NoFloor == -1

Other(f) == IF f = Ground THEN Upper ELSE Ground

VARIABLES
    up,              \* the server process runs
    exists,          \* the item is in the world's item map
    state, currentZ, targetZ, queuedZ, departOnCloseZ, doorOpen, \* its params
    slot,            \* ElevatorRuntime._tasks[item_id]
    task,            \* every run_cycle task: where it is suspended, its locals
    unattended,      \* history: a failed save ended the last task, none was made since
    status,          \* "in": in the roster; "leaving": popped from it, not cleaned up
    inCar,           \* client.elevator_id is this elevator
    z,               \* client.z
    pc,              \* where the client's use handler is suspended
    pick             \* its local destination_z

car     == <<up, exists, state, currentZ, targetZ, queuedZ, departOnCloseZ, doorOpen>>
tasks   == <<slot, task, unattended>>
clients == <<status, inCar, z, pc, pick>>
vars    == <<car, tasks, clients>>

States == {"idle", "opening", "door_open", "closing", "moving", "arriving"}

(***************************************************************************)
(* A task is suspended in a delivery after which it re-reads the state     *)
(* ("loop") or returns ("ending"), in a sleep ("travel", "openSleep",      *)
(* "arriveSleep", "doorSleep", "closeSleep"), or in the delivery of one    *)
(* rider's packets, with the riders in todo still to visit ("publish",     *)
(* "board").                                                               *)
(***************************************************************************)
TaskPC == {"dead", "loop", "ending", "travel", "publish", "openSleep",
           "arriveSleep", "board", "doorSleep", "closeSleep"}

Frame == [pc : TaskPC, todo : SUBSET Client, at : Heights, dest : Floors \cup {NoFloor}]

At(where)  == [pc |-> where, todo |-> {}, at |-> Ground, dest |-> NoFloor]
Dead       == At("dead")
Live       == {t \in TaskId : task[t].pc # "dead"}

Roster == {c \in Client : status[c] = "in"}
Riders == {c \in Client : inCar[c]}

Init ==
    /\ up = TRUE
    /\ exists = TRUE
    /\ state = "idle"
    /\ currentZ = Ground
    /\ targetZ = NoFloor
    /\ queuedZ = NoFloor
    /\ departOnCloseZ = NoFloor
    /\ doorOpen = FALSE
    /\ slot = NoTask
    /\ task = [t \in TaskId |-> Dead]
    /\ unattended = FALSE
    /\ status = [c \in Client |-> "out"]
    /\ inCar = [c \in Client |-> FALSE]
    /\ z = [c \in Client |-> Ground]
    /\ pc = [c \in Client |-> "ready"]
    /\ pick = [c \in Client |-> NoFloor]

-----------------------------------------------------------------------------
(* Connections.                                                            *)

\* A welcomed client enters the world on its saved floor, or on the ground
\* when that is no configured floor.
Join(c) ==
    /\ up /\ status[c] = "out"
    /\ \E f \in Floors : z' = [z EXCEPT ![c] = f]
    /\ status' = [status EXCEPT ![c] = "in"]
    /\ UNCHANGED <<car, tasks, inCar, pc, pick>>

\* A teleport item moves a client that is outside every elevator and whose
\* own handler is at rest (module Teleport).
TeleportArrives(c) ==
    /\ status[c] = "in" /\ pc[c] = "ready" /\ ~inCar[c]
    /\ \E f \in Floors : z' = [z EXCEPT ![c] = f]
    /\ UNCHANGED <<car, tasks, status, inCar, pc, pick>>

\* The message loop ended: the client is popped from the roster, then
\* prepare_client_disconnect awaits the teleport and piano clean-up.
BeginDisconnect(c) ==
    /\ status[c] = "in" /\ pc[c] = "ready"
    /\ status' = [status EXCEPT ![c] = "leaving"]
    /\ UNCHANGED <<car, tasks, inCar, z, pc, pick>>

\* restore_rider_to_landing.  A task's stale snapshot still holds the dead
\* connection, which is no rider any more and is skipped from here on.
FinishDisconnect(c) ==
    /\ status[c] = "leaving"
    /\ status' = [status EXCEPT ![c] = "out"]
    /\ inCar' = [inCar EXCEPT ![c] = FALSE]
    /\ z' = [z EXCEPT ![c] = IF inCar[c] /\ exists THEN currentZ ELSE @]
    /\ task' = [t \in TaskId |-> [task[t] EXCEPT !.todo = @ \ {c}]]
    /\ UNCHANGED <<car, slot, unattended, pc, pick>>

\* The process stops: no connection and no task survives.
ServerStops ==
    /\ Restarts
    /\ up /\ exists
    /\ up' = FALSE
    /\ slot' = NoTask
    /\ task' = [t \in TaskId |-> Dead]
    /\ unattended' = FALSE
    /\ status' = [c \in Client |-> "out"]
    /\ inCar' = [c \in Client |-> FALSE]
    /\ pc' = [c \in Client |-> "ready"]
    /\ pick' = [c \in Client |-> NoFloor]
    /\ UNCHANGED <<exists, state, currentZ, targetZ, queuedZ, departOnCloseZ, doorOpen, z>>

\* load_state: the item is idle and closed at a landing it had completed, not
\* always the last one (the state file may lag behind).
ServerStarts ==
    /\ ~up
    /\ up' = TRUE
    /\ \E f \in Floors : currentZ' = f
    /\ state' = "idle" /\ doorOpen' = FALSE
    /\ targetZ' = NoFloor /\ queuedZ' = NoFloor /\ departOnCloseZ' = NoFloor
    /\ UNCHANGED <<exists, tasks, clients>>

-----------------------------------------------------------------------------
(* The use handler.                                                        *)

\* _handle_use lets the packet through: the elevator is an item of the world
\* and is on the client's square of one of its floors, or around the client.
CanUse(c) ==
    /\ status[c] = "in" /\ pc[c] = "ready"
    /\ exists
    /\ inCar[c] \/ z[c] \in Floors

AtRest == state \in {"idle", "door_open"}

Exit(c) ==
    /\ CanUse(c)
    /\ inCar[c] /\ AtRest /\ doorOpen
    /\ inCar' = [inCar EXCEPT ![c] = FALSE]
    /\ UNCHANGED <<car, tasks, status, z, pc, pick>>

\* Fault: only the landing opens the door, a rider cannot.
BeginOpeningFromLanding(c) ==
    /\ CanUse(c) /\ ~inCar[c]
    /\ AtRest /\ ~doorOpen
    /\ z[c] = currentZ
    /\ state' = "opening"
    /\ pc' = [pc EXCEPT ![c] = "restart"]
    /\ UNCHANGED <<up, exists, currentZ, targetZ, queuedZ, departOnCloseZ, doorOpen, tasks,
                   status, inCar, z, pick>>

\* _begin_opening up to its deliveries; the task starts after them.
BeginOpening(c) ==
    /\ CanUse(c)
    /\ AtRest /\ ~doorOpen
    /\ inCar[c] \/ z[c] = currentZ
    /\ state' = "opening"
    /\ doorOpen' = FALSE
    /\ pc' = [pc EXCEPT ![c] = "restart"]
    /\ UNCHANGED <<up, exists, currentZ, targetZ, queuedZ, departOnCloseZ, tasks,
                   status, inCar, z, pick>>

\* A call that only fills the single queuedZ field.
QueueCall(c) ==
    /\ CanUse(c) /\ ~inCar[c]
    /\ \/ state \in {"moving", "arriving"}
       \/ state \in {"opening", "closing"} /\ z[c] # currentZ
    /\ queuedZ' = z[c]
    /\ UNCHANGED <<up, exists, state, currentZ, targetZ, departOnCloseZ, doorOpen,
                   tasks, clients>>

\* A call from the other landing sends a car at rest away at once.
Dispatch(c) ==
    /\ CanUse(c) /\ ~inCar[c]
    /\ AtRest /\ z[c] # currentZ
    /\ targetZ' = z[c]
    /\ state' = "moving"
    /\ doorOpen' = FALSE
    /\ pc' = [pc EXCEPT ![c] = "restart"]
    /\ UNCHANGED <<up, exists, currentZ, queuedZ, departOnCloseZ, tasks,
                   status, inCar, z, pick>>

\* Boarding: elevator_id first, the departure only after a delivery.
Enter(c) ==
    /\ CanUse(c) /\ ~inCar[c]
    /\ AtRest /\ doorOpen /\ z[c] = currentZ
    /\ inCar' = [inCar EXCEPT ![c] = TRUE]
    /\ pick' = [pick EXCEPT ![c] = Other(currentZ)]
    /\ pc' = [pc EXCEPT ![c] = "entering"]
    /\ UNCHANGED <<car, tasks, status, z>>

SelectDestination(c) ==
    /\ pc[c] = "entering"
    /\ departOnCloseZ' = pick[c]
    /\ pick' = [pick EXCEPT ![c] = NoFloor]
    /\ pc' = [pc EXCEPT ![c] = "restart"]
    /\ UNCHANGED <<up, exists, state, currentZ, targetZ, queuedZ, doorOpen, tasks,
                   status, inCar, z>>

\* Fault: the running task is not cancelled.
RestartWithoutCancel(c) ==
    /\ pc[c] = "restart"
    /\ \E t \in TaskId \ Live : slot' = t /\ task' = [task EXCEPT ![t] = At("loop")]
    /\ unattended' = FALSE
    /\ pc' = [pc EXCEPT ![c] = "ready"]
    /\ UNCHANGED <<car, status, inCar, z, pick>>

\* Fault: a task that has not returned yet is trusted to go on.
RestartUnlessRunning(c) ==
    /\ pc[c] = "restart"
    /\ \/ /\ slot = NoTask
          /\ \E t \in TaskId \ Live : slot' = t /\ task' = [task EXCEPT ![t] = At("loop")]
          /\ unattended' = FALSE
       \/ slot # NoTask /\ UNCHANGED tasks
    /\ pc' = [pc EXCEPT ![c] = "ready"]
    /\ UNCHANGED <<car, status, inCar, z, pick>>

\* _restart_task: the running task is cancelled where it is suspended and a
\* new one takes its entry.
Restart(c) ==
    /\ pc[c] = "restart"
    /\ \E t \in TaskId \ Live :
          /\ slot' = t
          /\ task' = [u \in TaskId |-> IF u = t THEN At("loop")
                                       ELSE IF u = slot THEN Dead ELSE task[u]]
    /\ unattended' = FALSE
    /\ pc' = [pc EXCEPT ![c] = "ready"]
    /\ UNCHANGED <<car, status, inCar, z, pick>>

\* _handle_delete: refused while the car moves or a rostered client rides.
\* The item goes first, then its task is cancelled.
Delete(c) ==
    /\ CanUse(c)
    /\ state # "moving"
    /\ Roster \cap Riders = {}
    /\ exists' = FALSE
    /\ slot' = NoTask
    /\ task' = [t \in TaskId |-> IF t = slot THEN Dead ELSE task[t]]
    /\ UNCHANGED <<up, state, currentZ, targetZ, queuedZ, departOnCloseZ, doorOpen,
                   unattended, clients>>

-----------------------------------------------------------------------------
(* run_cycle.                                                              *)

\* Fault: the whole snapshot is moved, whoever got out since.
VisitAll(t, todo, h, d, busy, done) ==
    IF todo = {}
    THEN /\ task' = [task EXCEPT ![t] = [pc |-> done, todo |-> {}, at |-> h, dest |-> d]]
         /\ UNCHANGED z
    ELSE \E r \in todo :
            /\ z' = [z EXCEPT ![r] = h]
            /\ task' = [task EXCEPT ![t] =
                          [pc |-> busy, todo |-> todo \ {r}, at |-> h, dest |-> d]]

\* The loops over a snapshot of the roster in _broadcast_travel_position and
\* _move_occupants.  A client that is no rider when its turn comes is skipped;
\* a rider is moved to height h and its packets are awaited.  The roster's
\* order is left open: any rider may be next, after any of the others.
Visit(t, todo, h, d, busy, done) ==
    \/ /\ todo \cap Riders = {}
       /\ task' = [task EXCEPT ![t] = [pc |-> done, todo |-> {}, at |-> h, dest |-> d]]
       /\ UNCHANGED z
    \/ \E r \in todo \cap Riders, skipped \in SUBSET (todo \ Riders) :
          /\ z' = [z EXCEPT ![r] = h]
          /\ task' = [task EXCEPT ![t] =
                        [pc |-> busy, todo |-> todo \ (skipped \cup {r}),
                         at |-> h, dest |-> d]]

\* The task returns and clears its entry if it is still its own.
End(t) ==
    /\ \/ task[t].pc = "ending"
       \/ task[t].pc = "loop" /\ (~exists \/ state = "idle")
    /\ task' = [task EXCEPT ![t] = Dead]
    /\ slot' = IF slot = t THEN NoTask ELSE slot
    /\ UNCHANGED <<car, unattended, clients>>

\* Travel starts one step off the origin when there is a height in between.
BeginTravel(t) ==
    /\ task[t].pc = "loop" /\ exists /\ state = "moving"
    /\ IF Upper - Ground > 1
       THEN Visit(t, Roster, IF targetZ > currentZ THEN currentZ + 1 ELSE currentZ - 1,
                  targetZ, "publish", "travel")
       ELSE /\ task' = [task EXCEPT ![t] =
                          [pc |-> "travel", todo |-> {}, at |-> currentZ, dest |-> targetZ]]
            /\ UNCHANGED z
    /\ UNCHANGED <<car, slot, unattended, status, inCar, pc, pick>>

\* A later travel update, on a height not yet announced.
Travel(t) ==
    /\ task[t].pc = "travel"
    /\ \E h \in Heights :
          /\ \/ task[t].at < h /\ h < task[t].dest
             \/ task[t].dest < h /\ h < task[t].at
          /\ Visit(t, Roster, h, task[t].dest, "publish", "travel")
    /\ UNCHANGED <<car, slot, unattended, status, inCar, pc, pick>>

Publish(t) ==
    /\ task[t].pc = "publish"
    /\ Visit(t, task[t].todo, task[t].at, task[t].dest, "publish", "travel")
    /\ UNCHANGED <<car, slot, unattended, status, inCar, pc, pick>>

\* Fault: a call queued on the way is taken for the landing reached.
ArriveWhereQueued(t) ==
    /\ task[t].pc = "travel"
    /\ currentZ' = IF queuedZ # NoFloor THEN queuedZ ELSE task[t].dest
    /\ targetZ' = NoFloor
    /\ state' = "arriving"
    /\ doorOpen' = FALSE
    /\ task' = [task EXCEPT ![t] = At("loop")]
    /\ UNCHANGED <<up, exists, queuedZ, departOnCloseZ, slot, unattended, clients>>

Arrive(t) ==
    /\ task[t].pc = "travel"
    /\ currentZ' = task[t].dest
    /\ targetZ' = NoFloor
    /\ state' = "arriving"
    /\ doorOpen' = FALSE
    /\ task' = [task EXCEPT ![t] = At("loop")]
    /\ UNCHANGED <<up, exists, queuedZ, departOnCloseZ, slot, unattended,
                   clients>>

\* The door sound and the door dwell are sleeps entered from the loop.
Sleep(t) ==
    /\ task[t].pc = "loop" /\ exists
    /\ \/ state = "opening"   /\ task' = [task EXCEPT ![t] = At("openSleep")]
       \/ state = "arriving"  /\ task' = [task EXCEPT ![t] = At("arriveSleep")]
       \/ state = "door_open" /\ task' = [task EXCEPT ![t] = At("doorSleep")]
       \/ state = "closing"   /\ task' = [task EXCEPT ![t] = At("closeSleep")]
    /\ UNCHANGED <<car, slot, unattended, clients>>

\* _move_occupants stores each rider's new place at once.  A save that raises
\* is caught nowhere: the rider has been moved, the task ends with the door
\* open and clears its entry, and no timer will shut the door.
SaveFails(t, todo, h) ==
    /\ \E r \in todo \cap Riders : z' = [z EXCEPT ![r] = h]
    /\ task' = [task EXCEPT ![t] = Dead]
    /\ slot' = IF slot = t THEN NoTask ELSE slot
    /\ unattended' = TRUE

\* One more rider is moved onto the landing, or all have been.
MoveOccupant(t, todo, h) ==
    \/ Visit(t, todo, h, NoFloor, "board", "loop") /\ UNCHANGED <<slot, unattended>>
    \/ SaveFails(t, todo, h)

\* The door is open; after a trip the riders are moved onto the landing, one
\* delivery each.
DoorOpens(t) ==
    /\ \/ /\ task[t].pc = "openSleep"
          /\ task' = [task EXCEPT ![t] = At("loop")]
          /\ UNCHANGED <<z, slot, unattended>>
       \/ /\ task[t].pc = "arriveSleep"
          /\ MoveOccupant(t, Roster, currentZ)
    /\ state' = "door_open"
    /\ doorOpen' = TRUE
    /\ UNCHANGED <<up, exists, currentZ, targetZ, queuedZ, departOnCloseZ,
                   status, inCar, pc, pick>>

Board(t) ==
    /\ task[t].pc = "board"
    /\ MoveOccupant(t, task[t].todo, task[t].at)
    /\ UNCHANGED <<car, status, inCar, pc, pick>>

DoorCloses(t) ==
    /\ task[t].pc = "doorSleep"
    /\ state' = "closing"
    /\ doorOpen' = FALSE
    /\ task' = [task EXCEPT ![t] = At("loop")]
    /\ UNCHANGED <<up, exists, currentZ, targetZ, queuedZ, departOnCloseZ, slot, unattended,
                   clients>>

\* _next_destination: a boarded rider's choice before a queued call.
NextDestination ==
    IF departOnCloseZ \notin {NoFloor, currentZ} THEN departOnCloseZ
    ELSE IF queuedZ \notin {NoFloor, currentZ} THEN queuedZ
    ELSE NoFloor

\* Both requests are forgotten, the one that was not chosen too.
Depart(t) ==
    /\ task[t].pc = "closeSleep"
    /\ state' = IF NextDestination = NoFloor THEN "idle" ELSE "moving"
    /\ targetZ' = NextDestination
    /\ departOnCloseZ' = NoFloor
    /\ queuedZ' = NoFloor
    /\ task' = [task EXCEPT ![t] = At(IF NextDestination = NoFloor THEN "ending" ELSE "loop")]
    /\ UNCHANGED <<up, exists, currentZ, doorOpen, slot, unattended, clients>>

-----------------------------------------------------------------------------

Step(t) ==
    \/ End(t) \/ BeginTravel(t) \/ Travel(t) \/ Publish(t) \/ Arrive(t)
    \/ Sleep(t) \/ DoorOpens(t) \/ Board(t) \/ DoorCloses(t) \/ Depart(t)

Resume(c) == SelectDestination(c) \/ Restart(c) \/ FinishDisconnect(c)

Use(c) == Exit(c) \/ BeginOpening(c) \/ QueueCall(c) \/ Dispatch(c) \/ Enter(c)

Next ==
    \/ \E t \in TaskId : Step(t)
    \/ \E c \in Client : \/ Resume(c) \/ Use(c) \/ Delete(c) \/ Join(c)
                         \/ TeleportArrives(c) \/ BeginDisconnect(c)
    \/ ServerStops \/ ServerStarts

Spec == Init /\ [][Next]_vars

\* The event loop wakes every task and every handler whose sleep or delivery
\* is over: both end (sleeps are bounded by 300 s, sends by the keep-alive of
\* the socket).  Nothing is assumed of the users.
Fairness ==
    /\ \A t \in TaskId : WF_vars(Step(t))
    /\ \A c \in Client : WF_vars(Resume(c))

FairSpec == Spec /\ Fairness
-----------------------------------------------------------------------------
(* Properties.                                                             *)

\* Every variable stays within the values the code gives it.
TypeOK ==
    /\ up \in BOOLEAN
    /\ exists \in BOOLEAN
    /\ state \in States
    /\ currentZ \in Floors
    /\ targetZ \in Floors \cup {NoFloor}
    /\ queuedZ \in Floors \cup {NoFloor}
    /\ departOnCloseZ \in Floors \cup {NoFloor}
    /\ doorOpen \in BOOLEAN
    /\ slot \in TaskId \cup {NoTask}
    /\ task \in [TaskId -> Frame]
    /\ unattended \in BOOLEAN
    /\ status \in [Client -> {"out", "in", "leaving"}]
    /\ inCar \in [Client -> BOOLEAN]
    /\ z \in [Client -> Heights]
    /\ pc \in [Client -> {"ready", "entering", "restart"}]
    /\ pick \in [Client -> Floors \cup {NoFloor}]

\* One driver: two run_cycle tasks never advance the same car.  The state
\* machine re-reads and overwrites the shared params after every await, and
\* only the cancel in _restart_task keeps a second timer out of it.
OneDriver == \A t \in TaskId : task[t].pc # "dead" => t = slot

\* A car in any state but idle is being driven: a live task will run its next
\* transition, or a handler that has set the state is about to start one.
\* Nothing else would ever move it on: timers are not recovered.  The one
\* exception is a door opened by an arrival that a failed save then ended: it
\* stands open, with no task at all, until somebody uses the car.
Driven ==
    /\ up /\ exists /\ state # "idle" =>
          \/ slot # NoTask /\ task[slot].pc \notin {"ending", "dead"}
          \/ \E c \in Client : pc[c] = "restart"
          \/ unattended /\ state = "door_open"
    /\ unattended => slot = NoTask

\* A moving car has somewhere else to go, and the task under way goes there.
\* run_cycle evaluates int(targetZ) with no guard: a moving car without a
\* target would kill its task.
MovingHasTarget ==
    /\ state = "moving" => targetZ \in Floors \ {currentZ}
    /\ \A t \in TaskId : task[t].pc \in {"travel", "publish"} =>
          state = "moving" /\ task[t].dest = targetZ

\* The flag the traversal guards read is never out of step with the state.
DoorMatchesState == doorOpen <=> state = "door_open"

\* A door timer only ever wakes in the state it went to sleep in: no handler
\* overwrites a door in transition.  The dwell is no such timer, a call may
\* send the car away under it.
SleepMatchesState ==
    \A t \in TaskId : /\ task[t].pc = "openSleep"   => state = "opening"
                      /\ task[t].pc = "arriveSleep" => state = "arriving"
                      /\ task[t].pc = "closeSleep"  => state = "closing"

\* The car, its timers and its tasks belong together, at every await: what
\* _restart_task, run_cycle and the handlers rely on when they read them.
CarConsistent ==
    TypeOK /\ OneDriver /\ Driven /\ MovingHasTarget /\ DoorMatchesState /\ SleepMatchesState

\* No dwell timer of an older rest can overwrite the state any more.
NoOldDwell == \A t \in TaskId : task[t].pc # "doorSleep"

\* The car as a landing sees it (module Lift).
LiftOfElevator ==
    INSTANCE Lift WITH floor <- currentZ,
                       open <- up /\ doorOpen,
                       dest <- IF up /\ state = "moving" THEN targetZ ELSE NoFloor,
                       sure <- up /\ state = "moving" /\ NoOldDwell

\* The state machine with all its tasks, awaits and handlers is such a lift:
\* while the server runs it changes floors only by arriving where it was sent
\* last, never with an open door; it never opens while it is sent anywhere,
\* and a call is lost only to a dwell timer that was still running when the
\* car was sent, never once the car is on its way.
IsALift == LiftOfElevator!Spec

\* The task works through a roster taken before its deliveries: a client that
\* got out meanwhile is never carried to the car's height.
CarMovesOnlyRiders ==
    [][\A c \in Client :
          status[c] = "in" /\ status'[c] = "in" /\ ~inCar[c] /\ z'[c] # z[c]
             => UNCHANGED task]_vars

\* A car that left its rest comes to rest again, whoever calls, boards or
\* leaves meanwhile and whatever save fails, as long as the server runs.
CarSettles == (up /\ exists /\ state # "idle") ~> (~up \/ ~exists \/ AtRest)

\* A rider keeps asking while the door is shut (docs/item-types.md: one use
\* starts reopening it).
RidersAsk == \A c \in Client : WF_vars(inCar[c] /\ BeginOpening(c))

\* No rider is locked in: whoever else calls the car away or boards it, an
\* asking rider is at an open door again and again until it gets out.
RidersSeeTheDoor == RidersAsk => \A c \in Client : inCar[c] ~> (~inCar[c] \/ doorOpen)

-----------------------------------------------------------------------------
(* What the documentation says and the code does not do.                   *)

\* docs/runtime-flow.md: when opening finishes the riders are moved onto the
\* destination floor; nobody outside a car is between the floors.
OutsideOnFloors ==
    \A c \in Client : status[c] = "in" /\ ~inCar[c] => z[c] \in Floors

\* docs/item-types.md: the fully open door closes after doorOpenSeconds.  So
\* somebody must be timing an open door, or be about to.
OpenDoorIsTimed ==
    up /\ exists /\ doorOpen => slot # NoTask \/ \E c \in Client : pc[c] = "restart"
=============================================================================
