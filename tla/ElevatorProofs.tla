--------------------------- MODULE ElevatorProofs ---------------------------
(***************************************************************************)
(* Elevator's type correctness, its safety invariants and its refinement   *)
(* of Lift, for any number of connections and tasks and any two floors.    *)
(***************************************************************************)
EXTENDS Elevator, TLAPS

\* Nothing of the server is left running while its process is down.
DownIsQuiet ==
    ~up => /\ slot = NoTask
           /\ \A t \in TaskId : task[t].pc = "dead"
           /\ \A c \in Client : status[c] = "out" /\ pc[c] = "ready"

\* A task that is still moving the occupants does so at the open door, or a
\* handler that sent the car away is about to end it.
BoardsAtTheDoor ==
    \A t \in TaskId : task[t].pc = "board" =>
        state = "door_open" \/ \E c \in Client : pc[c] = "restart"

IInv == TypeOK /\ OneDriver /\ Driven /\ MovingHasTarget /\ DoorMatchesState
               /\ SleepMatchesState /\ DownIsQuiet /\ BoardsAtTheDoor

-----------------------------------------------------------------------------
(* Data.                                                                   *)

\* Landings are heights, and the two floors are different from NoFloor.
LEMMA FloorFacts ==
    /\ Floors \subseteq Heights
    /\ Heights \subseteq Int
    /\ NoFloor \notin Floors
    /\ \A f \in Floors : Other(f) \in Floors /\ Other(f) # f
BY FloorsAssumption DEF Floors, Heights, NoFloor, Other

\* A rested frame is a frame.
LEMMA AtType ==
    ASSUME NEW where \in TaskPC
    PROVE  At(where) \in Frame /\ At(where).pc = where
BY FloorFacts, FloorsAssumption DEF At, Frame, Floors, Heights, NoFloor

\* What visiting the riders of a snapshot changes: only the visiting task,
\* which ends up waiting for a rider's packets or done, and only the heights
\* of clients that ride.
LEMMA VisitEffect ==
    ASSUME TypeOK,
           NEW t \in TaskId, NEW todo \in SUBSET Client, NEW h \in Heights,
           NEW d \in Floors \cup {NoFloor}, NEW busy \in TaskPC, NEW done \in TaskPC,
           Visit(t, todo, h, d, busy, done)
    PROVE  /\ z' \in [Client -> Heights]
           /\ task' \in [TaskId -> Frame]
           /\ \A u \in TaskId : u # t => task'[u] = task[u]
           /\ task'[t].pc \in {busy, done}
           /\ task'[t].dest = d
           /\ \A c \in Client : ~inCar[c] => z'[c] = z[c]
<1>1. CASE /\ todo \cap Riders = {}
           /\ task' = [task EXCEPT ![t] = [pc |-> done, todo |-> {}, at |-> h, dest |-> d]]
           /\ UNCHANGED z
  BY <1>1 DEF TypeOK, Frame
<1>2. ASSUME NEW r \in todo \cap Riders, NEW skipped \in SUBSET (todo \ Riders),
             z' = [z EXCEPT ![r] = h],
             task' = [task EXCEPT ![t] =
                        [pc |-> busy, todo |-> todo \ (skipped \cup {r}),
                         at |-> h, dest |-> d]]
      PROVE  /\ z' \in [Client -> Heights]
             /\ task' \in [TaskId -> Frame]
             /\ \A u \in TaskId : u # t => task'[u] = task[u]
             /\ task'[t].pc \in {busy, done}
             /\ task'[t].dest = d
             /\ \A c \in Client : ~inCar[c] => z'[c] = z[c]
  BY <1>2 DEF TypeOK, Frame, Riders
<1>3. QED
  BY <1>1, <1>2 DEF Visit

\* What moving the next occupant changes besides: the task is suspended in its
\* packets, or back in the loop, or a failed save has ended it.
LEMMA MoveEffect ==
    ASSUME TypeOK, NEW t \in TaskId, NEW todo \in SUBSET Client, NEW h \in Heights,
           MoveOccupant(t, todo, h)
    PROVE  /\ z' \in [Client -> Heights]
           /\ task' \in [TaskId -> Frame]
           /\ slot' \in TaskId \cup {NoTask} /\ unattended' \in BOOLEAN
           /\ \A u \in TaskId : u # t => task'[u] = task[u]
           /\ \A c \in Client : ~inCar[c] => z'[c] = z[c]
           /\ \/ task'[t].pc \in {"board", "loop"} /\ UNCHANGED <<slot, unattended>>
              \/ /\ task'[t].pc = "dead" /\ unattended' = TRUE
                 /\ slot' = IF slot = t THEN NoTask ELSE slot
<1>1. CASE SaveFails(t, todo, h)
  <2>1. Dead \in Frame /\ Dead.pc = "dead"
    BY AtType DEF Dead, TaskPC
  <2>2. PICK r \in todo \cap Riders : z' = [z EXCEPT ![r] = h]
    BY <1>1 DEF SaveFails
  <2>3. z' \in [Client -> Heights] /\ \A c \in Client : ~inCar[c] => z'[c] = z[c]
    BY <2>2 DEF TypeOK, Riders
  <2>4. /\ task' \in [TaskId -> Frame] /\ task'[t].pc = "dead"
        /\ \A u \in TaskId : u # t => task'[u] = task[u]
    BY <1>1, <2>1 DEF SaveFails, TypeOK
  <2>5. QED
    BY <1>1, <2>3, <2>4 DEF SaveFails, TypeOK
<1>2. CASE /\ Visit(t, todo, h, NoFloor, "board", "loop")
           /\ UNCHANGED <<slot, unattended>>
  <2>1. /\ z' \in [Client -> Heights]
        /\ task' \in [TaskId -> Frame]
        /\ \A u \in TaskId : u # t => task'[u] = task[u]
        /\ task'[t].pc \in {"board", "loop"}
        /\ \A c \in Client : ~inCar[c] => z'[c] = z[c]
    BY <1>2, VisitEffect DEF TaskPC
  <2>2. QED
    BY <1>2, <2>1 DEF TypeOK
<1>3. QED
  BY <1>1, <1>2 DEF MoveOccupant

-----------------------------------------------------------------------------
(* Type correctness.                                                       *)

LEMMA TypeInit == Init => TypeOK
BY FloorFacts, AtType, TaskAssumption
DEF Init, TypeOK, Dead, States, TaskPC, Floors

\* Every step of a task keeps the types.
LEMMA TypeStep ==
    ASSUME TypeOK, MovingHasTarget, NEW t \in TaskId, Step(t)
    PROVE  TypeOK'
<1> USE FloorFacts
<1>a. \A p \in TaskPC : At(p) \in Frame
  BY AtType
<1>b. /\ task[t].at \in Heights /\ task[t].todo \in SUBSET Client
      /\ task[t].dest \in Floors \cup {NoFloor}
      /\ Roster \in SUBSET Client
  BY DEF TypeOK, Frame, Roster
<1>1. CASE End(t)
  BY <1>1, <1>a DEF TypeOK, End, Dead, car, clients, TaskPC
<1>2. CASE BeginTravel(t)
  <2>1. targetZ \in Floors \ {currentZ} /\ currentZ \in Floors
    BY <1>2 DEF BeginTravel, MovingHasTarget, TypeOK
  <2>2. CASE Upper - Ground > 1
    <3> DEFINE h == IF targetZ > currentZ THEN currentZ + 1 ELSE currentZ - 1
    <3>1. h \in Heights
      BY <2>1, <2>2, FloorsAssumption DEF Floors, Heights
    <3>2. Visit(t, Roster, h, targetZ, "publish", "travel")
      BY <1>2, <2>2 DEF BeginTravel
    <3> HIDE DEF h
    <3>3. z' \in [Client -> Heights] /\ task' \in [TaskId -> Frame]
      BY <1>b, <2>1, <3>1, <3>2, VisitEffect DEF TaskPC
    <3>4. QED
      BY <1>2, <3>3 DEF BeginTravel, TypeOK, car
  <2>3. CASE ~(Upper - Ground > 1)
    BY <1>2, <2>1, <2>3 DEF BeginTravel, TypeOK, Frame, TaskPC, car
  <2>4. QED
    BY <2>2, <2>3
<1>3. CASE Travel(t)
  <2>1. PICK h \in Heights : Visit(t, Roster, h, task[t].dest, "publish", "travel")
    BY <1>3 DEF Travel
  <2>2. z' \in [Client -> Heights] /\ task' \in [TaskId -> Frame]
    BY <1>b, <2>1, VisitEffect DEF TaskPC
  <2>3. QED
    BY <1>3, <2>2 DEF Travel, TypeOK, car
<1>4. CASE Publish(t)
  <2>1. z' \in [Client -> Heights] /\ task' \in [TaskId -> Frame]
    BY <1>b, <1>4, VisitEffect DEF TaskPC, Publish
  <2>2. QED
    BY <1>4, <2>1 DEF Publish, TypeOK, car
<1>5. CASE Arrive(t)
  <2>1. task[t].dest \in Floors
    BY <1>5 DEF Arrive, MovingHasTarget
  <2>2. QED
    BY <1>a, <1>5, <2>1 DEF Arrive, TypeOK, States, TaskPC, clients
<1>6. CASE Sleep(t)
  BY <1>a, <1>6 DEF Sleep, TypeOK, TaskPC, car, clients
<1>7. CASE DoorOpens(t)
  <2>1. CASE task[t].pc = "openSleep"
    BY <1>a, <1>7, <2>1 DEF DoorOpens, TypeOK, States, TaskPC
  <2>2. CASE task[t].pc = "arriveSleep"
    <3>1. MoveOccupant(t, Roster, currentZ)
      BY <1>7, <2>2 DEF DoorOpens
    <3>2. /\ z' \in [Client -> Heights] /\ task' \in [TaskId -> Frame]
          /\ slot' \in TaskId \cup {NoTask} /\ unattended' \in BOOLEAN
      BY <1>b, <3>1, MoveEffect DEF TypeOK
    <3>3. QED
      BY <1>7, <3>2 DEF DoorOpens, TypeOK, States
  <2>3. QED
    BY <1>7, <2>1, <2>2 DEF DoorOpens
<1>8. CASE Board(t)
  <2>1. /\ z' \in [Client -> Heights] /\ task' \in [TaskId -> Frame]
        /\ slot' \in TaskId \cup {NoTask} /\ unattended' \in BOOLEAN
    BY <1>b, <1>8, MoveEffect DEF Board
  <2>2. QED
    BY <1>8, <2>1 DEF Board, TypeOK, car
<1>9. CASE DoorCloses(t)
  BY <1>a, <1>9 DEF DoorCloses, TypeOK, States, TaskPC, clients
<1>10. CASE Depart(t)
  BY <1>a, <1>10 DEF Depart, NextDestination, TypeOK, States, TaskPC, clients
<1>11. QED
  BY <1>1, <1>2, <1>3, <1>4, <1>5, <1>6, <1>7, <1>8, <1>9, <1>10 DEF Step

\* Every step of a handler or of a connection keeps the types.
LEMMA TypeClient ==
    ASSUME TypeOK, NEW c \in Client,
           \/ Resume(c) \/ Use(c) \/ Delete(c) \/ Join(c)
           \/ TeleportArrives(c) \/ BeginDisconnect(c)
    PROVE  TypeOK'
<1> USE FloorFacts
<1>a. \A p \in TaskPC : At(p) \in Frame
  BY AtType
<1>1. CASE SelectDestination(c)
  BY <1>1 DEF SelectDestination, TypeOK, tasks
<1>2. CASE Restart(c)
  <2>1. At("loop") \in Frame /\ Dead \in Frame
    BY <1>a DEF Dead, TaskPC
  <2>2. QED
    BY <1>2, <2>1 DEF Restart, TypeOK, car
<1>3. CASE FinishDisconnect(c)
  <2>1. task' \in [TaskId -> Frame]
    BY <1>3 DEF FinishDisconnect, TypeOK, Frame
  <2>2. z' \in [Client -> Heights]
    BY <1>3 DEF FinishDisconnect, TypeOK
  <2>3. QED
    BY <1>3, <2>1, <2>2 DEF FinishDisconnect, TypeOK, car
<1>4. CASE Exit(c)
  BY <1>4 DEF Exit, TypeOK, car, tasks
<1>5. CASE BeginOpening(c)
  BY <1>5 DEF BeginOpening, TypeOK, States, tasks
<1>6. CASE QueueCall(c)
  BY <1>6 DEF QueueCall, CanUse, TypeOK, tasks, clients
<1>7. CASE Dispatch(c)
  BY <1>7 DEF Dispatch, CanUse, TypeOK, States, tasks
<1>8. CASE Enter(c)
  BY <1>8 DEF Enter, TypeOK, car, tasks
<1>9. CASE Delete(c)
  BY <1>a, <1>9 DEF Delete, TypeOK, Dead, TaskPC, clients
<1>10. CASE Join(c)
  BY <1>10 DEF Join, TypeOK, car, tasks
<1>11. CASE TeleportArrives(c)
  BY <1>11 DEF TeleportArrives, TypeOK, car, tasks
<1>12. CASE BeginDisconnect(c)
  BY <1>12 DEF BeginDisconnect, TypeOK, car, tasks
<1>13. QED
  BY <1>1, <1>2, <1>3, <1>4, <1>5, <1>6, <1>7, <1>8, <1>9, <1>10, <1>11, <1>12
  DEF Resume, Use

LEMMA TypeServer == TypeOK /\ (ServerStops \/ ServerStarts) => TypeOK'
<1> SUFFICES ASSUME TypeOK, ServerStops \/ ServerStarts PROVE TypeOK'
  OBVIOUS
<1>1. Dead \in Frame
  BY AtType DEF Dead, TaskPC
<1>2. CASE ServerStops
  <2>1. /\ task' \in [TaskId -> Frame]
        /\ status' \in [Client -> {"out", "in", "leaving"}]
        /\ inCar' \in [Client -> BOOLEAN]
        /\ pc' \in [Client -> {"ready", "entering", "restart"}]
        /\ pick' \in [Client -> Floors \cup {NoFloor}]
    BY <1>1, <1>2 DEF ServerStops
  <2>2. QED
    BY <1>2, <2>1 DEF TypeOK, ServerStops
<1>3. CASE ServerStarts
  BY <1>3 DEF TypeOK, ServerStarts, States, tasks, clients
<1>4. QED
  BY <1>2, <1>3

LEMMA TypeNext == IInv /\ [Next]_vars => TypeOK'
<1>1. TypeOK /\ UNCHANGED vars => TypeOK'
  BY DEF TypeOK, vars, car, tasks, clients
<1>2. QED
  BY <1>1, TypeStep, TypeClient, TypeServer DEF Next, IInv

-----------------------------------------------------------------------------
(* The safety invariant.  TypeNext gives the types of the next state, which  *)
(* the lemmas below take as an assumption.                                 *)

Safe == OneDriver /\ Driven /\ MovingHasTarget /\ DoorMatchesState /\ SleepMatchesState
               /\ DownIsQuiet /\ BoardsAtTheDoor

\* A step of the driving task that leaves the car alone keeps the invariant
\* when the task stays in the same phase of the cycle.
LEMMA SameCar ==
    ASSUME IInv, TypeOK', NEW t \in TaskId, t = slot,
           up, UNCHANGED <<car, slot, unattended, pc>>,
           \A u \in TaskId : u # t => task'[u] = task[u],
           task'[t].pc \in TaskPC \ {"dead", "ending"},
           task'[t].pc \in {"travel", "publish"} => state = "moving" /\ task'[t].dest = targetZ,
           task'[t].pc = "openSleep"   => state = "opening",
           task'[t].pc = "arriveSleep" => state = "arriving",
           task'[t].pc = "closeSleep"  => state = "closing",
           task'[t].pc # "board" \/ task[t].pc = "board"
    PROVE  Safe'
<1> USE DEF IInv
<1>1. OneDriver'
  BY DEF OneDriver
<1>2. Driven'
  BY TaskAssumption DEF Driven, car
<1>3. MovingHasTarget'
  BY DEF MovingHasTarget, car
<1>4. DoorMatchesState'
  BY DEF DoorMatchesState, car
<1>5. SleepMatchesState'
  BY DEF SleepMatchesState, car
<1>6. BoardsAtTheDoor'
  BY DEF BoardsAtTheDoor, car
<1>7. QED
  BY <1>1, <1>2, <1>3, <1>4, <1>5, <1>6 DEF Safe, DownIsQuiet, car

\* A step of the driving task that moves the car on and returns to the loop,
\* or to a delivery from which it returns to the loop.
LEMMA NextPhase ==
    ASSUME IInv, TypeOK', NEW t \in TaskId, t = slot,
           up, UNCHANGED <<up, slot, unattended>>,
           \A u \in TaskId : u # t => task'[u] = task[u],
           task'[t].pc \in {"loop", "board"},
           task'[t].pc = "board" => state' = "door_open",
           state' = "moving" => targetZ' \in Floors \ {currentZ'},
           doorOpen' <=> state' = "door_open"
    PROVE  Safe'
<1> USE DEF IInv
<1>a. \A u \in TaskId : u # t => task'[u].pc = "dead"
  BY DEF OneDriver
<1>1. OneDriver'
  BY DEF OneDriver
<1>2. Driven'
  BY TaskAssumption DEF Driven
<1>3. MovingHasTarget'
  BY <1>a DEF MovingHasTarget
<1>4. SleepMatchesState'
  BY <1>a DEF SleepMatchesState
<1>5. QED
  BY <1>a, <1>1, <1>2, <1>3, <1>4 DEF Safe, DoorMatchesState, DownIsQuiet, BoardsAtTheDoor

\* A failed save ends the driving task and leaves the door open.
LEMMA LeftOpen ==
    ASSUME IInv, NEW t \in TaskId, t = slot, up, UNCHANGED up,
           \A u \in TaskId : u # t => task'[u] = task[u],
           task'[t].pc = "dead", slot' = NoTask, unattended' = TRUE,
           state' = "door_open" \/ \E c \in Client : pc'[c] = "restart",
           state' = "moving" => targetZ' \in Floors \ {currentZ'},
           DoorMatchesState'
    PROVE  Safe'
<1>1. \A u \in TaskId : task'[u].pc = "dead"
  BY DEF IInv, OneDriver
<1>2. QED
  BY <1>1 DEF Safe, OneDriver, Driven, MovingHasTarget, SleepMatchesState, DownIsQuiet,
              BoardsAtTheDoor

LEMMA SafeStep ==
    ASSUME IInv, TypeOK', NEW t \in TaskId, Step(t)
    PROVE  Safe'
<1> USE DEF IInv
<1> USE FloorFacts
<1>a. task[t].pc # "dead"
  BY DEF Step, End, BeginTravel, Travel, Publish, Arrive, Sleep, DoorOpens, Board,
         DoorCloses, Depart
<1>b. /\ t = slot /\ \A u \in TaskId : u # t => task[u].pc = "dead"
      /\ up /\ ~unattended
  BY <1>a, TaskAssumption DEF OneDriver, DownIsQuiet, Driven
<1>c. \A p \in TaskPC : At(p).pc = p
  BY AtType
<1>d. /\ Roster \in SUBSET Client /\ currentZ \in Heights
      /\ task[t].at \in Heights /\ task[t].todo \in SUBSET Client
      /\ task[t].dest \in Floors \cup {NoFloor}
  BY DEF TypeOK, Frame, Roster
<1>1. CASE End(t)
  <2>1. \A u \in TaskId : task'[u].pc = "dead"
    BY <1>1, <1>b, <1>c DEF End, Dead, TypeOK, TaskPC
  <2>2. Driven'
    BY <1>1, <1>b, <2>1, TaskAssumption DEF End, Driven, car, clients
  <2>3. /\ OneDriver' /\ MovingHasTarget' /\ DoorMatchesState' /\ SleepMatchesState'
        /\ DownIsQuiet' /\ BoardsAtTheDoor'
    BY <1>1, <1>b, <2>1
    DEF End, OneDriver, MovingHasTarget, DoorMatchesState, SleepMatchesState, DownIsQuiet,
        BoardsAtTheDoor,
        car, clients
  <2>4. QED
    BY <2>2, <2>3 DEF Safe
<1>2. CASE BeginTravel(t)
  <2>1. targetZ \in Floors \ {currentZ} /\ currentZ \in Floors
    BY <1>2 DEF BeginTravel, MovingHasTarget, TypeOK
  <2>2. /\ \A u \in TaskId : u # t => task'[u] = task[u]
        /\ task'[t].pc \in {"publish", "travel"} /\ task'[t].dest = targetZ
    <3>1. CASE Upper - Ground > 1
      <4> DEFINE h == IF targetZ > currentZ THEN currentZ + 1 ELSE currentZ - 1
      <4>1. h \in Heights
        BY <2>1, <3>1, FloorsAssumption DEF Floors, Heights
      <4>2. Visit(t, Roster, h, targetZ, "publish", "travel")
        BY <1>2, <3>1 DEF BeginTravel
      <4> HIDE DEF h
      <4>3. QED
        BY <1>d, <2>1, <4>1, <4>2, VisitEffect DEF TaskPC
    <3>2. CASE ~(Upper - Ground > 1)
      BY <1>2, <3>2 DEF BeginTravel, TypeOK
    <3>3. QED
      BY <3>1, <3>2
  <2>3. QED
    BY <1>2, <1>b, <2>2, SameCar DEF BeginTravel, TaskPC
<1>3. CASE Travel(t)
  <2>1. PICK h \in Heights : Visit(t, Roster, h, task[t].dest, "publish", "travel")
    BY <1>3 DEF Travel
  <2>2. /\ \A u \in TaskId : u # t => task'[u] = task[u]
        /\ task'[t].pc \in {"publish", "travel"} /\ task'[t].dest = task[t].dest
    BY <1>d, <2>1, VisitEffect DEF TaskPC
  <2>3. state = "moving" /\ task[t].dest = targetZ
    BY <1>3 DEF Travel, MovingHasTarget
  <2>4. QED
    BY <1>3, <1>b, <2>2, <2>3, SameCar DEF Travel, TaskPC
<1>4. CASE Publish(t)
  <2>1. /\ \A u \in TaskId : u # t => task'[u] = task[u]
        /\ task'[t].pc \in {"publish", "travel"} /\ task'[t].dest = task[t].dest
    BY <1>d, <1>4, VisitEffect DEF TaskPC, Publish
  <2>2. state = "moving" /\ task[t].dest = targetZ
    BY <1>4 DEF Publish, MovingHasTarget
  <2>3. QED
    BY <1>4, <1>b, <2>1, <2>2, SameCar DEF Publish, TaskPC
<1>5. CASE Arrive(t)
  <2>1. task'[t].pc = "loop" /\ \A u \in TaskId : u # t => task'[u] = task[u]
    BY <1>5, <1>c DEF Arrive, TypeOK, TaskPC
  <2>2. UNCHANGED <<up, slot, unattended>> /\ state' = "arriving" /\ doorOpen' = FALSE
    BY <1>5 DEF Arrive
  <2>3. QED
    BY <1>b, <2>1, <2>2, NextPhase
<1>6. CASE Sleep(t)
  <2>1. PICK p \in {"openSleep", "arriveSleep", "doorSleep", "closeSleep"} :
           /\ task' = [task EXCEPT ![t] = At(p)]
           /\ p = "openSleep" => state = "opening"
           /\ p = "arriveSleep" => state = "arriving"
           /\ p = "closeSleep" => state = "closing"
    BY <1>6 DEF Sleep
  <2>2. task'[t].pc = p /\ \A u \in TaskId : u # t => task'[u] = task[u]
    BY <1>c, <2>1 DEF TypeOK, TaskPC
  <2>3. QED
    BY <1>6, <1>b, <2>1, <2>2, SameCar DEF Sleep, TaskPC, clients
<1>7. CASE DoorOpens(t)
  <2>1. CASE task[t].pc = "openSleep"
    <3>1. \A u \in TaskId : u # t => task'[u] = task[u]
      BY <1>7, <2>1 DEF DoorOpens, TypeOK
    <3>2. task'[t].pc = "loop" /\ UNCHANGED <<up, slot, unattended>>
      BY <1>7, <1>c, <2>1 DEF DoorOpens, TypeOK, TaskPC
    <3>3. QED
      BY <1>7, <1>b, <3>1, <3>2, NextPhase DEF DoorOpens
  <2>2. CASE MoveOccupant(t, Roster, currentZ)
    <3>1. \A u \in TaskId : u # t => task'[u] = task[u]
      BY <1>d, <2>2, MoveEffect
    <3>2. \/ task'[t].pc \in {"board", "loop"} /\ UNCHANGED <<slot, unattended>>
          \/ task'[t].pc = "dead" /\ unattended' = TRUE /\ slot' = NoTask
      BY <1>b, <1>d, <2>2, MoveEffect
    <3>3. UNCHANGED up /\ state' = "door_open" /\ doorOpen' = TRUE
      BY <1>7 DEF DoorOpens
    <3>4. QED
      BY <1>b, <3>1, <3>2, <3>3, NextPhase, LeftOpen DEF DoorMatchesState
  <2>3. QED
    BY <1>7, <2>1, <2>2 DEF DoorOpens
<1>8. CASE Board(t)
  <2>1. MoveOccupant(t, task[t].todo, task[t].at)
    BY <1>8 DEF Board
  <2>2. \A u \in TaskId : u # t => task'[u] = task[u]
    BY <1>d, <2>1, MoveEffect
  <2>3. \/ task'[t].pc \in {"board", "loop"} /\ UNCHANGED <<slot, unattended>>
        \/ task'[t].pc = "dead" /\ unattended' = TRUE /\ slot' = NoTask
    BY <1>b, <1>d, <2>1, MoveEffect
  <2>4. /\ UNCHANGED <<car, pc>> /\ DoorMatchesState'
        /\ state = "door_open" \/ \E c \in Client : pc[c] = "restart"
        /\ state = "moving" => targetZ \in Floors \ {currentZ}
    BY <1>8 DEF Board, BoardsAtTheDoor, DoorMatchesState, MovingHasTarget, car
  <2>5. CASE task'[t].pc \in {"board", "loop"} /\ UNCHANGED <<slot, unattended>>
    BY <1>8, <1>b, <2>2, <2>4, <2>5, SameCar DEF Board, TaskPC
  <2>6. CASE task'[t].pc = "dead" /\ unattended' = TRUE /\ slot' = NoTask
    BY <1>b, <2>2, <2>4, <2>6, LeftOpen DEF car
  <2>7. QED
    BY <2>3, <2>5, <2>6
<1>9. CASE DoorCloses(t)
  <2>1. task'[t].pc = "loop" /\ \A u \in TaskId : u # t => task'[u] = task[u]
    BY <1>9, <1>c DEF DoorCloses, TypeOK, TaskPC
  <2>2. UNCHANGED <<up, slot, unattended>> /\ state' = "closing" /\ doorOpen' = FALSE
    BY <1>9 DEF DoorCloses
  <2>3. QED
    BY <1>b, <2>1, <2>2, NextPhase
<1>10. CASE Depart(t)
  <2>1. state = "closing" /\ doorOpen = FALSE
    BY <1>10 DEF Depart, SleepMatchesState, DoorMatchesState, TypeOK
  <2>2. CASE NextDestination = NoFloor
    <3>1. /\ task'[t].pc = "ending" /\ state' = "idle" /\ doorOpen' = FALSE
          /\ \A u \in TaskId : u # t => task'[u].pc = "dead"
      BY <1>10, <1>b, <1>c, <2>1, <2>2 DEF Depart, TypeOK, TaskPC
    <3>2. QED
      BY <1>10, <1>b, <3>1
      DEF Depart, Safe, OneDriver, Driven, MovingHasTarget, DoorMatchesState,
          SleepMatchesState, DownIsQuiet, BoardsAtTheDoor
  <2>3. CASE NextDestination # NoFloor
    <3>1. NextDestination \in Floors \ {currentZ}
      BY <2>3 DEF NextDestination, TypeOK
    <3>2. /\ task'[t].pc = "loop" /\ state' = "moving" /\ doorOpen' = FALSE
          /\ targetZ' \in Floors \ {currentZ'}
          /\ \A u \in TaskId : u # t => task'[u] = task[u]
      BY <1>10, <1>b, <1>c, <2>1, <2>3, <3>1 DEF Depart, TypeOK, TaskPC
    <3>3. UNCHANGED <<up, slot, unattended>>
      BY <1>10 DEF Depart
    <3>4. QED
      BY <1>b, <3>2, <3>3, NextPhase
  <2>4. QED
    BY <2>2, <2>3
<1>11. QED
  BY <1>1, <1>2, <1>3, <1>4, <1>5, <1>6, <1>7, <1>8, <1>9, <1>10 DEF Step

\* Between a handler's steps the car is at rest for a new use, and no timer
\* sleeps on a state in transition.
LEMMA SafeClient ==
    ASSUME IInv, TypeOK', NEW c \in Client,
           \/ Resume(c) \/ Use(c) \/ Delete(c) \/ Join(c)
           \/ TeleportArrives(c) \/ BeginDisconnect(c)
    PROVE  Safe'
<1> USE DEF IInv
<1>a. up /\ UNCHANGED up
  BY DEF DownIsQuiet, Resume, SelectDestination, Restart, FinishDisconnect, Use, Exit,
         BeginOpening, QueueCall, Dispatch, Enter, CanUse, Delete, Join, TeleportArrives,
         BeginDisconnect, car
<1>b. DownIsQuiet'
  BY <1>a DEF DownIsQuiet
<1>1. CASE /\ UNCHANGED <<car, tasks>>
           /\ \A d \in Client : pc[d] = "restart" => pc'[d] = "restart"
  BY <1>b, <1>1 DEF Safe, OneDriver, Driven, MovingHasTarget, DoorMatchesState,
                    SleepMatchesState, BoardsAtTheDoor, car, tasks
<1>2. CASE SelectDestination(c)
  <2>1. \A d \in Client : pc[d] = "restart" => pc'[d] = "restart"
    BY <1>2 DEF SelectDestination, TypeOK
  <2>2. QED
    BY <1>b, <1>2, <2>1 DEF SelectDestination, Safe, OneDriver, Driven, MovingHasTarget,
              DoorMatchesState, SleepMatchesState, BoardsAtTheDoor, tasks
<1>3. CASE Restart(c)
  <2>1. PICK t \in TaskId \ Live :
           /\ slot' = t
           /\ task' = [u \in TaskId |-> IF u = t THEN At("loop")
                                        ELSE IF u = slot THEN Dead ELSE task[u]]
    BY <1>3 DEF Restart
  <2>2. /\ task'[t].pc = "loop"
        /\ \A u \in TaskId : u # t => task'[u].pc = "dead"
    BY <2>1, AtType DEF OneDriver, Dead, TaskPC
  <2>3. OneDriver' /\ SleepMatchesState' /\ BoardsAtTheDoor'
    BY <2>1, <2>2 DEF OneDriver, SleepMatchesState, BoardsAtTheDoor
  <2>4. Driven'
    BY <1>3, <2>1, <2>2, TaskAssumption DEF Restart, Driven
  <2>5. MovingHasTarget' /\ DoorMatchesState'
    BY <1>3, <2>2 DEF Restart, MovingHasTarget, DoorMatchesState, car
  <2>6. QED
    BY <1>b, <2>3, <2>4, <2>5 DEF Safe
<1>4. CASE FinishDisconnect(c)
  <2>1. \A t \in TaskId : task'[t].pc = task[t].pc /\ task'[t].dest = task[t].dest
    BY <1>4 DEF FinishDisconnect, TypeOK, Frame
  <2>2. /\ OneDriver' /\ SleepMatchesState' /\ MovingHasTarget' /\ DoorMatchesState'
        /\ BoardsAtTheDoor'
    BY <1>4, <2>1 DEF FinishDisconnect, OneDriver, SleepMatchesState, MovingHasTarget,
                      DoorMatchesState, BoardsAtTheDoor, car
  <2>3. Driven'
    BY <1>4, <2>1, TaskAssumption DEF FinishDisconnect, Driven, car, TypeOK
  <2>4. QED
    BY <1>b, <2>2, <2>3 DEF Safe
<1>5. CASE Exit(c)
  BY <1>1, <1>5 DEF Exit
<1>6. CASE BeginOpening(c)
  <2>1. /\ state' = "opening" /\ doorOpen' = FALSE /\ pc'[c] = "restart"
        /\ UNCHANGED tasks
    BY <1>6 DEF BeginOpening, TypeOK
  <2>2. \A t \in TaskId : task[t].pc \notin {"travel", "publish", "openSleep",
                                             "arriveSleep", "closeSleep"}
    BY <1>6 DEF BeginOpening, AtRest, MovingHasTarget, SleepMatchesState
  <2>3. QED
    BY <1>b, <2>1, <2>2 DEF Safe, OneDriver, Driven, MovingHasTarget, DoorMatchesState,
                      SleepMatchesState, BoardsAtTheDoor, tasks
<1>7. CASE QueueCall(c)
  BY <1>b, <1>7 DEF QueueCall, Safe, OneDriver, Driven, MovingHasTarget,
              DoorMatchesState, SleepMatchesState, BoardsAtTheDoor, tasks, clients
<1>8. CASE Dispatch(c)
  <2>1. /\ state' = "moving" /\ doorOpen' = FALSE /\ pc'[c] = "restart"
        /\ UNCHANGED tasks
    BY <1>8 DEF Dispatch, TypeOK
  <2>2. targetZ' \in Floors \ {currentZ'}
    BY <1>8 DEF Dispatch, CanUse
  <2>3. \A t \in TaskId : task[t].pc \notin {"travel", "publish", "openSleep",
                                             "arriveSleep", "closeSleep"}
    BY <1>8 DEF Dispatch, AtRest, MovingHasTarget, SleepMatchesState
  <2>4. QED
    BY <1>b, <2>1, <2>2, <2>3 DEF Safe, OneDriver, Driven, MovingHasTarget,
                      DoorMatchesState, SleepMatchesState, BoardsAtTheDoor, tasks
<1>9. CASE Enter(c)
  <2>1. \A d \in Client : pc[d] = "restart" => pc'[d] = "restart"
    BY <1>9 DEF Enter, CanUse, TypeOK
  <2>2. QED
    BY <1>1, <1>9, <2>1 DEF Enter
<1>10. CASE Delete(c)
  <2>1. \A t \in TaskId : task'[t].pc = "dead"
    BY <1>10, AtType DEF Delete, OneDriver, Dead, TaskPC
  <2>2. QED
    BY <1>b, <1>10, <2>1 DEF Delete, Safe, OneDriver, Driven, MovingHasTarget,
                       DoorMatchesState, SleepMatchesState, BoardsAtTheDoor
<1>11. CASE Join(c)
  BY <1>1, <1>11 DEF Join
<1>12. CASE TeleportArrives(c)
  BY <1>1, <1>12 DEF TeleportArrives
<1>13. CASE BeginDisconnect(c)
  BY <1>1, <1>13 DEF BeginDisconnect
<1>14. QED
  BY <1>2, <1>3, <1>4, <1>5, <1>6, <1>7, <1>8, <1>9, <1>10, <1>11, <1>12, <1>13
  DEF Resume, Use

LEMMA SafeServer == IInv /\ (ServerStops \/ ServerStarts) => Safe'
<1> SUFFICES ASSUME IInv, ServerStops \/ ServerStarts PROVE Safe'
  OBVIOUS
<1>1. /\ \A t \in TaskId : task'[t].pc = "dead"
      /\ slot' = NoTask /\ (unattended' => slot' = NoTask)
  BY AtType DEF ServerStops, ServerStarts, Dead, TaskPC, IInv, DownIsQuiet, tasks
<1>2. CASE ServerStops
  BY <1>1, <1>2 DEF ServerStops, IInv, Safe, OneDriver, Driven, MovingHasTarget,
                    DoorMatchesState, SleepMatchesState, DownIsQuiet,
                    BoardsAtTheDoor
<1>3. CASE ServerStarts
  BY <1>1, <1>3 DEF ServerStarts, Safe, OneDriver, Driven, MovingHasTarget,
                    DoorMatchesState, SleepMatchesState, DownIsQuiet,
                    BoardsAtTheDoor
<1>4. QED
  BY <1>2, <1>3

LEMMA InvInit == Init => IInv
<1> SUFFICES ASSUME Init PROVE IInv
  OBVIOUS
<1>1. \A t \in TaskId : task[t].pc = "dead"
  BY AtType DEF Init, Dead, TaskPC
<1>2. QED
  BY <1>1, TypeInit DEF Init, IInv, OneDriver, Driven, MovingHasTarget,
                        DoorMatchesState, SleepMatchesState, DownIsQuiet, BoardsAtTheDoor

LEMMA InvNext == IInv /\ [Next]_vars => IInv'
<1> SUFFICES ASSUME IInv, [Next]_vars PROVE IInv'
  OBVIOUS
<1>1. TypeOK'
  BY TypeNext
<1>2. CASE UNCHANGED vars
  BY <1>2 DEF IInv, TypeOK, OneDriver, Driven, MovingHasTarget, DoorMatchesState,
              SleepMatchesState, DownIsQuiet, BoardsAtTheDoor, vars, car, tasks, clients
<1>3. CASE Next
  <2>1. Safe'
    BY <1>1, <1>3, SafeStep, SafeClient, SafeServer DEF Next
  <2>2. QED
    BY <1>1, <2>1 DEF Safe, IInv
<1>4. QED
  BY <1>2, <1>3

LEMMA Invariant == Spec => []IInv
BY InvInit, InvNext, PTL DEF Spec

-----------------------------------------------------------------------------
(* The theorems.                                                           *)

\* Every variable of the car, its tasks and its clients keeps its type, for
\* any set of connections and any two floors.
THEOREM TypeCorrect == Spec => []TypeOK
BY Invariant, PTL DEF IInv

\* run_cycle is never run twice for one car: the cancel in _restart_task is
\* enough, whatever handler called it and wherever the old task slept.
THEOREM SingleDriver == Spec => []OneDriver
BY Invariant, PTL DEF IInv

\* A car that is not idle never waits for a timer nobody runs, but for a door
\* left open by an arrival that a failed save ended.
THEOREM AlwaysDriven == Spec => []Driven
BY Invariant, PTL DEF IInv

\* run_cycle's int(targetZ) always finds a floor to go to, and the trip under
\* way goes there.
THEOREM TargetKnown == Spec => []MovingHasTarget
BY Invariant, PTL DEF IInv

\* The traversal guards read a door flag that says what the state says.
THEOREM DoorFlag == Spec => []DoorMatchesState
BY Invariant, PTL DEF IInv

\* No timer of a door in transition wakes in a state it did not sleep in.
THEOREM TimersNotStale == Spec => []SleepMatchesState
BY Invariant, PTL DEF IInv

\* The car, its timers and its tasks belong together, at every await, for any
\* set of connections and any two floors.
THEOREM CarIsConsistent == Spec => []CarConsistent
BY Invariant, PTL DEF IInv, CarConsistent

-----------------------------------------------------------------------------
(* The car is a lift.                                                      *)

LEMMA LiftInit == Init => LiftOfElevator!Init
BY DEF Init, LiftOfElevator!Init, LiftOfElevator!NoFloor, NoFloor

\* A step of the only task keeps what it says about the other tasks.
LEMMA OneTask ==
    ASSUME IInv, NEW t \in TaskId, Step(t)
    PROVE  /\ up /\ UNCHANGED up
           /\ \A u \in TaskId : u # t => task[u].pc = "dead"
           /\ \A u \in TaskId : u # t => task'[u] = task[u]
<1> USE FloorFacts DEF IInv
<1>1. task[t].pc # "dead"
  BY DEF Step, End, BeginTravel, Travel, Publish, Arrive, Sleep, DoorOpens, Board,
         DoorCloses, Depart
<1>2. up /\ \A u \in TaskId : u # t => task[u].pc = "dead"
  BY <1>1 DEF OneDriver, DownIsQuiet
<1>3. UNCHANGED up
  BY DEF Step, End, BeginTravel, Travel, Publish, Arrive, Sleep, DoorOpens, Board,
         DoorCloses, Depart, car
<1>4. /\ Roster \in SUBSET Client /\ currentZ \in Heights
      /\ task[t].at \in Heights /\ task[t].todo \in SUBSET Client
      /\ task[t].dest \in Floors \cup {NoFloor}
  BY DEF TypeOK, Frame, Roster
<1>5. CASE BeginTravel(t)
  <2>1. targetZ \in Floors \ {currentZ} /\ currentZ \in Floors
    BY <1>5 DEF BeginTravel, MovingHasTarget, TypeOK
  <2>2. CASE Upper - Ground > 1
    <3> DEFINE h == IF targetZ > currentZ THEN currentZ + 1 ELSE currentZ - 1
    <3>1. h \in Heights
      BY <2>1, <2>2, FloorsAssumption DEF Floors, Heights
    <3>2. Visit(t, Roster, h, targetZ, "publish", "travel")
      BY <1>5, <2>2 DEF BeginTravel
    <3> HIDE DEF h
    <3>3. QED
      BY <1>2, <1>3, <1>4, <2>1, <3>1, <3>2, VisitEffect DEF TaskPC
  <2>3. QED
    BY <1>2, <1>3, <1>5, <2>2 DEF BeginTravel, TypeOK
<1>6. CASE Travel(t)
  BY <1>2, <1>3, <1>4, <1>6, VisitEffect DEF TaskPC, Travel
<1>7. CASE Publish(t)
  BY <1>2, <1>3, <1>4, <1>7, VisitEffect DEF TaskPC, Publish
<1>8. CASE DoorOpens(t)
  BY <1>2, <1>3, <1>4, <1>8, MoveEffect DEF DoorOpens, TypeOK
<1>9. CASE Board(t)
  BY <1>2, <1>3, <1>4, <1>9, MoveEffect DEF Board
<1>10. QED
  BY <1>2, <1>3, <1>5, <1>6, <1>7, <1>8, <1>9
  DEF Step, End, Arrive, Sleep, DoorCloses, Depart, TypeOK

\* A step that leaves the car alone is none of the lift, unless it ends the
\* dwell timer that might have called the car off.
LEMMA SameLift ==
    ASSUME IInv, UNCHANGED car,
           NoOldDwell \/ ~up \/ state # "moving" => NoOldDwell' \/ ~up \/ state # "moving"
    PROVE  [LiftOfElevator!Next]_(LiftOfElevator!vars)
<1> USE FloorFacts DEF IInv, LiftOfElevator!NoFloor, NoFloor
<1>1. CASE up /\ state = "moving" /\ ~NoOldDwell /\ NoOldDwell'
  <2>1. LiftOfElevator!Commit
    BY <1>1 DEF LiftOfElevator!Commit, MovingHasTarget, car
  <2>2. QED
    BY <2>1 DEF LiftOfElevator!Next
<1>2. CASE ~(up /\ state = "moving" /\ ~NoOldDwell /\ NoOldDwell')
  <2>1. up /\ state = "moving" => (NoOldDwell <=> NoOldDwell')
    BY <1>2
  <2>2. (up /\ state = "moving" /\ NoOldDwell) = (up /\ state = "moving" /\ NoOldDwell)'
    BY <2>1 DEF car
  <2>3. QED
    BY <2>2 DEF LiftOfElevator!vars, car
<1>3. QED
  BY <1>1, <1>2

\* Every step of a task is a step of the lift, or none.
LEMMA LiftStep ==
    ASSUME IInv, NEW t \in TaskId, Step(t)
    PROVE  [LiftOfElevator!Next]_(LiftOfElevator!vars)
<1> USE DEF IInv
<1> USE FloorFacts DEF LiftOfElevator!NoFloor, NoFloor
<1>a. /\ up /\ up' = up /\ up \in BOOLEAN
      /\ \A u \in TaskId : u # t => task[u].pc = "dead"
      /\ \A u \in TaskId : u # t => task'[u] = task[u]
  BY OneTask DEF TypeOK
<1>1. CASE UNCHANGED car /\ (state = "moving" => task'[t].pc # "doorSleep")
  BY <1>a, <1>1, SameLift DEF NoOldDwell
<1>2. CASE Arrive(t)
  <2>1. /\ state = "moving" /\ doorOpen = FALSE /\ targetZ \in Floors
        /\ currentZ' = targetZ /\ state' = "arriving" /\ doorOpen' = FALSE
    BY <1>2 DEF Arrive, MovingHasTarget, DoorMatchesState, TypeOK
  <2>2. NoOldDwell
    BY <1>2, <1>a DEF Arrive, NoOldDwell
  <2>3. LiftOfElevator!Arrive
    BY <1>a, <2>1, <2>2 DEF LiftOfElevator!Arrive
  <2>4. QED
    BY <2>3 DEF LiftOfElevator!Next
<1>3. CASE DoorOpens(t)
  <2>1. /\ state \in {"opening", "arriving"} /\ doorOpen = FALSE
        /\ state' = "door_open" /\ doorOpen' = TRUE /\ currentZ' = currentZ
    BY <1>3 DEF DoorOpens, SleepMatchesState, DoorMatchesState, TypeOK
  <2>2. LiftOfElevator!Open
    BY <1>a, <2>1 DEF LiftOfElevator!Open
  <2>3. QED
    BY <2>2 DEF LiftOfElevator!Next
<1>4. CASE DoorCloses(t)
  <2>1. /\ state' = "closing" /\ doorOpen' = FALSE /\ currentZ' = currentZ
        /\ doorOpen \in BOOLEAN
    BY <1>4 DEF DoorCloses, TypeOK
  <2>2. CASE state = "moving"
    <3>1. ~NoOldDwell
      BY <1>4 DEF DoorCloses, NoOldDwell
    <3>2. LiftOfElevator!CallOff
      BY <1>a, <2>1, <2>2, <3>1
      DEF MovingHasTarget, DoorMatchesState, LiftOfElevator!CallOff
    <3>3. QED
      BY <3>2 DEF LiftOfElevator!Next
  <2>3. CASE doorOpen
    <3>1. LiftOfElevator!Close
      BY <1>a, <2>1, <2>3 DEF DoorMatchesState, LiftOfElevator!Close
    <3>2. QED
      BY <3>1 DEF LiftOfElevator!Next
  <2>4. CASE state # "moving" /\ ~doorOpen
    BY <1>a, <2>1, <2>4 DEF LiftOfElevator!vars
  <2>5. QED
    BY <2>2, <2>3, <2>4
<1>5. CASE Depart(t)
  <2>1. /\ state = "closing" /\ doorOpen = FALSE /\ doorOpen' = FALSE
        /\ currentZ' = currentZ
    BY <1>5 DEF Depart, SleepMatchesState, DoorMatchesState, TypeOK
  <2>2. CASE NextDestination = NoFloor
    BY <1>5, <1>a, <2>1, <2>2 DEF Depart, LiftOfElevator!vars
  <2>3. CASE NextDestination # NoFloor
    <3>1. NextDestination \in Floors \ {currentZ}
      BY <2>3 DEF NextDestination, TypeOK
    <3>2. (up /\ state = "moving" /\ NoOldDwell)' \in BOOLEAN
      BY DEF NoOldDwell
    <3>3. LiftOfElevator!Send(NextDestination)
      BY <1>5, <1>a, <2>1, <3>1, <3>2 DEF Depart, LiftOfElevator!Send
    <3>4. QED
      BY <3>1, <3>3 DEF LiftOfElevator!Next, LiftOfElevator!Floors, Floors
  <2>4. QED
    BY <2>2, <2>3
<1>6. CASE Sleep(t)
  <2>1. state = "moving" => FALSE
    BY <1>6 DEF Sleep
  <2>2. QED
    BY <1>1, <1>6, <2>1 DEF Sleep
<1>7. CASE End(t) \/ Board(t) \/ BeginTravel(t) \/ Travel(t) \/ Publish(t)
  <2>1. UNCHANGED car
    BY <1>7 DEF End, Board, BeginTravel, Travel, Publish
  <2>2. task'[t].pc # "doorSleep"
    <3>1. /\ Roster \in SUBSET Client /\ currentZ \in Heights
          /\ task[t].at \in Heights /\ task[t].todo \in SUBSET Client
          /\ task[t].dest \in Floors \cup {NoFloor}
      BY DEF TypeOK, Frame, Roster
    <3>2. CASE End(t)
      BY <3>2, AtType DEF End, Dead, TaskPC, TypeOK
    <3>3. CASE Board(t)
      BY <3>1, <3>3, MoveEffect DEF Board
    <3>4. CASE Travel(t)
      BY <3>1, <3>4, VisitEffect DEF Travel, TaskPC
    <3>5. CASE Publish(t)
      BY <3>1, <3>5, VisitEffect DEF Publish, TaskPC
    <3>6. CASE BeginTravel(t)
      <4>1. targetZ \in Floors \ {currentZ} /\ currentZ \in Floors
        BY <3>6 DEF BeginTravel, MovingHasTarget, TypeOK
      <4>2. CASE Upper - Ground > 1
        <5> DEFINE h == IF targetZ > currentZ THEN currentZ + 1 ELSE currentZ - 1
        <5>1. h \in Heights
          BY <4>1, <4>2, FloorsAssumption DEF Floors, Heights
        <5>2. Visit(t, Roster, h, targetZ, "publish", "travel")
          BY <3>6, <4>2 DEF BeginTravel
        <5> HIDE DEF h
        <5>3. QED
          BY <3>1, <4>1, <5>1, <5>2, VisitEffect DEF TaskPC
      <4>3. QED
        BY <3>6, <4>2 DEF BeginTravel, TypeOK
    <3>7. QED
      BY <1>7, <3>2, <3>3, <3>4, <3>5, <3>6
  <2>3. QED
    BY <1>1, <2>1, <2>2
<1>8. QED
  BY <1>2, <1>3, <1>4, <1>5, <1>6, <1>7 DEF Step

\* Of the handlers only a call that dispatches the car is a step of the lift,
\* and a restart of the task that ends an old dwell.
LEMMA LiftClient ==
    ASSUME IInv, NEW c \in Client,
           \/ Resume(c) \/ Use(c) \/ Delete(c) \/ Join(c)
           \/ TeleportArrives(c) \/ BeginDisconnect(c)
    PROVE  [LiftOfElevator!Next]_(LiftOfElevator!vars)
<1> USE DEF IInv
<1> USE FloorFacts DEF LiftOfElevator!NoFloor, NoFloor
<1>1. CASE UNCHANGED <<up, state, currentZ, targetZ, doorOpen, task>>
  BY <1>1 DEF LiftOfElevator!vars, NoOldDwell
<1>2. CASE BeginOpening(c)
  BY <1>2 DEF BeginOpening, AtRest, LiftOfElevator!vars, TypeOK
<1>3. CASE Dispatch(c)
  <2>1. z[c] \in Floors /\ z[c] # currentZ /\ up /\ up' = up
    BY <1>3 DEF Dispatch, CanUse, DownIsQuiet
  <2>2. (up /\ state = "moving" /\ NoOldDwell)' \in BOOLEAN
    BY DEF NoOldDwell
  <2>3. LiftOfElevator!Send(z[c])
    BY <1>3, <2>1, <2>2 DEF Dispatch, AtRest, LiftOfElevator!Send
  <2>4. QED
    BY <2>1, <2>3 DEF LiftOfElevator!Next, LiftOfElevator!Floors, Floors
<1>4. CASE Restart(c)
  <2>1. \A t \in TaskId : task'[t].pc # "doorSleep" \/ task'[t] = task[t]
    BY <1>4, AtType DEF Restart, Dead, TaskPC
  <2>2. NoOldDwell => NoOldDwell'
    BY <2>1 DEF NoOldDwell
  <2>3. QED
    BY <1>4, <2>2, SameLift DEF Restart, car
<1>5. CASE FinishDisconnect(c)
  <2>1. \A t \in TaskId : task'[t].pc = task[t].pc
    BY <1>5 DEF FinishDisconnect, TypeOK, Frame
  <2>2. QED
    BY <1>5, <2>1, SameLift DEF FinishDisconnect, NoOldDwell
<1>6. CASE Delete(c)
  <2>1. state # "moving" /\ UNCHANGED <<up, state, currentZ, targetZ, doorOpen>>
    BY <1>6 DEF Delete
  <2>2. QED
    BY <2>1 DEF LiftOfElevator!vars
<1>7. QED
  BY <1>1, <1>2, <1>3, <1>4, <1>5, <1>6
  DEF Resume, SelectDestination, Use, Exit, QueueCall, Enter,
      Join, TeleportArrives, BeginDisconnect, car, tasks

LEMMA LiftServer ==
    ASSUME IInv, ServerStops \/ ServerStarts
    PROVE  LiftOfElevator!Next
<1> USE DEF LiftOfElevator!NoFloor, NoFloor
<1>1. CASE ServerStops
  <2>1. LiftOfElevator!Stop
    BY <1>1 DEF ServerStops, LiftOfElevator!Stop
  <2>2. QED
    BY <2>1 DEF LiftOfElevator!Next
<1>2. CASE ServerStarts
  <2>1. PICK f \in Floors : currentZ' = f
    BY <1>2 DEF ServerStarts
  <2>2. LiftOfElevator!Start(f)
    BY <1>2, <2>1 DEF ServerStarts, LiftOfElevator!Start, IInv, TypeOK
  <2>3. QED
    BY <2>2 DEF LiftOfElevator!Next, LiftOfElevator!Floors, Floors
<1>3. QED
  BY <1>1, <1>2

\* The state machine with its tasks, awaits and handlers implements the lift
\* a landing sees: while the server runs it changes floors only by arriving
\* where it was sent, and no call is lost once the car is on its way.
THEOREM ImplementsLift == Spec => IsALift
<1>1. IInv /\ [Next]_vars => [LiftOfElevator!Next]_(LiftOfElevator!vars)
  <2>1. UNCHANGED vars => UNCHANGED LiftOfElevator!vars
    BY DEF vars, car, tasks, LiftOfElevator!vars, NoOldDwell
  <2>2. QED
    BY <2>1, LiftStep, LiftClient, LiftServer DEF Next
<1>2. QED
  BY <1>1, LiftInit, Invariant, PTL DEF Spec, IsALift, LiftOfElevator!Spec

-----------------------------------------------------------------------------
(* A task carries only riders.                                             *)

\* Whatever its stale snapshot of the roster says, a task moves the height of
\* riders only; a client that got out before its turn is left where it is.
THEOREM CarriesOnlyRiders == Spec => CarMovesOnlyRiders
<1> DEFINE Stays == \A c \in Client :
               status[c] = "in" /\ status'[c] = "in" /\ ~inCar[c] /\ z'[c] # z[c]
                  => UNCHANGED task
<1>1. ASSUME IInv, NEW t \in TaskId, Step(t)
      PROVE  \A c \in Client : ~inCar[c] => z'[c] = z[c]
  <2> USE <1>1, FloorFacts DEF IInv
  <2>1. /\ Roster \in SUBSET Client /\ currentZ \in Floors
        /\ task[t].at \in Heights /\ task[t].todo \in SUBSET Client
        /\ task[t].dest \in Floors \cup {NoFloor}
    BY DEF TypeOK, Frame, Roster
  <2>2. CASE UNCHANGED z
    BY <2>2
  <2>3. ASSUME NEW todo \in SUBSET Client, NEW h \in Heights,
               NEW d \in Floors \cup {NoFloor}, NEW busy \in TaskPC, NEW done \in TaskPC,
               Visit(t, todo, h, d, busy, done)
        PROVE  \A c \in Client : ~inCar[c] => z'[c] = z[c]
    BY <2>3, <1>1, VisitEffect
  <2>4. CASE BeginTravel(t)
    <3>1. targetZ \in Floors \ {currentZ}
      BY <2>4 DEF BeginTravel, MovingHasTarget
    <3>2. CASE Upper - Ground > 1
      <4> DEFINE h == IF targetZ > currentZ THEN currentZ + 1 ELSE currentZ - 1
      <4>1. h \in Heights
        BY <2>1, <3>1, <3>2, FloorsAssumption DEF Floors, Heights
      <4>2. Visit(t, Roster, h, targetZ, "publish", "travel")
        BY <2>4, <3>2 DEF BeginTravel
      <4> HIDE DEF h
      <4>3. QED
        BY <2>1, <2>3, <3>1, <4>1, <4>2 DEF TaskPC
    <3>3. QED
      BY <2>2, <2>4, <3>2 DEF BeginTravel
  <2>5. CASE Travel(t)
    BY <2>1, <2>3, <2>5 DEF Travel, TaskPC
  <2>6. CASE Publish(t)
    BY <2>1, <2>3, <2>6 DEF Publish, TaskPC
  <2>7. CASE DoorOpens(t)
    BY <2>1, <2>2, <2>7, MoveEffect DEF DoorOpens
  <2>8. CASE Board(t)
    BY <2>1, <2>8, MoveEffect DEF Board
  <2>9. QED
    BY <1>1, <2>2, <2>4, <2>5, <2>6, <2>7, <2>8
    DEF Step, End, Arrive, Sleep, DoorCloses, Depart, clients
<1>2. ASSUME IInv, NEW c \in Client,
             \/ Resume(c) \/ Use(c) \/ Delete(c) \/ Join(c)
             \/ TeleportArrives(c) \/ BeginDisconnect(c)
      PROVE  Stays
  <2>1. CASE FinishDisconnect(c)
    BY <1>2, <2>1 DEF FinishDisconnect, IInv, TypeOK
  <2>2. CASE Join(c)
    BY <1>2, <2>2 DEF Join, IInv, TypeOK
  <2>3. QED
    BY <1>2, <2>1, <2>2
    DEF Resume, Use, SelectDestination, Restart, Exit, BeginOpening, QueueCall, Dispatch,
        Enter, Delete, TeleportArrives, BeginDisconnect, tasks, clients
<1>3. IInv /\ [Next]_vars => [Stays]_vars
  BY <1>1, <1>2 DEF Next, ServerStops, ServerStarts, clients
<1>4. QED
  BY <1>3, Invariant, PTL DEF Spec, CarMovesOnlyRiders
=============================================================================
