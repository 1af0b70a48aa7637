------------------------------ MODULE Teleport ------------------------------
(***************************************************************************)
(* How the server moves a connected client: its own steps, the two-second  *)
(* transition of a teleport item, and the elevator it may ride.  The three *)
(* write the same client.x, y, z; the guards of the message handlers keep  *)
(* them apart.  The browser's transition controller is told of the phases  *)
(* over the ordered socket and blocks the arrow keys from start to end.    *)
(*                                                                         *)
(* A handler or a task suspended in an await is a program counter.  A      *)
(* Client is one connection: it joins and leaves once, in a disconnect or  *)
(* with the server's process.                                              *)
(***************************************************************************)
EXTENDS Integers, FiniteSets

CONSTANTS
    Client,     \* connections
    Square,     \* the places a client can be at, those in the shaft included
    LevelOf,    \* the height of each square
    Floors,     \* the configured floors
    Landing     \* the squares an elevator stops at

ASSUME SquareAssumption ==
    /\ LevelOf \in [Square -> Int]
    /\ Landing \subseteq Square
    /\ \A s \in Landing : LevelOf[s] \in Floors

OnFloor == {s \in Square : LevelOf[s] \in Floors}
Shaft   == Square \ OnFloor
Nowhere == "nowhere"

ASSUME NowhereAssumption == Nowhere \notin Square

VARIABLES
    status,   \* "new", "in" (the roster), "leaving" (popped from it), "gone"
    pos,      \* client.x, y, z
    rides,    \* client.elevator_id is not None
    pc,       \* where the client's message handler is suspended
    active,   \* client.id in TeleportRuntime._active
    jump,     \* its _run task: where it is suspended, its destination
    screen    \* the phase of the browser's TeleportTransitionController

tvars == <<status, pos, rides, pc, active, jump, screen>>

JumpPC == {"none", "half", "arriving", "second", "finishing", "cancelling"}
NoJump == [pc |-> "none", dest |-> Nowhere]

Roster == {c \in Client : status[c] = "in"}

TeleportInit ==
    /\ status = [c \in Client |-> "new"]
    /\ pos \in [Client -> OnFloor]
    /\ rides = [c \in Client |-> FALSE]
    /\ pc = [c \in Client |-> "ready"]
    /\ active = [c \in Client |-> FALSE]
    /\ jump = [c \in Client |-> NoJump]
    /\ screen = [c \in Client |-> "none"]

Join(c) ==
    /\ status[c] = "new"
    /\ status' = [status EXCEPT ![c] = "in"]
    /\ UNCHANGED <<pos, rides, pc, active, jump, screen>>

\* The client's handler is waiting for its next message.
Ready(c) == status[c] = "in" /\ pc[c] = "ready"

-----------------------------------------------------------------------------
(* The message handlers.                                                   *)

\* Fault: a client may walk during its transition.
WalkWhileActive(c) ==
    /\ Ready(c)
    /\ ~rides[c]
    /\ \E s \in OnFloor :
          /\ s # pos[c] /\ LevelOf[s] = LevelOf[pos[c]]
          /\ pos' = [pos EXCEPT ![c] = s]
    /\ pc' = [pc EXCEPT ![c] = "moving"]
    /\ UNCHANGED <<status, rides, active, jump, screen>>

\* update_position and teleport_complete: refused during a transition and in
\* an elevator; the floor stays.  Deliveries and the carried items follow.
Walk(c) ==
    /\ Ready(c)
    /\ ~active[c] /\ ~rides[c]
    /\ \E s \in OnFloor :
          /\ s # pos[c] /\ LevelOf[s] = LevelOf[pos[c]]
          /\ pos' = [pos EXCEPT ![c] = s]
    /\ pc' = [pc EXCEPT ![c] = "moving"]
    /\ UNCHANGED <<status, rides, active, jump, screen>>

Walked(c) ==
    /\ pc[c] = "moving"
    /\ pc' = [pc EXCEPT ![c] = "ready"]
    /\ UNCHANGED <<status, pos, rides, active, jump, screen>>

\* The use of an elevator (module Elevator): _handle_use refuses it during a
\* transition.
Enter(c) ==
    /\ Ready(c)
    /\ ~active[c] /\ ~rides[c]
    /\ pos[c] \in Landing
    /\ rides' = [rides EXCEPT ![c] = TRUE]
    /\ UNCHANGED <<status, pos, pc, active, jump, screen>>

Exit(c) ==
    /\ Ready(c)
    /\ ~active[c] /\ rides[c]
    /\ rides' = [rides EXCEPT ![c] = FALSE]
    /\ UNCHANGED <<status, pos, pc, active, jump, screen>>

\* The use of a teleport item: refused during a transition, in an elevator and
\* for a destination out of bounds or off the floors.  begin reserves the
\* transition, then awaits the start packet.
Begin(c, d) ==
    /\ Ready(c)
    /\ ~active[c] /\ ~rides[c]
    /\ d \in OnFloor
    /\ active' = [active EXCEPT ![c] = TRUE]
    /\ jump' = [jump EXCEPT ![c].dest = d]
    /\ screen' = [screen EXCEPT ![c] = "fadingOut"]
    /\ pc' = [pc EXCEPT ![c] = "starting"]
    /\ UNCHANGED <<status, pos, rides>>

\* Fault: the task is not created and the reservation is kept.
StartTaskLost(c) ==
    /\ pc[c] = "starting"
    /\ pc' = [pc EXCEPT ![c] = "ready"]
    /\ UNCHANGED <<status, pos, rides, active, jump, screen>>

StartTask(c) ==
    /\ pc[c] = "starting"
    /\ jump' = [jump EXCEPT ![c].pc = "half"]
    /\ pc' = [pc EXCEPT ![c] = "ready"]
    /\ UNCHANGED <<status, pos, rides, active, screen>>

\* The message loop ended, in its wait or by a walk whose save raised: popped
\* from the roster, the transition forgotten and its task cancelled before the
\* clean-up awaits anything.
BeginDisconnect(c) ==
    /\ status[c] = "in" /\ pc[c] \in {"ready", "moving"}
    /\ status' = [status EXCEPT ![c] = "leaving"]
    /\ pc' = [pc EXCEPT ![c] = "ready"]
    /\ active' = [active EXCEPT ![c] = FALSE]
    /\ jump' = [jump EXCEPT ![c] = NoJump]
    /\ UNCHANGED <<pos, rides, screen>>

\* The rest of the clean-up, whether its saves succeed or raise: a rider is put
\* on a landing, unless its elevator is gone; its browser has reset its
\* controller.
FinishDisconnect(c) ==
    /\ status[c] = "leaving"
    /\ status' = [status EXCEPT ![c] = "gone"]
    /\ \/ rides[c] /\ \E s \in Landing : pos' = [pos EXCEPT ![c] = s]
       \/ UNCHANGED pos
    /\ rides' = [rides EXCEPT ![c] = FALSE]
    /\ screen' = [screen EXCEPT ![c] = "none"]
    /\ UNCHANGED <<pc, active, jump>>

-----------------------------------------------------------------------------
(* The transition's task.  Its checks that the client is still connected     *)
(* always pass: BeginDisconnect has cancelled it otherwise.                *)

Midpoint(c) ==
    /\ jump[c].pc = "half"
    /\ pos' = [pos EXCEPT ![c] = jump[c].dest]
    /\ jump' = [jump EXCEPT ![c].pc = "arriving"]
    /\ UNCHANGED <<status, rides, pc, active, screen>>

\* Fault: the failure is not told to the browser.
MidpointFailsSilently(c) ==
    /\ jump[c].pc = "half"
    /\ pos' = [pos EXCEPT ![c] = jump[c].dest]
    /\ jump' = [jump EXCEPT ![c].pc = "cancelling"]
    /\ UNCHANGED <<status, rides, pc, active, screen>>

\* Saving the position fails: the client has arrived, is told of a cancel,
\* and its carried items are not synchronised.
MidpointFails(c) ==
    /\ jump[c].pc = "half"
    /\ pos' = [pos EXCEPT ![c] = jump[c].dest]
    /\ jump' = [jump EXCEPT ![c].pc = "cancelling"]
    /\ screen' = [screen EXCEPT ![c] = "none"]
    /\ UNCHANGED <<status, rides, pc, active>>

\* The position and the carried items are delivered.
Arrive(c) ==
    /\ jump[c].pc = "arriving"
    /\ jump' = [jump EXCEPT ![c].pc = "second"]
    /\ screen' = [screen EXCEPT ![c] = IF @ = "fadingOut" THEN "fadingIn" ELSE @]
    /\ UNCHANGED <<status, pos, rides, pc, active>>

Complete(c) ==
    /\ jump[c].pc = "second"
    /\ jump' = [jump EXCEPT ![c].pc = "finishing"]
    /\ screen' = [screen EXCEPT ![c] = "none"]
    /\ UNCHANGED <<status, pos, rides, pc, active>>

\* Fault: the reservation of a failed transition is kept.
EndKeepsReservation(c) ==
    /\ jump[c].pc \in {"finishing", "cancelling"}
    /\ active' = [active EXCEPT ![c] = jump[c].pc = "cancelling"]
    /\ jump' = [jump EXCEPT ![c] = NoJump]
    /\ UNCHANGED <<status, pos, rides, pc, screen>>

End(c) ==
    /\ jump[c].pc \in {"finishing", "cancelling"}
    /\ active' = [active EXCEPT ![c] = FALSE]
    /\ jump' = [jump EXCEPT ![c] = NoJump]
    /\ UNCHANGED <<status, pos, rides, pc, screen>>

-----------------------------------------------------------------------------

\* The process ends and is started again, without a trace of its connections,
\* whose browsers reset their controllers.
ServerRestarts ==
    /\ status' = [c \in Client |-> IF status[c] = "new" THEN "new" ELSE "gone"]
    /\ rides' = [c \in Client |-> FALSE]
    /\ pc' = [c \in Client |-> "ready"]
    /\ active' = [c \in Client |-> FALSE]
    /\ jump' = [c \in Client |-> NoJump]
    /\ screen' = [c \in Client |-> "none"]
    /\ UNCHANGED pos

\* An elevator's task moves a rider of the roster through the shaft or onto a
\* landing (module Elevator).
Carry(c, s) ==
    /\ status[c] = "in" /\ rides[c]
    /\ pos' = [pos EXCEPT ![c] = s]
    /\ UNCHANGED <<status, rides, pc, active, jump, screen>>

Transition(c) ==
    StartTask(c) \/ Midpoint(c) \/ MidpointFails(c) \/ Arrive(c) \/ Complete(c) \/ End(c)

TeleportNext ==
    \/ \E c \in Client :
          \/ Join(c) \/ Walk(c) \/ Walked(c) \/ Enter(c) \/ Exit(c)
          \/ \E d \in Square \cup {Nowhere} : Begin(c, d)
          \/ Transition(c)
          \/ BeginDisconnect(c) \/ FinishDisconnect(c)
          \/ \E s \in Shaft \cup Landing : Carry(c, s)
    \/ ServerRestarts

TeleportSpec == TeleportInit /\ [][TeleportNext]_tvars

\* Every delivery and every sleep of a handler or a task ends.
FairTeleportSpec ==
    TeleportSpec /\ \A c \in Client : WF_tvars(Transition(c) \/ FinishDisconnect(c))

-----------------------------------------------------------------------------
(* Properties.                                                             *)

TeleportTypeOK ==
    /\ status \in [Client -> {"new", "in", "leaving", "gone"}]
    /\ pos \in [Client -> Square]
    /\ rides \in [Client -> BOOLEAN]
    /\ pc \in [Client -> {"ready", "moving", "starting"}]
    /\ active \in [Client -> BOOLEAN]
    /\ jump \in [Client -> [pc : JumpPC, dest : OnFloor \cup {Nowhere}]]
    /\ screen \in [Client -> {"none", "fadingOut", "fadingIn"}]

\* A client is in a transition or in an elevator, never in both: begin looks
\* at elevator_id before it reserves, and from then on no use is accepted.
OneMover == \A c \in Client : ~(active[c] /\ rides[c])

\* A transition is reserved exactly while begin or a task will end it.  A
\* reservation nobody ends would refuse the client's every move.
Reserved ==
    \A c \in Client : active[c] <=> pc[c] = "starting" \/ jump[c].pc # "none"

\* Reservations, tasks and rides belong together, for every client.
TransitionsConsistent == TeleportTypeOK /\ OneMover /\ Reserved

\* The browser's arrow keys are blocked only while the server will still tell
\* it of the end of the transition.
ScreenReleased ==
    \A c \in Client : status[c] = "in" /\ screen[c] # "none" =>
        active[c] /\ jump[c].pc \notin {"finishing", "cancelling"}

\* While a transition is on, the client moves only to the place it reserved,
\* whatever packets it sends and whatever became of the device.
MovesOnlyToDestination ==
    [][\A c \in Client :
          active[c] /\ pos'[c] # pos[c] => pos'[c] = jump[c].dest]_tvars

\* A transition never hangs.
TransitionEnds == \A c \in Client : active[c] ~> ~active[c]
=============================================================================
