------------------------- MODULE CarriedItemsProofs -------------------------
(***************************************************************************)
(* First of Teleport alone: its type correctness and its safety            *)
(* properties.  CarriedItems moves the clients as Teleport does, so they   *)
(* hold of it; with that, its own type correctness, that only a failed     *)
(* save leaves an item in the hands of a connection that is gone, and that *)
(* nobody holds too many.  For any number of connections, items and        *)
(* squares.                                                                *)
(***************************************************************************)
EXTENDS CarriedItems, FiniteSetTheorems, TLAPS

(* Teleport. *)

\* One client's part of the invariant: it has one mover, its reservation is
\* that of a start or of a task, and its browser follows the task.
Local(c) ==
    /\ ~(active[c] /\ rides[c])
    /\ active[c] <=> pc[c] = "starting" \/ jump[c].pc # "none"
    /\ pc[c] = "starting" => jump[c].pc = "none"
    /\ active[c] => jump[c].dest \in OnFloor
    /\ status[c] # "in" => pc[c] = "ready" /\ ~active[c]
    /\ screen[c] # "none" /\ status[c] = "in" =>
           pc[c] = "starting" \/ jump[c].pc \in {"half", "arriving", "second"}
    /\ status[c] = "new" => screen[c] = "none"

TInv == TeleportTypeOK /\ \A c \in Client : Local(c)

Act(c) ==
    \/ Join(c) \/ Walk(c) \/ Walked(c) \/ Enter(c) \/ Exit(c)
    \/ \E d \in Square \cup {Nowhere} : Begin(c, d)
    \/ Transition(c)
    \/ BeginDisconnect(c) \/ FinishDisconnect(c)
    \/ \E s \in Shaft \cup Landing : Carry(c, s)

LEMMA SquareFacts ==
    /\ OnFloor \subseteq Square /\ Shaft \subseteq Square /\ Landing \subseteq Square
    /\ Nowhere \notin OnFloor
BY SquareAssumption, NowhereAssumption DEF OnFloor, Shaft

LEMMA TeleportInvInit == TeleportInit => TInv
BY SquareFacts
DEF TeleportInit, TInv, TeleportTypeOK, Local, NoJump, JumpPC

\* Only the acting client's entries change.
LEMMA Frame ==
    ASSUME NEW c \in Client, Act(c), TeleportTypeOK, NEW e \in Client, e # c
    PROVE  /\ status'[e] = status[e] /\ pos'[e] = pos[e] /\ rides'[e] = rides[e]
           /\ pc'[e] = pc[e] /\ active'[e] = active[e] /\ jump'[e] = jump[e]
           /\ screen'[e] = screen[e]
BY DEF Act, Transition, Join, Walk, Walked, Enter, Exit, Begin, StartTask, Midpoint,
       MidpointFails, Arrive, Complete, End, BeginDisconnect, FinishDisconnect, Carry,
       TeleportTypeOK

LEMMA TeleportTypeNext ==
    ASSUME TInv, NEW c \in Client, Act(c)
    PROVE  TeleportTypeOK'
<1> USE SquareFacts DEF TInv
<1>1. CASE Join(c)
  BY <1>1 DEF Join, TeleportTypeOK
<1>2. CASE Walk(c) \/ Walked(c)
  BY <1>2 DEF Walk, Walked, TeleportTypeOK
<1>3. CASE Enter(c) \/ Exit(c)
  BY <1>3 DEF Enter, Exit, TeleportTypeOK
<1>4. ASSUME NEW d \in Square \cup {Nowhere}, Begin(c, d) PROVE TeleportTypeOK'
  <2>1. jump[c] \in [pc : JumpPC, dest : OnFloor \cup {Nowhere}] /\ d \in OnFloor
    BY <1>4 DEF Begin, TeleportTypeOK
  <2>2. [jump[c] EXCEPT !.dest = d] \in [pc : JumpPC, dest : OnFloor \cup {Nowhere}]
    BY <2>1
  <2>3. QED
    BY <1>4, <2>2 DEF Begin, TeleportTypeOK
<1>5. CASE Transition(c)
  <2>1. CASE StartTask(c)
    <3>1. [jump[c] EXCEPT !.pc = "half"] \in [pc : JumpPC, dest : OnFloor \cup {Nowhere}]
      BY DEF TeleportTypeOK, JumpPC
    <3>2. QED
      BY <2>1, <3>1 DEF StartTask, TeleportTypeOK
  <2>6. CASE End(c)
    <3>1. NoJump \in [pc : JumpPC, dest : OnFloor \cup {Nowhere}]
      BY DEF NoJump, JumpPC
    <3>2. QED
      BY <2>6, <3>1 DEF End, TeleportTypeOK
  <2>2. CASE Midpoint(c) \/ MidpointFails(c)
    <3>1. active[c]
      BY <2>2 DEF Midpoint, MidpointFails, Local
    <3>2. jump[c].dest \in OnFloor
      BY <3>1 DEF Local
    <3>3. [pos EXCEPT ![c] = jump[c].dest] \in [Client -> Square]
      BY <3>2 DEF TeleportTypeOK
    <3>4. [jump[c] EXCEPT !.pc = "arriving"] \in [pc : JumpPC, dest : OnFloor \cup {Nowhere}]
      BY DEF TeleportTypeOK, JumpPC
    <3>5. [jump[c] EXCEPT !.pc = "cancelling"] \in [pc : JumpPC, dest : OnFloor \cup {Nowhere}]
      BY DEF TeleportTypeOK, JumpPC
    <3>6. CASE Midpoint(c)
      BY <3>3, <3>4, <3>6 DEF Midpoint, TeleportTypeOK
    <3>7. CASE MidpointFails(c)
      BY <3>3, <3>5, <3>7 DEF MidpointFails, TeleportTypeOK
    <3>8. QED
      BY <2>2, <3>6, <3>7
  <2>3. CASE Arrive(c)
    BY <2>3 DEF Arrive, TeleportTypeOK, JumpPC
  <2>4. CASE Complete(c)
    BY <2>4 DEF Complete, TeleportTypeOK, JumpPC
  <2>5. QED
    BY <1>5, <2>1, <2>2, <2>3, <2>4, <2>6 DEF Transition
<1>6. CASE BeginDisconnect(c)
  BY <1>6 DEF BeginDisconnect, TeleportTypeOK, JumpPC, NoJump
<1>7. CASE FinishDisconnect(c)
  BY <1>7 DEF FinishDisconnect, TeleportTypeOK
<1>8. ASSUME NEW s \in Shaft \cup Landing, Carry(c, s) PROVE TeleportTypeOK'
  BY <1>8 DEF Carry, TeleportTypeOK
<1>9. QED
  BY <1>1, <1>2, <1>3, <1>4, <1>5, <1>6, <1>7, <1>8 DEF Act

\* The acting client keeps its part of the invariant.
LEMMA LocalNext ==
    ASSUME TInv, NEW c \in Client, Act(c)
    PROVE  Local(c)'
<1> USE DEF TInv
<1>a. Local(c)
  OBVIOUS
<1>1. CASE Join(c)
  BY <1>a, <1>1 DEF Join, Local, TeleportTypeOK
<1>2. CASE Walk(c) \/ Walked(c)
  BY <1>a, <1>2 DEF Walk, Walked, Ready, Local, TeleportTypeOK
<1>3. CASE Enter(c) \/ Exit(c)
  BY <1>a, <1>3 DEF Enter, Exit, Ready, Local, TeleportTypeOK
<1>4. ASSUME NEW d \in Square \cup {Nowhere}, Begin(c, d) PROVE Local(c)'
  BY <1>a, <1>4 DEF Begin, Ready, Local, TeleportTypeOK
<1>5. CASE StartTask(c) \/ Midpoint(c) \/ MidpointFails(c)
  BY <1>a, <1>5 DEF StartTask, Midpoint, MidpointFails, Local, TeleportTypeOK
<1>6. CASE Arrive(c) \/ Complete(c) \/ End(c)
  BY <1>a, <1>6 DEF Arrive, Complete, End, NoJump, Local, TeleportTypeOK
<1>7. CASE BeginDisconnect(c)
  BY <1>a, <1>7 DEF BeginDisconnect, NoJump, Local, TeleportTypeOK
<1>8. CASE FinishDisconnect(c)
  BY <1>a, <1>8 DEF FinishDisconnect, Local, TeleportTypeOK
<1>9. ASSUME NEW s \in Shaft \cup Landing, Carry(c, s) PROVE Local(c)'
  BY <1>a, <1>9 DEF Carry, Local
<1>10. QED
  BY <1>1, <1>2, <1>3, <1>4, <1>5, <1>6, <1>7, <1>8, <1>9 DEF Act, Transition

\* After a restart nobody is in a transition or an elevator.
LEMMA TInvRestart ==
    ASSUME TInv, ServerRestarts
    PROVE  TInv'
<1>1. NoJump \in [pc : JumpPC, dest : OnFloor \cup {Nowhere}]
  BY DEF NoJump, JumpPC
<1>2. TeleportTypeOK'
  BY <1>1 DEF ServerRestarts, TInv, TeleportTypeOK
<1>3. \A c \in Client : Local(c)'
  BY DEF ServerRestarts, NoJump, Local
<1>4. QED
  BY <1>2, <1>3 DEF TInv

LEMMA TInvNext == TInv /\ [TeleportNext]_tvars => TInv'
<1> SUFFICES ASSUME TInv, [TeleportNext]_tvars PROVE TInv'
  OBVIOUS
<1>1. CASE UNCHANGED tvars
  BY <1>1 DEF TInv, TeleportTypeOK, Local, tvars
<1>2. ASSUME NEW c \in Client, Act(c) PROVE TInv'
  <2>1. TeleportTypeOK'
    BY <1>2, TeleportTypeNext
  <2>2. ASSUME NEW e \in Client, e # c PROVE Local(e)'
    BY <1>2, <2>2, Frame DEF TInv, Local
  <2>3. QED
    BY <1>2, <2>1, <2>2, LocalNext DEF TInv
<1>3. QED
  BY <1>1, <1>2, TInvRestart DEF TeleportNext, Act

LEMMA TeleportInvariant == TeleportSpec => []TInv
BY TeleportInvInit, TInvNext, PTL DEF TeleportSpec

-----------------------------------------------------------------------------
(* The theorems.                                                           *)

\* Every variable keeps its type: no client is ever out of the world.
THEOREM TeleportTypes == TeleportSpec => []TeleportTypeOK
BY TeleportInvariant, PTL DEF TInv

\* A transition and an elevator ride exclude each other, for every order of a
\* client's uses, moves and disconnect.
THEOREM OneMoverAtATime == TeleportSpec => []OneMover
<1>1. TInv => OneMover
  BY DEF TInv, Local, OneMover
<1>2. QED
  BY <1>1, TeleportInvariant, PTL

\* A reservation always has a start or a task that will release it.
THEOREM ReservationHasTask == TeleportSpec => []Reserved
<1>1. TInv => Reserved
  BY DEF TInv, Local, Reserved
<1>2. QED
  BY <1>1, TeleportInvariant, PTL

\* Reservations, tasks and rides belong together, for every client and every
\* order of uses, failures and disconnects.
THEOREM TransitionsAreConsistent == TeleportSpec => []TransitionsConsistent
BY TeleportTypes, OneMoverAtATime, ReservationHasTask, PTL DEF TransitionsConsistent

\* A browser whose keys are blocked will be told of the end of the transition.
THEOREM BlockedOnlyInTransition == TeleportSpec => []ScreenReleased
<1>1. TInv => ScreenReleased
  BY DEF TInv, Local, ScreenReleased
<1>2. QED
  BY <1>1, TeleportInvariant, PTL

\* Nothing but the transition's task moves a client in transition.
THEOREM OnlyTheTaskMoves == TeleportSpec => MovesOnlyToDestination
<1>1. ASSUME TInv, NEW c \in Client, Act(c)
      PROVE  \A e \in Client : active[e] /\ pos'[e] # pos[e] => pos'[e] = jump[e].dest
  <2> SUFFICES ASSUME NEW e \in Client, active[e], pos'[e] # pos[e]
               PROVE  pos'[e] = jump[e].dest
    OBVIOUS
  <2>1. e = c
    BY <1>1, Frame DEF TInv
  <2>2. ~rides[c] /\ status[c] = "in"
    BY <1>1, <2>1 DEF TInv, Local
  <2>3. QED
    BY <1>1, <2>1, <2>2
    DEF Act, Transition, Join, Walk, Walked, Enter, Exit, Begin, StartTask, Midpoint,
        MidpointFails, Arrive, Complete, End, BeginDisconnect, FinishDisconnect, Carry,
        TInv, TeleportTypeOK
<1>2. TInv /\ [TeleportNext]_tvars =>
          [\A c \in Client : active[c] /\ pos'[c] # pos[c] => pos'[c] = jump[c].dest]_tvars
  <2>1. ServerRestarts =>
            \A c \in Client : active[c] /\ pos'[c] # pos[c] => pos'[c] = jump[c].dest
    BY DEF ServerRestarts
  <2>2. QED
    BY <1>1, <2>1 DEF TeleportNext, Act
<1>3. QED
  BY <1>2, TeleportInvariant, PTL DEF TeleportSpec, MovesOnlyToDestination

-----------------------------------------------------------------------------
(* CarriedItems. *)

ClientStep(c) ==
    \/ Plain(c) \/ WalkWith(c) \/ WalkedWith(c) \/ JumpWith(c) \/ ArriveWith(c)
    \/ CarryWith(c) \/ LiftCancelled(c) \/ BeginDisconnectWith(c)

\* An item that does not exist yet is nobody's.
UnbornFree == \A i \in Item : life[i] = "unborn" => carrier[i] = NoOne

CInv == TypeOK /\ NoOrphan /\ UnbornFree

\* Every step of a client is a step of Teleport or leaves its state alone.
LEMMA StepMoves == [Next]_vars => [TeleportNext]_tvars
<1> SUFFICES ASSUME [Next]_vars PROVE [TeleportNext]_tvars
  OBVIOUS
<1>1. CASE UNCHANGED vars
  BY <1>1 DEF vars
<1>2. ASSUME NEW c \in Client, Move(c) PROVE [TeleportNext]_tvars
  <2>1. CASE Plain(c) \/ WalkWith(c) \/ WalkedWith(c) \/ JumpWith(c) \/ ArriveWith(c)
             \/ BeginDisconnectWith(c) \/ FinishDisconnectWith(c) \/ FinishDisconnectFails(c)
    BY <2>1 DEF Plain, WalkWith, WalkedWith, JumpWith, ArriveWith, BeginDisconnectWith,
                FinishDisconnectWith, FinishDisconnectFails, TeleportNext, Transition
  <2>2. CASE CarryWith(c)
    BY <2>2 DEF CarryWith, TeleportNext
  <2>3. CASE LiftCancelled(c)
    BY <2>3 DEF LiftCancelled
  <2>4. QED
    BY <1>2, <2>1, <2>2, <2>3 DEF Move
<1>3. ASSUME NEW c \in Client, Handle(c) PROVE UNCHANGED tvars
  BY <1>3 DEF Handle, Add, Pickup, Drop, Delete, Hand
<1>4. ASSUME NEW m \in Mover, SyncStarts(m) \/ SyncGoesOn(m) PROVE UNCHANGED tvars
  BY <1>4 DEF SyncStarts, SyncGoesOn
<1>5. RestartWith => [TeleportNext]_tvars
  BY DEF RestartWith, TeleportNext
<1>6. QED
  BY <1>1, <1>2, <1>3, <1>4, <1>5 DEF Next

\* What holds of Teleport's clients holds here.
LEMMA CarryTInv == Spec => []TInv
<1>1. Init => TeleportInit
  BY DEF Init
<1>2. QED
  BY <1>1, StepMoves, TeleportInvariant, PTL DEF Spec, TeleportSpec

-----------------------------------------------------------------------------
(* Types, and the hands that hold the items.                               *)

LEMMA CarryInvInit == Init => CInv
BY SquareFacts, CarryAssumption
DEF Init, TeleportInit, CInv, TypeOK, TeleportTypeOK, NoOrphan, UnbornFree, Alive, Off,
    NoJump, JumpPC

\* A turn of a loop keeps the types, and who holds what.
LEMMA TurnFacts ==
    ASSUME TypeOK, NEW m \in Mover, NEW todo \in SUBSET Item, NEW here \in Square,
           Turn(m, todo, here)
    PROVE  /\ life' = life /\ carrier' = carrier
           /\ at' \in [Item -> Square]
           /\ shown' \in [Item -> BOOLEAN]
           /\ sync' \in [Mover -> [on : {"off", "due", "loop"}, todo : SUBSET Item]]
<1>1. CASE todo = {} /\ sync' = [sync EXCEPT ![m] = Off] /\ UNCHANGED ivars
  BY <1>1 DEF TypeOK, ivars, Off
<1>2. ASSUME NEW i \in todo,
             sync' = [sync EXCEPT ![m] = Loop(todo \ {i})],
             at' = IF m[2] = "leave" THEN at ELSE [at EXCEPT ![i] = here],
             shown' = [shown EXCEPT ![i] = TRUE],
             UNCHANGED <<life, carrier>>
      PROVE  /\ life' = life /\ carrier' = carrier
             /\ at' \in [Item -> Square]
             /\ shown' \in [Item -> BOOLEAN]
             /\ sync' \in [Mover -> [on : {"off", "due", "loop"}, todo : SUBSET Item]]
  <2>1. Loop(todo \ {i}) \in [on : {"off", "due", "loop"}, todo : SUBSET Item]
    BY DEF Loop
  <2>2. QED
    BY <1>2, <2>1 DEF TypeOK
<1>3. QED
  BY <1>1, <1>2 DEF Turn

LEMMA MoverFacts ==
    ASSUME NEW c \in Client
    PROVE  /\ <<c, "walk">> \in Mover /\ <<c, "jump">> \in Mover
           /\ <<c, "lift">> \in Mover /\ <<c, "leave">> \in Mover
BY DEF Mover

LEMMA SyncRecords ==
    /\ Off \in [on : {"off", "due", "loop"}, todo : SUBSET Item]
    /\ Due \in [on : {"off", "due", "loop"}, todo : SUBSET Item]
    /\ \A T \in SUBSET Item : Loop(T) \in [on : {"off", "due", "loop"}, todo : SUBSET Item]
BY DEF Off, Due, Loop

\* The items' part of TypeOK.
ItemTypes ==
    /\ life \in [Item -> {"unborn", "alive", "deleted"}]
    /\ carrier \in [Item -> Client \cup {NoOne}]
    /\ at \in [Item -> Square]
    /\ shown \in [Item -> BOOLEAN]
    /\ sync \in [Mover -> [on : {"off", "due", "loop"}, todo : SUBSET Item]]

LEMMA ItemTypesNext ==
    ASSUME TypeOK, TeleportTypeOK', [Next]_vars
    PROVE  ItemTypes'
<1> USE SyncRecords, MoverFacts
<1>0. ItemTypes
  BY DEF TypeOK, ItemTypes
<1>1. CASE UNCHANGED vars
  BY <1>1 DEF vars, ivars, TypeOK, ItemTypes
<1>2. ASSUME NEW c \in Client, Move(c) PROVE ItemTypes'
  <2>1. CASE Plain(c)
    BY <2>1 DEF Plain, ivars, TypeOK, ItemTypes
  <2>2. CASE WalkWith(c) \/ JumpWith(c)
    BY <1>0, <2>2, ZenonT(60) DEF WalkWith, JumpWith, ivars, ItemTypes
  <2>3. CASE WalkedWith(c) \/ ArriveWith(c)
    BY <2>3 DEF WalkedWith, ArriveWith, ivars, TypeOK, ItemTypes
  <2>4. CASE CarryWith(c)
    <3>1. ASSUME NEW s \in Shaft, Turn(<<c, "lift">>, Carried(c), s) PROVE ItemTypes'
      <4>1. s \in Square /\ Carried(c) \in SUBSET Item
        BY SquareFacts DEF Carried, Alive
      <4>2. QED
        BY <3>1, <4>1, TurnFacts DEF TypeOK, ItemTypes
    <3>2. CASE sync' = [sync EXCEPT ![<<c, "lift">>] = Due] /\ UNCHANGED ivars
      BY <3>2 DEF ivars, TypeOK, ItemTypes
    <3>3. QED
      BY <2>4, <3>1, <3>2 DEF CarryWith
  <2>5. CASE LiftCancelled(c)
    BY <1>0, <2>5 DEF LiftCancelled, ivars, ItemTypes
  <2>9. CASE BeginDisconnectWith(c)
    <3>1. sync' \in [Mover -> [on : {"off", "due", "loop"}, todo : SUBSET Item]]
      BY <1>0, <2>9 DEF BeginDisconnectWith, ItemTypes
    <3>2. QED
      BY <1>0, <2>9, <3>1 DEF BeginDisconnectWith, ivars, ItemTypes
  <2>6. CASE FinishDisconnectWith(c)
    <3>1. pos'[c] \in Square
      BY DEF TeleportTypeOK
    <3>2. ASSUME NEW i \in Carried(c),
                 sync' = [sync EXCEPT ![<<c, "leave">>] = Loop(Carried(c) \ {i})]
          PROVE  sync' \in [Mover -> [on : {"off", "due", "loop"}, todo : SUBSET Item]]
      <4>1. Carried(c) \ {i} \in SUBSET Item
        BY DEF Carried, Alive
      <4>2. QED
        BY <3>2, <4>1 DEF TypeOK
    <3>3. QED
      BY <2>6, <3>1, <3>2 DEF FinishDisconnectWith, TypeOK, ItemTypes
  <2>7. CASE FinishDisconnectFails(c)
    BY <2>7 DEF FinishDisconnectFails, ivars, TypeOK, ItemTypes
  <2>8. QED
    BY <1>2, <2>1, <2>2, <2>3, <2>4, <2>5, <2>6, <2>7, <2>9 DEF Move
<1>3. ASSUME NEW c \in Client, Handle(c) PROVE ItemTypes'
  <2>1. pos \in [Client -> Square]
    BY DEF TypeOK, TeleportTypeOK
  <2>2. ASSUME NEW i \in Item, Add(c, i) \/ Pickup(c, i) \/ Drop(c, i) \/ Delete(c, i)
        PROVE  ItemTypes'
    <3>1. CASE Add(c, i)
      BY <2>1, <3>1 DEF Add, TypeOK, ItemTypes
    <3>2. CASE Pickup(c, i)
      BY <2>1, <3>2 DEF Pickup, TypeOK, ItemTypes
    <3>3. CASE Drop(c, i)
      BY <2>1, <3>3 DEF Drop, TypeOK, ItemTypes
    <3>4. CASE Delete(c, i)
      BY <2>1, <3>4 DEF Delete, TypeOK, ItemTypes
    <3>5. QED
      BY <2>2, <3>1, <3>2, <3>3, <3>4
  <2>3. ASSUME NEW i \in Item, NEW d \in Client, Hand(c, d, i) PROVE ItemTypes'
    BY <2>1, <2>3 DEF Hand, TypeOK, ItemTypes
  <2>4. QED
    BY <1>3, <2>2, <2>3 DEF Handle
<1>4. ASSUME NEW m \in Mover, SyncStarts(m) \/ SyncGoesOn(m) PROVE ItemTypes'
  <2>1. m[1] \in Client
    BY DEF Mover
  <2>2. /\ pos[m[1]] \in Square /\ Carried(m[1]) \in SUBSET Item
        /\ sync[m].todo \in SUBSET Item
    BY <2>1 DEF TypeOK, TeleportTypeOK, Carried, Alive
  <2>3. QED
    BY <1>4, <2>2, TurnFacts DEF SyncStarts, SyncGoesOn, TypeOK, ItemTypes
<1>5. CASE RestartWith
  BY <1>5 DEF RestartWith, LoadState, ItemTypes
<1>6. QED
  BY <1>1, <1>2, <1>3, <1>4, <1>5 DEF Next

Gone == {c \in Client : status[c] = "gone"}

\* Nobody comes back, and only a failed clean-up adds to those who are lost.
LEMMA LostAreGone ==
    ASSUME TypeOK, [Next]_vars
    PROVE  lost' \in SUBSET Gone'
<1>1. lost \subseteq Gone
  BY DEF TypeOK, Gone
<1>2. ASSUME NEW c \in Client,
             \/ status' = status
             \/ /\ status[c] # "gone"
                /\ \E st \in {"in", "leaving", "gone"} : status' = [status EXCEPT ![c] = st]
      PROVE  Gone \subseteq Gone'
  BY <1>2 DEF Gone, TypeOK, TeleportTypeOK
<1>3. ASSUME NEW c \in Client, Plain(c) PROVE Gone \subseteq Gone' /\ lost' = lost
  <2>1. lost' = lost
    BY <1>3 DEF Plain
  <2>2. \/ status' = status
        \/ status[c] = "new" /\ status' = [status EXCEPT ![c] = "in"]
    <3>1. CASE Join(c)
      BY <3>1 DEF Join
    <3>2. ASSUME NEW d \in Square \cup {Nowhere}, Begin(c, d) PROVE status' = status
      BY <3>2 DEF Begin
    <3>3. CASE Enter(c) \/ Exit(c) \/ StartTask(c) \/ MidpointFails(c) \/ Complete(c) \/ End(c)
      BY <3>3 DEF Enter, Exit, StartTask, MidpointFails, Complete, End
    <3>4. QED
      BY <1>3, <3>1, <3>2, <3>3 DEF Plain
  <2>3. QED
    BY <1>2, <2>1, <2>2
<1>4. ASSUME NEW c \in Client, Move(c), ~Plain(c) PROVE lost' \in SUBSET Gone'
  <2>1. CASE WalkWith(c) \/ WalkedWith(c) \/ JumpWith(c) \/ ArriveWith(c)
             \/ CarryWith(c) \/ LiftCancelled(c)
    <3>1. status' = status /\ lost' = lost
      BY <2>1 DEF WalkWith, WalkedWith, JumpWith, ArriveWith, CarryWith, LiftCancelled, Walk,
                  Walked, Midpoint, Arrive, Carry, tvars
    <3>2. QED
      BY <1>1, <3>1 DEF Gone
  <2>2. CASE BeginDisconnectWith(c)
    <3>1. status[c] = "in" /\ status' = [status EXCEPT ![c] = "leaving"] /\ lost' = lost
      BY <2>2 DEF BeginDisconnectWith, BeginDisconnect
    <3>2. QED
      BY <1>1, <1>2, <3>1
  <2>3. CASE FinishDisconnectWith(c) \/ FinishDisconnectFails(c)
    <3>1. status[c] = "leaving" /\ status' = [status EXCEPT ![c] = "gone"]
      BY <2>3 DEF FinishDisconnectWith, FinishDisconnectFails, FinishDisconnect
    <3>2. Gone \subseteq Gone' /\ c \in Gone'
      BY <1>2, <3>1 DEF Gone, TypeOK, TeleportTypeOK
    <3>3. lost' \subseteq lost \cup {c}
      BY <2>3 DEF FinishDisconnectWith, FinishDisconnectFails
    <3>4. QED
      BY <1>1, <3>2, <3>3
  <2>4. QED
    BY <1>4, <2>1, <2>2, <2>3 DEF Move
<1>5. ASSUME NEW c \in Client, Handle(c) PROVE status' = status /\ lost' = lost
  BY <1>5 DEF Handle, Add, Pickup, Drop, Delete, Hand, tvars
<1>6. ASSUME NEW m \in Mover, SyncStarts(m) \/ SyncGoesOn(m)
      PROVE  status' = status /\ lost' = lost
  BY <1>6 DEF SyncStarts, SyncGoesOn, tvars
<1>7. RestartWith => lost' = {}
  BY DEF RestartWith
<1>8. UNCHANGED vars => status' = status /\ lost' = lost
  BY DEF vars, tvars
<1>9. status' = status /\ lost' = lost => lost' \in SUBSET Gone'
  BY <1>1 DEF Gone
<1>10. QED
  BY <1>1, <1>3, <1>4, <1>5, <1>6, <1>7, <1>8, <1>9 DEF Next

\* The steps other than the handlers and the end of a disconnect leave every
\* item with its holder, and no holder's connection ends in them.
LEMMA HoldersStay ==
    ASSUME TypeOK, NEW c \in Client, ClientStep(c)
    PROVE  /\ life' = life /\ carrier' = carrier /\ lost' = lost
           /\ \A e \in Client : status[e] \in {"in", "leaving"} =>
                                   status'[e] \in {"in", "leaving"}
<1> USE DEF TypeOK, TeleportTypeOK
<1>1. CASE Plain(c)
  BY <1>1 DEF Plain, ivars, Join, Enter, Exit, Begin, StartTask, MidpointFails, Complete, End
<1>2. CASE WalkWith(c) \/ WalkedWith(c)
  BY <1>2 DEF WalkWith, WalkedWith, ivars, Walk, Walked
<1>3. CASE JumpWith(c) \/ ArriveWith(c)
  BY <1>3 DEF JumpWith, ArriveWith, ivars, Midpoint, Arrive
<1>4. CASE CarryWith(c)
  BY <1>4 DEF CarryWith, ivars, Carry, Turn
<1>5. CASE LiftCancelled(c)
  BY <1>5 DEF LiftCancelled, ivars, tvars
<1>6. CASE BeginDisconnectWith(c)
  BY <1>6 DEF BeginDisconnectWith, BeginDisconnect, ivars
<1>7. QED
  BY <1>1, <1>2, <1>3, <1>4, <1>5, <1>6 DEF ClientStep

LEMMA HoldersNext ==
    ASSUME CInv, [Next]_vars
    PROVE  NoOrphan' /\ UnbornFree'
<1> USE CarryAssumption DEF CInv
<1>1. CASE UNCHANGED vars
  BY <1>1 DEF vars, tvars, ivars, NoOrphan, UnbornFree, Alive
<1>2. ASSUME NEW c \in Client, ClientStep(c) PROVE NoOrphan' /\ UnbornFree'
  BY <1>2, HoldersStay DEF NoOrphan, UnbornFree, Alive, TypeOK
<1>3. ASSUME NEW c \in Client, FinishDisconnectWith(c) PROVE NoOrphan' /\ UnbornFree'
  BY <1>3 DEF FinishDisconnectWith, FinishDisconnect, NoOrphan, UnbornFree, Alive, Carried,
              TypeOK, TeleportTypeOK
<1>7. ASSUME NEW c \in Client, FinishDisconnectFails(c) PROVE NoOrphan' /\ UnbornFree'
  BY <1>7 DEF FinishDisconnectFails, FinishDisconnect, ivars, NoOrphan, UnbornFree, Alive,
              TypeOK, TeleportTypeOK
<1>8. ASSUME RestartWith PROVE NoOrphan' /\ UnbornFree'
  BY <1>8 DEF RestartWith, LoadState, NoOrphan, UnbornFree, Alive
<1>4. ASSUME NEW c \in Client, Handle(c) PROVE NoOrphan' /\ UnbornFree'
  <2>1. ASSUME NEW i \in Item, Add(c, i) \/ Drop(c, i) \/ Delete(c, i)
        PROVE  NoOrphan' /\ UnbornFree'
    BY <2>1 DEF Add, Drop, Delete, NoOrphan, UnbornFree, Alive, Carried, TypeOK, tvars
  <2>2. ASSUME NEW i \in Item, Pickup(c, i) PROVE NoOrphan' /\ UnbornFree'
    BY <2>2 DEF Pickup, Ready, NoOrphan, UnbornFree, Alive, TypeOK, tvars
  <2>3. ASSUME NEW i \in Item, NEW d \in Client, Hand(c, d, i) PROVE NoOrphan' /\ UnbornFree'
    BY <2>3 DEF Hand, Roster, NoOrphan, UnbornFree, Alive, Carried, TypeOK, tvars
  <2>4. QED
    BY <1>4, <2>1, <2>2, <2>3 DEF Handle
<1>5. ASSUME NEW m \in Mover, SyncStarts(m) \/ SyncGoesOn(m) PROVE NoOrphan' /\ UnbornFree'
  BY <1>5 DEF SyncStarts, SyncGoesOn, Turn, ivars, tvars, NoOrphan, UnbornFree, Alive
<1>6. QED
  BY <1>1, <1>2, <1>3, <1>4, <1>5, <1>7, <1>8 DEF Next, Move, ClientStep

LEMMA CarryInvariant == Spec => []CInv
<1>1. CInv /\ TInv' /\ [Next]_vars => CInv'
  BY ItemTypesNext, LostAreGone, HoldersNext DEF CInv, ItemTypes, TypeOK, TInv, Gone
<1>2. QED
  BY <1>1, CarryInvInit, CarryTInv, PTL DEF Spec

\* Every variable keeps its type: no item is ever out of the world, whatever
\* place a drop names and wherever a loop puts it.
THEOREM CarryTypes == Spec => []TypeOK
BY CarryInvariant, PTL DEF CInv

\* An item is in the hands of a connection that will still drop it, or of one
\* whose clean-up a failed save has ended, in any order of pickups, handovers,
\* deletions, disconnects, failures and restarts.
THEOREM NobodyGoneCarries == Spec => []NoOrphan
BY CarryInvariant, PTL DEF CInv

\* Items and hands belong together, for any number of clients and items.
THEOREM HandsAreConsistent == Spec => []HandsConsistent
BY CarryTypes, NobodyGoneCarries, PTL DEF HandsConsistent

-----------------------------------------------------------------------------
(* Capacity.                                                               *)

LEMMA CarriedFinite == \A c \in Client : IsFiniteSet(Carried(c))
<1>1. \A c \in Client : Carried(c) \subseteq Item
  BY DEF Carried, Alive
<1>2. QED
  BY <1>1, FS_Subset, CarryAssumption

\* Taking nothing more keeps a client within its capacity.
LEMMA Lighter ==
    ASSUME NEW e \in Client, Cardinality(Carried(e)) <= MaxCarried,
           Carried(e)' \subseteq Carried(e)
    PROVE  Cardinality(Carried(e)') <= MaxCarried
<1>1. IsFiniteSet(Carried(e))
  BY CarriedFinite
<1>2. IsFiniteSet(Carried(e)') /\ Cardinality(Carried(e)') <= Cardinality(Carried(e))
  BY <1>1, FS_Subset
<1>3. Cardinality(Carried(e)) \in Nat /\ Cardinality(Carried(e)') \in Nat
  BY <1>1, <1>2, FS_CardinalityType
<1>4. QED
  BY <1>2, <1>3, CarryAssumption

\* Nor does taking one item with a slot left for it.
LEMMA OneMore ==
    ASSUME NEW e \in Client, NEW i \in Item,
           Cardinality(Carried(e) \ {i}) < MaxCarried,
           Carried(e)' \subseteq Carried(e) \cup {i}
    PROVE  Cardinality(Carried(e)') <= MaxCarried
<1> DEFINE R == Carried(e) \ {i}
<1>1. IsFiniteSet(R)
  BY CarriedFinite, FS_Subset
<1>2. i \notin R /\ Carried(e)' \subseteq R \cup {i}
  OBVIOUS
<1>3. IsFiniteSet(R \cup {i}) /\ Cardinality(R \cup {i}) = Cardinality(R) + 1
  BY <1>1, <1>2, FS_AddElement
<1>4. IsFiniteSet(Carried(e)') /\ Cardinality(Carried(e)') <= Cardinality(R \cup {i})
  BY <1>2, <1>3, FS_Subset
<1>5. Cardinality(R) \in Nat /\ Cardinality(Carried(e)') \in Nat
  BY <1>1, <1>4, FS_CardinalityType
<1>6. QED
  BY <1>3, <1>4, <1>5, CarryAssumption

LEMMA CapacityNext ==
    ASSUME CInv, Capacity, [Next]_vars
    PROVE  Capacity'
<1> USE CarryAssumption DEF CInv
<1> SUFFICES ASSUME NEW e \in Client PROVE Cardinality(Carried(e)') <= MaxCarried
  BY DEF Capacity
<1>1. CASE Carried(e)' \subseteq Carried(e)
  BY <1>1, Lighter DEF Capacity
<1>2. ASSUME NEW c \in Client, NEW i \in Item, Pickup(c, i)
      PROVE  Cardinality(Carried(e)') <= MaxCarried
  <2>1. CASE e = c /\ carrier[i] = NoOne
    <3>1. i \notin Carried(e) /\ Carried(e)' \subseteq Carried(e) \cup {i}
      BY <1>2, <2>1 DEF Pickup, Carried, Alive, TypeOK
    <3>2. Carried(e) \ {i} = Carried(e) /\ Cardinality(Carried(e)) < MaxCarried
      BY <1>2, <2>1, <3>1 DEF Pickup
    <3>3. QED
      BY <3>1, <3>2, OneMore
  <2>2. CASE ~(e = c /\ carrier[i] = NoOne)
    BY <1>1, <1>2, <2>2 DEF Pickup, Carried, Alive, TypeOK
  <2>3. QED
    BY <2>1, <2>2
<1>3. ASSUME NEW c \in Client, NEW d \in Client, NEW i \in Item, Hand(c, d, i)
      PROVE  Cardinality(Carried(e)') <= MaxCarried
  <2>1. CASE e = d
    <3>1. Carried(e)' \subseteq Carried(e) \cup {i}
      BY <1>3, <2>1 DEF Hand, Carried, Alive, TypeOK
    <3>2. QED
      BY <1>3, <2>1, <3>1, OneMore DEF Hand
  <2>2. CASE e # d
    BY <1>1, <1>3, <2>2 DEF Hand, Carried, Alive, TypeOK
  <2>3. QED
    BY <2>1, <2>2
<1>4. ASSUME NEW c \in Client, NEW i \in Item, Add(c, i) \/ Drop(c, i) \/ Delete(c, i)
      PROVE  Cardinality(Carried(e)') <= MaxCarried
  BY <1>1, <1>4 DEF Add, Drop, Delete, Carried, Alive, TypeOK, UnbornFree
<1>5. ASSUME NEW c \in Client, ClientStep(c)
      PROVE  Cardinality(Carried(e)') <= MaxCarried
  BY <1>1, <1>5, HoldersStay DEF Carried, Alive
<1>6. ASSUME NEW c \in Client, FinishDisconnectWith(c)
      PROVE  Cardinality(Carried(e)') <= MaxCarried
  BY <1>1, <1>6 DEF FinishDisconnectWith, Carried, Alive, TypeOK
<1>10. ASSUME NEW c \in Client, FinishDisconnectFails(c)
      PROVE  Cardinality(Carried(e)') <= MaxCarried
  BY <1>1, <1>10 DEF FinishDisconnectFails, ivars, Carried, Alive
<1>11. ASSUME RestartWith PROVE Cardinality(Carried(e)') <= MaxCarried
  BY <1>1, <1>11 DEF RestartWith, LoadState, Carried, Alive
<1>7. ASSUME NEW m \in Mover, SyncStarts(m) \/ SyncGoesOn(m)
      PROVE  Cardinality(Carried(e)') <= MaxCarried
  BY <1>1, <1>7 DEF SyncStarts, SyncGoesOn, Turn, ivars, Carried, Alive
<1>8. CASE UNCHANGED vars
  BY <1>1, <1>8 DEF vars, ivars, Carried, Alive
<1>9. QED
  BY <1>2, <1>3, <1>4, <1>5, <1>6, <1>7, <1>8, <1>10, <1>11 DEF Next, Move, Handle, ClientStep

\* Nobody ever holds more than max_carried_items, whoever hands it things while
\* it picks up others.
THEOREM HandsNeverOverfull == Spec => []Capacity
<1>1. Init => Capacity
  <2> SUFFICES ASSUME Init, NEW c \in Client PROVE Cardinality(Carried(c)) <= MaxCarried
    BY DEF Capacity
  <2>1. Carried(c) = {}
    BY CarryAssumption DEF Init, Carried, Alive
  <2>2. QED
    BY <2>1, FS_EmptySet, CarryAssumption
<1>2. CInv /\ Capacity /\ [Next]_vars => Capacity'
  BY CapacityNext
<1>3. QED
  BY <1>1, <1>2, CarryInvariant, PTL DEF Spec
=============================================================================
