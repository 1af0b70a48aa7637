---------------------------- MODULE CarriedItems ----------------------------
(***************************************************************************)
(* Items in the hands of connected clients.  Whatever moves a client also  *)
(* moves what it carries, in a loop over find_carried_items that awaits    *)
(* one delivery per item; the handlers that pick up, drop, hand over and   *)
(* delete items run between two turns of such a loop.                      *)
(*                                                                         *)
(* Extends Teleport, whose steps move the clients.  Every client may carry *)
(* every item here: permissions are left out.                              *)
(***************************************************************************)
EXTENDS Teleport

CONSTANTS
    Item,         \* the item ids of the run
    NoOne,        \* carrierId is None
    MaxCarried,   \* items.max_carried_items
    Near          \* pairs of squares at most five steps apart

ASSUME CarryAssumption ==
    /\ NoOne \notin Client
    /\ MaxCarried \in Nat \ {0}
    /\ Near \subseteq Square \X Square
    /\ IsFiniteSet(Item)

VARIABLES
    life,      \* "unborn", "alive" (in ItemService.items), "deleted"
    carrier,   \* item.carrierId
    at,        \* item.x, y, z
    shown,     \* the browsers hold a copy of the item
    sync,      \* the loops that deliver a client's carried items
    lost       \* history: whose clean-up a failed save ended, since the start

ivars == <<life, carrier, at, shown>>
vars  == <<tvars, ivars, sync, lost>>

Alive      == {i \in Item : life[i] = "alive"}
Carried(c) == {i \in Alive : carrier[i] = c}

\* A client's handler, its transition's task, the task of its elevator, and
\* its disconnect each run such a loop of their own.
Mover == Client \X {"walk", "jump", "lift", "leave"}
Off   == [on |-> "off",  todo |-> {}]
Due   == [on |-> "due",  todo |-> {}]
Loop(todo) == [on |-> "loop", todo |-> todo]

Init ==
    /\ TeleportInit
    /\ life \in [Item -> {"unborn", "alive"}]
    /\ carrier = [i \in Item |-> NoOne]
    /\ at \in [Item -> OnFloor]
    /\ shown = [i \in Item |-> life[i] = "alive"]
    /\ sync = [m \in Mover |-> Off]
    /\ lost = {}

-----------------------------------------------------------------------------
(* The loops.                                                              *)

\* One turn: the next item of the list is put where the client is now and is
\* delivered, whatever has become of the item since the list was made.
Turn(m, todo, here) ==
    \/ /\ todo = {}
       /\ sync' = [sync EXCEPT ![m] = Off]
       /\ UNCHANGED ivars
    \/ \E i \in todo :
          /\ sync' = [sync EXCEPT ![m] = Loop(todo \ {i})]
          /\ at' = IF m[2] = "leave" THEN at ELSE [at EXCEPT ![i] = here]
          /\ shown' = [shown EXCEPT ![i] = TRUE]
          /\ UNCHANGED <<life, carrier>>

\* sync_carried_items, after the client's own position was delivered.
SyncStarts(m) ==
    /\ sync[m].on = "due"
    /\ Turn(m, Carried(m[1]), pos[m[1]])
    /\ UNCHANGED <<tvars, lost>>

SyncGoesOn(m) ==
    /\ sync[m].on = "loop"
    /\ Turn(m, sync[m].todo, pos[m[1]])
    /\ UNCHANGED <<tvars, lost>>

\* At an open door the elevator's task is cancelled by a use that restarts
\* its cycle, or ends by the rider's save that raises.
LiftCancelled(c) ==
    /\ pos[c] \in Landing
    /\ sync[<<c, "lift">>].on # "off"
    /\ sync' = [sync EXCEPT ![<<c, "lift">>] = Off]
    /\ UNCHANGED <<tvars, ivars, lost>>

-----------------------------------------------------------------------------
(* The steps of Teleport, with what they do to the carried items.          *)

WalkWith(c) ==
    /\ Walk(c)
    /\ sync' = [sync EXCEPT ![<<c, "walk">>] = Due]
    /\ UNCHANGED <<ivars, lost>>

WalkedWith(c) ==
    /\ Walked(c)
    /\ sync[<<c, "walk">>] = Off
    /\ UNCHANGED <<ivars, sync, lost>>

JumpWith(c) ==
    /\ Midpoint(c)
    /\ sync' = [sync EXCEPT ![<<c, "jump">>] = Due]
    /\ UNCHANGED <<ivars, lost>>

ArriveWith(c) ==
    /\ Arrive(c)
    /\ sync[<<c, "jump">>] = Off
    /\ UNCHANGED <<ivars, sync, lost>>

\* _broadcast_travel_position turns to the items at once, _move_occupants
\* after two deliveries.
CarryWith(c) ==
    /\ sync[<<c, "lift">>] = Off
    /\ \/ \E s \in Shaft : Carry(c, s) /\ Turn(<<c, "lift">>, Carried(c), s)
       \/ /\ \E s \in Landing : Carry(c, s)
          /\ sync' = [sync EXCEPT ![<<c, "lift">>] = Due]
          /\ UNCHANGED ivars
    /\ UNCHANGED lost

\* The save that ends a walk's handler comes before its deliveries.
BeginDisconnectWith(c) ==
    /\ BeginDisconnect(c)
    /\ pc[c] = "moving" => sync[<<c, "walk">>] = Due
    /\ sync' = [sync EXCEPT ![<<c, "walk">>] = Off, ![<<c, "jump">>] = Off]
    /\ UNCHANGED <<ivars, lost>>

\* Fault: only what lies at the client's last place is dropped.
FinishDisconnectDropsNear(c) ==
    /\ FinishDisconnect(c)
    /\ carrier' = [i \in Item |-> IF i \in Carried(c) /\ at[i] = pos'[c]
                                 THEN NoOne ELSE carrier[i]]
    /\ UNCHANGED <<life, at, shown, sync, lost>>

\* drop_carried_items_for_disconnect, then one delivery per dropped item, the
\* first at once.
FinishDisconnectWith(c) ==
    /\ FinishDisconnect(c)
    /\ carrier' = [i \in Item |-> IF i \in Carried(c) THEN NoOne ELSE carrier[i]]
    /\ at' = [i \in Item |-> IF i \in Carried(c) THEN pos'[c] ELSE at[i]]
    /\ \/ Carried(c) = {} /\ UNCHANGED sync
       \/ \E i \in Carried(c) :
             sync' = [sync EXCEPT ![<<c, "leave">>] = Loop(Carried(c) \ {i})]
    /\ UNCHANGED <<life, shown, lost>>

\* Saving the last position or the last presence raises: nothing is dropped.
FinishDisconnectFails(c) ==
    /\ FinishDisconnect(c)
    /\ lost' = lost \cup {c}
    /\ UNCHANGED <<ivars, sync>>

\* The items of a file that may be older than the last change: one may be
\* missing, back, or elsewhere.  What was carried lies, on a floor.
LoadState ==
    /\ \E file \in [Item -> {"unborn", "alive", "deleted"}] :
          /\ \A i \in Item : file[i] = "unborn" <=> life[i] = "unborn"
          /\ life' = file
          /\ shown' = [i \in Item |-> file[i] = "alive"]
    /\ \E place \in [Item -> Square] :
          /\ \A i \in Item : carrier[i] # NoOne => place[i] \in OnFloor
          /\ at' = place
    /\ carrier' = [i \in Item |-> NoOne]

RestartWith ==
    /\ ServerRestarts
    /\ LoadState
    /\ sync' = [m \in Mover |-> Off]
    /\ lost' = {}

Plain(c) ==
    /\ \/ Join(c) \/ Enter(c) \/ Exit(c) \/ \E d \in Square \cup {Nowhere} : Begin(c, d)
       \/ StartTask(c) \/ MidpointFails(c) \/ Complete(c) \/ End(c)
    /\ UNCHANGED <<ivars, sync, lost>>

-----------------------------------------------------------------------------
(* The item handlers.  Each changes the item before its first await.       *)

\* default_item at the client's place.
Add(c, i) ==
    /\ Ready(c)
    /\ life[i] = "unborn"
    /\ life' = [life EXCEPT ![i] = "alive"]
    /\ at' = [at EXCEPT ![i] = pos[c]]
    /\ shown' = [shown EXCEPT ![i] = TRUE]
    /\ UNCHANGED <<tvars, carrier, sync, lost>>

\* What one holds already can be picked up again.
Pickup(c, i) ==
    /\ Ready(c)
    /\ i \in Alive
    /\ \/ carrier[i] = c
       \/ carrier[i] = NoOne /\ at[i] = pos[c] /\ Cardinality(Carried(c)) < MaxCarried
    /\ carrier' = [carrier EXCEPT ![i] = c]
    /\ at' = [at EXCEPT ![i] = pos[c]]
    /\ shown' = [shown EXCEPT ![i] = TRUE]
    /\ UNCHANGED <<tvars, life, sync, lost>>

\* The packet names any square of the client's height.
Drop(c, i) ==
    /\ Ready(c)
    /\ i \in Carried(c)
    /\ \E s \in Square : /\ LevelOf[s] = LevelOf[pos[c]]
                         /\ at' = [at EXCEPT ![i] = s]
    /\ carrier' = [carrier EXCEPT ![i] = NoOne]
    /\ shown' = [shown EXCEPT ![i] = TRUE]
    /\ UNCHANGED <<tvars, life, sync, lost>>

\* Fault: the receiver's slots are not counted.
HandToFullHands(c, d, i) ==
    /\ Ready(c)
    /\ i \in Carried(c)
    /\ d \in Roster \ {c}
    /\ LevelOf[pos[d]] = LevelOf[pos[c]] /\ <<pos[c], pos[d]>> \in Near
    /\ carrier' = [carrier EXCEPT ![i] = d]
    /\ at' = [at EXCEPT ![i] = pos[d]]
    /\ shown' = [shown EXCEPT ![i] = TRUE]
    /\ UNCHANGED <<tvars, life, sync, lost>>

\* To another client of the roster on the same floor and near, with a free slot.
Hand(c, d, i) ==
    /\ Ready(c)
    /\ i \in Carried(c)
    /\ d \in Roster \ {c}
    /\ LevelOf[pos[d]] = LevelOf[pos[c]] /\ <<pos[c], pos[d]>> \in Near
    /\ Cardinality(Carried(d) \ {i}) < MaxCarried
    /\ carrier' = [carrier EXCEPT ![i] = d]
    /\ at' = [at EXCEPT ![i] = pos[d]]
    /\ shown' = [shown EXCEPT ![i] = TRUE]
    /\ UNCHANGED <<tvars, life, sync, lost>>

Delete(c, i) ==
    /\ Ready(c)
    /\ i \in Alive
    /\ carrier[i] = c \/ (carrier[i] = NoOne /\ at[i] = pos[c])
    /\ life' = [life EXCEPT ![i] = "deleted"]
    /\ shown' = [shown EXCEPT ![i] = FALSE]
    /\ UNCHANGED <<tvars, carrier, at, sync, lost>>

-----------------------------------------------------------------------------

Move(c) ==
    \/ Plain(c) \/ WalkWith(c) \/ WalkedWith(c) \/ JumpWith(c) \/ ArriveWith(c)
    \/ CarryWith(c) \/ LiftCancelled(c)
    \/ BeginDisconnectWith(c) \/ FinishDisconnectWith(c) \/ FinishDisconnectFails(c)

Handle(c) ==
    \E i \in Item :
        \/ Add(c, i) \/ Pickup(c, i) \/ Drop(c, i) \/ Delete(c, i)
        \/ \E d \in Client : Hand(c, d, i)

Next ==
    \/ \E c \in Client : Move(c) \/ Handle(c)
    \/ \E m \in Mover : SyncStarts(m) \/ SyncGoesOn(m)
    \/ RestartWith

Spec == Init /\ [][Next]_vars

-----------------------------------------------------------------------------
(* Properties.                                                             *)

TypeOK ==
    /\ TeleportTypeOK
    /\ life \in [Item -> {"unborn", "alive", "deleted"}]
    /\ carrier \in [Item -> Client \cup {NoOne}]
    /\ at \in [Item -> Square]
    /\ shown \in [Item -> BOOLEAN]
    /\ sync \in [Mover -> [on : {"off", "due", "loop"}, todo : SUBSET Item]]
    /\ lost \in SUBSET {c \in Client : status[c] = "gone"}

\* Nobody ever holds more than max_carried_items, by pickups of its own and
\* handovers of others, on the floors, in transitions and in elevators.
Capacity == \A c \in Client : Cardinality(Carried(c)) <= MaxCarried

\* carrierId names a connection that will still drop the item, or one whose
\* clean-up a failed save has ended: only such a save leaves an item that
\* nobody can pick up, and only until the server is started again.
NoOrphan ==
    \A i \in Alive : carrier[i] # NoOne =>
        status[carrier[i]] \in {"in", "leaving"} \/ carrier[i] \in lost

\* What item-types.md says: held items drop on disconnect.
DropsOnDisconnect ==
    \A i \in Alive : carrier[i] # NoOne => status[carrier[i]] # "gone"

\* Items and hands belong together: places, hands and loops are well formed,
\* and whoever is gone holds nothing, unless its clean-up failed.
HandsConsistent == TypeOK /\ NoOrphan

\* Between moves, what a client carries is where the client is.
Settled == \A m \in Mover : sync[m] = Off


\* A deleted item stays deleted in the browsers.
NoGhost == Settled => \A i \in Item : life[i] = "deleted" => ~shown[i]
=============================================================================
