-------------------------------- MODULE Lift --------------------------------
(***************************************************************************)
(* What an elevator promises to the landings it serves: a car that is on a *)
(* floor, with its door open or shut, or sent to the other floor with its  *)
(* door shut.  A car that was sent away from an open door may still be     *)
(* called off; once that is over it is sure to leave.  Only a start of the *)
(* server puts the car anywhere else.  Elevator implements it.             *)
(***************************************************************************)
EXTENDS Integers

CONSTANTS Ground, Upper

Floors  == {Ground, Upper}
NoFloor == -1

VARIABLES floor,  \* the last landing the car completed
          open,   \* the door can be walked through
          dest,   \* the landing the car was sent to, or NoFloor
          sure,   \* nothing calls the car off any more
          up      \* the server runs

vars == <<floor, open, dest, sure, up>>

Init == floor = Ground /\ open = FALSE /\ dest = NoFloor /\ sure = FALSE /\ up = TRUE

\* The car is sent to another floor; a door still open shuts with it.
Send(f) ==
    /\ up /\ dest = NoFloor /\ f # floor
    /\ dest' = f /\ open' = FALSE /\ sure' \in BOOLEAN
    /\ UNCHANGED <<floor, up>>

Commit ==
    /\ dest # NoFloor /\ ~sure
    /\ sure' = TRUE
    /\ UNCHANGED <<floor, open, dest, up>>

CallOff ==
    /\ dest # NoFloor /\ ~sure
    /\ dest' = NoFloor
    /\ UNCHANGED <<floor, open, sure, up>>

Arrive ==
    /\ dest # NoFloor /\ sure
    /\ floor' = dest /\ dest' = NoFloor /\ sure' = FALSE
    /\ UNCHANGED <<open, up>>

Open ==
    /\ up /\ dest = NoFloor /\ ~open
    /\ open' = TRUE
    /\ UNCHANGED <<floor, dest, sure, up>>

Close ==
    /\ open
    /\ open' = FALSE
    /\ UNCHANGED <<floor, dest, sure, up>>

\* Nobody walks through the door or is carried anywhere without the server.
Stop ==
    /\ up' = FALSE
    /\ open' = FALSE /\ dest' = NoFloor /\ sure' = FALSE
    /\ UNCHANGED floor

\* The server loads the car from its file, at some landing.
Start(f) ==
    /\ ~up
    /\ up' = TRUE /\ floor' = f
    /\ UNCHANGED <<open, dest, sure>>

Next ==
    \/ \E f \in Floors : Send(f) \/ Start(f)
    \/ Commit \/ CallOff \/ Arrive \/ Open \/ Close \/ Stop

Spec == Init /\ [][Next]_vars
=============================================================================
