------------------------------ MODULE MCWalls ------------------------------
(* Instance of Walls for TLC, in four casts:                               *)
(*   building   edits, saves, restarts and connections; the user stands;   *)
(*   walking    the user walks, over an edit; the server stays up;         *)
(*   moving     the user walks and moves to somebody, on either side of    *)
(*              the wall;                                                  *)
(*   listening  the user hears what any two walls leave of any sound.      *)
(* A step reads the walls and writes positions only, and no edit of a wall *)
(* that exists reads a position, so that each cast has its whole subject.  *)
EXTENDS Walls, TLC

CONSTANTS brick, curtain, MaxBuilt, MaxWalked  \* edits in a behaviour

VARIABLES cast, edits

BlocksDef   == brick :> TRUE @@ curtain :> FALSE
QuartersDef == brick :> 0 @@ curtain :> 2
CutoffDef   == brick :> 0 @@ curtain :> 4

\* Where somebody is whom one can move to.
Spots == {<<0, 0>>, <<2, 1>>}

\* Builders and walkers begin with one wall, in a corner of the grid.
Layout == 1 :> [x |-> 0, y |-> 1, o |-> "horizontal", n |-> 2, preset |-> brick, quarters |-> 0]

MCInit ==
    /\ cast \in {"building", "walking", "moving", "listening"} /\ edits = 0
    /\ Init
    /\ cast # "listening" => srv.walls = Layout /\ srv.pos = <<1, 1>>

MaxEdits == [building |-> MaxBuilt, walking |-> MaxWalked, moving |-> 0, listening |-> 0]
MCNext ==
    /\ \/ /\ edits < MaxEdits[cast] /\ edits' = edits + 1
          /\ Edits
          /\ cast = "walking" => \A i \in DOMAIN srv'.walls :
                srv'.walls[i].preset = brick /\ srv'.walls[i].quarters = 0
       \/ /\ IF cast = "listening" THEN Welcome \/ ReceiveWelcome \/ Disconnect
                                  ELSE Server \/ Browser
          /\ cast \in {"building", "listening"} => \A n \in DOMAIN up' : up'[n].kind = "ready"
          /\ page'.phase = "moving" => cast = "moving" /\ page'.move.to \in Spots
          /\ UNCHANGED edits
       \/ cast = "building" /\ Storage /\ srv'.pos = srv.pos /\ UNCHANGED edits
    /\ UNCHANGED cast
MCSpec == MCInit /\ [][MCNext]_<<vars, cast, edits>>
=============================================================================
