------------------------------- MODULE Walls -------------------------------
(***************************************************************************)
(* Walls on the edges of the grid: the server's runs of walls and its      *)
(* index of unit edges (structure_service.py), the builders' requests and  *)
(* the walking of one user (server.py), the file the walls are saved in,   *)
(* and that user's page, which keeps a copy of the walls, predicts every   *)
(* step with it, muffles sounds by it and moves by itself to a person or   *)
(* an item of its lists, through any wall (state/structureGeometry.ts,     *)
(* handleMovement and updateTeleport in main.ts,                           *)
(* network/messageHandlers.ts).                                            *)
(*                                                                         *)
(* `up` and `down` are the two directions of the user's socket.  Builders  *)
(* are whoever may edit; their requests reach the server at any time and   *)
(* name any wall, one just deleted too.  There is one floor: a wall never  *)
(* changes its floor, and nothing here relates two of them.                *)
(***************************************************************************)
EXTENDS Integers, Sequences, FiniteSets, FiniteSetsExt

CONSTANTS
    Size,        \* worldGridSize
    Ids,         \* names for the uuids of walls, used again when forgotten
    Presets,     \* world.structure_presets: their names
    Blocks,      \* preset -> movementBlocked
    Quarters,    \* preset -> soundTransmission, in quarters
    Cutoff,      \* preset -> occlusionLowpassHz, on a scale where half is exact
    OpenAir,     \* OPEN_AIR_LOWPASS_HZ on that scale
    MaxSteps,    \* MOVEMENT_MAX_STEPS_PER_TICK
    Broken,      \* a file that is cut off
    MaxSent, MaxNews  \* bounds: steps not yet answered, edits under way

ASSUME WallsAssumption ==
    /\ Size \in Nat \ {0} /\ MaxSteps = 1
    /\ Blocks \in [Presets -> BOOLEAN] /\ Quarters \in [Presets -> 0 .. 4]
    /\ OpenAir \in Nat /\ Cutoff \in [Presets -> 0 .. OpenAir]
    /\ MaxSent \in Nat \ {0} /\ MaxNews \in Nat \ {0}

VARIABLES srv, page, up, down, missed, unheard

vars == <<srv, page, up, down, missed, unheard>>

Cells      == (0 .. Size - 1) \X (0 .. Size - 1)
Directions == {d \in (-1 .. 1) \X (-1 .. 1) : d # <<0, 0>>}
Orientation == {"horizontal", "vertical"}
Edge == {"horizontal"} \X (0 .. Size - 1) \X (0 .. Size)
          \cup {"vertical"} \X (0 .. Size) \X (0 .. Size - 1)

Abs(n)  == IF n < 0 THEN -n ELSE n
Sign(n) == IF n > 0 THEN 1 ELSE IF n < 0 THEN -1 ELSE 0
Ahead(n) == IF n > 0 THEN 1 ELSE 0   \* the line in front of a cell, going n
Larger(m, n) == IF m > n THEN m ELSE n
Plus(p, d) == <<p[1] + d[1], p[2] + d[2]>>
With(f, S, v) == [x \in S \cup DOMAIN f |-> IF x \in S THEN v ELSE f[x]]

-----------------------------------------------------------------------------
(* Runs of walls and the index of their edges.                             *)

Wall == [x : 0 .. Size, y : 0 .. Size, o : Orientation, n : 1 .. Size,
         preset : Presets, quarters : 0 .. 4]

\* StructureService.wall_edges()
WallEdges(w) ==
    {<<w.o, w.x + IF w.o = "horizontal" THEN k ELSE 0,
            w.y + IF w.o = "vertical" THEN k ELSE 0>> : k \in 0 .. w.n - 1}

\* buildWallEdgeIndex(), and what the server's index should be.
EdgesOf(walls)  == UNION {WallEdges(walls[i]) : i \in DOMAIN walls}
IndexOf(walls) ==
    [e \in EdgesOf(walls) |-> CHOOSE i \in DOMAIN walls : e \in WallEdges(walls[i])]

\* StructureService._insert(), _remove_from_index()
Insert(s, i, w) ==
    [s EXCEPT !.walls = With(@, {i}, w), !.edges = With(@, WallEdges(w), i)]
Unindexed(edges, i, w) ==
    [e \in {f \in DOMAIN edges : ~(f \in WallEdges(w) /\ edges[f] = i)} |-> edges[e]]

\* StructureService._validate_wall(); a new wall has no index entry to exclude.
InWorld(w) ==
    /\ w.x >= 0 /\ w.y >= 0
    /\ IF w.o = "horizontal" THEN w.y <= Size /\ w.x + w.n <= Size
                             ELSE w.x <= Size /\ w.y + w.n <= Size
Fits(s, i, w) ==
    /\ InWorld(w)
    /\ \A e \in WallEdges(w) \cap DOMAIN s.edges : s.edges[e] = i

\* load_state(): the walls of a file, one after the other; none of them when
\* it cannot be read.
Loaded(file) == IF file = Broken THEN <<>> ELSE file

-----------------------------------------------------------------------------
(* Builders' requests: what the handler makes of the server's state.  A    *)
(* refused request leaves it as it is.                                     *)

\* add_wall() for a builder who stands on cell c
Added(s, i, c, dir, preset) ==
    LET w == [x |-> c[1] + IF dir = "east" THEN 1 ELSE 0,
              y |-> c[2] + IF dir = "north" THEN 1 ELSE 0,
              o |-> IF dir \in {"north", "south"} THEN "horizontal" ELSE "vertical",
              n |-> 1, preset |-> preset, quarters |-> Quarters[preset]]
    IN  IF Fits(s, i, w) THEN Insert(s, i, w) ELSE s

(* Fault: the old edges of an edited run are kept. *)
ReplacedUnindexedLate(s, i, w) ==
    IF w.n >= 1 /\ Fits(s, i, w) THEN Insert(s, i, w) ELSE s

\* The common end of resize_wall(), slide_wall() and rotate_wall().
Replaced(s, i, w) ==
    IF w.n >= 1 /\ Fits(s, i, w)
    THEN Insert([s EXCEPT !.edges = Unindexed(@, i, s.walls[i])], i, w)
    ELSE s

Along(w, k)  == IF w.o = "horizontal" THEN [w EXCEPT !.x = @ + k] ELSE [w EXCEPT !.y = @ + k]
Across(w, k) == IF w.o = "horizontal" THEN [w EXCEPT !.y = @ + k] ELSE [w EXCEPT !.x = @ + k]

Resized(s, i, endpoint, delta) ==
    LET w == s.walls[i]
    IN  Replaced(s, i, IF endpoint = "start"
                       THEN [Along(w, delta) EXCEPT !.n = @ - delta]
                       ELSE [w EXCEPT !.n = @ + delta])
Slid(s, i, delta)  == Replaced(s, i, Across(s.walls[i], delta))
Rotated(s, i, o)   == Replaced(s, i, [s.walls[i] EXCEPT !.o = o])

\* update_wall(): a preset and its defaults, or an explicit transmission
Represet(s, i, preset) ==
    [s EXCEPT !.walls[i].preset = preset, !.walls[i].quarters = Quarters[preset]]
Retuned(s, i, quarters) == [s EXCEPT !.walls[i].quarters = quarters]

Removed(s, i) ==
    [s EXCEPT !.edges = Unindexed(@, i, s.walls[i]),
              !.walls = [j \in DOMAIN @ \ {i} |-> @[j]]]

-----------------------------------------------------------------------------
(* Walking, as the server and as the page decide it.                       *)

\* StructureService.walls_crossed_for_move(): the edges, where there are walls.
Crossed(s, p, q) ==
    {e \in DOMAIN s.edges :
        \/ p[1] # q[1] /\ e = <<"vertical", p[1] + Ahead(q[1] - p[1]), p[2]>>
        \/ p[2] # q[2] /\ e = <<"horizontal", p[1], p[2] + Ahead(q[2] - p[2])>>}

\* StructureService.blocking_wall_for_move()
BlockedMove(s, p, q) ==
    LET at(e) == e \in DOMAIN s.edges /\ Blocks[s.walls[s.edges[e]].preset]
        lineX == p[1] + Ahead(q[1] - p[1])  lineY == p[2] + Ahead(q[2] - p[2])
    IN  /\ Abs(q[1] - p[1]) <= 1 /\ Abs(q[2] - p[2]) <= 1
        /\ IF p[1] # q[1] /\ p[2] # q[2]
           THEN /\ at(<<"vertical", lineX, p[2]>>) \/ at(<<"horizontal", q[1], lineY>>)
                /\ at(<<"horizontal", p[1], lineY>>) \/ at(<<"vertical", lineX, q[2]>>)
           ELSE \E e \in Crossed(s, p, q) : at(e)

\* The page's index holds the walls themselves (state/structureGeometry.ts).
PageIndex(walls) == [e \in EdgesOf(walls) |-> walls[IndexOf(walls)[e]]]

\* blockingWallForMove()
Blocking(index, p, q) ==
    LET at(o, x, y) == <<o, x, y>> \in DOMAIN index /\ Blocks[index[<<o, x, y>>].preset]
        dx == q[1] - p[1]  dy == q[2] - p[2]
    IN  /\ Larger(Abs(dx), Abs(dy)) = 1
        /\ \/ dx # 0 /\ at("vertical", p[1] + Ahead(dx), p[2])
           \/ dy # 0 /\ at("horizontal", q[1], p[2] + Ahead(dy))
        /\ \/ dx # 0 /\ at("vertical", p[1] + Ahead(dx), q[2])
           \/ dy # 0 /\ at("horizontal", p[1], p[2] + Ahead(dy))

-----------------------------------------------------------------------------
(* Sounds behind walls: wallAcousticMixBetween() for a listener in cell a  *)
(* and a source in cell b.  The ray crosses the i-th line between columns  *)
(* when (2i-1)/(2 dx) of it is done, the j-th between rows at (2j-1)/(2 dy), *)
(* and a corner of the grid where the two are equal.  A mix is kept as its *)
(* factors: gains in quarters, and in sixteenths where a corner has two.   *)

Columns(a, b) == Abs(b[1] - a[1])
Rows(a, b)    == Abs(b[2] - a[2])
Meet(a, b, i, j) == (2 * i - 1) * Rows(a, b) = (2 * j - 1) * Columns(a, b)

\* The cell of the ray as it comes to the i-th column line, the j-th row line.
AtColumn(a, b, i) ==
    LET rows == Cardinality({j \in 1 .. Rows(a, b) :
                               (2 * j - 1) * Columns(a, b) < (2 * i - 1) * Rows(a, b)})
    IN  <<a[1] + Sign(b[1] - a[1]) * (i - 1), a[2] + Sign(b[2] - a[2]) * rows>>
AtRow(a, b, j) ==
    LET columns == Cardinality({i \in 1 .. Columns(a, b) :
                                  (2 * i - 1) * Rows(a, b) < (2 * j - 1) * Columns(a, b)})
    IN  <<a[1] + Sign(b[1] - a[1]) * columns, a[2] + Sign(b[2] - a[2]) * (j - 1)>>

\* applyWall() of the wall on an edge, with strength 1 or a half: the factor in
\* quarters and the cutoff; a half takes the geometric middle of the cutoffs.
Applied(index, e, half) ==
    IF e \notin DOMAIN index THEN [gain |-> 4, cut |-> OpenAir]
    ELSE LET q == index[e].quarters  c == Cutoff[index[e].preset]
         IN  IF half THEN [gain |-> (4 + q) \div 2, cut |-> (OpenAir + c) \div 2]
                     ELSE [gain |-> q, cut |-> c]

\* cornerSideMix()
CornerSide(index, v, h, otherV, otherH) ==
    LET closed == v \in DOMAIN index /\ h \in DOMAIN index
        V == Applied(index, v, ~(closed \/ otherV \in DOMAIN index))
        H == Applied(index, h, ~(closed \/ otherH \in DOMAIN index))
    IN  [gain |-> V.gain * H.gain, cut |-> Min({V.cut, H.cut})]

(* Fault: only the listener's side of a corner is looked at. *)
CornerMixNear(index, c, dx, dy) ==
    LET v == <<"vertical", c[1] + Ahead(dx), c[2]>>
        h == <<"horizontal", c[1], c[2] + Ahead(dy)>>
        otherV == <<"vertical", c[1] + Ahead(dx), c[2] + dy>>
        otherH == <<"horizontal", c[1] + dx, c[2] + Ahead(dy)>>
    IN  CornerSide(index, v, h, otherV, otherH)

\* The corner the ray leaves cell c through, the stronger side of it.
CornerMix(index, c, dx, dy) ==
    LET v == <<"vertical", c[1] + Ahead(dx), c[2]>>
        h == <<"horizontal", c[1], c[2] + Ahead(dy)>>
        otherV == <<"vertical", c[1] + Ahead(dx), c[2] + dy>>
        otherH == <<"horizontal", c[1] + dx, c[2] + Ahead(dy)>>
        near == CornerSide(index, v, h, otherV, otherH)
        far  == CornerSide(index, otherV, otherH, v, h)
    IN  [gain |-> Min({near.gain, far.gain}), cut |-> Min({near.cut, far.cut})]

Mix(index, a, b) ==
    LET dx == Sign(b[1] - a[1])  dy == Sign(b[2] - a[2])
        column(i) == Applied(index, <<"vertical", AtColumn(a, b, i)[1] + Ahead(dx),
                                      AtColumn(a, b, i)[2]>>, FALSE)
        row(j) == Applied(index, <<"horizontal", AtRow(a, b, j)[1],
                                   AtRow(a, b, j)[2] + Ahead(dy)>>, FALSE)
        is == 1 .. Columns(a, b)  js == 1 .. Rows(a, b)
        corner(i) == \E j \in js : Meet(a, b, i, j)
        parts == [x \in {<<"column", i>> : i \in {k \in is : ~corner(k)}}
                          \cup {<<"corner", i>> : i \in {k \in is : corner(k)}}
                          \cup {<<"row", j>> : j \in {k \in js : \A i \in is : ~Meet(a, b, i, k)}}
                    |-> CASE x[1] = "column" -> column(x[2])
                          [] x[1] = "row"    -> row(x[2])
                          [] x[1] = "corner" -> CornerMix(index, AtColumn(a, b, x[2]), dx, dy)]
        gain == FoldSet(LAMBDA x, g : g * parts[x].gain, 1, DOMAIN parts)
    IN  \* the loop returns at the first silence, whatever lies behind it
        [gain |-> gain,
         cut |-> IF gain = 0 THEN 0 ELSE Min({OpenAir} \cup {parts[x].cut : x \in DOMAIN parts})]

-----------------------------------------------------------------------------
Run == {w \in Wall : InWorld(w) /\ w.quarters = Quarters[w.preset]}

\* activeTeleport when there is none: a move has a goal and the square it was
\* last told to the server to be on.
Nowhere == [to |-> <<0, 0>>, sent |-> <<0, 0>>]

\* The server has read its file; whatever builders left there without
\* retuning it since.
Init ==
    /\ \E ids \in SUBSET Ids : \E walls \in [ids -> Run], c \in Cells :
          /\ \A i, j \in ids : i # j => WallEdges(walls[i]) \cap WallEdges(walls[j]) = {}
          /\ srv = [walls |-> walls, edges |-> IndexOf(walls), pos |-> c, steps |-> 0,
                    ready |-> FALSE, file |-> walls, dirty |-> FALSE]
    /\ page = [walls |-> <<>>, index |-> <<>>, pos |-> <<0, 0>>, phase |-> "away",
               move |-> Nowhere]
    /\ up = <<>> /\ down = <<>>
    /\ missed = FALSE /\ unheard = FALSE

PositionOf(s) == [kind |-> "position", at |-> s.pos]

\* _send_authenticated_welcome(): the walls as they are, not yet in the roster.
Welcome ==
    /\ page.phase = "away" /\ down = <<>>
    /\ down' = <<[kind |-> "welcome", at |-> srv.pos, walls |-> srv.walls]>>
    /\ srv' = [srv EXCEPT !.steps = 0, !.ready = FALSE]
    /\ missed' = FALSE /\ unheard' = FALSE
    /\ UNCHANGED <<page, up>>

\* A request that changed the walls is saved in a while and sent to whoever is
\* in the roster; a page on its way there is passed by.
Edited(s, message) ==
    /\ s # srv /\ Len(SelectSeq(down, LAMBDA m : m.kind # "position")) < MaxNews
    /\ srv' = [s EXCEPT !.dirty = TRUE]
    /\ IF srv.ready THEN down' = Append(down, message) /\ UNCHANGED missed
       ELSE missed' = (missed \/ page.phase # "away" \/ down # <<>>) /\ UNCHANGED down
    /\ UNCHANGED <<page, up, unheard>>

Upsert(s, i) == [kind |-> "upsert", id |-> i, wall |-> s.walls[i]]

\* A new uuid: a name that nothing refers to any more.
Named(message) ==
    CASE message.kind = "welcome" -> DOMAIN message.walls
      [] message.kind \in {"upsert", "remove"} -> {message.id}
      [] message.kind = "position" -> {}
Free == Ids \ (DOMAIN srv.walls \cup DOMAIN page.walls
                 \cup DOMAIN Loaded(srv.file) \cup UNION {Named(down[n]) : n \in DOMAIN down})

\* _handle_structure_packet()
AddWall ==
    \E i \in Free, c \in Cells, dir \in {"north", "south", "east", "west"}, preset \in Presets :
        LET s == Added(srv, i, c, dir, preset)
        IN  s # srv /\ Edited(s, Upsert(s, i))
EditWall ==
    \E i \in DOMAIN srv.walls :
        \E s \in {Resized(srv, i, e, d) : e \in {"start", "end"}, d \in {-1, 1}}
              \cup {Slid(srv, i, d) : d \in {-1, 1}}
              \cup {Rotated(srv, i, o) : o \in Orientation}
              \cup {Represet(srv, i, preset) : preset \in Presets}
              \cup {Retuned(srv, i, q) : q \in {0, 2, 4}} :
            Edited(s, Upsert(s, i))
DeleteWall ==
    \E i \in DOMAIN srv.walls : Edited(Removed(srv, i), [kind |-> "remove", id |-> i])

(* Fault: the page has looked at the walls; the server does not again. *)
HandleStepUnchecked ==
    /\ up # <<>> /\ Head(up).kind = "step" /\ srv.ready
    /\ LET q == Head(up).to
           delta == Larger(Abs(q[1] - srv.pos[1]), Abs(q[2] - srv.pos[2]))
           inTime == q \in Cells /\ delta <= MaxSteps - srv.steps
           s == [srv EXCEPT !.steps = IF inTime THEN @ + delta ELSE @,
                            !.pos = IF inTime THEN q ELSE @]
       IN  srv' = s /\ down' = Append(down, PositionOf(s))
    /\ up' = Tail(up)
    /\ UNCHANGED <<page, missed, unheard>>

\* The user's step: whatever it decides, the server answers with where the
\* user is.  A step that a wall stops has used up the window all the same.
HandleStep ==
    /\ up # <<>> /\ Head(up).kind = "step" /\ srv.ready
    /\ LET q == Head(up).to
           delta == Larger(Abs(q[1] - srv.pos[1]), Abs(q[2] - srv.pos[2]))
           inTime == q \in Cells /\ delta <= MaxSteps - srv.steps
           s == [srv EXCEPT !.steps = IF inTime THEN @ + delta ELSE @,
                            !.pos = IF inTime /\ ~BlockedMove(srv, srv.pos, q) THEN q ELSE @]
       IN  srv' = s /\ down' = Append(down, PositionOf(s))
    /\ up' = Tail(up)
    /\ UNCHANGED <<page, missed, unheard>>

\* teleport_complete: the user is where the page says, whatever walls there
\* are on the way and however far it is; no window is used up.
HandleArrival ==
    /\ up # <<>> /\ Head(up).kind = "arrival" /\ srv.ready
    /\ LET s == [srv EXCEPT !.pos = IF Head(up).to \in Cells THEN Head(up).to ELSE @]
       IN  srv' = s /\ down' = Append(down, PositionOf(s))
    /\ up' = Tail(up)
    /\ UNCHANGED <<page, missed, unheard>>

\* Before welcome_ready a step or an arrival is ignored, without an answer.
IgnoreStep ==
    /\ up # <<>> /\ Head(up).kind \in {"step", "arrival"} /\ ~srv.ready
    /\ up' = Tail(up) /\ unheard' = TRUE
    /\ UNCHANGED <<srv, page, down, missed>>

\* _activate_authenticated_client()
HandleReady ==
    /\ up # <<>> /\ Head(up).kind = "ready"
    /\ up' = Tail(up) /\ srv' = [srv EXCEPT !.ready = TRUE]
    /\ UNCHANGED <<page, down, missed, unheard>>

\* The next window of MOVEMENT_TICK_MS.
NextWindow ==
    /\ srv.steps > 0 /\ srv' = [srv EXCEPT !.steps = 0]
    /\ UNCHANGED <<page, up, down, missed, unheard>>

\* _flush_state_save(), by its timer
Flush ==
    /\ srv.dirty /\ srv' = [srv EXCEPT !.file = srv.walls, !.dirty = FALSE]
    /\ UNCHANGED <<page, up, down, missed, unheard>>

\* The server stops, in the middle of a write or not, and starts again; the
\* position comes from its own, older record.
Restart ==
    /\ \E torn \in {FALSE} \cup {srv.dirty}, c \in Cells :
          LET file == IF torn THEN Broken ELSE srv.file
          IN  srv' = [walls |-> Loaded(file), edges |-> IndexOf(Loaded(file)), pos |-> c,
                      steps |-> 0, ready |-> FALSE, file |-> file, dirty |-> FALSE]
    /\ page' = [page EXCEPT !.phase = "away", !.move = Nowhere] /\ up' = <<>> /\ down' = <<>>
    /\ UNCHANGED <<missed, unheard>>

\* The socket closes; the page keeps what it has until the next welcome.
Disconnect ==
    /\ page.phase # "away" \/ down # <<>>
    /\ srv' = [srv EXCEPT !.ready = FALSE]
    /\ page' = [page EXCEPT !.phase = "away", !.move = Nowhere] /\ up' = <<>> /\ down' = <<>>
    /\ UNCHANGED <<missed, unheard>>

-----------------------------------------------------------------------------
(* The page.                                                               *)

\* A step of an arrow key: predicted, or stopped by a wall; the contact with
\* a wall is told to the server as a step to the cell behind it.
Taken(pg, q) == IF Blocking(pg.index, pg.pos, q) THEN pg ELSE [pg EXCEPT !.pos = q]

\* Steps the server has not seen, or whose answers the page has not.
Unanswered ==
    Len(up) + Cardinality({n \in DOMAIN down : down[n].kind = "position"})

Step ==
    /\ page.phase = "in" /\ Unanswered < MaxSent
    /\ \E d \in Directions :
          LET q == Plus(page.pos, d)
          IN  /\ q \in Cells
              /\ page' = Taken(page, q) /\ up' = Append(up, [kind |-> "step", to |-> q])
    /\ UNCHANGED <<srv, down, missed, unheard>>

\* startTeleportTo(): to a person or an item of the lists, who may be on any
\* square of the floor, from where a move under way has brought the page, if
\* there is one.
Between(p, t) ==
    {c \in Cells : \A i \in {1, 2} : c[i] \in p[i] .. t[i] \/ c[i] \in t[i] .. p[i]}
SetOut ==
    /\ page.phase \in {"in", "moving"}
    /\ \E to \in Cells, from \in {page.pos} \cup
             IF page.phase = "moving" THEN Between(page.move.sent, page.move.to) ELSE {} :
          /\ page.phase = "in" => to # from
          /\ page' = [page EXCEPT !.phase = "moving", !.pos = from,
                                  !.move = [to |-> to, sent |-> from]]
    /\ UNCHANGED <<srv, up, down, missed, unheard>>

\* updateTeleport(): a frame that tells the server of a square nearer to the
\* goal.  The page may draw the user further on; nothing asks it until the end.
Onwards(p, t) ==
    {c \in Cells \ {p} : \A i \in {1, 2} : c[i] \in {p[i], p[i] + Sign(t[i] - p[i])}}
MoveOn ==
    /\ page.phase = "moving" /\ Unanswered < MaxSent
    /\ \E q \in Onwards(page.move.sent, page.move.to) :
          /\ page' = [page EXCEPT !.pos = q, !.move.sent = q]
          /\ up' = Append(up, [kind |-> "step", to |-> q])
    /\ UNCHANGED <<srv, down, missed, unheard>>

\* The frame that ends it, which may come before the server was told of every
\* square on the way.
Arrive ==
    /\ page.phase = "moving" /\ Unanswered < MaxSent
    /\ page' = [page EXCEPT !.pos = page.move.to, !.phase = "in", !.move = Nowhere]
    /\ up' = Append(up, [kind |-> "arrival", to |-> page.move.to])
    /\ UNCHANGED <<srv, down, missed, unheard>>

\* The welcome's handler up to the audio it awaits, and the end of it: the
\* game loop begins, with a step if a key is held, and welcome_ready is sent.
ReceiveWelcome ==
    /\ down # <<>> /\ Head(down).kind = "welcome"
    /\ page' = [walls |-> Head(down).walls, index |-> PageIndex(Head(down).walls),
                pos |-> Head(down).at, phase |-> "loading", move |-> Nowhere]
    /\ down' = Tail(down)
    /\ UNCHANGED <<srv, up, missed, unheard>>
BeginLoop ==
    /\ page.phase = "loading"
    /\ \/ /\ page' = [page EXCEPT !.phase = "in"] /\ up' = <<[kind |-> "ready"]>>
       \/ \E d \in Directions :
             LET q == Plus(page.pos, d)
             IN  /\ q \in Cells
                 /\ page' = [Taken(page, q) EXCEPT !.phase = "in"]
                 /\ up' = <<[kind |-> "step", to |-> q], [kind |-> "ready"]>>
    /\ UNCHANGED <<srv, down, missed, unheard>>

\* update_position of oneself: the page goes where the server says.
ReceivePosition ==
    /\ down # <<>> /\ Head(down).kind = "position"
    /\ page' = [page EXCEPT !.pos = Head(down).at]
    /\ down' = Tail(down) /\ unheard' = FALSE
    /\ UNCHANGED <<srv, up, missed>>

\* structure_upsert and structure_remove, with refreshStructureGeometry()
WithWalls(walls) == [page EXCEPT !.walls = walls, !.index = PageIndex(walls)]
(* Fault: the index is not built again when a wall goes. *)
ReceiveWallKeepsIndex ==
    /\ down # <<>> /\ Head(down).kind \in {"upsert", "remove"}
    /\ LET i == Head(down).id
       IN  page' = IF Head(down).kind = "upsert" THEN WithWalls(With(page.walls, {i}, Head(down).wall))
                   ELSE [page EXCEPT !.walls = [j \in DOMAIN @ \ {i} |-> @[j]]]
    /\ down' = Tail(down)
    /\ UNCHANGED <<srv, up, missed, unheard>>

ReceiveWall ==
    /\ down # <<>> /\ Head(down).kind \in {"upsert", "remove"}
    /\ LET i == Head(down).id
       IN  page' = WithWalls(IF Head(down).kind = "upsert" THEN With(page.walls, {i}, Head(down).wall)
                             ELSE [j \in DOMAIN page.walls \ {i} |-> page.walls[j]])
    /\ down' = Tail(down)
    /\ UNCHANGED <<srv, up, missed, unheard>>

Edits   == AddWall \/ EditWall \/ DeleteWall
Server  == Welcome \/ HandleStep \/ HandleArrival \/ IgnoreStep \/ HandleReady \/ NextWindow
Storage == Flush \/ Restart
Moves   == Step \/ SetOut \/ MoveOn \/ Arrive
Browser == Moves \/ ReceiveWelcome \/ BeginLoop \/ ReceivePosition \/ ReceiveWall \/ Disconnect

Next == Edits \/ Server \/ Storage \/ Browser
Spec == Init /\ [][Next]_vars

-----------------------------------------------------------------------------
(* Properties.                                                             *)

\* The server's index, which only ever takes the difference of an edit, names
\* exactly the edges of the walls, no two of which overlap or leave the grid,
\* through any edits, saves and restarts, after a torn write too.  Nor do the
\* walls that a file is read as, none at all when its write was cut short.
Sound(walls) ==
    /\ \A i \in DOMAIN walls : walls[i] \in Wall /\ InWorld(walls[i])
    /\ \A i, j \in DOMAIN walls : i # j => WallEdges(walls[i]) \cap WallEdges(walls[j]) = {}
IndexIsExact ==
    /\ Sound(srv.walls) /\ srv.edges = IndexOf(srv.walls)
    /\ Sound(Loaded(srv.file))
    /\ page.phase # "away" /\ ~missed => Sound(page.walls)

\* The one edge between two neighbouring cells, and whether one can get from
\* the one to the other, around a corner on either side: the reference.
EdgeBetween(p, q) ==
    IF p[2] = q[2] THEN <<"vertical", Larger(p[1], q[1]), p[2]>>
                   ELSE <<"horizontal", p[1], Larger(p[2], q[2])>>
Open(walls, p, q) ==
    \A i \in DOMAIN walls : Blocks[walls[i].preset] => EdgeBetween(p, q) \notin WallEdges(walls[i])
Way(walls, p, q) ==
    IF p[1] = q[1] \/ p[2] = q[2] THEN Open(walls, p, q)
    ELSE \E m \in {<<p[1], q[2]>>, <<q[1], p[2]>>} : Open(walls, p, m) /\ Open(walls, m, q)
Near(p, q) == Larger(Abs(q[1] - p[1]), Abs(q[2] - p[2])) = 1

\* Nobody walks through a wall that stops people, however far the page's walls
\* and position are behind when it asks, and on the way to a person or an item
\* neither: only the arrival there takes a user past walls, and to that square.
Arrives ==
    /\ up # <<>> /\ Head(up).kind = "arrival" /\ up' = Tail(up)
    /\ srv'.pos = Head(up).to
WalkersStopAtWalls ==
    [][srv.ready /\ srv'.ready /\ srv'.pos # srv.pos =>
          \/ Near(srv.pos, srv'.pos) /\ Way(srv.walls, srv.pos, srv'.pos)
          \/ Arrives]_vars

Quiet == page.phase = "in" /\ up = <<>> /\ down = <<>>

\* When nothing is under way the page stands where the server has its user,
\* unless its first step came before welcome_ready; and unless an edit was
\* made in that time, it has the server's walls and foresees every decision.
QuietPagesAgree ==
    Quiet =>
      /\ ~unheard => page.pos = srv.pos
      /\ ~missed => /\ page.walls = srv.walls
                    /\ \A p, q \in Cells : Near(p, q) =>
                          (Blocking(page.index, p, q) <=> BlockedMove(srv, p, q))

\* A sound is muffled alike in both directions; and behind solid walls a
\* neighbouring cell is silent exactly when one cannot step there.
SolidWalls == \A i \in DOMAIN page.walls : page.walls[i].quarters = 0 /\ Blocks[page.walls[i].preset]
EarsAgreeWithFeet ==
    page.phase # "away" => \A q \in Cells \ {page.pos} :
       /\ Mix(page.index, page.pos, q) = Mix(page.index, q, page.pos)
       /\ SolidWalls /\ Near(page.pos, q) =>
             (Mix(page.index, page.pos, q).gain = 0 <=> Blocking(page.index, page.pos, q))

\* docs/world-builder.md:28: "Structures persist in `structures.json` beside the
\* configured item state file."  The walls can be read again from the file at
\* any start of the server.
StructuresPersist == srv.file # Broken

\* docs/controls.md:69: "Walls are edited live. Other connected clients receive
\* and render changes immediately."
EditsReachEverybody == Quiet => page.walls = srv.walls
=============================================================================
