---------------------------- MODULE WallsProofs ----------------------------
(***************************************************************************)
(* What Walls promises, for a grid of any size and any number of walls and *)
(* presets.  The invariant has four parts.  The server's map of walls is   *)
(* good and its index the map's own; the index is only ever changed by the *)
(* difference, so every edit is shown to be one step from a good map to    *)
(* another (EditTo), out of taking a wall away (WithoutIs) and putting one *)
(* on free edges (WithWall).  The connection carries a welcome alone, or   *)
(* news for a page in the world.  The page's walls become the server's     *)
(* through the news under way (Follows, a history of maps, as nothing is   *)
(* recursive here).  The page stands where the last answer puts it, but    *)
(* while it moves to a person or an item by itself.                        *)
(*                                                                         *)
(* Both decisions about a step, by the server's index of names and by the  *)
(* page's index of walls, are shown equal to one formula over the edges    *)
(* (StopsAhead), and that one to the reference Way.                        *)
(***************************************************************************)
EXTENDS Walls, TLAPS, SequenceTheorems

\* The maps of walls by their names.
Maps == UNION {[ids -> Wall] : ids \in SUBSET Ids}

\* A map of walls none of which overlaps another or leaves the grid.
Good(walls) == walls \in Maps /\ Sound(walls)

\* What goes from the server to the page.
Message ==
    [kind : {"welcome"}, at : Cells, walls : Maps]
      \cup [kind : {"upsert"}, id : Ids, wall : Wall] \cup [kind : {"remove"}, id : Ids]
      \cup [kind : {"position"}, at : Cells]

\* What the page sends to the server.
Sent == [kind : {"step", "arrival"}, to : Cells] \cup [kind : {"ready"}]

\* What becomes of a map of walls as the page hears of an edit.
Told(walls, m) ==
    IF m.kind = "upsert" THEN With(walls, {m.id}, m.wall)
    ELSE IF m.kind = "remove" THEN [j \in DOMAIN walls \ {m.id} |-> walls[j]]
    ELSE walls

\* The news lead from the page's walls to the server's, and what the page has
\* in between is good: h is the page's walls after each of them.
Follows(mine, news, theirs) ==
    \E h : /\ h[0] = mine /\ h[Len(news)] = theirs
           /\ \A n \in 1 .. Len(news) : h[n] = Told(h[n - 1], news[n])
           /\ \A n \in 0 .. Len(news) : Good(h[n])

Shaped(s) == s = [walls |-> s.walls, edges |-> s.edges, pos |-> s.pos, steps |-> s.steps,
                  ready |-> s.ready, file |-> s.file, dirty |-> s.dirty]

Looks(pg, walls, index, pos, phase, move) ==
    pg = [walls |-> walls, index |-> index, pos |-> pos, phase |-> phase, move |-> move]
PageShaped(pg) == Looks(pg, pg.walls, pg.index, pg.pos, pg.phase, pg.move)
Entered(pg) == pg.phase \in {"in", "moving"}

\* The server: its walls, their index, its file.
ServerInv ==
    /\ Shaped(srv) /\ Good(srv.walls) /\ srv.edges = IndexOf(srv.walls)
    /\ Good(Loaded(srv.file))
    /\ srv.pos \in Cells /\ srv.steps \in Nat

\* Nothing but a welcome is under way to a page that is not in the world, and
\* the server does not listen to it.
ConnectionInv ==
    /\ PageShaped(page)
    /\ page.phase \in {"away", "loading", "in", "moving"} /\ page.move.to \in Cells
    /\ up \in Seq(Sent)
    /\ down \in Seq(Message)
    /\ ~Entered(page) => up = <<>>
    /\ srv.ready => Entered(page)
    /\ \A n \in DOMAIN down :
          IF down[n].kind = "welcome"
          THEN /\ page.phase = "away" /\ Len(down) = 1 /\ down[n].at = srv.pos
               /\ Good(down[n].walls)
               /\ ~missed => down[n].walls = srv.walls
          ELSE srv.ready

\* The page's copy of the walls.
CopyInv ==
    page.phase # "away" => /\ page.index = PageIndex(page.walls)
                           /\ ~missed => Follows(page.walls, down, srv.walls)

IsPosition(m) == m.kind = "position"
Stepless == \A n \in DOMAIN up : up[n].kind = "ready"

\* Where the server has the user is the last thing it has said; and when it
\* has heard every step and arrival and the page every answer, the page is
\* there, unless it is moving.
PositionInv ==
    /\ \A n \in DOMAIN down :
          /\ IsPosition(down[n])
          /\ \A m \in DOMAIN down : m > n => ~IsPosition(down[m])
          => down[n].at = srv.pos
    /\ /\ page.phase \in {"loading", "in"} /\ ~unheard /\ Stepless
       /\ \A n \in DOMAIN down : ~IsPosition(down[n])
       => page.pos = srv.pos

WallsInv == ServerInv /\ ConnectionInv /\ CopyInv /\ PositionInv

-----------------------------------------------------------------------------
(* Maps of walls and their index.                                          *)

Rest(walls, i) == [j \in DOMAIN walls \ {i} |-> walls[j]]

\* A good map, element by element.
LEMMA GoodIs ==
    ASSUME NEW walls, Good(walls)
    PROVE  /\ DOMAIN walls \subseteq Ids
           /\ \A i \in DOMAIN walls : walls[i] \in Wall /\ InWorld(walls[i])
           /\ \A i, j \in DOMAIN walls : i # j => WallEdges(walls[i]) \cap WallEdges(walls[j]) = {}
           /\ walls = [i \in DOMAIN walls |-> walls[i]]
  BY DEF Good, Sound, Maps

\* and how to show that one is good.
LEMMA IsGood ==
    ASSUME NEW walls, DOMAIN walls \subseteq Ids, walls = [i \in DOMAIN walls |-> walls[i]],
           \A i \in DOMAIN walls : walls[i] \in Wall /\ InWorld(walls[i]),
           \A i, j \in DOMAIN walls : i # j => WallEdges(walls[i]) \cap WallEdges(walls[j]) = {}
    PROVE  Good(walls)
<1>1. walls \in [DOMAIN walls -> Wall]
  OBVIOUS
<1> QED
  BY <1>1 DEF Good, Sound, Maps

\* The empty map is good: the server's when its file cannot be read.
LEMMA NothingIsGood == Good(<<>>)
<1>1. DOMAIN <<>> = {}
  OBVIOUS
<1>2. <<>> = [i \in DOMAIN <<>> |-> <<>>[i]]
  BY <1>1
<1> QED
  BY <1>1, <1>2, IsGood

\* The edges of a map are the edges of its walls.
LEMMA EdgesAre ==
    ASSUME NEW walls, NEW e
    PROVE  e \in EdgesOf(walls) <=> \E i \in DOMAIN walls : e \in WallEdges(walls[i])
  BY DEF EdgesOf

\* The index names the wall that an edge belongs to,
LEMMA IndexNames ==
    ASSUME NEW walls, Good(walls), NEW i \in DOMAIN walls, NEW e \in WallEdges(walls[i])
    PROVE  e \in DOMAIN IndexOf(walls) /\ IndexOf(walls)[e] = i
<1>1. e \in EdgesOf(walls)
  BY EdgesAre
<1> DEFINE j == CHOOSE j \in DOMAIN walls : e \in WallEdges(walls[j])
<1>2. j \in DOMAIN walls /\ e \in WallEdges(walls[j])
  OBVIOUS
<1>3. j = i
  BY <1>2, GoodIs
<1>4. IndexOf(walls)[e] = j
  BY <1>1 DEF IndexOf
<1> QED
  BY <1>1, <1>3, <1>4 DEF IndexOf

\* and nothing else does.
LEMMA IndexIs ==
    ASSUME NEW walls, Good(walls), NEW f, DOMAIN f = EdgesOf(walls), f = [e \in DOMAIN f |-> f[e]],
           \A i \in DOMAIN walls : \A e \in WallEdges(walls[i]) : f[e] = i
    PROVE  f = IndexOf(walls)
<1>1. DOMAIN IndexOf(walls) = EdgesOf(walls) /\ IndexOf(walls) = [e \in EdgesOf(walls) |-> IndexOf(walls)[e]]
  BY DEF IndexOf
<1>2. ASSUME NEW e \in EdgesOf(walls) PROVE f[e] = IndexOf(walls)[e]
  <2>1. PICK i \in DOMAIN walls : e \in WallEdges(walls[i])
    BY <1>2, EdgesAre
  <2> QED
    BY <2>1, IndexNames
<1> QED
  BY <1>1, <1>2

\* _remove_from_index(): without a wall the rest is good, and the index that
\* is left when exactly the wall's own edges are taken out is the rest's.
LEMMA WithoutIs ==
    ASSUME NEW walls, Good(walls), NEW i \in DOMAIN walls
    PROVE  /\ Good(Rest(walls, i))
           /\ Unindexed(IndexOf(walls), i, walls[i]) = IndexOf(Rest(walls, i))
<1> DEFINE r == Rest(walls, i)
           f == Unindexed(IndexOf(walls), i, walls[i])
<1>1. /\ DOMAIN r = DOMAIN walls \ {i} /\ \A j \in DOMAIN r : r[j] = walls[j]
      /\ r = [j \in DOMAIN r |-> r[j]]
  BY DEF Rest
<1>2. Good(r)
  BY <1>1, GoodIs, IsGood
<1>3. /\ DOMAIN f = {e \in DOMAIN IndexOf(walls) : ~(e \in WallEdges(walls[i]) /\ IndexOf(walls)[e] = i)}
      /\ \A e \in DOMAIN f : f[e] = IndexOf(walls)[e]
      /\ f = [e \in DOMAIN f |-> f[e]]
  BY DEF Unindexed
<1> HIDE DEF r, f
<1>4. ASSUME NEW e PROVE e \in DOMAIN f <=> e \in EdgesOf(r)
  <2>1. CASE e \in EdgesOf(walls)
    <3>1. PICK j \in DOMAIN walls : e \in WallEdges(walls[j])
      BY <2>1, EdgesAre
    <3>2. e \in DOMAIN IndexOf(walls) /\ IndexOf(walls)[e] = j
      BY <3>1, IndexNames
    <3>3. e \in DOMAIN f <=> j # i
      BY <1>3, <3>1, <3>2
    <3>4. e \in EdgesOf(r) <=> j # i
      BY <1>1, <3>1, EdgesAre, GoodIs
    <3> QED
      BY <3>3, <3>4
  <2>2. CASE e \notin EdgesOf(walls)
    BY <2>2, <1>1, <1>3, EdgesAre DEF IndexOf
  <2> QED
    BY <2>1, <2>2
<1>5. ASSUME NEW j \in DOMAIN r, NEW e \in WallEdges(r[j]) PROVE f[e] = j
  <2>1. e \in DOMAIN f
    BY <1>4, <1>5, EdgesAre
  <2> QED
    BY <2>1, <1>1, <1>3, IndexNames
<1>6. DOMAIN f = EdgesOf(r)
  BY <1>3, <1>4
<1>7. f = IndexOf(r)
  BY <1>2, <1>3, <1>5, <1>6, IndexIs
<1> QED
  BY <1>2, <1>7 DEF r, f

\* _insert(): a wall on free edges makes a good map, and its edges added to
\* the index make the map's index.
LEMMA WithWall ==
    ASSUME NEW walls, Good(walls), NEW i \in Ids \ DOMAIN walls, NEW w \in Wall, InWorld(w),
           \A j \in DOMAIN walls : WallEdges(w) \cap WallEdges(walls[j]) = {}
    PROVE  /\ Good(With(walls, {i}, w))
           /\ With(IndexOf(walls), WallEdges(w), i) = IndexOf(With(walls, {i}, w))
<1> DEFINE r == With(walls, {i}, w)
           f == With(IndexOf(walls), WallEdges(w), i)
<1>1. /\ DOMAIN r = {i} \cup DOMAIN walls /\ r[i] = w /\ \A j \in DOMAIN walls : r[j] = walls[j]
      /\ r = [j \in DOMAIN r |-> r[j]]
  BY DEF With
<1>2. DOMAIN IndexOf(walls) = EdgesOf(walls)
  BY DEF IndexOf
<1>3. /\ DOMAIN f = WallEdges(w) \cup EdgesOf(walls)
      /\ \A e \in WallEdges(w) : f[e] = i
      /\ \A e \in EdgesOf(walls) \ WallEdges(w) : f[e] = IndexOf(walls)[e]
      /\ f = [e \in DOMAIN f |-> f[e]]
  BY <1>2 DEF With
<1> HIDE DEF r, f
<1>4. Good(r)
  BY <1>1, GoodIs, IsGood
<1>5. ASSUME NEW e PROVE e \in EdgesOf(r) <=> e \in WallEdges(w) \/ e \in EdgesOf(walls)
  BY <1>1, EdgesAre
<1>6. DOMAIN f = EdgesOf(r)
  BY <1>3, <1>5
<1>7. ASSUME NEW j \in DOMAIN r, NEW e \in WallEdges(r[j]) PROVE f[e] = j
  <2>1. CASE j = i
    BY <2>1, <1>1, <1>3
  <2>2. CASE j # i
    BY <2>2, <1>1, <1>3, IndexNames, EdgesAre
  <2> QED
    BY <2>1, <2>2
<1>8. f = IndexOf(r)
  BY <1>3, <1>4, <1>6, <1>7, IndexIs
<1> QED
  BY <1>4, <1>8 DEF r, f

-----------------------------------------------------------------------------
(* The builders' requests.                                                 *)

\* What an edit makes of the server: a good map, its index, and a message from
\* which a page with the old map makes the new one.
EditTo(s, t, m) ==
    /\ t.pos = s.pos /\ t.steps = s.steps /\ t.ready = s.ready /\ t.file = s.file
    /\ Shaped(t) /\ Good(t.walls) /\ t.edges = IndexOf(t.walls)
    /\ m \in Message /\ m.kind \in {"upsert", "remove"} /\ t.walls = Told(s.walls, m)

\* A wall under construction, of any position and length.
Plan == [x : Int, y : Int, o : Orientation, n : Int, preset : Presets, quarters : 0 .. 4]

\* A planned wall that has a length and lies in the world is a wall.
LEMMA PlanIsWall ==
    ASSUME NEW w \in Plan, w.n >= 1, InWorld(w)
    PROVE  w \in Wall
<1>1. Size \in Nat
  BY WallsAssumption
<1>2. w.x \in 0 .. Size /\ w.y \in 0 .. Size /\ w.n \in 1 .. Size
  BY <1>1 DEF Plan, InWorld
<1> QED
  BY <1>2 DEF Plan, Wall

\* The message of an edit carries the wall, and gives it to whoever hears it.
LEMMA UpsertIs ==
    ASSUME NEW s, NEW i \in Ids, NEW w \in Wall, s.walls = With(s.walls, {i}, w)
    PROVE  /\ Upsert(s, i) = [kind |-> "upsert", id |-> i, wall |-> w]
           /\ Upsert(s, i) \in Message
           /\ \A walls : Told(walls, Upsert(s, i)) = With(walls, {i}, w)
<1>1. s.walls[i] = w
  BY DEF With
<1> QED
  BY <1>1 DEF Upsert, Message, Told

\* What a change of the server's record leaves alone.
LEMMA NewWalls ==
    ASSUME NEW w, NEW e, NEW p, NEW n, NEW r, NEW f, NEW d, NEW a, NEW s,
           s = [walls |-> w, edges |-> e, pos |-> p, steps |-> n, ready |-> r, file |-> f, dirty |-> d]
    PROVE  [s EXCEPT !.walls = a] =
              [walls |-> a, edges |-> e, pos |-> p, steps |-> n, ready |-> r, file |-> f, dirty |-> d]
  OBVIOUS

LEMMA NewEdges ==
    ASSUME NEW w, NEW e, NEW p, NEW n, NEW r, NEW f, NEW d, NEW a, NEW s,
           s = [walls |-> w, edges |-> e, pos |-> p, steps |-> n, ready |-> r, file |-> f, dirty |-> d]
    PROVE  [s EXCEPT !.edges = a] =
              [walls |-> w, edges |-> a, pos |-> p, steps |-> n, ready |-> r, file |-> f, dirty |-> d]
  OBVIOUS

\* The same with the server's own fields named.
LEMMA Rerecorded ==
    ASSUME NEW s, Shaped(s), NEW a, NEW b
    PROVE  /\ [s EXCEPT !.walls = a, !.edges = b] =
                [walls |-> a, edges |-> b, pos |-> s.pos, steps |-> s.steps,
                 ready |-> s.ready, file |-> s.file, dirty |-> s.dirty]
           /\ [s EXCEPT !.edges = b] =
                [walls |-> s.walls, edges |-> b, pos |-> s.pos, steps |-> s.steps,
                 ready |-> s.ready, file |-> s.file, dirty |-> s.dirty]
           /\ [s EXCEPT !.walls = a] =
                [walls |-> a, edges |-> s.edges, pos |-> s.pos, steps |-> s.steps,
                 ready |-> s.ready, file |-> s.file, dirty |-> s.dirty]
<1>1. PICK w, e, p, n, r, f, d :
          /\ s = [walls |-> w, edges |-> e, pos |-> p, steps |-> n, ready |-> r, file |-> f, dirty |-> d]
          /\ s.walls = w /\ s.edges = e /\ s.pos = p /\ s.steps = n /\ s.ready = r /\ s.file = f
          /\ s.dirty = d
  BY DEF Shaped
<1>2. [s EXCEPT !.walls = a] = [walls |-> a, edges |-> e, pos |-> p, steps |-> n, ready |-> r, file |-> f, dirty |-> d]
  BY <1>1, NewWalls
<1>3. [s EXCEPT !.edges = b] = [walls |-> w, edges |-> b, pos |-> p, steps |-> n, ready |-> r, file |-> f, dirty |-> d]
  BY <1>1, NewEdges
<1>4. [s EXCEPT !.walls = a, !.edges = b] = [[s EXCEPT !.walls = a] EXCEPT !.edges = b]
  OBVIOUS
<1>5. [s EXCEPT !.walls = a, !.edges = b] = [walls |-> a, edges |-> b, pos |-> p, steps |-> n, ready |-> r, file |-> f, dirty |-> d]
  <2>1. PICK v : v = [s EXCEPT !.walls = a]
    OBVIOUS
  <2>2. [v EXCEPT !.edges = b] = [walls |-> a, edges |-> b, pos |-> p, steps |-> n, ready |-> r, file |-> f, dirty |-> d]
    <3>1. v = [walls |-> a, edges |-> e, pos |-> p, steps |-> n, ready |-> r, file |-> f, dirty |-> d]
      BY <1>2, <2>1, Zenon
    <3> QED
      BY <3>1, NewEdges
  <2> QED
    BY <1>4, <2>1, <2>2, Zenon
<1>6. [s EXCEPT !.walls = a] =
          [walls |-> a, edges |-> s.edges, pos |-> s.pos, steps |-> s.steps,
           ready |-> s.ready, file |-> s.file, dirty |-> s.dirty]
  BY <1>1, <1>2, Zenon
<1>7. [s EXCEPT !.edges = b] =
          [walls |-> s.walls, edges |-> b, pos |-> s.pos, steps |-> s.steps,
           ready |-> s.ready, file |-> s.file, dirty |-> s.dirty]
  BY <1>1, <1>3, Zenon
<1>8. [s EXCEPT !.walls = a, !.edges = b] =
          [walls |-> a, edges |-> b, pos |-> s.pos, steps |-> s.steps,
           ready |-> s.ready, file |-> s.file, dirty |-> s.dirty]
  BY <1>1, <1>5, Zenon
<1> QED
  BY <1>6, <1>7, <1>8, Zenon

\* _insert() of a wall whose edges are free of any other wall's, where the
\* index has no edges of the wall any more.
LEMMA InsertIs ==
    ASSUME NEW s, Shaped(s), NEW i \in Ids, NEW w \in Wall, InWorld(w), Good(Rest(s.walls, i)),
           \A j \in DOMAIN s.walls \ {i} : WallEdges(w) \cap WallEdges(s.walls[j]) = {},
           NEW t, Shaped(t), t.walls = s.walls, t.edges = IndexOf(Rest(s.walls, i)),
           t.pos = s.pos, t.steps = s.steps, t.ready = s.ready, t.file = s.file
    PROVE  EditTo(s, Insert(t, i, w), Upsert(Insert(t, i, w), i))
<1> DEFINE r == Rest(s.walls, i)
           u == Insert(t, i, w)
<1>1. /\ DOMAIN r = DOMAIN s.walls \ {i}
      /\ \A j \in DOMAIN r : r[j] = s.walls[j]
  BY DEF Rest
<1>2. With(r, {i}, w) = With(s.walls, {i}, w)
  BY <1>1 DEF With
<1>3. /\ Good(With(r, {i}, w))
      /\ With(IndexOf(r), WallEdges(w), i) = IndexOf(With(r, {i}, w))
  <2>1. i \in Ids \ DOMAIN r
    BY <1>1
  <2>2. \A j \in DOMAIN r : WallEdges(w) \cap WallEdges(r[j]) = {}
    BY <1>1
  <2> QED
    BY <2>1, <2>2, WithWall
<1>4. u = [t EXCEPT !.walls = With(s.walls, {i}, w), !.edges = With(IndexOf(r), WallEdges(w), i)]
  BY DEF Insert
<1> HIDE DEF r, u
<1>5. u = [walls |-> With(s.walls, {i}, w), edges |-> With(IndexOf(r), WallEdges(w), i),
           pos |-> t.pos, steps |-> t.steps,
           ready |-> t.ready, file |-> t.file, dirty |-> t.dirty]
  BY <1>4, Rerecorded, ZenonT(60)
<1>6. Shaped(u) /\ u.walls = With(s.walls, {i}, w) /\ u.edges = IndexOf(u.walls)
  BY <1>2, <1>3, <1>5 DEF Shaped
<1>7. u.pos = s.pos /\ u.steps = s.steps /\ u.ready = s.ready /\ u.file = s.file
  BY <1>5
<1>8. With(u.walls, {i}, w) = u.walls
  BY <1>6 DEF With
<1>9. /\ Upsert(u, i) = [kind |-> "upsert", id |-> i, wall |-> w]
      /\ Upsert(u, i) \in Message
      /\ Told(s.walls, Upsert(u, i)) = With(s.walls, {i}, w)
  BY <1>8, UpsertIs
<1> QED
  BY <1>2, <1>3, <1>6, <1>7, <1>9 DEF EditTo, u

\* A server as the invariant has it, while its connection matters to nobody.
Kept(s) == Shaped(s) /\ Good(s.walls) /\ s.edges = IndexOf(s.walls)

\* A wall fits where no other wall is.
LEMMA FitsIs ==
    ASSUME NEW s, Kept(s), NEW i, NEW w, Fits(s, i, w)
    PROVE  \A j \in DOMAIN s.walls \ {i} : WallEdges(w) \cap WallEdges(s.walls[j]) = {}
<1> SUFFICES ASSUME NEW j \in DOMAIN s.walls \ {i}, NEW e \in WallEdges(w), e \in WallEdges(s.walls[j])
             PROVE  FALSE
  OBVIOUS
<1>1. e \in DOMAIN s.edges /\ s.edges[e] = j
  BY IndexNames DEF Kept
<1> QED
  BY <1>1 DEF Fits

\* add_wall(): refused, or an edit.
LEMMA AddedIs ==
    ASSUME NEW s, Kept(s), NEW i \in Ids \ DOMAIN s.walls, NEW c \in Cells,
           NEW dir \in {"north", "south", "east", "west"}, NEW preset \in Presets,
           NEW t, t = Added(s, i, c, dir, preset)
    PROVE  t = s \/ EditTo(s, t, Upsert(t, i))
<1> DEFINE w == [x |-> c[1] + IF dir = "east" THEN 1 ELSE 0,
                 y |-> c[2] + IF dir = "north" THEN 1 ELSE 0,
                 o |-> IF dir \in {"north", "south"} THEN "horizontal" ELSE "vertical",
                 n |-> 1, preset |-> preset, quarters |-> Quarters[preset]]
<1>1. t = IF Fits(s, i, w) THEN Insert(s, i, w) ELSE s
  BY DEF Added
<1>2. w \in Plan /\ w.n = 1
  <2>1. c[1] \in Int /\ c[2] \in Int /\ Quarters[preset] \in 0 .. 4
    BY WallsAssumption DEF Cells
  <2> QED
    BY <2>1 DEF Plan, Orientation
<1> HIDE DEF w
<1>3. CASE Fits(s, i, w)
  <2>1. InWorld(w) /\ w \in Wall
    BY <1>2, <1>3, PlanIsWall DEF Fits
  <2>2. \A j \in DOMAIN s.walls \ {i} : WallEdges(w) \cap WallEdges(s.walls[j]) = {}
    BY <1>3, FitsIs
  <2>3. Rest(s.walls, i) = s.walls
    BY GoodIs DEF Rest, Kept
  <2>4. s.edges = IndexOf(Rest(s.walls, i))
    BY <2>3 DEF Kept
  <2>5. Good(Rest(s.walls, i)) /\ Shaped(s)
    BY <2>3 DEF Kept
  <2> QED
    BY <1>1, <1>3, <2>1, <2>2, <2>4, <2>5, InsertIs
<1> QED
  BY <1>1, <1>3

\* The end of resize_wall(), slide_wall() and rotate_wall(): refused, or an edit.
LEMMA ReplacedIs ==
    ASSUME NEW s, Kept(s), NEW i \in DOMAIN s.walls, NEW w \in Plan,
           NEW t, t = Replaced(s, i, w)
    PROVE  t = s \/ EditTo(s, t, Upsert(t, i))
<1>1. CASE w.n >= 1 /\ Fits(s, i, w)
  <2>1. InWorld(w) /\ w \in Wall
    BY <1>1, PlanIsWall DEF Fits
  <2>2. \A j \in DOMAIN s.walls \ {i} : WallEdges(w) \cap WallEdges(s.walls[j]) = {}
    BY <1>1, FitsIs
  <2>3. Good(Rest(s.walls, i)) /\ Unindexed(s.edges, i, s.walls[i]) = IndexOf(Rest(s.walls, i))
    BY WithoutIs DEF Kept
  <2>4. i \in Ids
    BY GoodIs DEF Kept
  <2>5. PICK u : u = [s EXCEPT !.edges = Unindexed(@, i, s.walls[i])]
    OBVIOUS
  <2>6. u = [walls |-> s.walls, edges |-> IndexOf(Rest(s.walls, i)), pos |-> s.pos, steps |-> s.steps,
             ready |-> s.ready, file |-> s.file, dirty |-> s.dirty]
    BY <2>3, <2>5, Rerecorded DEF Kept
  <2>7. /\ Shaped(u) /\ u.walls = s.walls /\ u.edges = IndexOf(Rest(s.walls, i))
        /\ u.pos = s.pos /\ u.steps = s.steps /\ u.ready = s.ready /\ u.file = s.file
    BY <2>6 DEF Shaped
  <2>8. t = Insert(u, i, w)
    BY <1>1, <2>5 DEF Replaced
  <2>9. EditTo(s, Insert(u, i, w), Upsert(Insert(u, i, w), i))
    BY <2>1, <2>2, <2>3, <2>4, <2>7, InsertIs DEF Kept
  <2> QED
    BY <2>8, <2>9
<1> QED
  BY <1>1 DEF Replaced

\* A wall that is moved, turned or made longer or shorter is a plan.
LEMMA MovedIsPlan ==
    ASSUME NEW w \in Wall, NEW k \in Int
    PROVE  /\ Across(w, k) \in Plan
           /\ [w EXCEPT !.n = @ + k] \in Plan
           /\ [Along(w, k) EXCEPT !.n = @ - k] \in Plan
           /\ \A o \in Orientation : [w EXCEPT !.o = o] \in Plan
<1>1. w \in Plan
  <2>1. w.x \in Int /\ w.y \in Int /\ w.n \in Int
    BY WallsAssumption DEF Wall
  <2> QED
    BY <2>1 DEF Wall, Plan
<1>2. Across(w, k) \in Plan /\ Along(w, k) \in Plan
  BY <1>1 DEF Plan, Across, Along
<1>3. PICK v \in Plan : v = Along(w, k)
  BY <1>2
<1>4. [v EXCEPT !.n = @ - k] \in Plan
  BY DEF Plan
<1> QED
  BY <1>1, <1>2, <1>3, <1>4 DEF Plan

\* update_wall(): the edges stay as they are.
LEMMA RedoneIs ==
    ASSUME NEW s, Kept(s), NEW i \in DOMAIN s.walls, NEW w \in Wall,
           w.x = s.walls[i].x, w.y = s.walls[i].y, w.o = s.walls[i].o, w.n = s.walls[i].n
    PROVE  EditTo(s, [s EXCEPT !.walls[i] = w], Upsert([s EXCEPT !.walls[i] = w], i))
<1> DEFINE f == [s.walls EXCEPT ![i] = w]
           t == [s EXCEPT !.walls[i] = w]
<1>1. t = [walls |-> f, edges |-> s.edges, pos |-> s.pos, steps |-> s.steps,
           ready |-> s.ready, file |-> s.file, dirty |-> s.dirty]
  BY Rerecorded DEF Kept
<1>2. /\ DOMAIN f = DOMAIN s.walls /\ f[i] = w /\ \A j \in DOMAIN f \ {i} : f[j] = s.walls[j]
      /\ f = [j \in DOMAIN f |-> f[j]]
  OBVIOUS
<1>3. f = With(s.walls, {i}, w)
  BY <1>2 DEF With
<1> HIDE DEF f, t
<1>4. WallEdges(w) = WallEdges(s.walls[i]) /\ (InWorld(w) <=> InWorld(s.walls[i]))
  BY DEF WallEdges, InWorld
<1>5. \A j \in DOMAIN f : WallEdges(f[j]) = WallEdges(s.walls[j]) /\ f[j] \in Wall /\ InWorld(f[j])
  BY <1>2, <1>4, GoodIs DEF Kept
<1>6. Good(f)
  BY <1>2, <1>5, GoodIs, IsGood DEF Kept
<1>7. IndexOf(s.walls) = IndexOf(f)
  <2>1. EdgesOf(f) = EdgesOf(s.walls)
    <3>1. \A e : e \in EdgesOf(f) <=> e \in EdgesOf(s.walls)
      BY <1>2, <1>5, EdgesAre
    <3> QED
      BY <3>1
  <2>2. \A j \in DOMAIN f : \A e \in WallEdges(f[j]) : IndexOf(s.walls)[e] = j
    BY <1>2, <1>5, IndexNames DEF Kept
  <2>3. DOMAIN IndexOf(s.walls) = EdgesOf(s.walls) /\ IndexOf(s.walls) = [e \in DOMAIN IndexOf(s.walls) |-> IndexOf(s.walls)[e]]
    BY DEF IndexOf
  <2> QED
    BY <1>6, <2>1, <2>2, <2>3, IndexIs
<1>8. i \in Ids
  BY GoodIs DEF Kept
<1>9. t.walls = With(t.walls, {i}, w)
  BY <1>1, <1>3 DEF With
<1>10. Shaped(t) /\ t.walls = f /\ t.edges = s.edges
  BY <1>1 DEF Shaped
<1>11. t.pos = s.pos /\ t.steps = s.steps /\ t.ready = s.ready /\ t.file = s.file
  BY <1>1
<1>12. Upsert(t, i) \in Message /\ Upsert(t, i).kind = "upsert" /\ Told(s.walls, Upsert(t, i)) = f
  BY <1>3, <1>8, <1>9, UpsertIs, SMTT(60)
<1> QED
  BY <1>6, <1>7, <1>10, <1>11, <1>12 DEF EditTo, Kept, t

\* delete_wall(): an edit.
LEMMA RemovedIs ==
    ASSUME NEW s, Kept(s), NEW i \in DOMAIN s.walls, NEW t, t = Removed(s, i)
    PROVE  EditTo(s, t, [kind |-> "remove", id |-> i])
<1>1. Good(Rest(s.walls, i)) /\ Unindexed(s.edges, i, s.walls[i]) = IndexOf(Rest(s.walls, i))
  BY WithoutIs DEF Kept
<1>2. t = [walls |-> Rest(s.walls, i), edges |-> IndexOf(Rest(s.walls, i)), pos |-> s.pos,
           steps |-> s.steps, ready |-> s.ready, file |-> s.file, dirty |-> s.dirty]
  <2>1. t = [s EXCEPT !.walls = Rest(s.walls, i), !.edges = Unindexed(s.edges, i, s.walls[i])]
    BY DEF Removed, Rest
  <2> QED
    BY <1>1, <2>1, Rerecorded DEF Kept
<1>3. Shaped(t) /\ t.walls = Rest(s.walls, i) /\ t.edges = IndexOf(t.walls)
  BY <1>2 DEF Shaped
<1>4. t.pos = s.pos /\ t.steps = s.steps /\ t.ready = s.ready /\ t.file = s.file
  BY <1>2
<1>5. i \in Ids
  BY GoodIs DEF Kept
<1>6. Told(s.walls, [kind |-> "remove", id |-> i]) = Rest(s.walls, i)
  BY DEF Told, Rest
<1> QED
  BY <1>1, <1>3, <1>4, <1>5, <1>6 DEF EditTo, Message

\* resize_wall(): refused, or an edit.
LEMMA ResizedIs ==
    ASSUME NEW s, Kept(s), NEW i \in DOMAIN s.walls, NEW e, NEW k \in Int,
           NEW t, t = Resized(s, i, e, k)
    PROVE  t = s \/ EditTo(s, t, Upsert(t, i))
<1>1. s.walls[i] \in Wall
  BY GoodIs DEF Kept
<1> QED
  BY <1>1, MovedIsPlan, ReplacedIs DEF Resized

\* slide_wall(): refused, or an edit.
LEMMA SlidIs ==
    ASSUME NEW s, Kept(s), NEW i \in DOMAIN s.walls, NEW k \in Int, NEW t, t = Slid(s, i, k)
    PROVE  t = s \/ EditTo(s, t, Upsert(t, i))
<1>1. s.walls[i] \in Wall
  BY GoodIs DEF Kept
<1> QED
  BY <1>1, MovedIsPlan, ReplacedIs DEF Slid

\* rotate_wall(): refused, or an edit.
LEMMA RotatedIs ==
    ASSUME NEW s, Kept(s), NEW i \in DOMAIN s.walls, NEW o \in Orientation, NEW t, t = Rotated(s, i, o)
    PROVE  t = s \/ EditTo(s, t, Upsert(t, i))
<1>1. [s.walls[i] EXCEPT !.o = o] \in Plan
  <2>1. s.walls[i] \in Wall /\ 1 \in Int
    BY GoodIs DEF Kept
  <2> QED
    BY <2>1, MovedIsPlan
<1> QED
  BY <1>1, ReplacedIs DEF Rotated

\* update_wall() of the preset: always an edit.
LEMMA RepresetIs ==
    ASSUME NEW s, Kept(s), NEW i \in DOMAIN s.walls, NEW preset \in Presets,
           NEW t, t = Represet(s, i, preset)
    PROVE  EditTo(s, t, Upsert(t, i))
<1>1. PICK w \in Wall : w = s.walls[i]
  BY GoodIs DEF Kept
<1>2. PICK u \in Wall : u = [w EXCEPT !.preset = preset] /\ u.x = w.x /\ u.y = w.y /\ u.o = w.o /\ u.n = w.n
  <2>1. [w EXCEPT !.preset = preset] \in Wall
    BY DEF Wall
  <2>2. LET u == [w EXCEPT !.preset = preset] IN u.x = w.x /\ u.y = w.y /\ u.o = w.o /\ u.n = w.n
    BY DEF Wall
  <2> QED
    BY <2>1, <2>2
<1>3. PICK v \in Wall : /\ v = [u EXCEPT !.quarters = Quarters[preset]]
                        /\ v.x = u.x /\ v.y = u.y /\ v.o = u.o /\ v.n = u.n
  <2>1. PICK q \in 0 .. 4 : q = Quarters[preset]
    BY WallsAssumption
  <2>2. [u EXCEPT !.quarters = q] \in Wall
    BY DEF Wall
  <2>3. LET v == [u EXCEPT !.quarters = q] IN v.x = u.x /\ v.y = u.y /\ v.o = u.o /\ v.n = u.n
    BY DEF Wall
  <2> QED
    BY <2>1, <2>2, <2>3
<1>4. t = [s EXCEPT !.walls[i] = v]
  BY <1>1, <1>2, <1>3 DEF Represet
<1>5. EditTo(s, [s EXCEPT !.walls[i] = v], Upsert([s EXCEPT !.walls[i] = v], i))
  BY <1>1, <1>2, <1>3, RedoneIs
<1> QED
  BY <1>4, <1>5, Zenon

\* update_wall() of the transmission: always an edit.
LEMMA RetunedIs ==
    ASSUME NEW s, Kept(s), NEW i \in DOMAIN s.walls, NEW q \in 0 .. 4, NEW t, t = Retuned(s, i, q)
    PROVE  EditTo(s, t, Upsert(t, i))
<1>1. PICK w \in Wall : w = s.walls[i]
  BY GoodIs DEF Kept
<1>2. PICK v \in Wall : v = [w EXCEPT !.quarters = q] /\ v.x = w.x /\ v.y = w.y /\ v.o = w.o /\ v.n = w.n
  <2>1. [w EXCEPT !.quarters = q] \in Wall
    BY DEF Wall
  <2>2. LET v == [w EXCEPT !.quarters = q] IN v.x = w.x /\ v.y = w.y /\ v.o = w.o /\ v.n = w.n
    BY DEF Wall
  <2> QED
    BY <2>1, <2>2
<1>3. t = [s EXCEPT !.walls[i] = v]
  BY <1>1, <1>2 DEF Retuned
<1>4. EditTo(s, [s EXCEPT !.walls[i] = v], Upsert([s EXCEPT !.walls[i] = v], i))
  BY <1>1, <1>2, RedoneIs
<1> QED
  BY <1>3, <1>4, Zenon

\* Any request about a wall that exists: refused, or an edit.
LEMMA EditWallIs ==
    ASSUME NEW s, Kept(s), NEW i \in DOMAIN s.walls,
           NEW t \in {Resized(s, i, e, d) : e \in {"start", "end"}, d \in {-1, 1}}
              \cup {Slid(s, i, d) : d \in {-1, 1}}
              \cup {Rotated(s, i, o) : o \in Orientation}
              \cup {Represet(s, i, preset) : preset \in Presets}
              \cup {Retuned(s, i, q) : q \in {0, 2, 4}}
    PROVE  t = s \/ EditTo(s, t, Upsert(t, i))
<1>1. CASE \E e \in {"start", "end"}, d \in {-1, 1} : t = Resized(s, i, e, d)
  BY <1>1, ResizedIs
<1>2. CASE \E d \in {-1, 1} : t = Slid(s, i, d)
  BY <1>2, SlidIs
<1>3. CASE \E o \in Orientation : t = Rotated(s, i, o)
  BY <1>3, RotatedIs
<1>4. CASE \E preset \in Presets : t = Represet(s, i, preset)
  BY <1>4, RepresetIs
<1>5. CASE \E q \in {0, 2, 4} : t = Retuned(s, i, q)
  BY <1>5, RetunedIs
<1> QED
  BY <1>1, <1>2, <1>3, <1>4, <1>5

-----------------------------------------------------------------------------
(* The page's walls and the news on their way to it.                       *)

\* With no news the page has the server's walls.
LEMMA FollowsNone ==
    ASSUME NEW walls, Good(walls)
    PROVE  Follows(walls, <<>>, walls)
<1> DEFINE h == [n \in {0} |-> walls]
<1>1. /\ Len(<<>>) = 0 /\ h[0] = walls
      /\ \A n \in 1 .. 0 : h[n] = Told(h[n - 1], <<>>[n])
      /\ \A n \in 0 .. 0 : Good(h[n])
  OBVIOUS
<1> QED
  BY <1>1 DEF Follows

\* The page's walls and the server's are good, and equal with no news.
LEMMA FollowsEnds ==
    ASSUME NEW mine, NEW news \in Seq(Message), NEW theirs, Follows(mine, news, theirs)
    PROVE  Good(mine) /\ Good(theirs) /\ (news = <<>> => mine = theirs)
<1>1. PICK h : /\ h[0] = mine /\ h[Len(news)] = theirs
               /\ \A n \in 0 .. Len(news) : Good(h[n])
  BY DEF Follows
<1>2. Len(news) \in Nat /\ (news = <<>> => Len(news) = 0)
  OBVIOUS
<1>3. 0 \in 0 .. Len(news) /\ Len(news) \in 0 .. Len(news)
  BY <1>2
<1> QED
  BY <1>1, <1>2, <1>3

\* An edit the server has made and sent leads on from its walls.
LEMMA FollowsAppend ==
    ASSUME NEW mine, NEW news \in Seq(Message), NEW theirs, Follows(mine, news, theirs),
           NEW m \in Message, Good(Told(theirs, m))
    PROVE  Follows(mine, Append(news, m), Told(theirs, m))
<1>1. PICK h : /\ h[0] = mine /\ h[Len(news)] = theirs
               /\ \A n \in 1 .. Len(news) : h[n] = Told(h[n - 1], news[n])
               /\ \A n \in 0 .. Len(news) : Good(h[n])
  BY DEF Follows
<1>2. PICK len \in Nat : len = Len(news)
  OBVIOUS
<1>3. /\ Len(Append(news, m)) = len + 1 /\ Append(news, m)[len + 1] = m
      /\ \A n \in 1 .. len : Append(news, m)[n] = news[n]
  BY <1>2
<1> DEFINE g == [n \in 0 .. len + 1 |-> IF n = len + 1 THEN Told(theirs, m) ELSE h[n]]
<1>4. g[0] = mine /\ g[len + 1] = Told(theirs, m)
  BY <1>1
<1>5. \A n \in 1 .. len + 1 : g[n] = Told(g[n - 1], Append(news, m)[n])
  <2> SUFFICES ASSUME NEW n \in 1 .. len + 1 PROVE g[n] = Told(g[n - 1], Append(news, m)[n])
    OBVIOUS
  <2>1. n - 1 \in 0 .. len + 1 /\ n - 1 # len + 1 /\ g[n - 1] = h[n - 1]
    OBVIOUS
  <2>2. CASE n = len + 1
    BY <2>1, <2>2, <1>1, <1>2, <1>3
  <2>3. CASE n # len + 1
    <3>1. n \in 1 .. len /\ g[n] = h[n]
      BY <2>3
    <3> QED
      BY <2>1, <3>1, <1>1, <1>2, <1>3
  <2> QED
    BY <2>2, <2>3
<1>6. \A n \in 0 .. len + 1 : Good(g[n])
  <2> SUFFICES ASSUME NEW n \in 0 .. len + 1 PROVE Good(g[n])
    OBVIOUS
  <2> QED
    BY <1>1, <1>2
<1> HIDE DEF g
<1> QED
  BY <1>3, <1>4, <1>5, <1>6 DEF Follows

\* News that the page has read lead on from the page's new walls.
LEMMA FollowsTail ==
    ASSUME NEW mine, NEW news \in Seq(Message), NEW theirs, Follows(mine, news, theirs), news # <<>>
    PROVE  /\ Follows(Told(mine, Head(news)), Tail(news), theirs)
           /\ Good(Told(mine, Head(news)))
<1>1. PICK h : /\ h[0] = mine /\ h[Len(news)] = theirs
               /\ \A n \in 1 .. Len(news) : h[n] = Told(h[n - 1], news[n])
               /\ \A n \in 0 .. Len(news) : Good(h[n])
  BY DEF Follows
<1>2. PICK len \in Nat \ {0} : len = Len(news)
  OBVIOUS
<1>3. /\ Len(Tail(news)) = len - 1 /\ Head(news) = news[1]
      /\ \A n \in 1 .. len - 1 : Tail(news)[n] = news[n + 1]
  BY <1>2
<1> DEFINE g == [n \in 0 .. len - 1 |-> h[n + 1]]
<1>4. g[0] = Told(mine, Head(news)) /\ g[len - 1] = theirs
  <2>1. /\ 0 \in 0 .. len - 1 /\ len - 1 \in 0 .. len - 1 /\ 1 \in 1 .. len
        /\ 1 - 1 = 0 /\ len - 1 + 1 = len /\ 0 + 1 = 1
    OBVIOUS
  <2>2. h[1] = Told(h[1 - 1], news[1])
    BY <2>1, <1>1, <1>2
  <2> QED
    BY <2>1, <2>2, <1>1, <1>2, <1>3
<1>5. \A n \in 1 .. len - 1 : g[n] = Told(g[n - 1], Tail(news)[n])
  <2> SUFFICES ASSUME NEW n \in 1 .. len - 1 PROVE g[n] = Told(g[n - 1], Tail(news)[n])
    OBVIOUS
  <2>1. /\ n - 1 \in 0 .. len - 1 /\ n \in 0 .. len - 1 /\ n + 1 \in 1 .. len
        /\ n - 1 + 1 = n /\ n + 1 - 1 = n
    OBVIOUS
  <2>2. g[n - 1] = h[n] /\ g[n] = h[n + 1]
    BY <2>1
  <2>3. h[n + 1] = Told(h[n + 1 - 1], news[n + 1])
    BY <2>1, <1>1, <1>2
  <2> QED
    BY <2>1, <2>2, <2>3, <1>3
<1>6. \A n \in 0 .. len - 1 : Good(g[n])
  <2> SUFFICES ASSUME NEW n \in 0 .. len - 1 PROVE Good(g[n])
    OBVIOUS
  <2>1. n + 1 \in 0 .. len
    OBVIOUS
  <2> QED
    BY <2>1, <1>1, <1>2
<1>7. 0 \in 0 .. len - 1
  OBVIOUS
<1> HIDE DEF g
<1> QED
  BY <1>3, <1>4, <1>5, <1>6, <1>7 DEF Follows

-----------------------------------------------------------------------------
(* Changes of one field of the server's record.                            *)

\* Each field by itself: pos,
LEMMA NewPos ==
    ASSUME NEW s, Shaped(s), NEW a, NEW t, t = [s EXCEPT !.pos = a]
    PROVE  /\ Shaped(t) /\ t.walls = s.walls /\ t.edges = s.edges /\ t.pos = a /\ t.steps = s.steps
           /\ t.ready = s.ready /\ t.file = s.file /\ t.dirty = s.dirty
<1>1. PICK w, e, p, n, r, f, d :
          /\ s = [walls |-> w, edges |-> e, pos |-> p, steps |-> n, ready |-> r, file |-> f, dirty |-> d]
          /\ s.walls = w /\ s.edges = e /\ s.pos = p /\ s.steps = n /\ s.ready = r /\ s.file = f
          /\ s.dirty = d
  BY DEF Shaped
<1>2. t = [walls |-> w, edges |-> e, pos |-> a, steps |-> n, ready |-> r, file |-> f, dirty |-> d]
  BY <1>1
<1> QED
  BY <1>1, <1>2 DEF Shaped

\* steps,
LEMMA NewSteps ==
    ASSUME NEW s, Shaped(s), NEW a, NEW t, t = [s EXCEPT !.steps = a]
    PROVE  /\ Shaped(t) /\ t.walls = s.walls /\ t.edges = s.edges /\ t.pos = s.pos /\ t.steps = a
           /\ t.ready = s.ready /\ t.file = s.file /\ t.dirty = s.dirty
<1>1. PICK w, e, p, n, r, f, d :
          /\ s = [walls |-> w, edges |-> e, pos |-> p, steps |-> n, ready |-> r, file |-> f, dirty |-> d]
          /\ s.walls = w /\ s.edges = e /\ s.pos = p /\ s.steps = n /\ s.ready = r /\ s.file = f
          /\ s.dirty = d
  BY DEF Shaped
<1>2. t = [walls |-> w, edges |-> e, pos |-> p, steps |-> a, ready |-> r, file |-> f, dirty |-> d]
  BY <1>1
<1> QED
  BY <1>1, <1>2 DEF Shaped

\* ready,
LEMMA NewReady ==
    ASSUME NEW s, Shaped(s), NEW a, NEW t, t = [s EXCEPT !.ready = a]
    PROVE  /\ Shaped(t) /\ t.walls = s.walls /\ t.edges = s.edges /\ t.pos = s.pos /\ t.steps = s.steps
           /\ t.ready = a /\ t.file = s.file /\ t.dirty = s.dirty
<1>1. PICK w, e, p, n, r, f, d :
          /\ s = [walls |-> w, edges |-> e, pos |-> p, steps |-> n, ready |-> r, file |-> f, dirty |-> d]
          /\ s.walls = w /\ s.edges = e /\ s.pos = p /\ s.steps = n /\ s.ready = r /\ s.file = f
          /\ s.dirty = d
  BY DEF Shaped
<1>2. t = [walls |-> w, edges |-> e, pos |-> p, steps |-> n, ready |-> a, file |-> f, dirty |-> d]
  BY <1>1
<1> QED
  BY <1>1, <1>2 DEF Shaped

\* file,
LEMMA NewFile ==
    ASSUME NEW s, Shaped(s), NEW a, NEW t, t = [s EXCEPT !.file = a]
    PROVE  /\ Shaped(t) /\ t.walls = s.walls /\ t.edges = s.edges /\ t.pos = s.pos /\ t.steps = s.steps
           /\ t.ready = s.ready /\ t.file = a /\ t.dirty = s.dirty
<1>1. PICK w, e, p, n, r, f, d :
          /\ s = [walls |-> w, edges |-> e, pos |-> p, steps |-> n, ready |-> r, file |-> f, dirty |-> d]
          /\ s.walls = w /\ s.edges = e /\ s.pos = p /\ s.steps = n /\ s.ready = r /\ s.file = f
          /\ s.dirty = d
  BY DEF Shaped
<1>2. t = [walls |-> w, edges |-> e, pos |-> p, steps |-> n, ready |-> r, file |-> a, dirty |-> d]
  BY <1>1
<1> QED
  BY <1>1, <1>2 DEF Shaped

\* and dirty.
LEMMA NewDirty ==
    ASSUME NEW s, Shaped(s), NEW a, NEW t, t = [s EXCEPT !.dirty = a]
    PROVE  /\ Shaped(t) /\ t.walls = s.walls /\ t.edges = s.edges /\ t.pos = s.pos /\ t.steps = s.steps
           /\ t.ready = s.ready /\ t.file = s.file /\ t.dirty = a
<1>1. PICK w, e, p, n, r, f, d :
          /\ s = [walls |-> w, edges |-> e, pos |-> p, steps |-> n, ready |-> r, file |-> f, dirty |-> d]
          /\ s.walls = w /\ s.edges = e /\ s.pos = p /\ s.steps = n /\ s.ready = r /\ s.file = f
          /\ s.dirty = d
  BY DEF Shaped
<1>2. t = [walls |-> w, edges |-> e, pos |-> p, steps |-> n, ready |-> r, file |-> f, dirty |-> a]
  BY <1>1
<1> QED
  BY <1>1, <1>2 DEF Shaped


-----------------------------------------------------------------------------
(* The news under way.                                                     *)

\* A sequence with one more at its end.
LEMMA AppendIs ==
    ASSUME NEW S, NEW q \in Seq(S), NEW x \in S
    PROVE  /\ Append(q, x) \in Seq(S) /\ Append(q, x) # <<>>
           /\ DOMAIN Append(q, x) = DOMAIN q \cup {Len(q) + 1}
           /\ Append(q, x)[Len(q) + 1] = x
           /\ \A n \in DOMAIN q : Append(q, x)[n] = q[n] /\ n < Len(q) + 1
  OBVIOUS

\* A sequence without its first.
LEMMA TailIs ==
    ASSUME NEW S, NEW q \in Seq(S), q # <<>>
    PROVE  /\ Tail(q) \in Seq(S) /\ Head(q) = q[1] /\ 1 \in DOMAIN q /\ Head(q) \in S
           /\ \A n \in DOMAIN Tail(q) : n + 1 \in DOMAIN q /\ Tail(q)[n] = q[n + 1]
           /\ \A n \in DOMAIN q : n = 1 \/ (n - 1 \in DOMAIN Tail(q) /\ Tail(q)[n - 1] = q[n])
           /\ Len(q) = 1 => Tail(q) = <<>>
<1>1. PICK len \in Nat \ {0} : len = Len(q) /\ DOMAIN q = 1 .. len
  OBVIOUS
<1>2. /\ Tail(q) \in Seq(S) /\ Head(q) = q[1] /\ Head(q) \in S /\ DOMAIN Tail(q) = 1 .. len - 1
      /\ \A n \in 1 .. len - 1 : Tail(q)[n] = q[n + 1]
  BY <1>1
<1>3. \A n \in 1 .. len - 1 : n + 1 \in 1 .. len
  OBVIOUS
<1>4. \A n \in 1 .. len : n = 1 \/ (n - 1 \in 1 .. len - 1 /\ n - 1 + 1 = n)
  OBVIOUS
<1>5. len = 1 => Tail(q) = <<>>
  <2>1. len = 1 => Len(Tail(q)) = 0
    BY <1>1, HeadTailProperties
  <2> QED
    BY <2>1, <1>2, EmptySeq
<1>6. 1 \in DOMAIN q
  BY <1>1
<1>7. \A n \in DOMAIN Tail(q) : n + 1 \in DOMAIN q /\ Tail(q)[n] = q[n + 1]
  BY <1>1, <1>2, <1>3
<1>8. \A n \in DOMAIN q : n = 1 \/ (n - 1 \in DOMAIN Tail(q) /\ Tail(q)[n - 1] = q[n])
  <2>1. ASSUME NEW n \in 1 .. len, n # 1 PROVE n - 1 \in 1 .. len - 1 /\ Tail(q)[n - 1] = q[n]
    <3>1. n - 1 \in 1 .. len - 1 /\ n - 1 + 1 = n
      BY <1>4, <2>1
    <3>2. Tail(q)[n - 1] = q[n - 1 + 1]
      BY <1>2, <3>1
    <3> QED
      BY <3>1, <3>2
  <2>2. DOMAIN q = 1 .. len /\ DOMAIN Tail(q) = 1 .. len - 1
    BY <1>1, <1>2
  <2>3. ASSUME NEW n \in DOMAIN q, n # 1
        PROVE  n - 1 \in DOMAIN Tail(q) /\ Tail(q)[n - 1] = q[n]
    <3>1. n \in 1 .. len
      BY <2>2
    <3>2. n - 1 \in 1 .. len - 1 /\ Tail(q)[n - 1] = q[n]
      BY <2>1, <2>3, <3>1
    <3> QED
      BY <2>2, <3>2
  <2> QED
    BY <2>3
<1> QED
  BY <1>1, <1>2, <1>5, <1>6, <1>7, <1>8

\* The kinds of messages; one about a position leaves the walls alone.
LEMMA MessageIs ==
    ASSUME NEW m \in Message
    PROVE  /\ m.kind \in {"welcome", "upsert", "remove", "position"}
           /\ m.kind = "position" => m.at \in Cells /\ \A walls : Told(walls, m) = walls
  BY DEF Message, Told

\* The kept server of the invariant.
LEMMA ServerKept ==
    ASSUME WallsInv
    PROVE  Kept(srv)
  BY DEF WallsInv, ServerInv, Kept

-----------------------------------------------------------------------------
(* Every step keeps the invariant.                                         *)

\* A change of the server's state that neither its walls nor its user see.
LEMMA EditKeeps ==
    ASSUME WallsInv, NEW s, NEW m, EditTo(srv, s, m), Edited(s, m)
    PROVE  WallsInv'
<1>1. /\ Shaped(srv') /\ srv'.walls = s.walls /\ srv'.edges = s.edges /\ srv'.pos = srv.pos
      /\ srv'.steps = srv.steps /\ srv'.ready = srv.ready /\ srv'.file = srv.file
  <2>1. srv' = [s EXCEPT !.dirty = TRUE]
    BY DEF Edited
  <2>2. /\ Shaped(s) /\ s.pos = srv.pos /\ s.steps = srv.steps /\ s.ready = srv.ready
        /\ s.file = srv.file
    BY DEF EditTo
  <2> QED
    BY <2>1, <2>2, NewDirty
<1>2. /\ Good(s.walls) /\ s.edges = IndexOf(s.walls) /\ m \in Message
      /\ m.kind \in {"upsert", "remove"} /\ s.walls = Told(srv.walls, m)
  BY DEF EditTo
<1>3. page' = page /\ up' = up /\ unheard' = unheard
  BY DEF Edited
<1>4. ServerInv'
  BY <1>1, <1>2 DEF WallsInv, ServerInv
<1>5. CASE srv.ready
  <2>1. down' = Append(down, m) /\ missed' = missed
    BY <1>5 DEF Edited
  <2>2. down \in Seq(Message)
    BY DEF WallsInv, ConnectionInv
  <2>3. /\ down' \in Seq(Message) /\ DOMAIN down' = DOMAIN down \cup {Len(down) + 1}
        /\ down'[Len(down) + 1] = m
        /\ \A n \in DOMAIN down : down'[n] = down[n] /\ n < Len(down) + 1
    BY <1>2, <2>1, <2>2, AppendIs
  <2>4. page.phase # "away" /\ Entered(page)
    BY <1>5 DEF WallsInv, ConnectionInv, Entered
  <2>5. ConnectionInv'
    BY <1>1, <1>2, <1>3, <1>5, <2>3, <2>4 DEF WallsInv, ConnectionInv
  <2>6. CopyInv'
    <3>1. page.phase # "away" => page.index = PageIndex(page.walls)
      BY DEF WallsInv, CopyInv
    <3>2. ~missed => Follows(page.walls, down, srv.walls)
      BY <2>4 DEF WallsInv, CopyInv
    <3>3. ~missed => Follows(page.walls, Append(down, m), s.walls)
      BY <1>2, <2>2, <3>2, FollowsAppend
    <3> QED
      BY <1>1, <1>3, <2>1, <3>1, <3>3 DEF CopyInv
  <2>7. PositionInv'
    BY <1>1, <1>2, <1>3, <2>3 DEF WallsInv, PositionInv, IsPosition, Stepless
  <2> QED
    BY <1>4, <2>5, <2>6, <2>7 DEF WallsInv
<1>6. CASE ~srv.ready
  <2>1. down' = down /\ missed' = (missed \/ page.phase # "away" \/ down # <<>>)
    BY <1>6 DEF Edited
  <2>2. \A n \in DOMAIN down : missed'
    <3>1. DOMAIN down # {} => down # <<>>
      OBVIOUS
    <3> QED
      BY <2>1, <3>1
  <2>3. ConnectionInv'
    BY <1>1, <1>3, <1>6, <2>1, <2>2 DEF WallsInv, ConnectionInv
  <2>4. CopyInv'
    BY <1>3, <2>1 DEF WallsInv, CopyInv
  <2>5. PositionInv'
    BY <1>1, <1>3, <2>1 DEF WallsInv, PositionInv, Stepless
  <2> QED
    BY <1>4, <2>3, <2>4, <2>5 DEF WallsInv
<1> QED
  BY <1>5, <1>6

\* A builder's request that is not refused is an edit.
LEMMA EditsAre ==
    ASSUME WallsInv, Edits
    PROVE  \E s, m : EditTo(srv, s, m) /\ Edited(s, m)
<1>1. CASE AddWall
  <2>1. PICK i \in Free, c \in Cells, dir \in {"north", "south", "east", "west"}, preset \in Presets :
            LET s == Added(srv, i, c, dir, preset) IN s # srv /\ Edited(s, Upsert(s, i))
    BY <1>1 DEF AddWall
  <2>2. PICK s : s = Added(srv, i, c, dir, preset)
    OBVIOUS
  <2>3. i \in Ids \ DOMAIN srv.walls
    BY DEF Free
  <2>4. EditTo(srv, s, Upsert(s, i))
    BY <2>1, <2>2, <2>3, AddedIs, ServerKept
  <2> QED
    BY <2>1, <2>2, <2>4
<1>2. CASE EditWall
  <2>1. PICK i \in DOMAIN srv.walls :
        \E s \in {Resized(srv, i, e, d) : e \in {"start", "end"}, d \in {-1, 1}}
              \cup {Slid(srv, i, d) : d \in {-1, 1}}
              \cup {Rotated(srv, i, o) : o \in Orientation}
              \cup {Represet(srv, i, preset) : preset \in Presets}
              \cup {Retuned(srv, i, q) : q \in {0, 2, 4}} :
            Edited(s, Upsert(s, i))
    BY <1>2 DEF EditWall
  <2>2. PICK s : /\ Edited(s, Upsert(s, i))
                 /\ s = srv \/ EditTo(srv, s, Upsert(s, i))
    BY <2>1, EditWallIs, ServerKept
  <2>3. s # srv
    BY <2>2 DEF Edited
  <2> QED
    BY <2>2, <2>3
<1>3. CASE DeleteWall
  <2>1. PICK i \in DOMAIN srv.walls : Edited(Removed(srv, i), [kind |-> "remove", id |-> i])
    BY <1>3 DEF DeleteWall
  <2>2. EditTo(srv, Removed(srv, i), [kind |-> "remove", id |-> i])
    BY RemovedIs, ServerKept
  <2> QED
    BY <2>1, <2>2
<1> QED
  BY <1>1, <1>2, <1>3 DEF Edits

\* Builders' requests keep the invariant.
LEMMA EditsKeep ==
    ASSUME WallsInv, Edits
    PROVE  WallsInv'
  BY EditsAre, EditKeeps

\* A welcome carries the walls and the position of this moment.
LEMMA WelcomeKeeps ==
    ASSUME WallsInv, Welcome
    PROVE  WallsInv'
<1>1. /\ page.phase = "away" /\ down = <<>> /\ page' = page /\ up' = up
      /\ down' = <<[kind |-> "welcome", at |-> srv.pos, walls |-> srv.walls]>>
      /\ srv' = [srv EXCEPT !.steps = 0, !.ready = FALSE]
  BY DEF Welcome
<1>2. /\ Shaped(srv') /\ srv'.walls = srv.walls /\ srv'.edges = srv.edges /\ srv'.pos = srv.pos
      /\ srv'.steps = 0 /\ ~srv'.ready /\ srv'.file = srv.file
  <2>1. PICK s : s = [srv EXCEPT !.steps = 0]
    OBVIOUS
  <2>2. srv' = [s EXCEPT !.ready = FALSE]
    BY <1>1, <2>1
  <2>3. /\ Shaped(s) /\ s.walls = srv.walls /\ s.edges = srv.edges /\ s.pos = srv.pos
        /\ s.steps = 0 /\ s.file = srv.file
    BY <2>1, NewSteps, ServerKept DEF Kept
  <2> QED
    BY <2>2, <2>3, NewReady
<1>3. ServerInv'
  BY <1>2 DEF WallsInv, ServerInv
<1>4. PICK m \in Message : m = [kind |-> "welcome", at |-> srv.pos, walls |-> srv.walls]
  <2>1. srv.pos \in Cells /\ srv.walls \in Maps
    BY DEF WallsInv, ServerInv, Good
  <2> QED
    BY <2>1 DEF Message
<1>5. /\ down' \in Seq(Message) /\ DOMAIN down' = {1} /\ down'[1] = m /\ Len(down') = 1
      /\ m.kind = "welcome" /\ m.at = srv.pos /\ m.walls = srv.walls
  BY <1>1, <1>4
<1>6. ConnectionInv'
  BY <1>1, <1>2, <1>5 DEF WallsInv, ServerInv, ConnectionInv
<1>7. CopyInv' /\ PositionInv'
  BY <1>1, <1>5 DEF CopyInv, PositionInv, IsPosition
<1> QED
  BY <1>3, <1>6, <1>7 DEF WallsInv

\* A page that has sent something is in the world; a message that is not a
\* step does not stand between the page and being stepless.
LEMMA StepperIs ==
    ASSUME WallsInv, up # <<>>
    PROVE  /\ Tail(up) \in Seq(Sent)
           /\ Entered(page) /\ (\A n \in DOMAIN down : down[n].kind # "welcome")
           /\ Head(up).kind # "ready" => Head(up).to \in Cells
           /\ Head(up).kind = "ready" => ((\A n \in DOMAIN Tail(up) : Tail(up)[n].kind = "ready") => Stepless)
<1>1. up \in Seq(Sent)
  BY DEF WallsInv, ConnectionInv
<1>2. Entered(page) /\ \A n \in DOMAIN down : down[n].kind # "welcome"
  BY DEF WallsInv, ConnectionInv, Entered
<1>3. Head(up) \in Sent
  BY <1>1, TailIs
<1>5. Head(up).kind # "ready" => Head(up).to \in Cells
  BY <1>3 DEF Sent
<1>4. Head(up).kind = "ready" => ((\A n \in DOMAIN Tail(up) : Tail(up)[n].kind = "ready") => Stepless)
  <2> SUFFICES ASSUME Head(up).kind = "ready", \A n \in DOMAIN Tail(up) : Tail(up)[n].kind = "ready",
                      NEW n \in DOMAIN up
               PROVE  up[n].kind = "ready"
    BY DEF Stepless
  <2>1. Head(up) = up[1] /\ (n = 1 \/ (n - 1 \in DOMAIN Tail(up) /\ Tail(up)[n - 1] = up[n]))
    BY <1>1, TailIs
  <2> QED
    BY <2>1
<1> QED
  BY <1>1, <1>2, <1>4, <1>5, TailIs

Moved(steps, pos) ==
    /\ Shaped(srv') /\ srv'.walls = srv.walls /\ srv'.edges = srv.edges /\ srv'.pos = pos
    /\ srv'.steps = steps /\ srv'.ready = srv.ready /\ srv'.file = srv.file

\* A move of the user on the server, and the answer that says where it then is.
LEMMA MovedKeeps ==
    ASSUME WallsInv, up # <<>>, srv.ready, up' = Tail(up), page' = page, missed' = missed,
           NEW steps \in Nat, NEW pos \in Cells,
           Moved(steps, pos), down' = Append(down, PositionOf(srv'))
    PROVE  WallsInv'
<1>7. /\ Shaped(srv') /\ srv'.walls = srv.walls /\ srv'.edges = srv.edges /\ srv'.pos = pos
      /\ srv'.steps = steps /\ srv'.ready = srv.ready /\ srv'.file = srv.file
  BY DEF Moved
<1>8. ServerInv'
  BY <1>7 DEF WallsInv, ServerInv
<1>9. PICK m \in Message : m = PositionOf(srv') /\ m.kind = "position" /\ m.at = pos
  <2>1. PositionOf(srv') = [kind |-> "position", at |-> pos]
    BY <1>7 DEF PositionOf
  <2>2. [kind |-> "position", at |-> pos] \in Message
    BY DEF Message
  <2> QED
    BY <2>1, <2>2
<1>10. down \in Seq(Message)
  BY DEF WallsInv, ConnectionInv
<1>11. /\ down' \in Seq(Message) /\ DOMAIN down' = DOMAIN down \cup {Len(down) + 1}
       /\ down'[Len(down) + 1] = m
       /\ \A n \in DOMAIN down : down'[n] = down[n] /\ n < Len(down) + 1
  BY <1>9, <1>10, AppendIs
<1>12. ConnectionInv'
  BY <1>7, <1>9, <1>11, StepperIs DEF WallsInv, ConnectionInv
<1>13. CopyInv'
  <2>1. Told(srv.walls, m) = srv.walls
    BY <1>9, MessageIs
  <2>2. page.index = PageIndex(page.walls) /\ (~missed => Follows(page.walls, down, srv.walls))
    BY StepperIs DEF WallsInv, CopyInv, Entered
  <2>3. ~missed => Follows(page.walls, Append(down, m), srv.walls)
    BY <1>10, <2>1, <2>2, FollowsAppend DEF WallsInv, ServerInv
  <2> QED
    BY <1>7, <1>9, <2>2, <2>3 DEF CopyInv
<1>14. PositionInv'
  BY <1>7, <1>9, <1>11 DEF PositionInv, IsPosition
<1> QED
  BY <1>8, <1>12, <1>13, <1>14 DEF WallsInv

\* The answer to a step says where the user then is.
LEMMA HandleStepKeeps ==
    ASSUME WallsInv, HandleStep
    PROVE  WallsInv'
<1>1. /\ up # <<>> /\ Head(up).kind = "step" /\ srv.ready /\ up' = Tail(up) /\ page' = page
      /\ missed' = missed
  BY DEF HandleStep
<1>2. PICK q \in Cells : q = Head(up).to
  BY <1>1, StepperIs
<1>3. PICK delta : delta = Larger(Abs(q[1] - srv.pos[1]), Abs(q[2] - srv.pos[2]))
  OBVIOUS
<1>4. delta \in Nat
  <2>1. q[1] \in Int /\ q[2] \in Int /\ srv.pos[1] \in Int /\ srv.pos[2] \in Int
    BY DEF WallsInv, ServerInv, Cells
  <2> QED
    BY <1>3, <2>1 DEF Larger, Abs
<1>5. PICK steps, pos :
        /\ steps = IF q \in Cells /\ delta <= MaxSteps - srv.steps THEN srv.steps + delta ELSE srv.steps
        /\ pos = IF q \in Cells /\ delta <= MaxSteps - srv.steps /\ ~BlockedMove(srv, srv.pos, q) THEN q ELSE srv.pos
        /\ srv' = [srv EXCEPT !.steps = steps, !.pos = pos]
        /\ down' = Append(down, PositionOf(srv'))
  BY <1>2, <1>3 DEF HandleStep
<1>6. steps \in Nat /\ pos \in Cells
  BY <1>4, <1>5 DEF WallsInv, ServerInv
<1>7. Moved(steps, pos)
  <2>1. PICK s : s = [srv EXCEPT !.steps = steps]
    OBVIOUS
  <2>2. srv' = [s EXCEPT !.pos = pos]
    BY <1>5, <2>1
  <2>3. /\ Shaped(s) /\ s.walls = srv.walls /\ s.edges = srv.edges /\ s.ready = srv.ready
        /\ s.steps = steps /\ s.file = srv.file
    BY <2>1, NewSteps, ServerKept DEF Kept
  <2> QED
    BY <2>2, <2>3, NewPos DEF Moved
<1>8. down' = Append(down, PositionOf(srv'))
  BY <1>5
<1> QED
  BY <1>1, <1>6, <1>7, <1>8, MovedKeeps

\* The user is where the page has arrived, for the server too.
LEMMA HandleArrivalKeeps ==
    ASSUME WallsInv, HandleArrival
    PROVE  WallsInv'
<1>1. /\ up # <<>> /\ Head(up).kind = "arrival" /\ srv.ready /\ up' = Tail(up) /\ page' = page
      /\ missed' = missed
  BY DEF HandleArrival
<1>2. PICK q \in Cells : q = Head(up).to
  BY <1>1, StepperIs
<1>3. srv' = [srv EXCEPT !.pos = q] /\ down' = Append(down, PositionOf(srv'))
  BY <1>2 DEF HandleArrival
<1>4. srv.steps \in Nat
  BY DEF WallsInv, ServerInv
<1>5. Moved(srv.steps, q)
  <2>1. PICK t : t = [srv EXCEPT !.pos = q]
    OBVIOUS
  <2>2. Shaped(srv)
    BY ServerKept DEF Kept
  <2>3. /\ Shaped(t) /\ t.walls = srv.walls /\ t.edges = srv.edges /\ t.pos = q
        /\ t.steps = srv.steps /\ t.ready = srv.ready /\ t.file = srv.file
    BY <2>1, <2>2, NewPos
  <2>4. t = srv'
    BY <1>3, <2>1
  <2> QED
    BY <2>3, <2>4 DEF Moved
<1> QED
  BY <1>1, <1>3, <1>4, <1>5, MovedKeeps

\* A step or an arrival from before welcome_ready is lost, and unheard says so.
LEMMA IgnoreStepKeeps ==
    ASSUME WallsInv, IgnoreStep
    PROVE  WallsInv'
<1>1. /\ up # <<>> /\ up' = Tail(up) /\ unheard' /\ srv' = srv /\ page' = page /\ down' = down
      /\ missed' = missed
  BY DEF IgnoreStep
<1>2. ServerInv' /\ CopyInv'
  BY <1>1 DEF WallsInv, ServerInv, CopyInv
<1>3. ConnectionInv'
  BY <1>1, StepperIs DEF WallsInv, ConnectionInv
<1>4. PositionInv'
  BY <1>1 DEF WallsInv, PositionInv
<1> QED
  BY <1>2, <1>3, <1>4 DEF WallsInv

\* welcome_ready: from here on edits are sent.
LEMMA HandleReadyKeeps ==
    ASSUME WallsInv, HandleReady
    PROVE  WallsInv'
<1>1. /\ up # <<>> /\ Head(up).kind = "ready" /\ up' = Tail(up) /\ page' = page /\ down' = down
      /\ missed' = missed /\ unheard' = unheard
  BY DEF HandleReady
<1>2. /\ Shaped(srv') /\ srv'.walls = srv.walls /\ srv'.edges = srv.edges /\ srv'.pos = srv.pos
      /\ srv'.steps = srv.steps /\ srv'.ready /\ srv'.file = srv.file
  <2>1. PICK b \in BOOLEAN : b = TRUE
    OBVIOUS
  <2>2. srv' = [srv EXCEPT !.ready = b]
    BY <2>1 DEF HandleReady
  <2>3. Shaped(srv)
    BY ServerKept DEF Kept
  <2> QED
    BY <2>1, <2>2, <2>3, NewReady
<1>3. ServerInv' /\ CopyInv'
  BY <1>1, <1>2 DEF WallsInv, ServerInv, CopyInv
<1>4. ConnectionInv'
  BY <1>1, <1>2, StepperIs DEF WallsInv, ConnectionInv
<1>5. Stepless' => Stepless
  BY <1>1, StepperIs DEF Stepless
<1>6. PositionInv'
  BY <1>1, <1>2, <1>5 DEF WallsInv, PositionInv
<1> QED
  BY <1>3, <1>4, <1>6 DEF WallsInv

\* The clock and the disk change nothing that the page or the position see.
LEMMA TimersKeep ==
    ASSUME WallsInv, NextWindow \/ Flush
    PROVE  WallsInv'
<1>1. /\ up' = up /\ page' = page /\ down' = down /\ missed' = missed /\ unheard' = unheard
  BY DEF NextWindow, Flush
<1>2. /\ Shaped(srv') /\ srv'.walls = srv.walls /\ srv'.edges = srv.edges /\ srv'.pos = srv.pos
      /\ srv'.steps \in {0, srv.steps} /\ srv'.ready = srv.ready /\ srv'.file \in {srv.walls, srv.file}
  <2>1. CASE NextWindow
    BY <2>1, NewSteps, ServerKept DEF Kept, NextWindow
  <2>2. CASE Flush
    <3>1. PICK s : s = [srv EXCEPT !.file = srv.walls]
      OBVIOUS
    <3>2. srv' = [s EXCEPT !.dirty = FALSE]
      BY <2>2, <3>1 DEF Flush
    <3>3. /\ Shaped(s) /\ s.walls = srv.walls /\ s.edges = srv.edges /\ s.pos = srv.pos
          /\ s.steps = srv.steps /\ s.ready = srv.ready /\ s.file = srv.walls
      BY <3>1, NewFile, ServerKept DEF Kept
    <3> QED
      BY <3>2, <3>3, NewDirty
  <2> QED
    BY <2>1, <2>2
<1>3. Good(Loaded(srv'.file))
  BY <1>2, NothingIsGood DEF WallsInv, ServerInv, Loaded
<1>4. ServerInv' /\ CopyInv'
  BY <1>1, <1>2, <1>3 DEF WallsInv, ServerInv, CopyInv
<1>5. ConnectionInv' /\ PositionInv'
  BY <1>1, <1>2 DEF WallsInv, ConnectionInv, PositionInv, Stepless
<1> QED
  BY <1>4, <1>5 DEF WallsInv

\* The page's record, field by field.
LEMMA LooksIs ==
    ASSUME NEW pg, NEW w, NEW i, NEW p, NEW f, NEW m, Looks(pg, w, i, p, f, m)
    PROVE  /\ PageShaped(pg) /\ pg.walls = w /\ pg.index = i /\ pg.pos = p /\ pg.phase = f
           /\ pg.move = m
  BY DEF Looks, PageShaped

LEMMA NewPlace ==
    ASSUME NEW pg, PageShaped(pg), NEW a, NEW t, t = [pg EXCEPT !.pos = a]
    PROVE  /\ PageShaped(t) /\ t.walls = pg.walls /\ t.index = pg.index /\ t.pos = a
           /\ t.phase = pg.phase /\ t.move = pg.move
<1>1. PICK w, i, p, f, m : Looks(pg, w, i, p, f, m)
  BY DEF PageShaped
<1>2. Looks(t, w, i, a, f, m)
  BY <1>1 DEF Looks
<1> QED
  BY <1>1, <1>2, LooksIs

LEMMA NewPhase ==
    ASSUME NEW pg, PageShaped(pg), NEW a, NEW t, t = [pg EXCEPT !.phase = a]
    PROVE  /\ PageShaped(t) /\ t.walls = pg.walls /\ t.index = pg.index /\ t.pos = pg.pos
           /\ t.phase = a /\ t.move = pg.move
<1>1. PICK w, i, p, f, m : Looks(pg, w, i, p, f, m)
  BY DEF PageShaped
<1>2. Looks(t, w, i, p, a, m)
  BY <1>1 DEF Looks
<1> QED
  BY <1>1, <1>2, LooksIs

LEMMA NewMove ==
    ASSUME NEW pg, PageShaped(pg), NEW a, NEW t, t = [pg EXCEPT !.move = a]
    PROVE  /\ PageShaped(t) /\ t.walls = pg.walls /\ t.index = pg.index /\ t.pos = pg.pos
           /\ t.phase = pg.phase /\ t.move = a
<1>1. PICK w, i, p, f, m : Looks(pg, w, i, p, f, m)
  BY DEF PageShaped
<1>2. Looks(t, w, i, p, f, a)
  BY <1>1 DEF Looks
<1> QED
  BY <1>1, <1>2, LooksIs

LEMMA NewMap ==
    ASSUME NEW pg, PageShaped(pg), NEW a, NEW t, t = [pg EXCEPT !.walls = a]
    PROVE  /\ PageShaped(t) /\ t.walls = a /\ t.index = pg.index /\ t.pos = pg.pos
           /\ t.phase = pg.phase /\ t.move = pg.move
<1>1. PICK w, i, p, f, m : Looks(pg, w, i, p, f, m)
  BY DEF PageShaped
<1>2. Looks(t, a, i, p, f, m)
  BY <1>1 DEF Looks
<1> QED
  BY <1>1, <1>2, LooksIs

LEMMA NewIndex ==
    ASSUME NEW pg, PageShaped(pg), NEW a, NEW t, t = [pg EXCEPT !.index = a]
    PROVE  /\ PageShaped(t) /\ t.walls = pg.walls /\ t.index = a /\ t.pos = pg.pos
           /\ t.phase = pg.phase /\ t.move = pg.move
<1>1. PICK w, i, p, f, m : Looks(pg, w, i, p, f, m)
  BY DEF PageShaped
<1>2. Looks(t, w, a, p, f, m)
  BY <1>1 DEF Looks
<1> QED
  BY <1>1, <1>2, LooksIs

\* There is a square in the corner.
LEMMA NowhereIs == Nowhere.to \in Cells
<1>1. 0 \in 0 .. Size - 1
  BY WallsAssumption
<1> QED
  BY <1>1 DEF Nowhere, Cells

LEMMA PageKept ==
    ASSUME WallsInv
    PROVE  PageShaped(page) /\ page.move.to \in Cells
  BY DEF WallsInv, ConnectionInv

Left == page' = [page EXCEPT !.phase = "away", !.move = Nowhere]

\* A page that has left: the connection is forgotten on both sides.
LEMMA LeftIs ==
    ASSUME WallsInv, Left, up' = <<>>, down' = <<>>, ~srv'.ready
    PROVE  ConnectionInv' /\ CopyInv' /\ PositionInv'
<1>0. PICK a, b : a = "away" /\ b = Nowhere
  OBVIOUS
<1>1. PICK v : v = [page EXCEPT !.phase = a]
  OBVIOUS
<1>2. page' = [v EXCEPT !.move = b]
  BY <1>0, <1>1 DEF Left
<1>6. PageShaped(v) /\ v.phase = a
  BY <1>1, NewPhase, PageKept
<1>7. PageShaped(page') /\ page'.phase = "away" /\ page'.move = Nowhere
  BY <1>0, <1>2, <1>6, NewMove
<1>3. DOMAIN down' = {} /\ down' \in Seq(Message)
      /\ up' \in Seq(Sent)
  OBVIOUS
<1>4. ConnectionInv'
  BY <1>3, <1>7, NowhereIs DEF ConnectionInv, Entered
<1>5. CopyInv' /\ PositionInv'
  BY <1>3, <1>7 DEF CopyInv, PositionInv
<1> QED
  BY <1>4, <1>5

\* What is in the file, or nothing, becomes the server's walls.
LEMMA RestartKeeps ==
    ASSUME WallsInv, Restart
    PROVE  WallsInv'
<1>1. PICK file \in {Broken, srv.file}, c \in Cells :
          srv' = [walls |-> Loaded(file), edges |-> IndexOf(Loaded(file)), pos |-> c,
                  steps |-> 0, ready |-> FALSE, file |-> file, dirty |-> FALSE]
  BY DEF Restart
<1>2. Good(Loaded(file))
  BY <1>1, NothingIsGood DEF WallsInv, ServerInv, Loaded
<1>3. /\ Shaped(srv') /\ srv'.walls = Loaded(file) /\ srv'.edges = IndexOf(srv'.walls)
      /\ srv'.file = file /\ srv'.pos \in Cells /\ srv'.steps = 0 /\ ~srv'.ready
  BY <1>1 DEF Shaped
<1>4. ServerInv'
  BY <1>2, <1>3 DEF ServerInv
<1>5. Left /\ up' = <<>> /\ down' = <<>>
  BY DEF Restart, Left
<1> QED
  BY <1>3, <1>4, <1>5, LeftIs DEF WallsInv

\* The server forgets that the page was ready.
LEMMA DisconnectKeeps ==
    ASSUME WallsInv, Disconnect
    PROVE  WallsInv'
<1>1. srv' = [srv EXCEPT !.ready = FALSE] /\ Left /\ up' = <<>> /\ down' = <<>>
  BY DEF Disconnect, Left
<1>2. /\ Shaped(srv') /\ srv'.walls = srv.walls /\ srv'.edges = srv.edges /\ srv'.pos = srv.pos
      /\ srv'.steps = srv.steps /\ ~srv'.ready /\ srv'.file = srv.file
  <2>1. PICK b \in BOOLEAN : b = FALSE
    OBVIOUS
  <2>2. srv' = [srv EXCEPT !.ready = b]
    BY <1>1, <2>1
  <2>3. Shaped(srv)
    BY ServerKept DEF Kept
  <2> QED
    BY <2>1, <2>2, <2>3, NewReady
<1>3. ServerInv'
  BY <1>2 DEF WallsInv, ServerInv
<1> QED
  BY <1>1, <1>2, <1>3, LeftIs DEF WallsInv

\* A predicted step leaves the page's walls and index alone.
LEMMA TakenIs ==
    ASSUME NEW pg, PageShaped(pg),
           NEW q, NEW t, t = Taken(pg, q)
    PROVE  /\ PageShaped(t)
           /\ t.walls = pg.walls /\ t.index = pg.index /\ t.phase = pg.phase /\ t.move = pg.move
<1>1. CASE t = pg
  BY <1>1
<1>2. CASE t = [pg EXCEPT !.pos = q]
  BY <1>2, NewPlace
<1> QED
  BY <1>1, <1>2 DEF Taken

\* A step and an arrival are things the page may send.
LEMMA StepIs ==
    ASSUME NEW k \in {"step", "arrival"}, NEW q \in Cells
    PROVE  [kind |-> k, to |-> q] \in Sent /\ [kind |-> k, to |-> q].kind # "ready"
<1>1. [kind |-> k, to |-> q] \in [kind : {"step", "arrival"}, to : Cells]
  OBVIOUS
<1> QED
  BY <1>1 DEF Sent

\* The page goes somewhere and says so: until it is answered the page is not
\* stepless.
LEMMA SendKeeps ==
    ASSUME WallsInv, NEW k \in {"step", "arrival"}, NEW q \in Cells, up' = Append(up, [kind |-> k, to |-> q]),
           PageShaped(page'), page'.walls = page.walls, page'.index = page.index,
           Entered(page), Entered(page'), page'.move.to \in Cells,
           srv' = srv, down' = down, missed' = missed
    PROVE  WallsInv'
<1>1. PICK m \in Sent : m = [kind |-> k, to |-> q] /\ m.kind # "ready"
  BY StepIs
<1>2. /\ up' \in Seq(Sent) /\ Len(up) + 1 \in DOMAIN up' /\ up'[Len(up) + 1].kind # "ready"
  BY <1>1, AppendIs DEF WallsInv, ConnectionInv
<1>3. page.phase # "away" /\ page'.phase # "away" /\ page'.phase \in {"away", "loading", "in", "moving"}
  BY DEF Entered
<1>4. ServerInv' /\ CopyInv'
  BY <1>3 DEF WallsInv, ServerInv, CopyInv
<1>5. ConnectionInv'
  BY <1>2, <1>3 DEF WallsInv, ConnectionInv
<1>6. PositionInv'
  BY <1>2 DEF WallsInv, PositionInv, Stepless
<1> QED
  BY <1>4, <1>5, <1>6 DEF WallsInv

\* A step of an arrow key,
LEMMA StepKeeps ==
    ASSUME WallsInv, Step
    PROVE  WallsInv'
<1>1. PICK q \in Cells : page' = Taken(page, q) /\ up' = Append(up, [kind |-> "step", to |-> q])
  BY DEF Step
<1>2. /\ page.phase = "in" /\ srv' = srv /\ down' = down /\ missed' = missed
  BY DEF Step
<1>3. /\ PageShaped(page') /\ page'.walls = page.walls /\ page'.index = page.index
      /\ page'.phase = page.phase /\ page'.move = page.move
  BY <1>1, TakenIs DEF WallsInv, ConnectionInv
<1>4. Entered(page) /\ Entered(page') /\ page'.move.to \in Cells
  BY <1>2, <1>3, PageKept DEF Entered
<1> QED
  BY <1>1, <1>2, <1>3, <1>4, SendKeeps

\* the beginning of a move,
LEMMA SetOutKeeps ==
    ASSUME WallsInv, SetOut
    PROVE  WallsInv'
<1>1. PICK to \in Cells : \E from : page' = [page EXCEPT !.phase = "moving", !.pos = from,
                                                    !.move = [to |-> to, sent |-> from]]
  BY DEF SetOut
<1>9. PICK from : page' = [page EXCEPT !.phase = "moving", !.pos = from, !.move = [to |-> to, sent |-> from]]
  BY <1>1
<1>2. /\ Entered(page) /\ srv' = srv /\ up' = up /\ down' = down /\ missed' = missed /\ unheard' = unheard
  BY DEF SetOut, Entered
<1>10. PICK a : a = "moving"
  OBVIOUS
<1>3. PICK move : move = [to |-> to, sent |-> from]
  OBVIOUS
<1>11. move.to = to
  BY <1>3
<1>4. /\ PageShaped(page') /\ page'.walls = page.walls /\ page'.index = page.index
      /\ page'.phase = "moving" /\ page'.move = move
  <2>1. PICK v : v = [page EXCEPT !.phase = a]
    OBVIOUS
  <2>2. PICK u : u = [v EXCEPT !.pos = from]
    OBVIOUS
  <2>3. page' = [u EXCEPT !.move = move]
    BY <1>3, <1>9, <1>10, <2>1, <2>2
  <2>4. PageShaped(v) /\ v.walls = page.walls /\ v.index = page.index /\ v.phase = a
    BY <2>1, NewPhase, PageKept
  <2>5. PageShaped(u) /\ u.walls = page.walls /\ u.index = page.index /\ u.phase = a
    BY <2>2, <2>4, NewPlace
  <2>6. /\ PageShaped(page') /\ page'.walls = page.walls /\ page'.index = page.index
        /\ page'.phase = a /\ page'.move = move
    BY <2>3, <2>5, NewMove
  <2> QED
    BY <1>10, <2>6
<1>5. page.phase # "away" /\ Entered(page') /\ page'.move.to \in Cells
  BY <1>2, <1>4, <1>11 DEF Entered
<1>6. ServerInv' /\ CopyInv'
  BY <1>2, <1>4, <1>5 DEF WallsInv, ServerInv, CopyInv
<1>7. ConnectionInv'
  BY <1>2, <1>4, <1>5 DEF WallsInv, ConnectionInv
<1>8. PositionInv'
  BY <1>2, <1>4 DEF WallsInv, PositionInv
<1> QED
  BY <1>6, <1>7, <1>8 DEF WallsInv

\* a square on its way,
LEMMA MoveOnKeeps ==
    ASSUME WallsInv, MoveOn
    PROVE  WallsInv'
<1>1. PICK q \in Cells : /\ page' = [page EXCEPT !.pos = q, !.move.sent = q]
                        /\ up' = Append(up, [kind |-> "step", to |-> q])
  BY DEF MoveOn, Onwards
<1>2. /\ page.phase = "moving" /\ srv' = srv /\ down' = down /\ missed' = missed
  BY DEF MoveOn
<1>3. PICK move : move = [page.move EXCEPT !.sent = q]
  OBVIOUS
<1>6. move.to = page.move.to
  BY <1>3
<1>4. /\ PageShaped(page') /\ page'.walls = page.walls /\ page'.index = page.index
      /\ page'.phase = "moving" /\ page'.move = move
  <2>1. PICK v : v = [page EXCEPT !.pos = q]
    OBVIOUS
  <2>2. /\ PageShaped(v) /\ v.walls = page.walls /\ v.index = page.index /\ v.phase = "moving"
        /\ v.move = page.move
    BY <1>2, <2>1, NewPlace, PageKept
  <2>3. page' = [v EXCEPT !.move = move]
    BY <1>1, <1>3, <2>1, <2>2
  <2> QED
    BY <2>2, <2>3, NewMove
<1>5. Entered(page) /\ Entered(page') /\ page'.move.to \in Cells
  BY <1>2, <1>4, <1>6, PageKept DEF Entered
<1> QED
  BY <1>1, <1>2, <1>4, <1>5, SendKeeps

\* and its end.
LEMMA ArriveKeeps ==
    ASSUME WallsInv, Arrive
    PROVE  WallsInv'
<1>1. PICK q \in Cells : q = page.move.to
  BY PageKept
<1>9. PICK a, b : a = "in" /\ b = Nowhere
  OBVIOUS
<1>2. /\ page' = [page EXCEPT !.pos = q, !.phase = "in", !.move = Nowhere]
      /\ up' = Append(up, [kind |-> "arrival", to |-> q])
      /\ page.phase = "moving" /\ srv' = srv /\ down' = down /\ missed' = missed
  BY <1>1 DEF Arrive
<1>3. /\ PageShaped(page') /\ page'.walls = page.walls /\ page'.index = page.index
      /\ page'.phase = "in" /\ page'.move = Nowhere
  <2>1. PICK v : v = [page EXCEPT !.pos = q]
    OBVIOUS
  <2>2. PICK u : u = [v EXCEPT !.phase = a]
    OBVIOUS
  <2>3. page' = [u EXCEPT !.move = b]
    BY <1>2, <1>9, <2>1, <2>2
  <2>4. PageShaped(v) /\ v.walls = page.walls /\ v.index = page.index
    BY <2>1, NewPlace, PageKept
  <2>5. PageShaped(u) /\ u.walls = page.walls /\ u.index = page.index /\ u.phase = a
    BY <2>2, <2>4, NewPhase
  <2>6. /\ PageShaped(page') /\ page'.walls = page.walls /\ page'.index = page.index
        /\ page'.phase = a /\ page'.move = b
    BY <2>3, <2>5, NewMove
  <2> QED
    BY <1>9, <2>6
<1>4. Entered(page) /\ Entered(page') /\ page'.move.to \in Cells
  BY <1>2, <1>3, NowhereIs DEF Entered
<1> QED
  BY <1>2, <1>3, <1>4, SendKeeps

\* The welcome is all that is under way, so the page has what the server has,
\* unless an edit has been made since.
LEMMA ReceiveWelcomeKeeps ==
    ASSUME WallsInv, ReceiveWelcome
    PROVE  WallsInv'
<1>1. down # <<>> /\ Head(down).kind = "welcome" /\ down' = Tail(down)
      /\ srv' = srv /\ up' = up /\ missed' = missed
  BY DEF ReceiveWelcome
<1>2. down \in Seq(Message)
  BY DEF WallsInv, ConnectionInv
<1>3. PICK m : /\ m = Head(down) /\ m = down[1] /\ 1 \in DOMAIN down
  BY <1>1, <1>2, TailIs
<1>4. /\ page.phase = "away" /\ Len(down) = 1 /\ m.at = srv.pos /\ Good(m.walls)
      /\ ~missed => m.walls = srv.walls
  BY <1>1, <1>3 DEF WallsInv, ConnectionInv
<1>5. down' = <<>>
  BY <1>1, <1>2, <1>4, TailIs
<1>6. Looks(page', m.walls, PageIndex(m.walls), m.at, "loading", Nowhere)
  BY <1>3 DEF ReceiveWelcome, Looks
<1>7. /\ PageShaped(page')
      /\ page'.walls = m.walls /\ page'.index = PageIndex(m.walls) /\ page'.phase = "loading"
      /\ page'.pos = m.at /\ page'.move.to \in Cells
  BY <1>6, LooksIs, NowhereIs
<1>8. up = <<>> /\ ~srv.ready
  BY <1>4 DEF WallsInv, ConnectionInv, Entered
<1>9. ServerInv'
  BY <1>1 DEF WallsInv, ServerInv
<1>10. DOMAIN down' = {} /\ down' \in Seq(Message)
  BY <1>5
<1>11. ConnectionInv'
  BY <1>1, <1>7, <1>8, <1>10 DEF WallsInv, ConnectionInv
<1>12. CopyInv'
  BY <1>1, <1>4, <1>5, <1>7, FollowsNone DEF CopyInv
<1>13. PositionInv'
  BY <1>1, <1>4, <1>7, <1>10 DEF PositionInv
<1> QED
  BY <1>9, <1>11, <1>12, <1>13 DEF WallsInv

\* The loop begins, with a step or without.
LEMMA BeginLoopKeeps ==
    ASSUME WallsInv, BeginLoop
    PROVE  WallsInv'
<1>1. page.phase = "loading" /\ srv' = srv /\ down' = down /\ missed' = missed /\ unheard' = unheard
  BY DEF BeginLoop
<1>2. /\ PageShaped(page) /\ page.move.to \in Cells
      /\ up = <<>> /\ ~srv.ready
  BY <1>1 DEF WallsInv, ConnectionInv, Entered
<1>3. DOMAIN down = {}
  BY <1>1, <1>2 DEF WallsInv, ConnectionInv
<1>4. ServerInv'
  BY <1>1 DEF WallsInv, ServerInv
<1>5. PICK r \in Sent : r = [kind |-> "ready"] /\ r.kind = "ready"
  <2>1. [kind |-> "ready"] \in [kind : {"ready"}]
    OBVIOUS
  <2> QED
    BY <2>1 DEF Sent
<1>6. ASSUME PageShaped(page'),
             page'.walls = page.walls, page'.index = page.index, page'.phase = "in",
             page'.move = page.move,
             up' \in Seq(Sent),
             Stepless' => page'.pos = page.pos
      PROVE  WallsInv'
  <2>1. ConnectionInv'
    BY <1>1, <1>2, <1>3, <1>6 DEF WallsInv, ConnectionInv, Entered
  <2>2. CopyInv'
    BY <1>1, <1>6 DEF WallsInv, CopyInv
  <2>3. Stepless
    BY <1>2 DEF Stepless
  <2>4. PositionInv'
    BY <1>1, <1>3, <1>6, <2>3 DEF WallsInv, PositionInv
  <2> QED
    BY <1>4, <2>1, <2>2, <2>4 DEF WallsInv
<1>7. CASE page' = [page EXCEPT !.phase = "in"] /\ up' = <<[kind |-> "ready"]>>
  <2>2. /\ PageShaped(page') /\ page'.walls = page.walls /\ page'.index = page.index
        /\ page'.phase = "in" /\ page'.pos = page.pos /\ page'.move = page.move
    <3>1. PICK a : a = "in"
      OBVIOUS
    <3>2. page' = [page EXCEPT !.phase = a]
      BY <1>7, <3>1
    <3>3. /\ PageShaped(page') /\ page'.walls = page.walls /\ page'.index = page.index
          /\ page'.phase = a /\ page'.pos = page.pos /\ page'.move = page.move
      BY <1>2, <3>2, NewPhase
    <3> QED
      BY <3>1, <3>3
  <2>3. up' \in Seq(Sent)
    BY <1>5, <1>7
  <2> QED
    BY <1>6, <2>2, <2>3
<1>8. CASE \E q \in Cells : /\ page' = [Taken(page, q) EXCEPT !.phase = "in"]
                            /\ up' = <<[kind |-> "step", to |-> q], [kind |-> "ready"]>>
  <2>1. PICK q \in Cells : /\ page' = [Taken(page, q) EXCEPT !.phase = "in"]
                           /\ up' = <<[kind |-> "step", to |-> q], [kind |-> "ready"]>>
    BY <1>8
  <2>2. PICK t : t = Taken(page, q)
    OBVIOUS
  <2>3. PageShaped(t) /\ t.walls = page.walls /\ t.index = page.index /\ t.move = page.move
    BY <1>2, <2>2, TakenIs
  <2>4. page' = [t EXCEPT !.phase = "in"]
    BY <2>1, <2>2
  <2>5. /\ PageShaped(page') /\ page'.walls = page.walls /\ page'.index = page.index
        /\ page'.phase = "in" /\ page'.move = page.move
    BY <2>3, <2>4, NewPhase
  <2>6. PICK m \in Sent : m = [kind |-> "step", to |-> q] /\ m.kind # "ready"
    BY StepIs
  <2>7. up' = <<m, r>> /\ up' \in Seq(Sent)
    BY <1>5, <2>1, <2>6
  <2>8. 1 \in DOMAIN up' /\ up'[1].kind # "ready"
    BY <2>6, <2>7
  <2>9. ~Stepless'
    BY <2>8 DEF Stepless
  <2> QED
    BY <1>6, <2>5, <2>7, <2>9
<1> QED
  BY <1>7, <1>8 DEF BeginLoop

\* News that have arrived: the others are still to be read.
LEMMA Arrival ==
    ASSUME WallsInv, down # <<>>, Head(down).kind # "welcome"
    PROVE  /\ page.phase # "away" /\ Entered(page) /\ srv.ready /\ Head(down) \in Message
           /\ Tail(down) \in Seq(Message)
           /\ \A n \in DOMAIN Tail(down) : Tail(down)[n].kind # "welcome"
           /\ PageShaped(page)
           /\ page.index = PageIndex(page.walls)
           /\ ~missed => /\ Follows(Told(page.walls, Head(down)), Tail(down), srv.walls)
                         /\ Good(Told(page.walls, Head(down)))
<1>1. down \in Seq(Message)
  BY DEF WallsInv, ConnectionInv
<1>2. srv.ready /\ Entered(page) /\ page.phase # "away"
  BY <1>1, TailIs DEF WallsInv, ConnectionInv, Entered
<1>3. \A n \in DOMAIN Tail(down) : Tail(down)[n].kind # "welcome"
  <2>1. \A n \in DOMAIN down : down[n].kind # "welcome"
    BY <1>2 DEF WallsInv, ConnectionInv
  <2> QED
    BY <1>1, <2>1, TailIs
<1>4. page.index = PageIndex(page.walls) /\ (~missed => Follows(page.walls, down, srv.walls))
  BY <1>2 DEF WallsInv, CopyInv
<1> QED
  BY <1>1, <1>2, <1>3, <1>4, TailIs, FollowsTail DEF WallsInv, ConnectionInv

\* The last position on the way is the server's.
LEMMA ReceivePositionKeeps ==
    ASSUME WallsInv, ReceivePosition
    PROVE  WallsInv'
<1>1. /\ down # <<>> /\ Head(down).kind = "position" /\ down' = Tail(down) /\ ~unheard'
      /\ srv' = srv /\ up' = up /\ missed' = missed
  BY DEF ReceivePosition
<1>2. Head(down).kind # "welcome"
  BY <1>1
<1>3. page' = [page EXCEPT !.pos = Head(down).at]
  BY DEF ReceivePosition
<1>4. /\ PageShaped(page') /\ page'.walls = page.walls /\ page'.index = page.index
      /\ page'.phase = page.phase /\ page'.move = page.move /\ page'.pos = Head(down).at
  <2>1. PICK a : a = Head(down).at
    OBVIOUS
  <2>2. page' = [page EXCEPT !.pos = a]
    BY <1>3, <2>1
  <2> QED
    BY <2>1, <2>2, PageKept, NewPlace
<1>5. ServerInv'
  BY <1>1 DEF WallsInv, ServerInv
<1>6. ConnectionInv'
  BY <1>1, <1>2, <1>4, Arrival DEF WallsInv, ConnectionInv, Entered
<1>7. CopyInv'
  <2>1. Told(page.walls, Head(down)) = page.walls
    BY <1>1, <1>2, Arrival, MessageIs
  <2> QED
    BY <1>1, <1>2, <1>4, <2>1, Arrival DEF CopyInv
<1>8. down \in Seq(Message)
  BY DEF WallsInv, ConnectionInv
<1>9. ASSUME NEW n \in DOMAIN down', \A m \in DOMAIN down' : m > n => ~IsPosition(down'[m]),
             IsPosition(down'[n])
      PROVE  down'[n].at = srv.pos
  <2>1. n + 1 \in DOMAIN down /\ down'[n] = down[n + 1] /\ n \in Nat
    BY <1>1, <1>8, TailIs
  <2>2. ASSUME NEW m \in DOMAIN down, m > n + 1 PROVE ~IsPosition(down[m])
    <3>1. m # 1 /\ m \in Nat
      BY <1>8, <2>1, <2>2
    <3>2. m - 1 \in DOMAIN down' /\ down'[m - 1] = down[m] /\ m - 1 > n
      BY <1>1, <1>8, <2>1, <2>2, <3>1, TailIs
    <3> QED
      BY <1>9, <3>2
  <2> QED
    BY <1>9, <2>1, <2>2 DEF WallsInv, PositionInv
<1>10. ASSUME \A n \in DOMAIN down' : ~IsPosition(down'[n])
       PROVE  page'.pos = srv.pos
  <2>1. Head(down) = down[1] /\ 1 \in DOMAIN down
    BY <1>1, <1>8, TailIs
  <2>2. ASSUME NEW m \in DOMAIN down, m > 1 PROVE ~IsPosition(down[m])
    <3>1. m # 1
      BY <1>8, <2>2
    <3>2. m - 1 \in DOMAIN down' /\ down'[m - 1] = down[m]
      BY <1>1, <1>8, <2>2, <3>1, TailIs
    <3> QED
      BY <1>10, <3>2
  <2>3. IsPosition(down[1])
    BY <1>1, <2>1 DEF IsPosition
  <2>4. down[1].at = srv.pos
    BY <2>1, <2>2, <2>3 DEF WallsInv, PositionInv
  <2> QED
    BY <1>4, <2>1, <2>4
<1>11. PositionInv'
  BY <1>1, <1>9, <1>10 DEF PositionInv
<1> QED
  BY <1>5, <1>6, <1>7, <1>11 DEF WallsInv

\* An edit reaches the page: its walls are the next ones of the history.
LEMMA ReceiveWallKeeps ==
    ASSUME WallsInv, ReceiveWall
    PROVE  WallsInv'
<1>1. /\ down # <<>> /\ Head(down).kind \in {"upsert", "remove"} /\ down' = Tail(down)
      /\ srv' = srv /\ up' = up /\ missed' = missed /\ unheard' = unheard
  BY DEF ReceiveWall
<1>2. Head(down).kind # "welcome"
  BY <1>1
<1>3. PICK walls : walls = Told(page.walls, Head(down))
  OBVIOUS
<1>4. page' = WithWalls(walls)
  BY <1>1, <1>3 DEF ReceiveWall, Told
<1>6. /\ PageShaped(page') /\ page'.walls = walls /\ page'.index = PageIndex(walls)
      /\ page'.phase = page.phase /\ page'.pos = page.pos /\ page'.move = page.move
  <2>1. PICK i : i = PageIndex(walls)
    OBVIOUS
  <2>2. page' = [page EXCEPT !.walls = walls, !.index = i]
    BY <1>4, <2>1 DEF WithWalls
  <2> QED
    <3>1. /\ PageShaped(page') /\ page'.walls = walls /\ page'.index = i
          /\ page'.phase = page.phase /\ page'.pos = page.pos /\ page'.move = page.move
      <4>1. PICK v : v = [page EXCEPT !.walls = walls]
        OBVIOUS
      <4>2. page' = [v EXCEPT !.index = i]
        BY <2>2, <4>1
      <4>3. /\ PageShaped(v) /\ v.walls = walls
            /\ v.phase = page.phase /\ v.pos = page.pos /\ v.move = page.move
        BY <4>1, PageKept, NewMap
      <4> QED
        BY <4>2, <4>3, NewIndex
    <3> QED
      BY <2>1, <3>1
<1>7. ServerInv'
  BY <1>1 DEF WallsInv, ServerInv
<1>8. ConnectionInv'
  BY <1>1, <1>2, <1>6, Arrival DEF WallsInv, ConnectionInv, Entered
<1>9. CopyInv'
  BY <1>1, <1>2, <1>3, <1>6, Arrival DEF CopyInv
<1>10. down \in Seq(Message) /\ ~IsPosition(Head(down)) /\ Head(down) = down[1]
  BY <1>1, TailIs DEF WallsInv, ConnectionInv, IsPosition
<1>11. ASSUME NEW n \in DOMAIN down', \A m \in DOMAIN down' : m > n => ~IsPosition(down'[m]),
             IsPosition(down'[n])
      PROVE  down'[n].at = srv.pos
  <2>1. n + 1 \in DOMAIN down /\ down'[n] = down[n + 1] /\ n \in Nat
    BY <1>1, <1>10, TailIs
  <2>2. ASSUME NEW m \in DOMAIN down, m > n + 1 PROVE ~IsPosition(down[m])
    <3>1. m # 1 /\ m \in Nat
      BY <1>10, <2>1, <2>2
    <3>2. m - 1 \in DOMAIN down' /\ down'[m - 1] = down[m] /\ m - 1 > n
      BY <1>1, <1>10, <2>1, <2>2, <3>1, TailIs
    <3> QED
      BY <1>11, <3>2
  <2> QED
    BY <1>11, <2>1, <2>2 DEF WallsInv, PositionInv
<1>12. (\A n \in DOMAIN down' : ~IsPosition(down'[n])) => \A n \in DOMAIN down : ~IsPosition(down[n])
  BY <1>1, <1>10, TailIs
<1>13. PositionInv'
  BY <1>1, <1>6, <1>11, <1>12 DEF WallsInv, PositionInv, Stepless
<1> QED
  BY <1>7, <1>8, <1>9, <1>13 DEF WallsInv

\* The invariant holds at first.
LEMMA InitIsGood ==
    ASSUME Init
    PROVE  WallsInv
<1>1. PICK ids \in SUBSET Ids : \E walls \in [ids -> Run], c \in Cells :
          /\ \A i, j \in ids : i # j => WallEdges(walls[i]) \cap WallEdges(walls[j]) = {}
          /\ srv = [walls |-> walls, edges |-> IndexOf(walls), pos |-> c, steps |-> 0,
                    ready |-> FALSE, file |-> walls, dirty |-> FALSE]
  BY DEF Init
<1>2. PICK walls \in [ids -> Run], c \in Cells :
          /\ \A i, j \in ids : i # j => WallEdges(walls[i]) \cap WallEdges(walls[j]) = {}
          /\ srv = [walls |-> walls, edges |-> IndexOf(walls), pos |-> c, steps |-> 0,
                    ready |-> FALSE, file |-> walls, dirty |-> FALSE]
  BY <1>1
<1>3. Good(walls)
  <2>1. \A i \in ids : walls[i] \in Run
    OBVIOUS
  <2>2. \A i \in ids : walls[i] \in Wall /\ InWorld(walls[i])
    BY <2>1 DEF Run
  <2>3. DOMAIN walls = ids /\ walls = [i \in ids |-> walls[i]]
    OBVIOUS
  <2> QED
    BY <1>2, <2>2, <2>3, IsGood
<1>4. /\ Shaped(srv) /\ srv.walls = walls /\ srv.edges = IndexOf(srv.walls)
      /\ srv.file = walls /\ srv.pos \in Cells /\ srv.steps = 0 /\ ~srv.ready
  BY <1>2 DEF Shaped
<1>5. ServerInv
  BY <1>3, <1>4, NothingIsGood DEF ServerInv, Loaded
<1>6. PageShaped(page) /\ page.phase = "away" /\ page.move.to \in Cells
  <2>1. Looks(page, <<>>, <<>>, <<0, 0>>, "away", Nowhere)
    BY DEF Init, Looks
  <2> QED
    BY <2>1, LooksIs, NowhereIs
<1>7. /\ up = <<>> /\ DOMAIN down = {} /\ down \in Seq(Message)
      /\ up \in Seq(Sent)
  BY DEF Init
<1>8. ConnectionInv
  BY <1>4, <1>6, <1>7 DEF ConnectionInv, Entered
<1>9. CopyInv /\ PositionInv
  BY <1>6, <1>7 DEF CopyInv, PositionInv
<1> QED
  BY <1>5, <1>8, <1>9 DEF WallsInv

\* Every step keeps the invariant.
LEMMA StepsKeep ==
    ASSUME WallsInv, [Next]_vars
    PROVE  WallsInv'
<1>1. CASE Edits
  BY <1>1, EditsKeep
<1>2. CASE Server
  BY <1>2, WelcomeKeeps, HandleStepKeeps, HandleArrivalKeeps, IgnoreStepKeeps, HandleReadyKeeps, TimersKeep
     DEF Server
<1>3. CASE Storage
  BY <1>3, TimersKeep, RestartKeeps DEF Storage
<1>4. CASE Browser
  BY <1>4, StepKeeps, SetOutKeeps, MoveOnKeeps, ArriveKeeps, ReceiveWelcomeKeeps, BeginLoopKeeps,
     ReceivePositionKeeps, ReceiveWallKeeps, DisconnectKeeps DEF Browser, Moves
<1>5. CASE UNCHANGED vars
  <2>1. srv' = srv /\ page' = page /\ up' = up /\ down' = down /\ missed' = missed /\ unheard' = unheard
    BY <1>5 DEF vars
  <2>2. ServerInv' /\ ConnectionInv'
    BY <2>1 DEF WallsInv, ServerInv, ConnectionInv
  <2>3. CopyInv' /\ PositionInv'
    BY <2>1 DEF WallsInv, CopyInv, PositionInv, Stepless
  <2> QED
    BY <2>2, <2>3 DEF WallsInv
<1> QED
  BY <1>1, <1>2, <1>3, <1>4, <1>5 DEF Next

\* The inductive invariant: the server's walls and index, the connection,
\* the page's copy and the positions.
THEOREM WallsInvariant == Spec => []WallsInv
<1>1. Init => WallsInv
  BY InitIsGood
<1>2. WallsInv /\ [Next]_vars => WallsInv'
  BY StepsKeep
<1> QED
  BY <1>1, <1>2, PTL DEF Spec

\* The server's index (structure_service.py), which every edit only changes
\* by the difference, is always the one that would be built from its walls, no
\* two of which overlap, after a restart over a torn file too, which is read as
\* no walls at all; a page that has missed no edit has such walls too.
THEOREM WallsAreIndexed == Spec => []IndexIsExact
<1>1. WallsInv => IndexIsExact
  <2> SUFFICES ASSUME WallsInv PROVE IndexIsExact
    OBVIOUS
  <2>1. Sound(srv.walls) /\ srv.edges = IndexOf(srv.walls) /\ Sound(Loaded(srv.file))
    BY DEF WallsInv, ServerInv, Good
  <2>2. page.phase # "away" /\ ~missed => Sound(page.walls)
    BY FollowsEnds DEF WallsInv, ConnectionInv, CopyInv, Good
  <2> QED
    BY <2>1, <2>2 DEF IndexIsExact
<1> QED
  BY <1>1, WallsInvariant, PTL

-----------------------------------------------------------------------------
(* Walking.                                                                *)

\* A wall that stops people is on edge e.
Stops(walls, e) == \E i \in DOMAIN walls : e \in WallEdges(walls[i]) /\ Blocks[walls[i].preset]

\* A look into the index, the server's or the page's, finds the wall on the
\* edge that stops people, if there is one.
LEMMA StopsByIndex ==
    ASSUME NEW walls, Good(walls), NEW e
    PROVE  /\ e \in DOMAIN IndexOf(walls) /\ Blocks[walls[IndexOf(walls)[e]].preset] <=> Stops(walls, e)
           /\ e \in DOMAIN PageIndex(walls) /\ Blocks[PageIndex(walls)[e].preset] <=> Stops(walls, e)
<1>1. DOMAIN IndexOf(walls) = EdgesOf(walls) /\ DOMAIN PageIndex(walls) = EdgesOf(walls)
  BY DEF IndexOf, PageIndex
<1>2. e \in EdgesOf(walls) => PageIndex(walls)[e] = walls[IndexOf(walls)[e]]
  BY DEF PageIndex
<1>3. CASE e \in EdgesOf(walls)
  <2>1. PICK i \in DOMAIN walls : e \in WallEdges(walls[i])
    BY <1>3, EdgesAre
  <2>2. IndexOf(walls)[e] = i
    BY <2>1, IndexNames
  <2>3. Stops(walls, e) <=> Blocks[walls[i].preset]
    BY <2>1, GoodIs DEF Stops
  <2> QED
    BY <1>1, <1>2, <1>3, <2>2, <2>3
<1>4. CASE e \notin EdgesOf(walls)
  BY <1>1, <1>4, EdgesAre DEF Stops
<1> QED
  BY <1>3, <1>4

\* The server's decision, edge by edge.
StopsAhead(walls, p, q) ==
    LET x == p[1] + Ahead(q[1] - p[1])  y == p[2] + Ahead(q[2] - p[2])
    IN  IF p[1] # q[1] /\ p[2] # q[2]
        THEN /\ Stops(walls, <<"vertical", x, p[2]>>) \/ Stops(walls, <<"horizontal", q[1], y>>)
             /\ Stops(walls, <<"horizontal", p[1], y>>) \/ Stops(walls, <<"vertical", x, q[2]>>)
        ELSE \/ p[1] # q[1] /\ Stops(walls, <<"vertical", x, p[2]>>)
             \/ p[2] # q[2] /\ Stops(walls, <<"horizontal", p[1], y>>)

\* blocking_wall_for_move() decides so.
LEMMA BlockedIs ==
    ASSUME NEW s, Kept(s), NEW p \in Cells, NEW q \in Cells, Near(p, q)
    PROVE  BlockedMove(s, p, q) <=> StopsAhead(s.walls, p, q)
<1> DEFINE at(e) == e \in DOMAIN s.edges /\ Blocks[s.walls[s.edges[e]].preset]
           x == p[1] + Ahead(q[1] - p[1])
           y == p[2] + Ahead(q[2] - p[2])
<1>1. \A e : at(e) <=> Stops(s.walls, e)
  BY StopsByIndex DEF Kept
<1>2. p[1] \in Int /\ p[2] \in Int /\ q[1] \in Int /\ q[2] \in Int
  BY DEF Cells
<1>3. Abs(q[1] - p[1]) <= 1 /\ Abs(q[2] - p[2]) <= 1
  BY <1>2 DEF Near, Larger, Abs
<1>4. (\E e \in Crossed(s, p, q) : at(e)) <=>
         \/ p[1] # q[1] /\ at(<<"vertical", x, p[2]>>)
         \/ p[2] # q[2] /\ at(<<"horizontal", p[1], y>>)
  BY DEF Crossed
<1>5. BlockedMove(s, p, q) <=>
         IF p[1] # q[1] /\ p[2] # q[2]
         THEN /\ at(<<"vertical", x, p[2]>>) \/ at(<<"horizontal", q[1], y>>)
              /\ at(<<"horizontal", p[1], y>>) \/ at(<<"vertical", x, q[2]>>)
         ELSE \E e \in Crossed(s, p, q) : at(e)
  BY <1>3 DEF BlockedMove
<1> HIDE DEF at
<1> QED
  BY <1>1, <1>4, <1>5 DEF StopsAhead

\* The page's decision is the same on the same walls.
LEMMA BlockingIs ==
    ASSUME NEW walls, Good(walls), NEW p \in Cells, NEW q \in Cells, Near(p, q)
    PROVE  Blocking(PageIndex(walls), p, q) <=> StopsAhead(walls, p, q)
<1> DEFINE index == PageIndex(walls)
           at(o, x, y) == <<o, x, y>> \in DOMAIN index /\ Blocks[index[<<o, x, y>>].preset]
           dx == q[1] - p[1]
           dy == q[2] - p[2]
<1>1. \A o, x, y : at(o, x, y) <=> Stops(walls, <<o, x, y>>)
  BY StopsByIndex
<1>2. p[1] \in Int /\ p[2] \in Int /\ q[1] \in Int /\ q[2] \in Int
  BY DEF Cells
<1>3. Larger(Abs(dx), Abs(dy)) = 1
  BY DEF Near
<1>4. (dx # 0 <=> p[1] # q[1]) /\ (dy # 0 <=> p[2] # q[2])
  BY <1>2
<1>5. Blocking(index, p, q) <=>
        /\ \/ dx # 0 /\ at("vertical", p[1] + Ahead(dx), p[2])
           \/ dy # 0 /\ at("horizontal", q[1], p[2] + Ahead(dy))
        /\ \/ dx # 0 /\ at("vertical", p[1] + Ahead(dx), q[2])
           \/ dy # 0 /\ at("horizontal", p[1], p[2] + Ahead(dy))
  BY <1>3 DEF Blocking
<1> HIDE DEF at, index
<1>6. CASE p[1] # q[1] /\ p[2] # q[2]
  BY <1>1, <1>4, <1>5, <1>6 DEF StopsAhead, index
<1>7. CASE p[1] = q[1]
  BY <1>1, <1>4, <1>5, <1>7 DEF StopsAhead, index
<1>8. CASE p[2] = q[2]
  BY <1>1, <1>4, <1>5, <1>8 DEF StopsAhead, index
<1> QED
  BY <1>6, <1>7, <1>8

\* It is right: a step is stopped exactly where there is no way.
LEMMA WayIs ==
    ASSUME NEW walls, NEW p \in Cells, NEW q \in Cells, Near(p, q)
    PROVE  ~StopsAhead(walls, p, q) <=> Way(walls, p, q)
<1> DEFINE x == p[1] + Ahead(q[1] - p[1])
           y == p[2] + Ahead(q[2] - p[2])
<1>1. p[1] \in Int /\ p[2] \in Int /\ q[1] \in Int /\ q[2] \in Int
  BY DEF Cells
<1>2. \A m, n : Open(walls, m, n) <=> ~Stops(walls, EdgeBetween(m, n))
  BY DEF Open, Stops
<1>3. /\ p[1] # q[1] => x = Larger(p[1], q[1])
      /\ p[2] # q[2] => y = Larger(p[2], q[2])
      /\ p[1] # q[1] \/ p[2] # q[2]
  BY <1>1 DEF Near, Larger, Abs, Ahead
<1>4. CASE p[1] # q[1] /\ p[2] # q[2]
  <2>1. /\ EdgeBetween(p, <<p[1], q[2]>>) = <<"horizontal", p[1], y>>
        /\ EdgeBetween(<<p[1], q[2]>>, q) = <<"vertical", x, q[2]>>
        /\ EdgeBetween(p, <<q[1], p[2]>>) = <<"vertical", x, p[2]>>
        /\ EdgeBetween(<<q[1], p[2]>>, q) = <<"horizontal", q[1], y>>
    BY <1>3, <1>4 DEF EdgeBetween
  <2>2. Way(walls, p, q) <=>
          \/ Open(walls, p, <<p[1], q[2]>>) /\ Open(walls, <<p[1], q[2]>>, q)
          \/ Open(walls, p, <<q[1], p[2]>>) /\ Open(walls, <<q[1], p[2]>>, q)
    BY <1>4 DEF Way
  <2>3. StopsAhead(walls, p, q) <=>
          /\ Stops(walls, <<"vertical", x, p[2]>>) \/ Stops(walls, <<"horizontal", q[1], y>>)
          /\ Stops(walls, <<"horizontal", p[1], y>>) \/ Stops(walls, <<"vertical", x, q[2]>>)
    BY <1>4 DEF StopsAhead
  <2> HIDE DEF x, y
  <2> QED
    BY <1>2, <2>1, <2>2, <2>3
<1>5. CASE p[1] # q[1] /\ p[2] = q[2]
  <2>1. EdgeBetween(p, q) = <<"vertical", x, p[2]>>
    BY <1>3, <1>5 DEF EdgeBetween
  <2>2. StopsAhead(walls, p, q) <=> Stops(walls, <<"vertical", x, p[2]>>)
    BY <1>5 DEF StopsAhead
  <2> QED
    BY <1>2, <1>5, <2>1, <2>2 DEF Way
<1>6. CASE p[1] = q[1] /\ p[2] # q[2]
  <2>1. EdgeBetween(p, q) = <<"horizontal", p[1], y>>
    BY <1>3, <1>6 DEF EdgeBetween
  <2>2. StopsAhead(walls, p, q) <=> Stops(walls, <<"horizontal", p[1], y>>)
    BY <1>6 DEF StopsAhead
  <2> QED
    BY <1>2, <1>6, <2>1, <2>2 DEF Way
<1> QED
  BY <1>3, <1>4, <1>5, <1>6

\* A step the server takes goes to a neighbouring cell there is a way to.
LEMMA TakenStep ==
    ASSUME WallsInv, HandleStep, srv'.pos # srv.pos
    PROVE  Near(srv.pos, srv'.pos) /\ Way(srv.walls, srv.pos, srv'.pos)
<1>1. PICK q \in Cells : q = Head(up).to
  BY StepperIs DEF HandleStep
<1>2. PICK delta : delta = Larger(Abs(q[1] - srv.pos[1]), Abs(q[2] - srv.pos[2]))
  OBVIOUS
<1>3. PICK steps, pos :
        /\ pos = IF q \in Cells /\ delta <= MaxSteps - srv.steps /\ ~BlockedMove(srv, srv.pos, q) THEN q ELSE srv.pos
        /\ srv' = [srv EXCEPT !.steps = steps, !.pos = pos]
  BY <1>1, <1>2 DEF HandleStep
<1>4. srv'.pos = pos
  <2>1. PICK s : s = [srv EXCEPT !.steps = steps]
    OBVIOUS
  <2>2. srv' = [s EXCEPT !.pos = pos]
    BY <1>3, <2>1
  <2>3. Shaped(s)
    BY <2>1, NewSteps, ServerKept DEF Kept
  <2> QED
    BY <2>2, <2>3, NewPos
<1>5. pos = q /\ q # srv.pos /\ delta <= MaxSteps - srv.steps /\ ~BlockedMove(srv, srv.pos, q)
  BY <1>3, <1>4
<1>6. srv.pos \in Cells /\ srv.steps \in Nat
  BY DEF WallsInv, ServerInv
<1>7. Near(srv.pos, q)
  <2>1. q[1] \in Int /\ q[2] \in Int /\ srv.pos[1] \in Int /\ srv.pos[2] \in Int
    BY <1>6 DEF Cells
  <2>2. q[1] # srv.pos[1] \/ q[2] # srv.pos[2]
    BY <1>5, <1>6 DEF Cells
  <2>3. delta >= 1 /\ delta \in Int
    BY <1>2, <2>1, <2>2 DEF Larger, Abs
  <2>4. delta <= 1
    BY <1>5, <1>6, <2>3, WallsAssumption
  <2> QED
    BY <1>2, <2>3, <2>4 DEF Near
<1>8. ~StopsAhead(srv.walls, srv.pos, q)
  BY <1>5, <1>6, <1>7, BlockedIs, ServerKept
<1> QED
  BY <1>4, <1>5, <1>6, <1>7, <1>8, WayIs

\* An arrival leads to where it says.
LEMMA TakenArrival ==
    ASSUME WallsInv, HandleArrival
    PROVE  Arrives
<1>1. PICK q \in Cells : q = Head(up).to
  BY StepperIs DEF HandleArrival
<1>2. srv' = [srv EXCEPT !.pos = q]
  BY <1>1 DEF HandleArrival
<1>3. srv'.pos = q
  BY <1>2, NewPos, ServerKept DEF Kept
<1> QED
  BY <1>1, <1>3 DEF HandleArrival, Arrives

\* Nothing else moves the user while it is in the world.
LEMMA OnlyStepsMove ==
    ASSUME WallsInv, [Next]_vars, srv.ready, srv'.ready, srv'.pos # srv.pos
    PROVE  HandleStep \/ HandleArrival
<1>1. CASE Edits
  <2>1. PICK s, m : EditTo(srv, s, m) /\ Edited(s, m)
    BY <1>1, EditsAre
  <2>2. srv' = [s EXCEPT !.dirty = TRUE] /\ Shaped(s) /\ s.pos = srv.pos
    BY <2>1 DEF EditTo, Edited
  <2> QED
    BY <2>2, NewDirty
<1>2. CASE Welcome
  <2>1. ~srv.ready
    BY <1>2 DEF Welcome, WallsInv, ConnectionInv, Entered
  <2> QED
    BY <2>1
<1>3. CASE HandleReady
  <2>1. srv' = [srv EXCEPT !.ready = TRUE] /\ Shaped(srv)
    BY <1>3, ServerKept DEF HandleReady, Kept
  <2> QED
    BY <2>1, NewReady
<1>4. CASE NextWindow
  <2>1. srv' = [srv EXCEPT !.steps = 0] /\ Shaped(srv)
    BY <1>4, ServerKept DEF NextWindow, Kept
  <2> QED
    BY <2>1, NewSteps
<1>5. CASE Flush
  <2>1. PICK s : s = [srv EXCEPT !.file = srv.walls]
    OBVIOUS
  <2>2. srv' = [s EXCEPT !.dirty = FALSE]
    BY <1>5, <2>1 DEF Flush
  <2>3. Shaped(s) /\ s.pos = srv.pos
    BY <2>1, NewFile, ServerKept DEF Kept
  <2> QED
    BY <2>2, <2>3, NewDirty
<1>6. CASE Restart
  <2>1. PICK file, c : srv' = [walls |-> Loaded(file), edges |-> IndexOf(Loaded(file)), pos |-> c,
                               steps |-> 0, ready |-> FALSE, file |-> file, dirty |-> FALSE]
    BY <1>6 DEF Restart
  <2>2. ~srv'.ready
    BY <2>1
  <2> QED
    BY <2>2
<1>7. CASE Disconnect
  <2>1. PICK b \in BOOLEAN : b = FALSE
    OBVIOUS
  <2>2. srv' = [srv EXCEPT !.ready = b] /\ Shaped(srv)
    BY <1>7, <2>1, ServerKept DEF Disconnect, Kept
  <2>3. ~srv'.ready
    BY <2>1, <2>2, NewReady
  <2> QED
    BY <2>3
<1>8. CASE \/ IgnoreStep \/ Step \/ SetOut \/ MoveOn \/ Arrive \/ ReceiveWelcome \/ BeginLoop \/ ReceivePosition \/ ReceiveWall
           \/ UNCHANGED vars
  <2>1. srv' = srv
    BY <1>8 DEF IgnoreStep, Step, SetOut, MoveOn, Arrive, ReceiveWelcome, BeginLoop, ReceivePosition, ReceiveWall, vars
  <2> QED
    BY <2>1
<1> QED
  BY <1>1, <1>2, <1>3, <1>4, <1>5, <1>6, <1>7, <1>8 DEF Next, Server, Storage, Browser, Moves

\* Nobody walks through a wall that stops people: a step the server takes, on
\* the way to a person or an item too, goes to a neighbouring cell and there is
\* a way there by the walls it has, whatever the page's walls and position were
\* when it asked; only the end of such a move (teleport_complete) asks no wall.
THEOREM WallsStopWalkers == Spec => WalkersStopAtWalls
<1>1. WallsInv /\ [Next]_vars =>
        [srv.ready /\ srv'.ready /\ srv'.pos # srv.pos =>
            \/ Near(srv.pos, srv'.pos) /\ Way(srv.walls, srv.pos, srv'.pos)
            \/ Arrives]_vars
  BY OnlyStepsMove, TakenStep, TakenArrival
<1> QED
  BY <1>1, WallsInvariant, PTL DEF Spec, WalkersStopAtWalls

\* When nothing is under way, a page whose steps were all heard stands where
\* the server has its user, and one that missed no edit has the server's walls
\* and foresees each of its decisions.
THEOREM PagesAgree == Spec => []QuietPagesAgree
<1>1. WallsInv => QuietPagesAgree
  <2> SUFFICES ASSUME WallsInv, Quiet
               PROVE  /\ ~unheard => page.pos = srv.pos
                      /\ ~missed => /\ page.walls = srv.walls
                                    /\ \A p, q \in Cells : Near(p, q) =>
                                          (Blocking(page.index, p, q) <=> BlockedMove(srv, p, q))
    BY DEF QuietPagesAgree
  <2>1. page.phase = "in" /\ up = <<>> /\ down = <<>> /\ DOMAIN up = {} /\ DOMAIN down = {}
    BY DEF Quiet
  <2>2. ~unheard => page.pos = srv.pos
    BY <2>1 DEF WallsInv, PositionInv, Stepless
  <2>3. ASSUME ~missed PROVE page.walls = srv.walls
    BY <2>1, <2>3, FollowsEnds DEF WallsInv, ConnectionInv, CopyInv
  <2>4. ASSUME ~missed, NEW p \in Cells, NEW q \in Cells, Near(p, q)
        PROVE  Blocking(page.index, p, q) <=> BlockedMove(srv, p, q)
    <3>1. page.index = PageIndex(srv.walls)
      BY <2>1, <2>3, <2>4 DEF WallsInv, CopyInv
    <3>2. Blocking(PageIndex(srv.walls), p, q) <=> StopsAhead(srv.walls, p, q)
      BY <2>4, BlockingIs, ServerKept DEF Kept
    <3> QED
      BY <2>4, <3>1, <3>2, BlockedIs, ServerKept
  <2> QED
    BY <2>2, <2>3, <2>4
<1> QED
  BY <1>1, WallsInvariant, PTL
=============================================================================
