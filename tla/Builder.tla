------------------------------ MODULE Builder ------------------------------
(***************************************************************************)
(* World Builder: src/client/src/input/worldBuilderController.ts and       *)
(* ambianceBuilderController.ts.  Walls and ambiance regions are           *)
(* [type, level]: the type is the preset or sound, the level any of their  *)
(* numeric properties.  A direct adjustment changes the page's copy before *)
(* the server has answered.                                                *)
(***************************************************************************)
EXTENDS Menus

NoBuilder == [list |-> {}, wall |-> None, prop |-> None, preset |-> None,
              ambiance |-> None, edited |-> None]
WallProperties == {"level", "contactSound"}
AmbianceProperties == {"level", "name"}

SelectedWall(s) == IF s.wb.wall \in DOMAIN s.world.wall THEN s.wb.wall ELSE None
NearbyWalls(s) == IF s.onFloor THEN DOMAIN s.world.wall ELSE {}
Update(s, kind, id, prop, value) ==
    Send(s, Message(kind, "update", id, [prop |-> prop, value |-> value]))

(* A preset sets every property of a wall, an ambiance's type only its sound. *)
Edited(kind, value, change) ==
    CASE change.prop = "level" -> [value EXCEPT !.level = change.value]
      [] change.prop = "type" /\ kind = "wall" ->
            [type |-> change.value,
             level |-> IF change.value > MaxLevel THEN MaxLevel ELSE change.value]
      [] change.prop = "type" /\ kind = "ambiance" -> [value EXCEPT !.type = change.value]
      [] OTHER -> value
Preview(s, kind, id, prop, value) ==
    [s EXCEPT !.world[kind][id] = Edited(kind, @, [prop |-> prop, value |-> value])]
PreviewAndSend(s, kind, id, prop, value) ==
    Update(Preview(s, kind, id, prop, value), kind, id, prop, value)

OpenBuilder(s) == IF May(s, "structure") THEN To(s, "worldBuilder") ELSE s
OpenWallActions(s, wall) == [s EXCEPT !.wb.wall = wall, !.mode = "worldBuilderWallActions"]
(* Fault: with no wall nearby the list is not opened, and nothing is left. *)
OpenWallListStays(s) ==
    LET near == NearbyWalls(s)
        t == [s EXCEPT !.wb.list = near]
    IN  IF near = {} THEN t ELSE To(t, "worldBuilderWallList")
OpenWallList(s) ==
    LET near == NearbyWalls(s)
        t == [s EXCEPT !.wb.list = near]
    IN  IF near = {} THEN OpenBuilder(t) ELSE To(t, "worldBuilderWallList")

(***************************************************************************)
(* The ambiance editor.                                                    *)
(***************************************************************************)
SelectedAmbiance(s) ==
    IF s.wb.ambiance \in DOMAIN s.world.ambiance THEN s.wb.ambiance ELSE None
HandleStaleSelection(s) == OpenBuilder([s EXCEPT !.wb.ambiance = None, !.wb.edited = None])
OpenActions(s, ambiance) ==
    [s EXCEPT !.wb.ambiance = ambiance, !.wb.edited = None, !.mode = "worldBuilderAmbianceActions"]
Refused(s) == To(s, "normal")

OpenAmbianceList(s) ==
    LET near == IF s.onFloor THEN DOMAIN s.world.ambiance ELSE {}
        t == [s EXCEPT !.wb.list = near]
    IN  IF ~May(s, "structure") THEN Refused(s)
        ELSE IF near = {} THEN To(t, "worldBuilder")
        ELSE To(t, "worldBuilderAmbianceList")
RequestAdd(s) ==
    IF ~May(s, "structure") THEN Refused(s)
    ELSE To(Send(s, Message("ambiance", "add", None, None)), "normal")

SendUpdate(s, id, prop, value) ==
    IF id \notin DOMAIN s.world.ambiance THEN HandleStaleSelection(s)
    ELSE Update(s, "ambiance", id, prop, value)

AmbianceListEnter(s, ambiance) ==
    IF ambiance \in DOMAIN s.world.ambiance /\ s.onFloor THEN OpenActions(s, ambiance)
    ELSE HandleStaleSelection(s)
AmbianceListEscape(s) == OpenBuilder(s)

AmbianceActions == {"type", "level", "name", "edge", "delete"}
AmbianceActionsSide(s, action, by) ==
    LET id == SelectedAmbiance(s)
        now == s.world.ambiance[id]
        level == AdjustNumber(now.level, by)
    IN  IF id = None THEN HandleStaleSelection(s)
        ELSE IF action \in {"name", "delete"} THEN s
        ELSE IF ~May(s, "structure") THEN Refused(s)
        ELSE CASE action = "edge" -> Send(s, Message("ambiance", "move", id, None))
               [] action = "type" ->
                    PreviewAndSend(s, "ambiance", id, "type", AdjustOption(now.type, by))
               [] action = "level" /\ level = now.level -> s
               [] OTHER -> PreviewAndSend(s, "ambiance", id, "level", level)
AmbianceActionsEnter(s, action) ==
    LET id == SelectedAmbiance(s)
    IN  IF id = None THEN HandleStaleSelection(s)
        ELSE CASE action = "type" -> OpenOptionSelector(s, About("ambianceType", id))
               [] action = "delete" -> OpenConfirmation(s, About("ambianceDelete", id))
               [] action \in AmbianceProperties ->
                    OpenText([s EXCEPT !.wb.edited = action], "worldBuilderAmbianceEdit", id, 0)
               [] OTHER -> s
AmbianceActionsEscape(s) ==
    IF SelectedAmbiance(s) = None THEN HandleStaleSelection(s) ELSE OpenAmbianceList(s)

AmbianceTypeChosen(s, request, type) ==
    LET t == SendUpdate(s, request.id, "type", type)
    IN  IF ~May(s, "structure") THEN Refused(s)
        ELSE IF request.id \notin DOMAIN s.world.ambiance THEN t
        ELSE To(t, "worldBuilderAmbianceActions")
(* Also after No to a deletion. *)
AmbianceDialogCancelled(s) ==
    IF SelectedAmbiance(s) = None THEN HandleStaleSelection(s)
    ELSE To(s, "worldBuilderAmbianceActions")
AmbianceDeleteConfirmed(s, request) ==
    IF ~May(s, "structure") THEN Refused(s)
    ELSE IF SelectedAmbiance(s) = None THEN HandleStaleSelection(s)
    ELSE [Send(s, Message("ambiance", "delete", request.id, None))
              EXCEPT !.wb.ambiance = None, !.wb.edited = None, !.mode = "normal"]

AmbianceEditStale(s) == SelectedAmbiance(s) = None \/ s.wb.edited = None
AmbianceEditType(s, text) ==
    IF AmbianceEditStale(s) THEN HandleStaleSelection(s) ELSE ApplyTextInputEdit(s, text)
AmbianceEditEscape(s) ==
    IF AmbianceEditStale(s) THEN HandleStaleSelection(s)
    ELSE [s EXCEPT !.wb.edited = None, !.mode = "worldBuilderAmbianceActions"]
AmbianceEditSubmit(s) ==
    IF AmbianceEditStale(s) THEN HandleStaleSelection(s)
    ELSE IF ~May(s, "structure") THEN Refused([s EXCEPT !.wb.edited = None])
    ELSE IF ~Valid(s.text) THEN s
    ELSE [SendUpdate(s, s.wb.ambiance, s.wb.edited, s.text)
              EXCEPT !.wb.edited = None, !.mode = "worldBuilderAmbianceActions"]

HandleAmbianceActionResult(s, m) ==
    LET t == IF m.op = "add" /\ m.id \in DOMAIN s.world.ambiance THEN OpenActions(s, m.id) ELSE s
    IN  IF ~m.ok THEN s
        ELSE IF m.op = "delete" /\ m.id = s.wb.ambiance
        THEN [t EXCEPT !.wb.ambiance = None, !.wb.edited = None, !.mode = "normal"]
        ELSE t

(***************************************************************************)
(* The root menu and the wall editor.                                      *)
(***************************************************************************)
RootActions == {"add", "edit", "addAmbiance", "editAmbiances"}
RootEnter(s, entry) ==
    CASE entry = "add" -> To(s, "worldBuilderPreset")
      [] entry = "addAmbiance" -> RequestAdd(s)
      [] entry = "editAmbiances" -> OpenAmbianceList(s)
      [] OTHER -> IF NearbyWalls(s) = {} THEN [s EXCEPT !.wb.list = {}] ELSE OpenWallList(s)
RootEscape(s) == To(s, "normal")
PresetEnter(s, preset) == [s EXCEPT !.wb.preset = preset, !.mode = "worldBuilderDirection"]
PresetEscape(s) == OpenBuilder(s)
DirectionEnter(s) ==
    IF s.wb.preset = None THEN s
    ELSE To(Send(s, Message("wall", "add", None, s.wb.preset)), "normal")
DirectionEscape(s) == To(s, "worldBuilderPreset")
WallListEnter(s, wall) == OpenWallActions(s, wall)
WallListEscape(s) == OpenBuilder(s)

WallActions == {"type", "orientation", "edge", "properties", "delete"}
WallActionsSide(s, action, by) ==
    LET id == SelectedWall(s)
        now == s.world.wall[id]
    IN  IF id = None THEN s
        ELSE CASE action \in {"edge", "orientation"} -> Send(s, Message("wall", "move", id, None))
               [] action = "type" ->
                    PreviewAndSend(s, "wall", id, "type", AdjustOption(now.type, by))
               [] OTHER -> s
WallActionsEnter(s, action) ==
    LET id == SelectedWall(s)
    IN  IF id = None THEN To(s, "normal")
        ELSE CASE action = "properties" -> To(s, "worldBuilderPropertyList")
               [] action = "type" -> OpenOptionSelector(s, About("wallType", id))
               [] action = "orientation" -> OpenOptionSelector(s, About("wallOrientation", id))
               [] action = "delete" -> OpenConfirmation(s, About("wallDelete", id))
               [] OTHER -> s
WallActionsEscape(s) == OpenWallList(s)
WallTypeChosen(s, request, preset) ==
    To(Update(s, "wall", request.id, "type", preset), "worldBuilderWallActions")
WallOrientationChosen(s, request) ==
    To(Send(s, Message("wall", "move", request.id, None)), "worldBuilderWallActions")
WallDialogCancelled(s) == To(s, "worldBuilderWallActions")
WallDeleteConfirmed(s, request) ==
    To(Send(s, Message("wall", "delete", request.id, None)), "normal")

PropertyListSide(s, prop, by) ==
    LET id == SelectedWall(s)
    IN  IF id = None \/ prop # "level" THEN s
        ELSE PreviewAndSend(s, "wall", id, "level", AdjustNumber(s.world.wall[id].level, by))
PropertyListEnter(s, prop) ==
    LET id == SelectedWall(s)
    IN  IF id = None THEN s
        ELSE OpenText([s EXCEPT !.wb.prop = prop], "worldBuilderPropertyEdit", id, 0)
PropertyListEscape(s) == To(s, "worldBuilderWallActions")
PropertyEditEscape(s) == To(s, "worldBuilderPropertyList")
PropertyEditSubmit(s) ==
    LET id == SelectedWall(s)
    IN  IF id = None \/ s.wb.prop = None THEN s
        ELSE IF s.wb.prop = "level" /\ ~Valid(s.text) THEN s
        ELSE To(Update(s, "wall", id, s.wb.prop, s.text), "worldBuilderPropertyList")

HandleWallActionResult(s, m) ==
    IF m.ok /\ m.op = "add" /\ m.id \in DOMAIN s.world.wall THEN OpenWallActions(s, m.id) ELSE s
=============================================================================
