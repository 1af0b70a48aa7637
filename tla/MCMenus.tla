------------------------------ MODULE MCMenus ------------------------------
(***************************************************************************)
(* The page's menus, a few at a time: one behaviour stays within the menus *)
(* of its cast and the part of the world they are about.                   *)
(***************************************************************************)
EXTENDS MainModes

CONSTANTS Casts, MaxOutside  \* what others do, and disconnections, in a behaviour
VARIABLES cast, outside

Free == {"normal", "confirmYesNo", "optionSelect"}
Modes ==
    [commands |-> {"normal", "commandPalette", "helpView", "chat", "nickname", "micGainEdit",
                   "effectSelect", "addItem", "listItems", "listUsers", "pianoUse", "selectItem"},
     walls |-> Free \cup {"worldBuilder", "worldBuilderPreset", "worldBuilderDirection",
                          "worldBuilderWallList", "worldBuilderWallActions",
                          "worldBuilderPropertyList", "worldBuilderPropertyEdit"},
     ambiances |-> Free \cup {"worldBuilder", "worldBuilderAmbianceList",
                              "worldBuilderAmbianceActions", "worldBuilderAmbianceEdit"},
     admin |-> {"normal", "adminMenu", "adminRoleList", "adminRolePermissionList",
                "adminRoleDeleteReplacement", "adminUserList", "adminUserRoleSelect",
                "adminUserDeleteConfirm", "adminRoleNameEdit"},
     items |-> Free \cup {"selectItem", "itemProperties", "itemPropertyEdit",
                          "itemManageOptions", "itemManageTransferUser"}]
Permits ==
    [commands |-> {"voice"}, walls |-> {"structure"}, ambiances |-> {"structure"},
     admin |-> {"admin"}, items |-> {"items"}]

(* One object of each kind changes, or goes; the others stay as they are. *)
One(ids) == CHOOSE id \in ids : TRUE
FitsItem(id, item) ==
    /\ item.full => cast = "items" /\ item.at = "here"
    /\ item.at = "away" => cast = "commands"
    /\ item.at = "other" => cast = "items"
    /\ id = One(Items) \/ item = [at |-> "here", full |-> FALSE]
FitsWorld(world) ==
    /\ \A w \in DOMAIN world.wall : w = One(Walls) \/ world.wall[w] = [type |-> 0, level |-> 0]
    /\ \A a \in DOMAIN world.ambiance :
          a = One(Ambiances) \/ world.ambiance[a] = [type |-> 0, level |-> 0]
InCast ==
    /\ Len(page'.out) <= 1
    /\ page'.onFloor \/ cast \in {"walls", "commands"}
    /\ cast = "commands" => Len(page'.out) + Len(srv'.inbox) <= 1
    /\ FitsWorld(page'.world) /\ FitsWorld(srv'.world)
    /\ cast \in {"items", "commands"} => Items \ {One(Items)} \subseteq srv'.items
    /\ \A i \in DOMAIN page'.items : FitsItem(i, page'.items[i])
    /\ \A n \in DOMAIN srv'.inbox :
          srv'.inbox[n].kind = "itemUpsert" => FitsItem(srv'.inbox[n].id, srv'.inbox[n].arg)
    /\ page'.adm.grants \cup srv'.grants \subseteq {"user"}
    /\ srv'.roles = BuiltIn \/ page'.adm.grants \cup srv'.grants = {}
    /\ page'.mode \in Modes[cast]
    /\ ~page'.hasty
    /\ cast = "ambiances" \/ page'.text \in {-1, 0}
    /\ cast = "commands" \/ (page'.peers = {} /\ ~page'.escaping)
    /\ cast \in {"items", "commands"} \/ srv'.items = {}
    /\ IF cast = "walls" THEN Walls \ {One(Walls)} \subseteq DOMAIN srv'.world.wall
       ELSE srv'.world.wall = <<>>
    /\ IF cast = "ambiances" THEN Ambiances \ {One(Ambiances)} \subseteq DOMAIN srv'.world.ambiance
       ELSE srv'.world.ambiance = <<>>
    /\ srv'.can \subseteq Permits[cast]

MCInit ==
    /\ Init
    /\ cast \in Casts
    /\ outside = 0
    /\ srv.can = Permits[cast]
    /\ srv.items = IF cast \in {"items", "commands"} THEN Items ELSE {}
    /\ DOMAIN srv.world.wall = IF cast = "walls" THEN Walls ELSE {}
    /\ DOMAIN srv.world.ambiance = IF cast = "ambiances" THEN Ambiances ELSE {}
MCNext ==
    /\ \/ /\ outside < MaxOutside /\ outside' = outside + 1
          /\ Others \/ DisconnectButton
       \/ Own /\ UNCHANGED outside
    /\ UNCHANGED cast /\ InCast = TRUE  \* one value, whichever of its disjuncts hold
MCSpec == MCInit /\ [][MCNext]_<<vars, cast, outside>>
=============================================================================
