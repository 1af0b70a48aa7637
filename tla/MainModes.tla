----------------------------- MODULE MainModes -----------------------------
(***************************************************************************)
(* The page's input modes put together: src/client/src/main.ts (the        *)
(* commands of normal mode, the palette, lists, text modes), the keys it   *)
(* hands to the menus' controllers, and the server messages that reach     *)
(* them (network/messageHandlers.ts).  The server is external: it answers  *)
(* the page's requests in order, other people edit the same world, and     *)
(* another administrator may take a permission away or change accounts.    *)
(***************************************************************************)
EXTENDS Builder, AdminMenu, ItemMenus

CONSTANTS Walls, Ambiances, Items, Peers  \* names of objects and of other users

ASSUME RolesAssumption == BuiltIn \subseteq Roles

vars == <<page, srv>>

Commands == {"editNickname", "openMicGainEdit", "openEffectSelect", "addItem", "listItems",
             "useItem", "pickupDropItem", "openItemManagement", "editItem", "inspectItem",
             "toggleMute", "toggleLoopback", "secondaryUseItem", "listUsers", "openHelp",
             "openChat", "openAdminMenu", "openWorldBuilder", "escape"}
PianoCommands == {"pianoHelp", "stopUseMode"}

NoWorld == [wall |-> <<>>, ambiance |-> <<>>]
EmptyPage ==
    [running |-> TRUE, mode |-> "normal", can |-> {}, out |-> <<>>, confirm |-> None,
     option |-> None, text |-> -1, prompt |-> None, world |-> NoWorld, onFloor |-> TRUE,
     wb |-> NoBuilder, adminActions |-> {}, adm |-> NoAdmin, items |-> <<>>, itm |-> NoItems,
     peers |-> {}, listed |-> {}, palette |-> {}, back |-> "normal", helpBack |-> "normal",
     escaping |-> FALSE, hasty |-> FALSE, loopback |-> FALSE, muted |-> FALSE, restore |-> None, piano |-> None]

-----------------------------------------------------------------------------
(* The commands of normal mode. *)
ToggleMute(s) == IF May(s, "voice") THEN [s EXCEPT !.muted = ~@] ELSE s
ToggleLoopback(s) == [s EXCEPT !.loopback = ~@]
OpenNicknameEditor(s) == OpenText(s, "nickname", None, 0)
OpenChat(s) == OpenText(s, "chat", None, -1)
OpenEffectSelect(s) == To(s, "effectSelect")
OpenAddItem(s) == To(s, "addItem")
OpenMicGainEdit(s) ==
    IF ~May(s, "voice") THEN s
    ELSE [OpenText(s, "micGainEdit", None, 0) EXCEPT !.restore = s.loopback, !.loopback = TRUE]
RestoreLoopback(s) ==
    IF s.restore = None THEN s ELSE [s EXCEPT !.loopback = s.restore, !.restore = None]
ListItems(s) ==
    IF Ground(s) = {} \/ ~s.onFloor THEN [s EXCEPT !.listed = {}]
    ELSE [s EXCEPT !.listed = Ground(s), !.mode = "listItems"]
ListUsers(s) ==
    IF s.peers = {} THEN s ELSE [s EXCEPT !.listed = s.peers, !.mode = "listUsers"]
OpenHelpViewer(s, back) == [s EXCEPT !.helpBack = back, !.mode = "helpView"]

Disconnect(s) ==
    [RestoreLoopback(ResetItemManagement(s)) EXCEPT
        !.running = FALSE, !.mode = "normal", !.peers = {}, !.items = <<>>, !.escaping = FALSE,
        !.itm = [@ EXCEPT !.list = {}, !.context = None, !.item = None, !.keys = {}, !.key = None],
        !.piano = None, !.out = <<>>]
EscapeCommand(s) == IF s.escaping THEN Disconnect(s) ELSE [s EXCEPT !.escaping = TRUE]

Available(s) ==
    {c \in Commands :
        /\ c = "openMicGainEdit" => May(s, "voice")
        /\ c = "listItems" => Ground(s) # {}
        /\ c \in {"useItem", "secondaryUseItem", "pickupDropItem", "editItem", "inspectItem"} => InteractionItems(s) # {}
        /\ c = "openItemManagement" => \E i \in InteractionItems(s) : ManagementOptions(s, i) # {}
        /\ c = "listUsers" => s.peers # {}
        /\ c = "openAdminMenu" => s.adminActions # {}
        /\ c = "openWorldBuilder" => May(s, "structure")}

MainModeCommand(s, c) ==
    CASE c = "editNickname" -> OpenNicknameEditor(s)
      [] c = "openChat" -> OpenChat(s)
      [] c = "toggleMute" -> ToggleMute(s)
      [] c = "toggleLoopback" -> ToggleLoopback(s)
      [] c = "openMicGainEdit" -> OpenMicGainEdit(s)
      [] c = "openEffectSelect" -> OpenEffectSelect(s)
      [] c = "addItem" -> OpenAddItem(s)
      [] c = "listItems" -> ListItems(s)
      [] c = "listUsers" -> ListUsers(s)
      [] c = "openHelp" -> OpenHelpViewer(s, "normal")
      [] c = "useItem" -> ItemCommand(s, "use")
      [] c = "secondaryUseItem" -> ItemCommand(s, "secondaryUse")
      [] c = "pickupDropItem" -> ItemCommand(s, "pickupDrop")
      [] c = "openItemManagement" -> ItemCommand(s, "manage")
      [] c = "editItem" -> ItemCommand(s, "edit")
      [] c = "inspectItem" -> ItemCommand(s, "inspect")
      [] c = "openAdminMenu" -> OpenAdminMenu(s)
      [] c = "openWorldBuilder" -> OpenBuilder(s)
      [] c = "escape" -> EscapeCommand(s)
NormalKey(s, c) == MainModeCommand([s EXCEPT !.escaping = @ /\ c = "escape"], c)

StopUseMode(s) == IF s.piano = None THEN s ELSE [s EXCEPT !.piano = None, !.mode = "normal"]
PianoCommand(s, c) ==
    IF s.piano = None THEN To(s, "normal")
    ELSE IF c = "pianoHelp" THEN OpenHelpViewer(s, "pianoUse") ELSE StopUseMode(s)
PianoKey(s) ==
    IF s.piano = None THEN To(s, "normal")
    ELSE IF s.piano \notin DOMAIN s.items THEN StopUseMode(s) ELSE s

OpenCommandPalette(s) ==
    LET commands == IF s.mode = "normal" THEN Available(s)
                    ELSE IF s.piano # None THEN PianoCommands ELSE {}
    IN  IF commands = {} THEN s
        ELSE [s EXCEPT !.palette = commands, !.back = s.mode, !.mode = "commandPalette"]
ExecuteCommandPaletteSelection(s, c) ==
    LET t == To(s, s.back)
    IN  IF c \in PianoCommands THEN PianoCommand(t, c) ELSE MainModeCommand(t, c)

PaletteEscape(s) == To(s, s.back)
HelpViewEscape(s) == To(s, s.helpBack)
ChatEnter(s) == To(s, "normal")
NicknameEnter(s) == To(s, "normal")
EffectSelectEnter(s) == To(s, "normal")
MicGainSubmit(s) == IF ~Valid(s.text) THEN s ELSE RestoreLoopback(To(s, "normal"))
AddItemEnter(s) == To(ItemMessage(s, "add", None, None), "normal")
(* Someone on another floor is only named; on the user's own square, too. *)
ListUsersEnter(s, peer, near) == IF peer \in s.peers /\ near THEN To(s, "normal") ELSE s
ListItemsEnter(s, id) ==
    IF id \in DOMAIN s.items /\ s.items[id].at = "away" THEN To(s, "normal") ELSE s

-----------------------------------------------------------------------------
(* Dialogs: the callbacks of the requests. *)
Confirmed(s, r) ==
    CASE r.of = "wallDelete" -> WallDeleteConfirmed(s, r)
      [] r.of = "ambianceDelete" -> AmbianceDeleteConfirmed(s, r)
      [] OTHER -> ItemConfirmed(s, r)
ConfirmCancelled(s, r) ==
    CASE r.of = "wallDelete" -> WallDialogCancelled(s)
      [] r.of = "ambianceDelete" -> AmbianceDialogCancelled(s)
      [] OTHER -> ItemConfirmCancelled(s)
ConfirmationAnswer(s, yes) ==
    LET t == [s EXCEPT !.confirm = None]
    IN  IF s.confirm = None THEN To(s, "normal")
        ELSE IF yes THEN Confirmed(t, s.confirm) ELSE ConfirmCancelled(t, s.confirm)
OptionSelect(s, value) ==
    LET r == s.option
        t == [s EXCEPT !.option = None]
    IN  IF r = None THEN To(s, "normal")
        ELSE CASE r.of = "wallType" -> WallTypeChosen(t, r, value)
               [] r.of = "wallOrientation" -> WallOrientationChosen(t, r)
               [] r.of = "ambianceType" -> AmbianceTypeChosen(t, r, value)
               [] OTHER -> ItemOptionChosen(t, r, value)
OptionCancel(s) ==
    LET r == s.option
        t == [s EXCEPT !.option = None]
    IN  IF r = None THEN To(s, "normal")
        ELSE CASE r.of \in {"wallType", "wallOrientation"} -> WallDialogCancelled(t)
               [] r.of = "ambianceType" -> AmbianceDialogCancelled(t)
               [] OTHER -> ItemOptionCancelled(t)

(* What Escape does in each mode. *)
EscapeKey(s) ==
    CASE s.mode = "normal" -> EscapeCommand(s)
      [] s.mode = "pianoUse" -> PianoCommand(s, "stopUseMode")
      [] s.mode = "commandPalette" -> PaletteEscape(s)
      [] s.mode = "helpView" -> HelpViewEscape(s)
      [] s.mode = "micGainEdit" -> RestoreLoopback(To(s, "normal"))
      [] s.mode = "confirmYesNo" -> ConfirmationAnswer(s, FALSE)
      [] s.mode = "optionSelect" -> OptionCancel(s)
      [] s.mode = "selectItem" -> SelectItemEscape(s)
      [] s.mode = "itemProperties" -> ItemPropertiesEscape(s)
      [] s.mode = "itemPropertyEdit" -> ItemPropertyEditEscape(s)
      [] s.mode = "itemManageOptions" -> ItemManageOptionsEscape(s)
      [] s.mode = "itemManageTransferUser" -> TransferUserEscape(s)
      [] s.mode = "adminRolePermissionList" -> RolePermissionListEscape(s)
      [] s.mode = "adminRoleDeleteReplacement" -> ReplacementEscape(s)
      [] s.mode = "adminUserList" -> UserListEscape(s)
      [] s.mode = "adminUserRoleSelect" -> UserRoleEscape(s)
      [] s.mode = "adminUserDeleteConfirm" -> UserDeleteAnswer(s, FALSE)
      [] s.mode = "adminRoleNameEdit" -> RoleNameEscape(s)
      [] s.mode = "worldBuilderPreset" -> PresetEscape(s)
      [] s.mode = "worldBuilderDirection" -> DirectionEscape(s)
      [] s.mode = "worldBuilderWallList" -> WallListEscape(s)
      [] s.mode = "worldBuilderWallActions" -> WallActionsEscape(s)
      [] s.mode = "worldBuilderPropertyList" -> PropertyListEscape(s)
      [] s.mode = "worldBuilderPropertyEdit" -> PropertyEditEscape(s)
      [] s.mode = "worldBuilderAmbianceList" -> AmbianceListEscape(s)
      [] s.mode = "worldBuilderAmbianceActions" -> AmbianceActionsEscape(s)
      [] s.mode = "worldBuilderAmbianceEdit" -> AmbianceEditEscape(s)
      \* chat, nickname, effects, lists, addItem, adminMenu, adminRoleList, worldBuilder
      [] OTHER -> To(s, "normal")

-----------------------------------------------------------------------------
(* Messages from the server. *)
Permissions == {"structure", "voice", "items", "admin"}
SetPermissions(s, can) ==
    [s EXCEPT !.can = can, !.adminActions = IF "admin" \in can THEN AdminActions ELSE {}]
StartUseMode(s, id) ==
    IF id \in DOMAIN s.items THEN [s EXCEPT !.piano = id, !.mode = "pianoUse"] ELSE s
ItemUpsert(s, id, item) ==
    RecomputeActiveItemPropertyKeys([s EXCEPT !.items = With(@, id, item)], id)
(* Fault: what the user is editing is not overwritten by what others do. *)
WorldUpsertUnlessEdited(s, kind, id, value) ==
    IF kind = "wall" /\ id = s.wb.wall THEN s
    ELSE [s EXCEPT !.world[kind] = With(@, id, value)]
WorldUpsert(s, kind, id, value) == [s EXCEPT !.world[kind] = With(@, id, value)]
WorldRemove(s, kind, id) == [s EXCEPT !.world[kind] = Without(@, id)]

Receive(s, m) ==
    CASE m.kind = "upsert" -> WorldUpsert(s, m.op, m.id, m.arg)
      [] m.kind = "remove" -> WorldRemove(s, m.op, m.id)
      [] m.kind = "itemUpsert" -> ItemUpsert(s, m.id, m.arg)
      [] m.kind = "itemRemove" -> [s EXCEPT !.items = Without(@, m.id)]
      [] m.kind = "wall" -> HandleWallActionResult(s, m)
      [] m.kind = "ambiance" -> HandleAmbianceActionResult(s, m)
      [] m.kind = "permissions" -> SetPermissions(s, m.arg)
      [] m.kind = "rolesList" -> HandleAdminRolesList(s, m)
      [] m.kind = "usersList" -> HandleAdminUsersList(s, m)
      [] m.kind = "adminResult" -> HandleAdminActionResult(s, m)
      [] m.kind = "targets" -> HandleItemTargets(s, m)
      [] m.kind = "piano" -> StartUseMode(s, m.id)
OnMessage ==
    /\ page.running /\ srv.inbox # <<>>
    /\ page' = Shown(Receive(page, Head(srv.inbox)))
    /\ srv' = [srv EXCEPT !.inbox = Tail(@)]

(***************************************************************************)
(* The server.  It handles the requests in order and tells everybody of a  *)
(* change before it answers the one who asked.  Where an item is and what  *)
(* properties it shows are left open: any value may arrive.                *)
(***************************************************************************)
Answer(kind, op, id, arg, ok) == [kind |-> kind, op |-> op, id |-> id, arg |-> arg, ok |-> ok]
Told(answers) == [srv EXCEPT !.inbox = @ \o answers]

NewObject(m) ==
    IF m.kind = "ambiance" THEN [type |-> 0, level |-> 0]
    ELSE Edited("wall", [type |-> 0, level |-> 0], [prop |-> "type", value |-> m.arg])
WorldAnswered(m) ==
    LET world == srv.world[m.kind]
        ids == IF m.kind = "wall" THEN Walls ELSE Ambiances
        saved(id, value) ==
            [Told(<<Answer("upsert", m.kind, id, value, TRUE), Answer(m.kind, m.op, id, None, TRUE)>>)
                EXCEPT !.world[m.kind] = With(@, id, value)]
        may == "structure" \in srv.can /\ (m.op = "add" \/ m.id \in DOMAIN world)
    IN  \/ /\ ~may \/ m.op \in {"add", "move"}
           /\ srv' = Told(<<Answer(m.kind, m.op, None, None, FALSE)>>)
        \/ /\ may /\ m.op = "add"
           /\ \E id \in ids \ DOMAIN world : srv' = saved(id, NewObject(m))
        \/ /\ may /\ m.op \in {"move", "update"}
           /\ srv' = saved(m.id, IF m.op = "move" THEN world[m.id]
                                 ELSE Edited(m.kind, world[m.id], m.arg))
        \/ /\ may /\ m.op = "delete"
           /\ srv' = [Told(<<Answer("remove", m.kind, m.id, None, TRUE),
                             Answer(m.kind, m.op, m.id, None, TRUE)>>)
                        EXCEPT !.world[m.kind] = Without(@, m.id)]

RolesSent(roles, grants) ==
    Answer("rolesList", None, None, [roles |-> roles, grants |-> grants], TRUE)
AdminAnswered(m) ==
    LET may == "admin" \in srv.can
        result(ok) == Answer("adminResult", m.op, None, None, ok)
    IN  \/ /\ ~may \/ m.op \notin {"roles_list", "users_list"}
           /\ srv' = Told(<<result(FALSE)>>)
        \/ /\ may /\ m.op = "roles_list"
           /\ srv' = Told(<<RolesSent(srv.roles, srv.grants)>>)
        \/ /\ may /\ m.op = "users_list"
           /\ srv' = [Told(<<Answer("usersList", m.arg, None, Eligible(srv.accounts, m.arg), TRUE)>>)
                        EXCEPT !.touched = {}]
        \/ /\ may /\ m.op \in {"ban", "unban", "delete_account"}
           /\ m.id \in Eligible(srv.accounts, m.op)
           /\ srv' = [Told(<<result(TRUE)>>) EXCEPT !.accounts = After(@, m.op, m.id)]
        \/ /\ may /\ m.op = "set_role" /\ srv' = Told(<<result(TRUE)>>)
        \/ /\ may /\ m.op = "role_create"
           /\ \E role \in Roles \ srv.roles :
                 srv' = [Told(<<result(TRUE)>>) EXCEPT !.roles = @ \cup {role}]
        \/ /\ may /\ m.op = "role_delete"
           /\ m.id \in srv.roles \ BuiltIn
           /\ srv' = [Told(<<result(TRUE)>>) EXCEPT !.roles = @ \ {m.id}, !.grants = @ \ {m.id}]
        \/ /\ may /\ m.op = "role_update_permissions" /\ m.id \in srv.roles
           /\ srv' = [Told(<<result(TRUE)>>) EXCEPT
                        !.grants = IF m.arg THEN @ \cup {m.id} ELSE @ \ {m.id}]

ItemValues == [at : {"me", "here", "away", "other"}, full : BOOLEAN]
ItemSaved(id) ==
    \E item \in ItemValues :
        srv' = [Told(<<Answer("itemUpsert", "item", id, item, TRUE)>>) EXCEPT !.items = @ \cup {id}]
ItemRemoved(id) ==
    srv' = [Told(<<Answer("itemRemove", "item", id, None, TRUE)>>) EXCEPT !.items = @ \ {id}]
ItemAnswered(m) ==
    \/ m.op # "targets" /\ UNCHANGED srv
    \/ m.op = "add" /\ \E id \in Items \ srv.items : ItemSaved(id)
    \/ m.op \in {"update", "pickup", "drop", "hand", "transfer"} /\ m.id \in srv.items /\ ItemSaved(m.id)
    \/ m.op = "delete" /\ m.id \in srv.items /\ ItemRemoved(m.id)
    \/ m.op = "use" /\ m.id \in srv.items /\ srv' = Told(<<Answer("piano", "use", m.id, None, TRUE)>>)
    \/ /\ m.op = "targets"
       /\ \E targets \in SUBSET Users : srv' = Told(<<Answer("targets", m.arg, m.id, targets, TRUE)>>)

ServerHandles ==
    /\ page.out # <<>>
    /\ page' = [page EXCEPT !.out = Tail(@)]
    /\ LET m == Head(page.out)
       IN  CASE m.kind \in {"wall", "ambiance"} -> WorldAnswered(m)
             [] m.kind = "admin" -> AdminAnswered(m)
             [] m.kind = "item" -> ItemAnswered(m)

(* What others do meanwhile. *)
Idle == Len(page.out) + Len(srv.inbox) < MaxUnderWay
OthersBuild ==
    /\ Idle /\ page.running /\ UNCHANGED page
    /\ \E kind \in {"wall", "ambiance"}, type \in Presets, level \in Levels :
         \E id \in IF kind = "wall" THEN Walls ELSE Ambiances :
            /\ id \in DOMAIN srv.world[kind] => srv.world[kind][id] # [type |-> type, level |-> level]
            /\ srv' = [Told(<<Answer("upsert", kind, id, [type |-> type, level |-> level], TRUE)>>)
                         EXCEPT !.world[kind] = With(@, id, [type |-> type, level |-> level])]
OthersRemove ==
    /\ Idle /\ page.running /\ UNCHANGED page
    /\ \E kind \in {"wall", "ambiance"} : \E id \in DOMAIN srv.world[kind] :
         srv' = [Told(<<Answer("remove", kind, id, None, TRUE)>>)
                   EXCEPT !.world[kind] = Without(@, id)]
OthersMoveItems ==
    /\ Idle /\ page.running /\ UNCHANGED page
    /\ \E id \in Items : ItemSaved(id) \/ (id \in srv.items /\ ItemRemoved(id))
PermissionsChange ==
    /\ Idle /\ page.running /\ UNCHANGED page
    /\ \E permission \in Permissions :
         LET can == IF permission \in srv.can THEN srv.can \ {permission}
                    ELSE srv.can \cup {permission}
         IN  srv' = [Told(<<Answer("permissions", None, None, can, TRUE)>>)
                       EXCEPT !.can = can, !.taken = @ \/ "structure" \notin can]
(* Another administrator bans, unbans or deletes, or somebody registers:    *)
(* this page is told nothing.  `touched`: those to whom that happened since *)
(* it was sent a list.                                                      *)
OthersAdminister ==
    /\ page.running /\ UNCHANGED page
    /\ \E n \in Names, status \in {"active", "disabled", "gone"} :
         /\ status # srv.accounts[n]
         /\ srv.accounts[n] = "gone" => status = "active"
         /\ srv' = [srv EXCEPT !.accounts[n] = status, !.touched = @ \cup {n}]
PeersChange ==
    /\ page.running /\ UNCHANGED srv
    /\ \E peers \in SUBSET Peers : peers # page.peers /\ page' = [page EXCEPT !.peers = peers]
(* The user walks, or a lift takes them to a floor without this world's walls. *)
Walked(item) == [item EXCEPT !.at = IF @ = "here" THEN "away" ELSE "here"]
Walk ==
    /\ page.running /\ page.mode = "normal" /\ UNCHANGED srv
    /\ \E moved \in SUBSET Ground(page) : moved # {} /\
         page' = [page EXCEPT !.escaping = FALSE,
                    !.items = [i \in DOMAIN @ |-> IF i \in moved THEN Walked(@[i]) ELSE @[i]]]
CarriedToFloor ==
    page.running /\ page' = [page EXCEPT !.onFloor = ~@] /\ UNCHANGED srv

DisconnectButton ==
    /\ page.running
    /\ page' = Disconnect(page)
    /\ srv' = [srv EXCEPT !.inbox = <<>>]
Welcome ==
    /\ ~page.running
    /\ \E item \in ItemValues :
         page' = [SetPermissions(page, srv.can) EXCEPT !.running = TRUE, !.world = srv.world,
                     !.items = [i \in srv.items |-> item], !.onFloor = TRUE]
    /\ UNCHANGED srv

-----------------------------------------------------------------------------
(* The keys. *)
In(mode) == page.running /\ page.mode = mode
NormalKeys == In("normal") /\ \E c \in Commands \ {"escape"} : Become(NormalKey(page, c))
PaletteOpened == page.running /\ page.mode \in {"normal", "pianoUse"} /\ Become(OpenCommandPalette(page))
PaletteEnter ==
    In("commandPalette") /\ \E c \in page.palette : Become(ExecuteCommandPaletteSelection(page, c))
PianoKeys ==
    In("pianoUse") /\ (Become(PianoKey(page)) \/ \E c \in PianoCommands : Become(PianoCommand(page, c)))
PickEnter ==
    \/ In("effectSelect") /\ Become(EffectSelectEnter(page))
    \/ In("addItem") /\ Become(AddItemEnter(page))
    \/ In("listUsers") /\ \E p \in page.listed, near \in BOOLEAN : Become(ListUsersEnter(page, p, near))
    \/ In("listItems") /\ \E i \in page.listed : Become(ListItemsEnter(page, i))
    \/ In("selectItem") /\ \E i \in page.itm.list : Become(SelectItemEnter(page, i))
TypeText ==
    /\ page.running /\ page.mode \in TextModes
    /\ \E text \in Texts :
         Become(CASE page.mode = "itemPropertyEdit" -> ItemPropertyEditType(page, text)
                  [] page.mode = "worldBuilderAmbianceEdit" -> AmbianceEditType(page, text)
                  [] OTHER -> ApplyTextInputEdit(page, text))
SubmitText ==
    \/ In("chat") /\ Become(ChatEnter(page))
    \/ In("nickname") /\ Become(NicknameEnter(page))
    \/ In("micGainEdit") /\ Become(MicGainSubmit(page))
    \/ In("itemPropertyEdit") /\ Become(ItemPropertyEditSubmit(page))
    \/ In("adminRoleNameEdit") /\ Become(RoleNameSubmit(page))
    \/ In("worldBuilderPropertyEdit") /\ Become(PropertyEditSubmit(page))
    \/ In("worldBuilderAmbianceEdit") /\ Become(AmbianceEditSubmit(page))
DialogAnswered ==
    \/ In("confirmYesNo") /\ Become(ConfirmationAnswer(page, TRUE))
    \/ In("optionSelect") /\ \E value \in Presets : Become(OptionSelect(page, value))
    \/ In("adminUserDeleteConfirm") /\ Become(UserDeleteAnswer(page, TRUE))
ItemMenuKeys ==
    \/ In("itemProperties") /\ \E key \in page.itm.keys : Become(ItemPropertiesSide(page, key))
    \/ In("itemProperties") /\ \E key \in page.itm.keys : Become(ItemPropertiesEnter(page, key))
    \/ In("itemManageOptions") /\ \E o \in {"delete", "transfer", "hand"} : Become(ItemManageOptionsEnter(page, o))
    \/ In("itemManageTransferUser") /\ \E u \in page.itm.targets : Become(TransferUserEnter(page, u))
AdminKeys ==
    \/ In("adminMenu") /\ \E a \in page.adm.actions : Become(AdminMenuEnter(page, a))
    \/ In("adminRoleList") /\ \E r \in page.adm.roles \cup {None} : Become(RoleListEnter(page, r))
    \/ In("adminRolePermissionList") /\ Become(RolePermissionToggle(page))
    \/ In("adminRolePermissionList") /\ Become(RoleDeleteEnter(page))
    \/ In("adminRoleDeleteReplacement") /\ \E r \in page.adm.roles \ {page.adm.role} : Become(ReplacementEnter(page, r))
    \/ In("adminUserList") /\ \E n \in page.adm.users : Become(UserListEnter(page, n))
    \/ In("adminUserRoleSelect") /\ \E r \in page.adm.roles : Become(UserRoleEnter(page, r))
BuilderKeys ==
    \/ In("worldBuilder") /\ \E entry \in RootActions : Become(RootEnter(page, entry))
    \/ In("worldBuilderPreset") /\ \E preset \in Presets : Become(PresetEnter(page, preset))
    \/ In("worldBuilderDirection") /\ Become(DirectionEnter(page))
    \/ In("worldBuilderWallList") /\ \E w \in page.wb.list : Become(WallListEnter(page, w))
    \/ In("worldBuilderWallActions") /\ \E a \in WallActions : Become(WallActionsSide(page, a, 1))
    \/ In("worldBuilderWallActions") /\ \E a \in WallActions : Become(WallActionsEnter(page, a))
    \/ In("worldBuilderPropertyList") /\ \E by \in Steps : Become(PropertyListSide(page, "level", by))
    \/ In("worldBuilderPropertyList") /\ \E p \in WallProperties : Become(PropertyListEnter(page, p))
    \/ In("worldBuilderAmbianceList") /\ \E a \in page.wb.list : Become(AmbianceListEnter(page, a))
    \/ In("worldBuilderAmbianceActions") /\ \E a \in AmbianceActions \ {"level"} : Become(AmbianceActionsSide(page, a, 1))
    \/ In("worldBuilderAmbianceActions") /\ \E by \in Steps : Become(AmbianceActionsSide(page, "level", by))
    \/ In("worldBuilderAmbianceActions") /\ \E a \in AmbianceActions : Become(AmbianceActionsEnter(page, a))
Escape ==
    /\ page.running
    /\ page' = Shown(EscapeKey(page))
    /\ srv' = IF page'.running THEN srv ELSE [srv EXCEPT !.inbox = <<>>]

Plain(ids) == [id \in ids |-> [type |-> 0, level |-> 0]]
Init ==
    \E walls \in SUBSET Walls, regions \in SUBSET Ambiances, items \in SUBSET Items,
       can \in SUBSET Permissions :
       LET world == [wall |-> Plain(walls), ambiance |-> Plain(regions)]
       IN  /\ srv = [inbox |-> <<>>, can |-> can, world |-> world, taken |-> "structure" \notin can,
                     accounts |-> [n \in Names |-> "active"], touched |-> {}, roles |-> BuiltIn,
                     grants |-> {}, items |-> items]
           /\ page = [SetPermissions(EmptyPage, can) EXCEPT !.world = world,
                        !.items = [i \in items |-> [at |-> "here", full |-> FALSE]]]

Others ==
    \/ OthersBuild \/ OthersRemove \/ OthersMoveItems \/ PermissionsChange \/ PeersChange
    \/ OthersAdminister \/ CarriedToFloor
Own ==
    \/ OnMessage \/ ServerHandles \/ Walk \/ Welcome
    \/ NormalKeys \/ PaletteOpened \/ PaletteEnter \/ PianoKeys \/ PickEnter
    \/ TypeText \/ SubmitText \/ DialogAnswered \/ ItemMenuKeys \/ AdminKeys \/ BuilderKeys \/ Escape
Next == Own \/ Others \/ DisconnectButton
Spec == Init /\ [][Next]_vars

-----------------------------------------------------------------------------
(* The page's record holds what its declarations allow (client/src/state). *)
TypeOK ==
    /\ page.can \subseteq Permissions /\ srv.can \subseteq Permissions
    /\ DOMAIN page.world.wall \subseteq Walls /\ DOMAIN page.world.ambiance \subseteq Ambiances
    /\ \A w \in DOMAIN page.world.wall : page.world.wall[w] \in [type : Presets, level : Levels]
    /\ \A a \in DOMAIN page.world.ambiance :
          page.world.ambiance[a] \in [type : Presets, level : Levels]
    /\ page.text \in Texts
    /\ page.adm.users \subseteq Names /\ page.adm.roles \subseteq Roles
    /\ page.adm.pending \in UserActions \cup {None}
    /\ page.itm.list \cup DOMAIN page.items \subseteq Items
    /\ page.running => page.piano \in Items \cup {None}
    /\ page.restore \in BOOLEAN \cup {None}

(* Escape always finds its way out: whatever answers, changes by others and *)
(* losses of a permission reached the page in the middle of a menu, a       *)
(* handful of Escapes leads back to normal mode.  The menus under World     *)
(* Builder's root need the permission to build for it: their way out        *)
(* reopens the root.                                                        *)
AtHome(s) == s.mode = "normal"
WithinOne(s) == AtHome(s) \/ AtHome(EscapeKey(s))
WithinTwo(s) == AtHome(s) \/ WithinOne(EscapeKey(s))
WithinThree(s) == AtHome(s) \/ WithinTwo(EscapeKey(s))
WithinFour(s) == AtHome(s) \/ WithinThree(EscapeKey(s))
EscapesLeadOut == AtHome(page) \/ WithinFour(EscapeKey(page))
UnderTheRoot(s) ==
    \/ s.mode \in {"worldBuilderPreset", "worldBuilderDirection", "worldBuilderWallList",
                   "worldBuilderWallActions", "worldBuilderPropertyList",
                   "worldBuilderPropertyEdit", "worldBuilderAmbianceList",
                   "worldBuilderAmbianceActions", "worldBuilderAmbianceEdit"}
    \/ /\ s.mode = "confirmYesNo" /\ s.confirm # None
       /\ s.confirm.of \in {"wallDelete", "ambianceDelete"}
    \/ /\ s.mode = "optionSelect" /\ s.option # None
       /\ s.option.of \in {"wallType", "wallOrientation", "ambianceType"}
EscapeLeadsOut ==
    page.running /\ (UnderTheRoot(page) => May(page, "structure")) => EscapesLeadOut

(* Escape leads back from every menu (docs/controls.md:122, 187: "Escape:   *)
(* Exit/cancel", "Cancel text/selection or return to the previous menu").   *)
EscapeAlwaysLeadsOut == page.running => EscapesLeadOut

Sent == Len(page'.out) > Len(page.out)
New == page'.out[Len(page'.out)]
(* The ambiance editor never asks for a change of a region that its own     *)
(* copy of the world no longer has, or without the permission: it looks     *)
(* again after a dialog or a text field, while others removed the region.   *)
AmbianceEditsAreLive ==
    [][Sent /\ New.kind = "ambiance" /\ New.op # "add" =>
          New.id \in DOMAIN page.world.ambiance /\ May(page, "structure")]_vars

(* The value a user types, chooses or confirms goes to the object they were *)
(* asked about, even when an answer opened another menu in between.         *)
SendsMatchThePrompt ==
    [][/\ page.mode \in TextModes \cup {"confirmYesNo", "optionSelect", "adminUserDeleteConfirm"}
       /\ srv' = srv /\ Sent
       => New.id = page.prompt]_vars

(* The page shows its own edits of walls and regions before the server has  *)
(* them: when nothing is under way any more and building was never          *)
(* forbidden, the page and the server agree, in whatever order its own      *)
(* edits and those of others crossed.                                       *)
PreviewsSettle ==
    page.running /\ ~srv.taken /\ page.out = <<>> /\ srv.inbox = <<>>
       => page.world = srv.world

(* The people offered are those the server listed for this item and for     *)
(* this action: answers asked for another item, or for handing instead of   *)
(* transferring, are not taken for them.                                    *)
TargetsAreForTheAskedItem ==
    page.mode = "itemManageTransferUser"
       => page.itm.targetsOf = <<page.itm.action, page.itm.managed>>

(* An administrator who awaits each answer before the next request sees in  *)
(* a list of users to ban, unban or delete those to whom that still         *)
(* applies: each confirmed change took its user, and no other, off it.      *)
(* That is so of everybody whom nobody else changed since the list was      *)
(* sent: what other administrators do, and registrations, do not reach it.  *)
ListFollowsServer ==
    /\ page.running /\ ~page.hasty /\ ~UnderWay
    /\ page.mode = "adminUserList" /\ page.adm.pending \in {"ban", "unban", "delete_account"}
    => page.adm.users \ srv.touched = Eligible(srv.accounts, page.adm.pending) \ srv.touched

(* What the open menus show is of the world and of what was asked, at every *)
(* key and after every answer.                                              *)
PageConsistent == TypeOK /\ TargetsAreForTheAskedItem /\ ListFollowsServer

(* What a key sends is about what the user was asked, and about something   *)
(* the page still has and the user may still change.                        *)
SendsAreMeant == AmbianceEditsAreLive /\ SendsMatchThePrompt
=============================================================================
