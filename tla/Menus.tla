------------------------------- MODULE Menus -------------------------------
(***************************************************************************)
(* What every menu of the page shares (src/client/src/input): the mode the *)
(* page is in, the permissions it believes it has, the shared No/Yes       *)
(* dialog and option selector, the shared text field and the two queues of *)
(* its WebSocket.  The modules Builder, AdminMenu and ItemMenus add their  *)
(* menus, MainModes puts them together.                                    *)
(*                                                                         *)
(* The page's memory is one record, and a handler is an operator from the  *)
(* page before a key or a message to the page after it.  A list's cursor   *)
(* is abstracted: Enter on an entry stands for the arrows that lead to it  *)
(* and the Enter.  A typed text is a number: -1 is one its field refuses   *)
(* (blank, not a number, out of range), the others are values.             *)
(***************************************************************************)
EXTENDS Integers, Sequences, FiniteSets, Functions

CONSTANTS None,         \* no object, no request
          MaxLevel,     \* a numeric property is 0..MaxLevel
          LastPreset,   \* the presets (and ambiance types) are 0..LastPreset
          MaxUnderWay   \* messages under way in both directions

ASSUME BoundsAssumption == /\ MaxLevel \in Nat \ {0}
                           /\ LastPreset \in Nat
                           /\ MaxUnderWay \in Nat \ {0}

VARIABLES page,  \* the browser's memory
          srv    \* the server and the messages it has sent

\* Map.set() and Map.delete()
With(f, id, value) == [i \in DOMAIN f \cup {id} |-> IF i = id THEN value ELSE f[i]]
Without(f, id) == Restrict(f, DOMAIN f \ {id})

Levels == 0..MaxLevel
Presets == 0..LastPreset
Texts == -1..MaxLevel
Valid(text) == text # -1

To(s, mode) == [s EXCEPT !.mode = mode]
May(s, permission) == permission \in s.can

Message(kind, op, id, arg) == [kind |-> kind, op |-> op, id |-> id, arg |-> arg]
Send(s, m) == [s EXCEPT !.out = Append(@, m)]

(***************************************************************************)
(* The shared dialogs.  A request names what it is about and the menu that *)
(* asked; the menus give the callbacks.  `prompt` remembers what the page  *)
(* last asked the user about.                                              *)
(***************************************************************************)
About(of, id) == [of |-> of, id |-> id]
OpenConfirmation(s, request) ==
    [s EXCEPT !.confirm = request, !.mode = "confirmYesNo", !.prompt = request.id]
OpenOptionSelector(s, request) ==
    [s EXCEPT !.option = request, !.mode = "optionSelect", !.prompt = request.id]
OpenText(s, mode, id, text) ==
    [s EXCEPT !.mode = mode, !.prompt = id, !.text = text]

TextModes == {"nickname", "chat", "itemPropertyEdit", "micGainEdit", "adminRoleNameEdit",
              "worldBuilderPropertyEdit", "worldBuilderAmbianceEdit"}
ApplyTextInputEdit(s, text) == [s EXCEPT !.text = text]

(* A numeric property moves by steps of one (or ten) and stops at its ends; *)
(* an option property cycles.                                               *)
AdjustNumber(value, by) ==
    LET attempted == value + by
    IN  IF attempted < 0 THEN 0 ELSE IF attempted > MaxLevel THEN MaxLevel ELSE attempted
AdjustOption(value, by) == (value + by + LastPreset + 1) % (LastPreset + 1)
Steps == {-1, 1}

(* What only a menu reads that is not open any more is forgotten: whatever  *)
(* opens that menu sets it anew.                                            *)
Dialogs == {"confirmYesNo", "optionSelect", "adminUserDeleteConfirm", "adminUserRoleSelect"}
Kept(mode, modes, value, nothing) == IF mode \in modes THEN value ELSE nothing
ShownBuilder(wb, mode) ==
    LET wall == {"worldBuilderWallActions", "worldBuilderPropertyList", "worldBuilderPropertyEdit"}
    IN  [wb EXCEPT
           !.list = Kept(mode, {"worldBuilderWallList", "worldBuilderAmbianceList"}, @, {}),
           !.wall = Kept(mode, wall \cup Dialogs, @, None),
           !.prop = Kept(mode, {"worldBuilderPropertyEdit"}, @, None),
           !.preset = Kept(mode, {"worldBuilderPreset", "worldBuilderDirection"}, @, None)]
ShownAdmin(adm, mode, quiet) ==
    LET role == {"adminRolePermissionList", "adminRoleDeleteReplacement"}
        roles == role \cup {"adminRoleList", "adminRoleNameEdit", "adminUserRoleSelect"}
        users == {"adminUserList", "adminUserDeleteConfirm", "adminUserRoleSelect"}
    IN  [adm EXCEPT
           !.role = Kept(mode, role, @, None),
           !.actions = IF mode = "normal" /\ quiet THEN {} ELSE @,
           !.roles = Kept(mode, roles, @, {}),
           !.grants = Kept(mode, roles, @, {}),
           !.users = IF adm.pending = "set_role" THEN @ ELSE Kept(mode, users, @, {})]
ShownItems(itm, mode) ==
    LET item == {"itemProperties", "itemPropertyEdit", "optionSelect"}
        manage == {"itemManageOptions", "itemManageTransferUser", "confirmYesNo"}
    IN  [itm EXCEPT
           !.list = Kept(mode, {"selectItem"}, @, {}),
           !.context = Kept(mode, {"selectItem"}, @, None),
           !.item = Kept(mode, item, @, None),
           !.keys = Kept(mode, item, @, {}),
           !.key = Kept(mode, item, @, None),
           !.all = Kept(mode, item, @, FALSE),
           !.managed = Kept(mode, manage, @, None)]
Shown(s) ==
    IF s.mode = page.mode THEN s ELSE
    [s EXCEPT
       !.text = Kept(s.mode, TextModes, @, -1),
       !.prompt = Kept(s.mode, TextModes \cup Dialogs \cup {"adminUserList"}, @, None),
       !.confirm = Kept(s.mode, {"confirmYesNo"}, @, None),
       !.option = Kept(s.mode, {"optionSelect"}, @, None),
       !.listed = Kept(s.mode, {"listUsers", "listItems"}, @, {}),
       !.palette = Kept(s.mode, {"commandPalette"}, @, {}),
       !.back = Kept(s.mode, {"commandPalette"}, @, "normal"),
       !.helpBack = Kept(s.mode, {"helpView"}, @, "normal"),
       !.wb = ShownBuilder(@, s.mode),
       !.adm = ShownAdmin(@, s.mode, s.out = <<>> /\ srv.inbox = <<>>),
       !.itm = ShownItems(@, s.mode)]

(* The keys of one browser task, within the bound on messages under way. An *)
(* administrator is hasty who asks before the previous answer is there.    *)
UnderWay == page.out # <<>> \/ \E i \in DOMAIN srv.inbox : srv.inbox[i].kind # "permissions"
Become(s) == /\ Len(s.out) + Len(srv.inbox) <= MaxUnderWay
             /\ page' = [Shown(s) EXCEPT
                  !.hasty = @ \/ (Len(s.out) > Len(page.out) /\ s.out[Len(s.out)].kind = "admin" /\ UnderWay)]
             /\ srv' = IF s.running THEN srv ELSE [srv EXCEPT !.inbox = <<>>]
=============================================================================
