----------------------------- MODULE ItemMenus -----------------------------
(***************************************************************************)
(* The menus about items: items/itemInteractionController.ts (choosing one *)
(* of several items, management) and items/itemPropertyEditor.ts.  An item *)
(* is [at, full]: held by "me" or an "other", or on the ground "here" or   *)
(* "away"; `full` items show one more property than the rest.              *)
(***************************************************************************)
EXTENDS Menus

CONSTANTS Users  \* whom an item can be handed or transferred to

NoItems == [list |-> {}, context |-> None, item |-> None, keys |-> {}, key |-> None,
            all |-> FALSE, managed |-> None, action |-> None, targets |-> {}, targetsOf |-> None]

InteractionItems(s) == {i \in DOMAIN s.items : s.items[i].at \in {"me", "here"}}
Ground(s) == {i \in DOMAIN s.items : s.items[i].at \in {"here", "away"}}
ItemMessage(s, op, id, arg) == Send(s, Message("item", op, id, arg))

(***************************************************************************)
(* Properties.                                                             *)
(***************************************************************************)
EditableKeys(item) == {"title", "flag", "option"} \cup (IF item.full THEN {"number"} ELSE {})
InspectKeys(item) == EditableKeys(item) \cup {"owner"}
KeysOf(s, id) == IF s.itm.all THEN InspectKeys(s.items[id]) ELSE EditableKeys(s.items[id])

BeginItemProperties(s, id, all) ==
    LET t == [s EXCEPT !.itm.all = all, !.itm.item = id, !.itm.key = None]
    IN  [t EXCEPT !.itm.keys = KeysOf(t, id), !.mode = "itemProperties"]
RecomputeActiveItemPropertyKeys(s, id) ==
    IF s.mode = "itemProperties" /\ s.itm.item = id /\ id \in DOMAIN s.items
    THEN [s EXCEPT !.itm.keys = KeysOf(s, id)] ELSE s

ItemIsGone(s) == [s EXCEPT !.mode = "normal", !.itm.key = None]
PropertyGone(s) == s.itm.item \notin DOMAIN s.items
ItemUpdate(s, key, value) ==
    ItemMessage(s, "update", s.itm.item, [prop |-> key, value |-> value])
Editable(s, key) == key \in EditableKeys(s.items[s.itm.item])

ItemPropertiesSide(s, key) ==
    IF PropertyGone(s) THEN ItemIsGone(s)
    ELSE IF Editable(s, key) /\ key # "title" THEN ItemUpdate(s, key, 1) ELSE s
ItemPropertiesEnter(s, key) ==
    IF PropertyGone(s) THEN ItemIsGone(s)
    ELSE IF ~Editable(s, key) THEN s
    ELSE CASE key = "flag" -> ItemUpdate(s, key, 1)
           [] key = "option" -> OpenOptionSelector([s EXCEPT !.itm.key = key], About("itemOption", s.itm.item))
           [] OTHER -> OpenText([s EXCEPT !.itm.key = key], "itemPropertyEdit", s.itm.item, 0)
ItemPropertiesEscape(s) ==
    IF PropertyGone(s) THEN ItemIsGone(s)
    ELSE [s EXCEPT !.mode = "normal", !.itm.item = None, !.itm.keys = {}, !.itm.key = None]
ItemOptionChosen(s, request, value) ==
    [ItemMessage(s, "update", request.id, [prop |-> "option", value |-> value])
        EXCEPT !.mode = "itemProperties", !.itm.key = None]
ItemOptionCancelled(s) == [s EXCEPT !.mode = "itemProperties", !.itm.key = None]

ItemPropertyEditLost(s) == s.itm.item = None \/ s.itm.key = None
ItemPropertyEditSubmit(s) ==
    IF ItemPropertyEditLost(s) THEN To(s, "normal")
    ELSE IF PropertyGone(s) THEN ItemIsGone(s)
    ELSE IF ~Valid(s.text) THEN s
    ELSE [ItemUpdate(s, s.itm.key, s.text) EXCEPT !.mode = "itemProperties", !.itm.key = None]
ItemPropertyEditEscape(s) ==
    IF ItemPropertyEditLost(s) THEN To(s, "normal")
    ELSE IF PropertyGone(s) THEN ItemIsGone(s)
    ELSE [s EXCEPT !.mode = "itemProperties", !.itm.key = None]
ItemPropertyEditType(s, text) ==
    IF ItemPropertyEditLost(s) THEN To(s, "normal")
    ELSE IF PropertyGone(s) THEN ItemIsGone(s)
    ELSE ApplyTextInputEdit(s, text)

(***************************************************************************)
(* Management: delete, hand to a user nearby, transfer the ownership.      *)
(***************************************************************************)
ManagementOptions(s, id) ==
    LET at == s.items[id].at
    IN  IF ~May(s, "items") THEN {}
        ELSE {"delete"} \cup (IF at # "other" THEN {"transfer"} ELSE {})
                        \cup (IF at = "me" THEN {"hand"} ELSE {})
ResetTargetSelection(s) == [s EXCEPT !.itm.targets = {}, !.itm.action = None, !.itm.targetsOf = None]
ResetItemManagement(s) == [ResetTargetSelection(s) EXCEPT !.itm.managed = None]

BeginItemManagement(s, id) ==
    IF ManagementOptions(s, id) = {} THEN s
    ELSE [ResetTargetSelection(s) EXCEPT !.itm.managed = id, !.mode = "itemManageOptions"]

(* Fault: an answer is taken for the item on screen, whatever was asked of it. *)
HandleItemTargetsAnyAction(s, m) ==
    IF s.mode # "itemManageOptions" \/ s.itm.managed # m.id THEN s
    ELSE IF m.arg = {} THEN To(ResetTargetSelection(s), "itemManageOptions")
    ELSE [s EXCEPT !.itm.targets = m.arg, !.itm.targetsOf = <<m.op, m.id>>,
                   !.mode = "itemManageTransferUser"]
HandleItemTargets(s, m) ==
    IF s.mode # "itemManageOptions" \/ s.itm.managed # m.id \/ s.itm.action # m.op THEN s
    ELSE IF m.arg = {} THEN To(ResetTargetSelection(s), "itemManageOptions")
    ELSE [s EXCEPT !.itm.targets = m.arg, !.itm.targetsOf = <<m.op, m.id>>,
                   !.mode = "itemManageTransferUser"]

AboutItem(of, id, user) == [of |-> of, id |-> id, user |-> user]
ManagementLost(s) ==
    \/ s.itm.managed \notin DOMAIN s.items
    \/ ManagementOptions(s, s.itm.managed) = {}
LeaveManagement(s) == To(ResetItemManagement(s), "normal")
ItemManageOptionsEnter(s, option) ==
    IF ManagementLost(s) THEN LeaveManagement(s)
    ELSE IF option \notin ManagementOptions(s, s.itm.managed) THEN s
    ELSE IF option = "delete"
    THEN OpenConfirmation(ResetTargetSelection(s), AboutItem("itemDelete", s.itm.managed, None))
    ELSE ItemMessage([ResetTargetSelection(s) EXCEPT !.itm.action = option],
                     "targets", s.itm.managed, option)
ItemManageOptionsEscape(s) == LeaveManagement(s)

TargetsLost(s) == s.itm.managed = None \/ s.itm.action = None \/ s.itm.targets = {}
BackToOptions(s) == To(ResetTargetSelection(s), "itemManageOptions")
TransferUserEnter(s, user) ==
    LET id == s.itm.managed
    IN  IF TargetsLost(s) \/ id \notin DOMAIN s.items THEN BackToOptions(s)
        ELSE IF s.itm.action = "hand"
        THEN LeaveManagement(ItemMessage(s, "hand", id, user))
        ELSE OpenConfirmation(ResetTargetSelection(s), AboutItem("itemTransfer", id, user))
TransferUserEscape(s) == BackToOptions(s)

ItemConfirmed(s, request) ==
    LeaveManagement(IF request.of = "itemDelete" THEN ItemMessage(s, "delete", request.id, None)
                    ELSE ItemMessage(s, "transfer", request.id, request.user))
ItemConfirmCancelled(s) == BackToOptions(s)

(***************************************************************************)
(* One of several items: a command on items goes to the only one there is, *)
(* or asks which.                                                          *)
(***************************************************************************)
PickupDropItem(s, id) ==
    ItemMessage(s, IF s.items[id].at = "me" THEN "drop" ELSE "pickup", id, None)
RunOnItem(s, context, id) ==
    CASE context = "pickupDrop" -> PickupDropItem(s, id)
      [] context \in {"use", "secondaryUse"} -> ItemMessage(s, context, id, None)
      [] context = "edit" -> BeginItemProperties(s, id, FALSE)
      [] context = "inspect" -> BeginItemProperties(s, id, TRUE)
      [] context = "manage" -> BeginItemManagement(s, id)
ItemCommand(s, context) ==
    LET candidates == {i \in InteractionItems(s) :
                          context = "manage" => ManagementOptions(s, i) # {}}
    IN  IF candidates = {} THEN s
        ELSE IF Cardinality(candidates) = 1
        THEN RunOnItem(s, context, CHOOSE i \in candidates : TRUE)
        ELSE [s EXCEPT !.mode = "selectItem", !.itm.context = context, !.itm.list = candidates]
SelectItemEnter(s, id) ==
    LET t == [s EXCEPT !.mode = "normal", !.itm.context = None]
    IN  IF id \notin DOMAIN s.items THEN t ELSE RunOnItem(t, s.itm.context, id)
SelectItemEscape(s) == [s EXCEPT !.mode = "normal", !.itm.context = None]
=============================================================================
