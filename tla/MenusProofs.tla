---------------------------- MODULE MenusProofs ----------------------------
(***************************************************************************)
(* What the runs check of MainModes, for any number of walls, ambiances,   *)
(* items, accounts, roles and peers and for queues of any length.  The     *)
(* handlers are told apart by what they do to the rest of the page: one    *)
(* asks the server for something (Asks), one asks for nothing and leaves   *)
(* the world as it is (Quiet), one disconnects (Leaves).  BaseInv says     *)
(* what the fields and the queues hold; WorldInv follows, object by        *)
(* object, the last news under way; ListInv an administrator's request.    *)
(***************************************************************************)
EXTENDS MainModes, SequenceTheorems, TLAPS

PageFields ==
    {"running", "mode", "can", "out", "confirm", "option", "text", "prompt", "world", "onFloor",
     "wb", "adminActions", "adm", "items", "itm", "peers", "listed", "palette", "back",
     "helpBack", "escaping", "hasty", "loopback", "muted", "restore", "piano"}
BuilderFields == {"list", "wall", "prop", "preset", "ambiance", "edited"}
AdminFields == {"users", "roles", "grants", "pending", "mutation", "user", "role", "actions"}
ItemFields ==
    {"list", "context", "item", "keys", "key", "all", "managed", "action", "targets", "targetsOf"}
ServerFields == {"inbox", "can", "world", "taken", "accounts", "touched", "roles", "grants",
                 "items"}
Kinds == {"wall", "ambiance"}

Shape(s) ==
    /\ DOMAIN s = PageFields /\ DOMAIN s.wb = BuilderFields
    /\ DOMAIN s.adm = AdminFields /\ DOMAIN s.itm = ItemFields

Objects == [type : Presets, level : Levels]
IsMap(f, S, V) ==
    /\ DOMAIN f \subseteq S /\ f = [i \in DOMAIN f |-> f[i]]
    /\ \A i \in DOMAIN f : f[i] \in V
IsWorld(w) ==
    /\ w = [wall |-> w.wall, ambiance |-> w.ambiance]
    /\ IsMap(w.wall, Walls, Objects) /\ IsMap(w.ambiance, Ambiances, Objects)

Contexts == {"pickupDrop", "use", "secondaryUse", "edit", "inspect", "manage"}
Ways(s) == s.back \in {"normal", "pianoUse"} /\ s.helpBack \in {"normal", "pianoUse"}
Held(s) ==
    /\ s.can \subseteq Permissions /\ s.text \in Texts
    /\ s.restore \in BOOLEAN \cup {None} /\ s.loopback \in BOOLEAN
    /\ s.piano \in Items \cup {None} /\ IsMap(s.items, Items, ItemValues)
    /\ s.palette \subseteq Commands \cup PianoCommands
MenusHeld(s) ==
    /\ s.wb.preset \in Presets \cup {None} /\ s.wb.prop \in WallProperties \cup {None}
    /\ s.wb.edited \in AmbianceProperties \cup {None}
    /\ s.adm.users \subseteq Names /\ s.adm.roles \subseteq Roles
    /\ s.adm.pending \in UserActions \cup {None}
    /\ s.adminActions \subseteq AdminActions /\ s.adm.actions \subseteq AdminActions
    /\ s.itm.list \subseteq Items /\ (s.mode = "selectItem" => s.itm.context \in Contexts)
\* What an open dialog or field is about is what the user was told.
AskedAbout(s) ==
    /\ s.mode = "confirmYesNo" /\ s.confirm # None =>
          /\ s.confirm.id = s.prompt
          /\ s.confirm.of = "ambianceDelete" => s.wb.ambiance = s.confirm.id
    /\ s.mode = "optionSelect" /\ s.option # None => s.option.id = s.prompt
    /\ s.mode = "worldBuilderPropertyEdit" => s.wb.wall = s.prompt
    /\ s.mode = "worldBuilderAmbianceEdit" => s.wb.ambiance \in {s.prompt, None}
    /\ s.mode = "itemPropertyEdit" => s.itm.item = s.prompt
    /\ s.mode = "adminUserDeleteConfirm" => s.adm.user = s.prompt
    /\ s.mode = "adminRoleNameEdit" => s.prompt = None
    /\ s.mode = "itemManageTransferUser" => s.itm.targetsOf = <<s.itm.action, s.itm.managed>>
PageOK(s) ==
    Shape(s) /\ Ways(s) /\ Held(s) /\ MenusHeld(s) /\ AskedAbout(s) /\ IsWorld(s.world)

Marks == {"ban", "unban", "delete_account"}
Listing == {"adminUserList", "adminUserDeleteConfirm"}
Lists == Listing \cup {"adminUserRoleSelect"}
Asking == TextModes \cup {"confirmYesNo", "optionSelect", "adminUserDeleteConfirm"}
AdminOps == {"roles_list", "users_list", "ban", "unban", "delete_account", "set_role",
             "role_create", "role_delete", "role_update_permissions"}

ChangeOK(c) == /\ c.prop = "level" => c.value \in Levels
               /\ c.prop = "type" => c.value \in Presets
RequestOK(m) ==
    /\ m.kind \in {"wall", "ambiance", "admin", "item"}
    /\ m.kind \in Kinds => m.op \in {"add", "move", "update", "delete"}
    /\ m.kind \in Kinds /\ m.op = "update" => ChangeOK(m.arg)
    /\ m.kind = "wall" /\ m.op = "add" => m.arg \in Presets
    /\ m.kind = "admin" => m.op \in AdminOps

\* What a key leaves of the administration: a menu of users is entered only
\* from another one, and what it shows stays.
AdminKept(s, t) ==
    /\ t.mode = "adminUserRoleSelect" => s.mode = t.mode /\ t.adm.pending = s.adm.pending
    /\ t.mode \in Listing =>
          /\ s.mode \in Lists /\ t.adm.pending = s.adm.pending
          /\ t.adm.pending \in Marks => t.adm.users = s.adm.users
Quiet(s, t) ==
    /\ t.running = s.running /\ t.hasty = s.hasty /\ t.out = s.out /\ t.world = s.world
    /\ AdminKept(s, t)
    /\ t.mode \in Listing => t.adm.mutation = s.adm.mutation
    /\ s.mode \notin Lists => t.adm.pending = s.adm.pending

\* Only what an update previews changes in the page's copy of the world.
Previews(s, t, m) ==
    \A k \in Kinds :
       /\ DOMAIN t.world[k] = DOMAIN s.world[k]
       /\ \A i \in DOMAIN s.world[k] :
             t.world[k][i] = s.world[k][i] \/ (m.kind = k /\ m.op = "update" /\ m.id = i)
\* A change of an ambiance is of one the page has; an answer to a question is
\* about what the question named.
Live(s, m) == m.kind = "ambiance" /\ m.op # "add" =>
                 m.id \in DOMAIN s.world.ambiance /\ May(s, "structure")
Meant(s, m) == s.mode \in Asking => m.id = s.prompt
\* A list of users is asked for where none is shown, and a change of one of
\* them is remembered.
AdminAsk(s, t, m) ==
    /\ m.kind # "admin" => /\ t.mode \in Listing => t.adm.mutation = s.adm.mutation
                           /\ s.mode \notin Lists => t.adm.pending = s.adm.pending
    /\ m.kind = "admin" /\ m.op = "users_list" => t.adm.pending = m.arg /\ t.mode \notin Lists
    /\ m.kind = "admin" /\ t.mode \in Listing /\ t.adm.pending \in Marks =>
          /\ m.op = t.adm.pending
          /\ t.adm.mutation = [action |-> t.adm.pending, id |-> m.id]
\* A handler that sends m, one that sends nothing, and one that disconnects.
Asks(s, t, m) ==
    /\ t.running = s.running /\ t.hasty = s.hasty /\ t.out = Append(s.out, m) /\ RequestOK(m)
    /\ Previews(s, t, m) /\ Live(s, m) /\ Meant(s, m)
    /\ AdminKept(s, t) /\ AdminAsk(s, t, m)
Leaves(t) == ~t.running /\ t.out = <<>> /\ t.mode = "normal"
Does(s, t) == PageOK(t) /\ (Quiet(s, t) \/ (\E m : Asks(s, t, m)) \/ Leaves(t))

\* What no menu touches, and what each menu does to its own fields.
Frame(s, t) ==
    /\ Shape(t) /\ AskedAbout(t)
    /\ t.running = s.running /\ t.hasty = s.hasty /\ t.can = s.can
    /\ t.adminActions = s.adminActions /\ t.items = s.items /\ t.piano = s.piano
    /\ t.palette = s.palette /\ t.back = s.back /\ t.helpBack = s.helpBack
    /\ t.loopback = s.loopback /\ t.restore = s.restore
    /\ t.text \in {s.text, -1, 0}
BuilderModes ==
    {"normal", "worldBuilder", "worldBuilderPreset", "worldBuilderDirection",
     "worldBuilderWallList", "worldBuilderWallActions", "worldBuilderPropertyList",
     "worldBuilderPropertyEdit", "worldBuilderAmbianceList", "worldBuilderAmbianceActions",
     "worldBuilderAmbianceEdit", "confirmYesNo", "optionSelect"}
BuilderMoves(s, t) ==
    /\ Frame(s, t) /\ t.adm = s.adm /\ t.itm = s.itm
    /\ t.mode = s.mode \/ t.mode \in BuilderModes
    /\ t.wb.preset \in {s.wb.preset} \cup Presets
    /\ t.wb.prop \in {s.wb.prop} \cup WallProperties
    /\ t.wb.edited \in {s.wb.edited, None} \cup AmbianceProperties
AdminModes ==
    {"normal", "adminMenu", "adminRoleList", "adminRolePermissionList", "adminRoleNameEdit",
     "adminRoleDeleteReplacement", "adminUserList", "adminUserDeleteConfirm"}
AdminMoves(s, t) ==
    /\ t.world = s.world /\ t.wb = s.wb /\ t.itm = s.itm
    /\ t.mode = s.mode \/ t.mode \in AdminModes
    /\ t.adm.users = s.adm.users /\ t.adm.roles = s.adm.roles
    /\ t.adm.pending \in {s.adm.pending, None} \cup UserActions
    /\ t.adm.actions \in {s.adm.actions, s.adminActions}
    /\ AdminKept(s, t)

-----------------------------------------------------------------------------
(* The editors of walls and ambiances. *)

LEMMA BuilderMovesOK ==
    ASSUME NEW s, NEW t, PageOK(s), BuilderMoves(s, t), IsWorld(t.world)
    PROVE  PageOK(t) /\ AdminKept(s, t)
<1>1. AdminKept(s, t)
  BY DEF BuilderMoves, BuilderModes, AdminKept, Listing, Lists
<1>2. Held(t) /\ Ways(t)
  BY BoundsAssumption DEF PageOK, BuilderMoves, Frame, Held, Ways, Texts
<1>3. /\ t.wb.preset \in Presets \cup {None}
      /\ t.wb.prop \in WallProperties \cup {None}
      /\ t.wb.edited \in AmbianceProperties \cup {None}
  BY DEF PageOK, BuilderMoves, MenusHeld
<1>4. t.mode = "selectItem" => t.itm.context \in Contexts
  BY DEF PageOK, BuilderMoves, BuilderModes, MenusHeld
<1>5. MenusHeld(t)
  BY <1>3, <1>4 DEF PageOK, BuilderMoves, Frame, MenusHeld
<1> QED
  BY <1>1, <1>2, <1>5 DEF PageOK, BuilderMoves, Frame

LEMMA BuilderQuiet ==
    ASSUME NEW s, NEW t, PageOK(s), BuilderMoves(s, t), t.out = s.out, t.world = s.world
    PROVE  Does(s, t)
<1>1. PageOK(t) /\ AdminKept(s, t)
  BY BuilderMovesOK DEF PageOK
<1>2. Quiet(s, t)
  BY <1>1 DEF BuilderMoves, Frame, Quiet
<1> QED
  BY <1>1, <1>2 DEF Does

LEMMA BuilderAsks ==
    ASSUME NEW s, NEW t, PageOK(s), BuilderMoves(s, t), NEW m,
           IsWorld(t.world), t.out = Append(s.out, m), m.kind \in Kinds, RequestOK(m),
           Previews(s, t, m), Live(s, m), Meant(s, m)
    PROVE  Does(s, t)
<1>1. PageOK(t) /\ AdminKept(s, t)
  BY BuilderMovesOK
<1>2. Asks(s, t, m)
  BY <1>1 DEF BuilderMoves, Frame, Asks, AdminAsk, Kinds
<1> QED
  BY <1>1, <1>2 DEF Does

LEMMA Unchanged ==
    ASSUME NEW s, NEW t, t.world = s.world, NEW m
    PROVE  Previews(s, t, m)
BY DEF Previews

LEMMA Adjusts ==
    ASSUME NEW o \in Objects, NEW by \in Steps
    PROVE  AdjustNumber(o.level, by) \in Levels /\ AdjustOption(o.type, by) \in Presets
<1>1. o.level \in Levels /\ o.type \in Presets
  BY DEF Objects
<1>2. AdjustNumber(o.level, by) \in Levels
  BY <1>1, BoundsAssumption DEF Levels, Steps, AdjustNumber
<1>3. \A a \in Int, n \in Nat : (a % (n + 1)) \in 0..n
  OBVIOUS
<1>4. o.type + by + LastPreset + 1 \in Int /\ LastPreset \in Nat
  BY <1>1, BoundsAssumption DEF Presets, Steps
<1>5. AdjustOption(o.type, by) \in Presets
  BY <1>3, <1>4 DEF Presets, AdjustOption
<1> QED
  BY <1>2, <1>5

LEMMA EditedIsObject ==
    ASSUME NEW kind \in Kinds, NEW o \in Objects, NEW c, ChangeOK(c)
    PROVE  Edited(kind, o, c) \in Objects
BY BoundsAssumption DEF Edited, Objects, ChangeOK, Kinds, Presets, Levels
LEMMA PreviewedWorld ==
    ASSUME NEW w, IsWorld(w), NEW kind \in Kinds, NEW id \in DOMAIN w[kind],
           NEW c, ChangeOK(c), NEW v, v = [w EXCEPT ![kind][id] = Edited(kind, @, c)]
    PROVE  /\ IsWorld(v)
           /\ \A k \in Kinds : /\ DOMAIN v[k] = DOMAIN w[k]
                               /\ \A i \in DOMAIN w[k] : v[k][i] = w[k][i] \/ (k = kind /\ i = id)
<1>1. w[kind][id] \in Objects
  BY DEF IsWorld, IsMap, Kinds
<1>2. Edited(kind, w[kind][id], c) \in Objects
  BY <1>1, EditedIsObject
<1> DEFINE f == [w[kind] EXCEPT ![id] = Edited(kind, @, c)]
<1>3. /\ DOMAIN f = DOMAIN w[kind] /\ f = [i \in DOMAIN f |-> f[i]]
      /\ \A i \in DOMAIN w[kind] : f[i] \in Objects /\ (f[i] = w[kind][i] \/ i = id)
  BY <1>2 DEF IsWorld, IsMap, Kinds
<1> HIDE DEF f
<1>4. CASE kind = "wall"
  <2>1. v = [wall |-> f, ambiance |-> w.ambiance]
    BY <1>4 DEF IsWorld, f
  <2>2. v.wall = f /\ v.ambiance = w.ambiance
    BY <2>1
  <2>3. IsMap(f, Walls, Objects)
    BY <1>3, <1>4 DEF IsWorld, IsMap
  <2>4. IsWorld(v)
    BY <2>1, <2>2, <2>3 DEF IsWorld
  <2> QED
    BY <1>3, <1>4, <2>2, <2>4 DEF Kinds
<1>5. CASE kind = "ambiance"
  <2>1. v = [wall |-> w.wall, ambiance |-> f]
    BY <1>5 DEF IsWorld, f
  <2>2. v.ambiance = f /\ v.wall = w.wall
    BY <2>1
  <2>3. IsMap(f, Ambiances, Objects)
    BY <1>3, <1>5 DEF IsWorld, IsMap
  <2>4. IsWorld(v)
    BY <2>1, <2>2, <2>3 DEF IsWorld
  <2> QED
    BY <1>3, <1>5, <2>2, <2>4 DEF Kinds
<1> QED
  BY <1>4, <1>5 DEF Kinds

LEMMA PreviewAsks ==
    ASSUME NEW s, PageOK(s), s.mode \notin Asking \cup Lists,
           NEW kind \in Kinds, NEW id \in DOMAIN s.world[kind],
           NEW prop, NEW value, ChangeOK([prop |-> prop, value |-> value]),
           kind = "ambiance" => May(s, "structure")
    PROVE  Does(s, PreviewAndSend(s, kind, id, prop, value))
<1> DEFINE t == PreviewAndSend(s, kind, id, prop, value)
           m == Message(kind, "update", id, [prop |-> prop, value |-> value])
           v == [s.world EXCEPT ![kind][id] = Edited(kind, @, [prop |-> prop, value |-> value])]
<1>1. t.world = v /\ t.out = Append(s.out, m) /\ t.wb = s.wb /\ t.mode = s.mode /\ BuilderMoves(s, t)
  BY
  DEF PageOK, Shape, PageFields, PreviewAndSend, Preview, Update, Send, BuilderMoves, Frame,
      AskedAbout
<1>2. IsWorld(s.world)
  BY DEF PageOK
<1>3. IsWorld(v) /\ Previews(s, t, m)
  BY <1>1, <1>2, PreviewedWorld DEF Previews, Message
<1>4. RequestOK(m) /\ Meant(s, m) /\ Live(s, m) /\ m.kind \in Kinds
  BY DEF RequestOK, Message, Meant, Live, Kinds
<1> HIDE DEF t, m, v
<1> QED
  BY <1>1, <1>3, <1>4, BuilderAsks DEF t
BuilderStill(s, t) == BuilderMoves(s, t) /\ t.out = s.out /\ t.world = s.world
BuilderSends(s, t, m) ==
    /\ BuilderMoves(s, t) /\ t.out = Append(s.out, m) /\ t.world = s.world
    /\ RequestOK(m) /\ Live(s, m) /\ Meant(s, m) /\ m.kind \in Kinds

LEMMA BuilderDoes ==
    ASSUME NEW s, NEW t, PageOK(s), BuilderStill(s, t) \/ (\E m : BuilderSends(s, t, m))
    PROVE  Does(s, t)
<1>1. CASE BuilderStill(s, t)
  BY <1>1, BuilderQuiet DEF BuilderStill
<1>2. ASSUME NEW m, BuilderSends(s, t, m)
      PROVE  Does(s, t)
  <2>1. IsWorld(t.world)
    BY <1>2 DEF BuilderSends, PageOK
  <2>2. Previews(s, t, m)
    BY <1>2, Unchanged DEF BuilderSends
  <2> QED
    BY <1>2, <2>1, <2>2, BuilderAsks DEF BuilderSends
<1> QED
  BY <1>1, <1>2

LEMMA StaleDoes ==
    ASSUME NEW s, PageOK(s), s.mode = "confirmYesNo" => s.confirm = None
    PROVE  BuilderStill(s, HandleStaleSelection(s))
<1> DEFINE t == HandleStaleSelection(s)
<1>1. AskedAbout(t)
  BY ZenonT(60)
  DEF PageOK, Shape, PageFields, BuilderFields, AskedAbout, HandleStaleSelection, OpenBuilder, To
<1>2. Shape(t)
  BY DEF PageOK, Shape, PageFields, BuilderFields, HandleStaleSelection, OpenBuilder, To
<1>3. BuilderStill(s, t)
  BY <1>1, <1>2
  DEF PageOK, Shape, PageFields, BuilderFields, BuilderStill, BuilderMoves, BuilderModes, Frame,
       HandleStaleSelection, OpenBuilder, To
<1> QED
  BY <1>3

LEMMA AmbianceMenus ==
    ASSUME NEW s, PageOK(s)
    PROVE  /\ Does(s, OpenBuilder(s))
           /\ s.mode = "worldBuilderAmbianceList" =>
                \A a : Does(s, AmbianceListEnter(s, a))
           /\ s.mode = "worldBuilderAmbianceActions" =>
                Does(s, AmbianceActionsEscape(s)) /\ \A a : Does(s, AmbianceActionsEnter(s, a))
           /\ s.mode = "worldBuilderAmbianceEdit" => Does(s, AmbianceEditEscape(s))
           /\ s.mode = "worldBuilder" => Does(s, OpenAmbianceList(s)) /\ Does(s, RequestAdd(s))
           /\ s.mode = "confirmYesNo" /\ s.confirm = None => Does(s, AmbianceDialogCancelled(s))
           /\ s.mode = "optionSelect" /\ s.option = None => Does(s, AmbianceDialogCancelled(s))
<1> USE DEF PageOK, Shape, PageFields, BuilderFields, BuilderStill, BuilderMoves, BuilderModes, Frame,
           AskedAbout, To, May, SelectedAmbiance, AmbianceProperties
<1>1. BuilderStill(s, OpenBuilder(s))
  BY DEF OpenBuilder
<1>2. ASSUME NEW a, s.mode = "worldBuilderAmbianceList" PROVE BuilderStill(s, AmbianceListEnter(s, a))
  BY <1>2, StaleDoes DEF AmbianceListEnter, OpenActions
<1>3. ASSUME NEW a, s.mode = "worldBuilderAmbianceActions"
      PROVE  BuilderStill(s, AmbianceActionsEnter(s, a))
  BY <1>3, StaleDoes DEF AmbianceActionsEnter, OpenOptionSelector, OpenConfirmation, OpenText, About
<1>4. ASSUME s.mode \in {"worldBuilderAmbianceActions", "worldBuilder"}
      PROVE  BuilderStill(s, OpenAmbianceList(s))
  BY <1>4 DEF OpenAmbianceList, Refused
<1>5. ASSUME s.mode = "worldBuilderAmbianceActions"
      PROVE  BuilderStill(s, AmbianceActionsEscape(s))
  BY <1>4, <1>5, StaleDoes DEF AmbianceActionsEscape
<1>6. ASSUME s.mode = "worldBuilderAmbianceEdit"
      PROVE  BuilderStill(s, AmbianceEditEscape(s))
  BY <1>6, StaleDoes DEF AmbianceEditEscape
<1>7. ASSUME s.mode \in {"confirmYesNo", "optionSelect"}, s.mode = "confirmYesNo" => s.confirm = None
      PROVE  BuilderStill(s, AmbianceDialogCancelled(s))
  BY <1>7, StaleDoes DEF AmbianceDialogCancelled
<1>8. ASSUME s.mode = "worldBuilder"
      PROVE  \/ BuilderStill(s, RequestAdd(s))
             \/ BuilderSends(s, RequestAdd(s), Message("ambiance", "add", None, None))
  BY <1>8
  DEF RequestAdd, Refused, BuilderSends, Send, Message, RequestOK, Live, Meant, Asking,
      TextModes, Kinds
<1> QED
  BY <1>1, <1>2, <1>3, <1>4, <1>5, <1>6, <1>7, <1>8, BuilderDoes
LEMMA DeletedSends ==
    ASSUME NEW s, PageOK(s), NEW m, RequestOK(m), Live(s, m), Meant(s, m), m.kind \in Kinds
    PROVE  BuilderSends(s, [Send(s, m) EXCEPT !.wb.ambiance = None, !.wb.edited = None, !.mode = "normal"], m)
<1> DEFINE u == Send(s, m)
           t == [u EXCEPT !.wb.ambiance = None, !.wb.edited = None, !.mode = "normal"]
<1>1. BuilderMoves(s, u) /\ u.out = Append(s.out, m) /\ u.world = s.world
  BY DEF Send, PageOK, Shape, PageFields, BuilderMoves, Frame, AskedAbout
<1> HIDE DEF u
<1>2. BuilderMoves(s, t) /\ t.out = Append(s.out, m) /\ t.world = s.world
  BY <1>1, ZenonT(60)
  DEF Shape, PageFields, BuilderFields, BuilderMoves, BuilderModes, Frame, AskedAbout
<1> QED
  BY <1>2 DEF BuilderSends, u

LEMMA AmbianceChanges ==
    ASSUME NEW s, PageOK(s)
    PROVE  /\ \A type \in Presets : \A r :
                s.mode = "optionSelect" /\ s.option = None /\ r.id = s.prompt
                   => Does(s, AmbianceTypeChosen(s, r, type))
           /\ \A r : s.mode = "confirmYesNo" /\ s.confirm = None
                        /\ r.id = s.prompt /\ s.wb.ambiance = r.id
                   => Does(s, AmbianceDeleteConfirmed(s, r))
           /\ s.mode = "worldBuilderAmbianceEdit" => Does(s, AmbianceEditSubmit(s))
<1> USE DEF PageOK, Shape, PageFields, BuilderFields, BuilderStill, BuilderMoves, BuilderModes, Frame,
           AskedAbout, To, May, SelectedAmbiance, AmbianceProperties, Refused, Update, Send
<1>1. ASSUME NEW r, NEW type \in Presets, s.mode = "optionSelect", s.option = None, r.id = s.prompt
      PROVE  Does(s, AmbianceTypeChosen(s, r, type))
  <2> DEFINE m == Message("ambiance", "update", r.id, [prop |-> "type", value |-> type])
             t == AmbianceTypeChosen(s, r, type)
  <2>1. CASE ~May(s, "structure")
    BY <1>1, <2>1, BuilderDoes DEF AmbianceTypeChosen
  <2>2. CASE May(s, "structure") /\ r.id \notin DOMAIN s.world.ambiance
    <3>1. t = HandleStaleSelection(s)
      BY <2>2 DEF AmbianceTypeChosen, SendUpdate
    <3> QED
      BY <1>1, <3>1, StaleDoes, BuilderDoes
  <2>3. CASE May(s, "structure") /\ r.id \in DOMAIN s.world.ambiance
    <3>1. t = To(Send(s, m), "worldBuilderAmbianceActions")
      BY <2>3 DEF AmbianceTypeChosen, SendUpdate
    <3>2. RequestOK(m) /\ Live(s, m) /\ Meant(s, m) /\ m.kind \in Kinds
      BY <1>1, <2>3 DEF Message, RequestOK, ChangeOK, Live, Meant, Kinds
    <3> HIDE DEF m
    <3>3. BuilderSends(s, t, m)
      BY <1>1, <3>1, <3>2 DEF BuilderSends
    <3> QED
      BY <3>3, BuilderDoes
  <2> QED
    BY <2>1, <2>2, <2>3
<1>2. ASSUME NEW r, s.mode = "confirmYesNo", s.confirm = None, r.id = s.prompt, s.wb.ambiance = r.id
      PROVE  Does(s, AmbianceDeleteConfirmed(s, r))
  <2> DEFINE m == Message("ambiance", "delete", r.id, None)
             t == AmbianceDeleteConfirmed(s, r)
  <2>1. CASE ~May(s, "structure")
    BY <1>2, <2>1, BuilderDoes DEF AmbianceDeleteConfirmed
  <2>2. CASE May(s, "structure") /\ SelectedAmbiance(s) = None
    <3>1. t = HandleStaleSelection(s)
      BY <2>2 DEF AmbianceDeleteConfirmed
    <3> QED
      BY <1>2, <3>1, StaleDoes, BuilderDoes
  <2>3. CASE May(s, "structure") /\ SelectedAmbiance(s) # None
    <3>1. t = [Send(s, m) EXCEPT !.wb.ambiance = None, !.wb.edited = None, !.mode = "normal"]
      BY <2>3 DEF AmbianceDeleteConfirmed
    <3>2. RequestOK(m) /\ Live(s, m) /\ Meant(s, m) /\ m.kind \in Kinds
      BY <1>2, <2>3 DEF Message, RequestOK, ChangeOK, Live, Meant, Kinds
    <3> HIDE DEF m, t
    <3>3. BuilderSends(s, t, m)
      BY <1>2, <3>1, <3>2, DeletedSends
    <3> QED
      BY <3>3, BuilderDoes DEF t
  <2> QED
    BY <2>1, <2>2, <2>3
<1>3. ASSUME s.mode = "worldBuilderAmbianceEdit"
      PROVE  Does(s, AmbianceEditSubmit(s))
  <2> DEFINE m == Message("ambiance", "update", s.wb.ambiance, [prop |-> s.wb.edited, value |-> s.text])
             t == AmbianceEditSubmit(s)
  <2>1. CASE AmbianceEditStale(s)
    BY <1>3, <2>1, StaleDoes, BuilderDoes DEF AmbianceEditSubmit
  <2>2. CASE ~AmbianceEditStale(s) /\ ~May(s, "structure")
    <3>1. t = To([s EXCEPT !.wb.edited = None], "normal")
      BY <2>2 DEF AmbianceEditSubmit
    <3>2. BuilderStill(s, t)
      BY <3>1
    <3> QED
      BY <3>2, BuilderDoes
  <2>3. CASE ~AmbianceEditStale(s) /\ May(s, "structure") /\ ~Valid(s.text)
    BY <1>3, <2>3, BuilderDoes DEF AmbianceEditSubmit
  <2>4. CASE ~AmbianceEditStale(s) /\ May(s, "structure") /\ Valid(s.text)
    <3>1. s.wb.ambiance \in DOMAIN s.world.ambiance /\ s.wb.ambiance # None
      BY <2>4 DEF AmbianceEditStale
    <3>2. t = [Send(s, m) EXCEPT !.wb.edited = None, !.mode = "worldBuilderAmbianceActions"]
      BY <2>4, <3>1 DEF AmbianceEditSubmit, SendUpdate
    <3>3. s.wb.edited \in AmbianceProperties /\ s.text \in Levels
      BY <2>4, BoundsAssumption DEF AmbianceEditStale, Valid, Held, MenusHeld, Levels, Texts
    <3>4. RequestOK(m) /\ Live(s, m) /\ Meant(s, m) /\ m.kind \in Kinds
      BY <1>3, <2>4, <3>1, <3>3 DEF Message, RequestOK, ChangeOK, Live, Meant, Kinds
    <3> HIDE DEF m
    <3>5. BuilderSends(s, t, m)
      BY <1>3, <3>2, <3>4 DEF BuilderSends
    <3> QED
      BY <3>5, BuilderDoes
  <2> QED
    BY <2>1, <2>2, <2>3, <2>4
<1> QED
  BY <1>1, <1>2, <1>3

LEMMA AmbianceSides ==
    ASSUME NEW s, PageOK(s), s.mode = "worldBuilderAmbianceActions",
           NEW action, NEW by \in Steps
    PROVE  Does(s, AmbianceActionsSide(s, action, by))
<1> DEFINE id == SelectedAmbiance(s)
           now == s.world.ambiance[id]
           level == AdjustNumber(now.level, by)
           m == Message("ambiance", "move", id, None)
           t == AmbianceActionsSide(s, action, by)
<1>1. CASE id = None
  <2>1. t = HandleStaleSelection(s)
    BY <1>1 DEF AmbianceActionsSide
  <2> QED
    BY <2>1, StaleDoes, BuilderDoes
<1>2. BuilderStill(s, s)
  BY DEF BuilderStill, BuilderMoves, Frame, PageOK
<1>3. CASE id # None /\ (action \in {"name", "delete"} \/ (May(s, "structure") /\ action = "level" /\ level = now.level))
  BY <1>2, <1>3, BuilderDoes DEF AmbianceActionsSide
<1>4. CASE id # None /\ action \notin {"name", "delete"} /\ ~May(s, "structure")
  <2>1. t = To(s, "normal")
    BY <1>4 DEF AmbianceActionsSide, Refused
  <2>2. BuilderStill(s, To(s, "normal"))
    BY
    DEF PageOK, Shape, PageFields, BuilderStill, BuilderMoves, BuilderModes, Frame, AskedAbout, To
  <2> QED
    BY <2>1, <2>2, BuilderDoes
<1>5. ASSUME id # None, action \notin {"name", "delete"}, May(s, "structure"),
             ~(action = "level" /\ level = now.level)
      PROVE  Does(s, t)
  <2>1. id \in DOMAIN s.world.ambiance /\ now \in Objects
    BY <1>5 DEF SelectedAmbiance, PageOK, IsWorld, IsMap
  <2>2. level \in Levels /\ AdjustOption(now.type, by) \in Presets
    BY <2>1, Adjusts
  <2>3. CASE action = "edge"
    <3>1. t = Send(s, m)
      BY <1>5, <2>3 DEF AmbianceActionsSide
    <3>2. RequestOK(m) /\ Live(s, m) /\ Meant(s, m) /\ m.kind \in Kinds
      BY <1>5, <2>1 DEF Message, RequestOK, Live, Meant, Kinds, Asking, TextModes
    <3> HIDE DEF m
    <3>3. BuilderSends(s, t, m)
      BY <3>1, <3>2
      DEF PageOK, Shape, PageFields, BuilderSends, BuilderMoves, Frame, AskedAbout, Send
    <3> QED
      BY <3>3, BuilderDoes
  <2>4. s.mode \notin Asking \cup Lists /\ "ambiance" \in Kinds
    BY DEF Asking, TextModes, Lists, Listing, Kinds
  <2>5. CASE action = "type"
    <3>1. t = PreviewAndSend(s, "ambiance", id, "type", AdjustOption(now.type, by))
      BY <1>5, <2>5 DEF AmbianceActionsSide
    <3>2. ChangeOK([prop |-> "type", value |-> AdjustOption(now.type, by)])
      BY <2>2 DEF ChangeOK
    <3> QED
      BY <1>5, <2>1, <2>4, <3>1, <3>2, PreviewAsks
  <2>6. CASE action \notin {"edge", "type"}
    <3>1. t = PreviewAndSend(s, "ambiance", id, "level", level)
      BY <1>5, <2>6 DEF AmbianceActionsSide
    <3>2. ChangeOK([prop |-> "level", value |-> level])
      BY <2>2 DEF ChangeOK
    <3> QED
      BY <1>5, <2>1, <2>4, <3>1, <3>2, PreviewAsks
  <2> QED
    BY <2>3, <2>5, <2>6
<1> QED
  BY <1>1, <1>3, <1>4, <1>5
LEMMA WallMenus ==
    ASSUME NEW s, PageOK(s)
    PROVE  /\ \A mode \in {"normal", "worldBuilder", "worldBuilderPreset", "worldBuilderWallActions",
                           "worldBuilderPropertyList"} : Does(s, To(s, mode))
           /\ \A p \in Presets : Does(s, PresetEnter(s, p))
           /\ \A w : Does(s, OpenWallActions(s, w))
           /\ s.mode \in {"worldBuilder", "worldBuilderWallActions"} =>
                Does(s, OpenWallList(s)) /\ Does(s, [s EXCEPT !.wb.list = {}])
           /\ s.mode = "worldBuilderWallActions" => \A a : Does(s, WallActionsEnter(s, a))
           /\ s.mode = "worldBuilderPropertyList" =>
                \A p \in WallProperties : Does(s, PropertyListEnter(s, p))
           /\ s.mode = "worldBuilderDirection" => Does(s, DirectionEnter(s))
<1> USE DEF PageOK, Shape, PageFields, BuilderFields, BuilderStill, BuilderMoves, BuilderModes, Frame,
           AskedAbout, To
<1>1. ASSUME NEW mode \in {"normal", "worldBuilder", "worldBuilderPreset", "worldBuilderWallActions",
                           "worldBuilderPropertyList"}
      PROVE  BuilderStill(s, To(s, mode))
  OBVIOUS
<1>2. ASSUME NEW p \in Presets
      PROVE  BuilderStill(s, PresetEnter(s, p))
  BY DEF PresetEnter
<1>3. ASSUME NEW w
      PROVE  BuilderStill(s, OpenWallActions(s, w))
  BY DEF OpenWallActions
<1>4. ASSUME s.mode \in {"worldBuilder", "worldBuilderWallActions"}
      PROVE  BuilderStill(s, [s EXCEPT !.wb.list = {}])
  BY <1>4
<1>5. ASSUME s.mode \in {"worldBuilder", "worldBuilderWallActions"}
      PROVE  BuilderStill(s, OpenWallList(s))
  <2> DEFINE t == [s EXCEPT !.wb.list = NearbyWalls(s)]
  <2>1. BuilderStill(s, t)
    BY <1>5
  <2>2. OpenWallList(s) \in {t, To(t, "worldBuilder"), To(t, "worldBuilderWallList")}
    BY DEF OpenWallList, OpenBuilder
  <2> HIDE DEF t
  <2> QED
    BY <2>1, <2>2
<1>6. ASSUME s.mode = "worldBuilderWallActions", NEW a
      PROVE  BuilderStill(s, WallActionsEnter(s, a))
  BY <1>6 DEF WallActionsEnter, SelectedWall, OpenOptionSelector, OpenConfirmation, About
<1>7. ASSUME s.mode = "worldBuilderPropertyList", NEW p \in WallProperties
      PROVE  BuilderStill(s, PropertyListEnter(s, p))
  BY <1>7 DEF PropertyListEnter, SelectedWall, OpenText
<1>8. ASSUME s.mode = "worldBuilderDirection"
      PROVE  \/ BuilderStill(s, DirectionEnter(s))
             \/ BuilderSends(s, DirectionEnter(s), Message("wall", "add", None, s.wb.preset))
  <2> DEFINE m == Message("wall", "add", None, s.wb.preset)
  <2>1. CASE s.wb.preset = None
    BY <2>1 DEF DirectionEnter
  <2>2. CASE s.wb.preset # None
    <3>1. RequestOK(m) /\ Live(s, m) /\ Meant(s, m) /\ m.kind \in Kinds
      BY <1>8, <2>2 DEF MenusHeld, Message, RequestOK, Live, Meant, Asking, TextModes, Kinds
    <3> HIDE DEF m
    <3>2. DirectionEnter(s) = To(Send(s, m), "normal")
      BY <2>2 DEF DirectionEnter, m
    <3> QED
      BY <3>1, <3>2 DEF BuilderSends, Send, m
  <2> QED
    BY <2>1, <2>2
<1> QED
  BY <1>1, <1>2, <1>3, <1>4, <1>5, <1>6, <1>7, <1>8, BuilderDoes

LEMMA WallAsks ==
    ASSUME NEW s, PageOK(s), NEW op \in {"move", "update", "delete"}, NEW id, NEW arg,
           op = "update" => ChangeOK(arg), s.mode \notin Lists, s.mode \in Asking => id = s.prompt,
           NEW mode \in {s.mode, "normal", "worldBuilderWallActions", "worldBuilderPropertyList"}
    PROVE  Does(s, To(Send(s, Message("wall", op, id, arg)), mode))
<1> DEFINE m == Message("wall", op, id, arg)
<1>1. RequestOK(m) /\ Live(s, m) /\ Meant(s, m) /\ m.kind \in Kinds
  BY DEF Message, RequestOK, Live, Meant, Kinds
<1> HIDE DEF m
<1>2. BuilderSends(s, To(Send(s, m), mode), m)
  BY <1>1
  DEF PageOK, Shape, PageFields, BuilderSends, BuilderMoves, BuilderModes, Frame, AskedAbout,
      To, Send
<1> QED
  BY <1>2, BuilderDoes DEF m

LEMMA WallChanges ==
    ASSUME NEW s, PageOK(s)
    PROVE  /\ \A p \in Presets : \A r : s.mode = "optionSelect" /\ s.option = None /\ r.id = s.prompt
                 => Does(s, WallTypeChosen(s, r, p))
           /\ \A r : s.mode = "optionSelect" /\ s.option = None /\ r.id = s.prompt
                 => Does(s, WallOrientationChosen(s, r))
           /\ \A r : s.mode = "confirmYesNo" /\ s.confirm = None /\ r.id = s.prompt
                 => Does(s, WallDeleteConfirmed(s, r))
           /\ s.mode = "worldBuilderPropertyEdit" => Does(s, PropertyEditSubmit(s))
<1> USE DEF Lists, Listing, Asking, TextModes, Update
<1>1. ASSUME NEW r, NEW p \in Presets, s.mode = "optionSelect", s.option = None, r.id = s.prompt
      PROVE  Does(s, WallTypeChosen(s, r, p))
  <2>1. ChangeOK([prop |-> "type", value |-> p])
    BY DEF ChangeOK
  <2> QED
    BY <1>1, <2>1, WallAsks DEF WallTypeChosen
<1>2. ASSUME NEW r, s.mode = "optionSelect", s.option = None, r.id = s.prompt
      PROVE  Does(s, WallOrientationChosen(s, r))
  BY <1>2, WallAsks DEF WallOrientationChosen
<1>3. ASSUME NEW r, s.mode = "confirmYesNo", s.confirm = None, r.id = s.prompt
      PROVE  Does(s, WallDeleteConfirmed(s, r))
  BY <1>3, WallAsks DEF WallDeleteConfirmed
<1>4. ASSUME s.mode = "worldBuilderPropertyEdit"
      PROVE  Does(s, PropertyEditSubmit(s))
  <2>1. BuilderStill(s, s)
    BY DEF BuilderStill, BuilderMoves, Frame, PageOK
  <2>2. CASE PropertyEditSubmit(s) = s
    BY <2>1, <2>2, BuilderDoes
  <2>3. CASE PropertyEditSubmit(s) # s
    <3>1. /\ SelectedWall(s) # None /\ s.wb.prop # None /\ (s.wb.prop = "level" => Valid(s.text))
          /\ PropertyEditSubmit(s) = To(Update(s, "wall", SelectedWall(s), s.wb.prop, s.text),
                                        "worldBuilderPropertyList")
      BY <2>3 DEF PropertyEditSubmit
    <3>2. s.wb.prop \in WallProperties /\ s.text \in Texts
      BY <3>1 DEF PageOK, Held, MenusHeld
    <3>3. ChangeOK([prop |-> s.wb.prop, value |-> s.text])
      BY <3>1, <3>2, BoundsAssumption DEF ChangeOK, WallProperties, Texts, Levels, Valid
    <3>4. SelectedWall(s) = s.prompt
      BY <1>4, <3>1 DEF SelectedWall, PageOK, AskedAbout
    <3> QED
      BY <1>4, <3>1, <3>3, <3>4, WallAsks
  <2> QED
    BY <2>2, <2>3
<1> QED
  BY <1>1, <1>2, <1>3, <1>4

LEMMA WallSides ==
    ASSUME NEW s, PageOK(s), NEW by \in Steps
    PROVE  /\ s.mode = "worldBuilderWallActions" => \A a : Does(s, WallActionsSide(s, a, by))
           /\ s.mode = "worldBuilderPropertyList" => \A p : Does(s, PropertyListSide(s, p, by))
<1> DEFINE id == SelectedWall(s)
           now == s.world.wall[id]
<1>1. Does(s, s)
  BY BuilderDoes DEF BuilderStill, BuilderMoves, Frame, PageOK
<1>2. ASSUME id # None
      PROVE  /\ id \in DOMAIN s.world.wall
             /\ AdjustNumber(now.level, by) \in Levels /\ AdjustOption(now.type, by) \in Presets
  <2>1. id \in DOMAIN s.world.wall
    BY <1>2 DEF SelectedWall
  <2>2. now \in Objects
    BY <2>1 DEF PageOK, IsWorld, IsMap
  <2> QED
    BY <2>1, <2>2, Adjusts
<1>3. ASSUME s.mode \in {"worldBuilderWallActions", "worldBuilderPropertyList"}
      PROVE  s.mode \notin Asking \cup Lists /\ "wall" \in Kinds
  BY <1>3 DEF Asking, TextModes, Lists, Listing, Kinds
<1>4. ASSUME NEW p, s.mode = "worldBuilderPropertyList", id # None, p = "level"
      PROVE  Does(s, PropertyListSide(s, p, by))
  <2>1. ChangeOK([prop |-> "level", value |-> AdjustNumber(now.level, by)])
    BY <1>2, <1>4 DEF ChangeOK
  <2>2. PropertyListSide(s, p, by)
          = PreviewAndSend(s, "wall", id, "level", AdjustNumber(now.level, by))
    BY <1>4 DEF PropertyListSide
  <2> QED
    BY <1>2, <1>3, <1>4, <2>1, <2>2, PreviewAsks
<1>5. ASSUME NEW p, ~(id # None /\ p = "level")
      PROVE  Does(s, PropertyListSide(s, p, by))
  BY <1>1, <1>5 DEF PropertyListSide
<1>6. ASSUME NEW a, s.mode = "worldBuilderWallActions", id # None
      PROVE  Does(s, WallActionsSide(s, a, by))
  <2>1. CASE a \in {"edge", "orientation"}
    <3>1. WallActionsSide(s, a, by) = Send(s, Message("wall", "move", id, None))
      BY <1>6, <2>1 DEF WallActionsSide
    <3>2. Send(s, Message("wall", "move", id, None))
            = To(Send(s, Message("wall", "move", id, None)), s.mode)
      BY DEF PageOK, Shape, PageFields, Send, To
    <3> QED
      BY <1>3, <1>6, <3>1, <3>2, WallAsks
  <2>2. CASE a = "type"
    <3>1. ChangeOK([prop |-> "type", value |-> AdjustOption(now.type, by)])
      BY <1>2, <1>6 DEF ChangeOK
    <3>2. WallActionsSide(s, a, by)
            = PreviewAndSend(s, "wall", id, "type", AdjustOption(now.type, by))
      BY <1>6, <2>2 DEF WallActionsSide
    <3> QED
      BY <1>2, <1>3, <1>6, <3>1, <3>2, PreviewAsks
  <2>3. CASE a \notin {"edge", "orientation", "type"}
    BY <1>1, <1>6, <2>3 DEF WallActionsSide
  <2> QED
    BY <2>1, <2>2, <2>3
<1>7. ASSUME NEW a, id = None
      PROVE  Does(s, WallActionsSide(s, a, by))
  BY <1>1, <1>7 DEF WallActionsSide
<1> QED
  BY <1>4, <1>5, <1>6, <1>7
LEMMA Typing ==
    ASSUME NEW s, PageOK(s), s.mode \notin Lists, NEW text \in Texts
    PROVE  Does(s, ApplyTextInputEdit(s, text))
<1> DEFINE t == ApplyTextInputEdit(s, text)
<1>1. /\ Shape(t) /\ AskedAbout(t) /\ Ways(t) /\ t.text = text /\ t.world = s.world
      /\ t.can = s.can /\ t.restore = s.restore /\ t.loopback = s.loopback /\ t.piano = s.piano
      /\ t.items = s.items /\ t.palette = s.palette
      /\ t.wb = s.wb /\ t.adm = s.adm /\ t.itm = s.itm /\ t.mode = s.mode
      /\ t.adminActions = s.adminActions
  BY DEF ApplyTextInputEdit, PageOK, Shape, PageFields, AskedAbout, Ways
<1>2. Quiet(s, t)
  BY DEF ApplyTextInputEdit, PageOK, Shape, PageFields, Quiet, AdminKept, Lists, Listing
<1> HIDE DEF t
<1>3. Held(t)
  BY <1>1 DEF PageOK, Held
<1>4. MenusHeld(t)
  BY <1>1 DEF PageOK, MenusHeld
<1> QED
  BY <1>1, <1>2, <1>3, <1>4 DEF PageOK, Does, t

LEMMA BuilderAnswers ==
    ASSUME NEW s, PageOK(s), NEW m
    PROVE  /\ Does(s, HandleWallActionResult(s, m)) /\ Does(s, HandleAmbianceActionResult(s, m))
           /\ s.mode = "worldBuilderAmbianceEdit" =>
                \A text \in Texts : Does(s, AmbianceEditType(s, text))
<1>1. BuilderStill(s, s)
  BY DEF BuilderStill, BuilderMoves, Frame, PageOK
<1>2. \A w : BuilderStill(s, OpenWallActions(s, w))
  BY DEF PageOK, Shape, PageFields, BuilderFields, BuilderStill, BuilderMoves, BuilderModes, Frame,
         AskedAbout, OpenWallActions
<1>3. ASSUME NEW a PROVE BuilderStill(s, OpenActions(s, a))
  <2> DEFINE t == OpenActions(s, a)
  <2>1. Shape(t) /\ t.mode = "worldBuilderAmbianceActions" /\ t.wb.edited = None
    BY DEF OpenActions, PageOK, Shape, PageFields, BuilderFields
  <2>2. AskedAbout(t)
    BY <2>1 DEF AskedAbout
  <2> QED
    BY <2>1, <2>2 DEF OpenActions, PageOK, Shape, PageFields, BuilderFields, BuilderStill,
                      BuilderMoves, BuilderModes, Frame
<1>4. BuilderStill(s, [s EXCEPT !.wb.ambiance = None, !.wb.edited = None, !.mode = "normal"])
  <2> DEFINE t == [s EXCEPT !.wb.ambiance = None, !.wb.edited = None, !.mode = "normal"]
  <2>1. Shape(t) /\ t.mode = "normal" /\ t.wb.edited = None
    BY DEF PageOK, Shape, PageFields, BuilderFields
  <2>2. AskedAbout(t)
    BY <2>1 DEF AskedAbout
  <2>3. BuilderStill(s, t)
    BY <2>1, <2>2 DEF PageOK, Shape, PageFields, BuilderFields, BuilderStill, BuilderMoves,
                      BuilderModes, Frame
  <2> QED
    BY <2>3
<1>5. Does(s, HandleWallActionResult(s, m))
  BY <1>1, <1>2, BuilderDoes DEF HandleWallActionResult
<1>6. Does(s, HandleAmbianceActionResult(s, m))
  BY <1>1, <1>3, <1>4, BuilderDoes DEF HandleAmbianceActionResult
<1>7. ASSUME s.mode = "worldBuilderAmbianceEdit", NEW text \in Texts
      PROVE  Does(s, AmbianceEditType(s, text))
  <2>1. s.mode \notin Lists
    BY <1>7 DEF Lists, Listing
  <2> QED
    BY <1>7, <2>1, Typing, StaleDoes, BuilderDoes DEF AmbianceEditType
<1> QED
  BY <1>5, <1>6, <1>7

-----------------------------------------------------------------------------
(* Users and roles. *)

AdminQuiet(s, t) ==
    /\ AdminMoves(s, t) /\ t.out = s.out
    /\ t.mode \in Listing => t.adm.mutation = s.adm.mutation
    /\ s.mode \notin Lists => t.adm.pending = s.adm.pending
AdminAsks(s, t, m) ==
    /\ AdminMoves(s, t) /\ t.out = Append(s.out, m)
    /\ m.kind = "admin" /\ RequestOK(m) /\ Meant(s, m) /\ AdminAsk(s, t, m)
AdminStill(s, t) == Frame(s, t) /\ AdminQuiet(s, t)
AdminSends(s, t, m) == Frame(s, t) /\ AdminAsks(s, t, m)

LEMMA AdminDoes ==
    ASSUME NEW s, NEW t, PageOK(s), AdminStill(s, t) \/ (\E m : AdminSends(s, t, m))
    PROVE  Does(s, t)
<1>0. Frame(s, t)
  BY DEF AdminStill, AdminSends
<1>1. AdminMoves(s, t)
  BY DEF AdminStill, AdminSends, AdminQuiet, AdminAsks
<1>2. Held(t) /\ Ways(t)
  BY <1>0, BoundsAssumption DEF PageOK, Frame, Held, Ways, Texts
<1>3. t.mode = "selectItem" => t.itm.context \in Contexts
  BY <1>1 DEF PageOK, AdminMoves, AdminModes, MenusHeld
<1>4. MenusHeld(t)
  BY <1>0, <1>1, <1>3 DEF PageOK, AdminMoves, Frame, MenusHeld
<1>5. PageOK(t)
  <2>1. IsWorld(t.world)
    BY <1>1 DEF PageOK, AdminMoves
  <2>2. Shape(t) /\ AskedAbout(t)
    BY <1>0 DEF Frame
  <2> QED
    BY <1>2, <1>4, <2>1, <2>2 DEF PageOK
<1>6. CASE AdminStill(s, t)
  <2>1. Quiet(s, t)
    BY <1>6 DEF AdminStill, AdminQuiet, AdminMoves, Frame, Quiet
  <2> QED
    BY <1>5, <2>1 DEF Does
<1>7. ASSUME NEW m, AdminSends(s, t, m)
      PROVE  Does(s, t)
  <2>1. Previews(s, t, m) /\ Live(s, m)
    BY <1>7, Unchanged DEF AdminSends, AdminAsks, AdminMoves, Live
  <2>2. Asks(s, t, m)
    BY <1>7, <2>1 DEF AdminSends, AdminAsks, AdminMoves, Frame, Asks
  <2> QED
    BY <1>5, <2>2 DEF Does
<1> QED
  BY <1>6, <1>7

LEMMA RoleMenus ==
    ASSUME NEW s, PageOK(s), s.mode \notin Lists
    PROVE  /\ Does(s, OpenAdminMenu(s))
           /\ \A r : Does(s, RoleListEnter(s, r))
           /\ \A mode \in {"adminRoleList", "adminRolePermissionList"} : Does(s, To(s, mode))
           /\ s.mode = "adminRolePermissionList" =>
                Does(s, RolePermissionToggle(s)) /\ Does(s, RoleDeleteEnter(s))
           /\ s.mode = "adminRoleDeleteReplacement" => \A r : Does(s, ReplacementEnter(s, r))
           /\ s.mode = "adminRoleNameEdit" =>
                Does(s, RoleNameSubmit(s)) /\ Does(s, RoleNameEscape(s))
           /\ s.mode = "adminMenu" =>
                \A a \in AdminActions : Does(s, AdminMenuEnter(s, a))
<1> USE DEF PageOK, Shape, PageFields, AdminFields, AdminStill, AdminQuiet, AdminMoves, AdminModes, AdminKept,
           Lists, Listing, Frame, AskedAbout, To
<1>1. AdminStill(s, OpenAdminMenu(s))
  BY DEF OpenAdminMenu
<1>2. ASSUME NEW r PROVE AdminStill(s, RoleListEnter(s, r))
  BY DEF RoleListEnter, OpenText
<1>3. ASSUME NEW mode \in {"adminRoleList", "adminRolePermissionList"}
      PROVE  AdminStill(s, To(s, mode))
  OBVIOUS
<1> USE DEF AdminSends, AdminAsks, AdminAsk, Ask, Send, Message, RequestOK, AdminOps, Meant, Kinds
<1>4. ASSUME s.mode = "adminRolePermissionList"
      PROVE  \/ AdminStill(s, RolePermissionToggle(s))
             \/ \E m : AdminSends(s, RolePermissionToggle(s), m)
  <2> DEFINE u == s.adm.role \in (IF s.adm.role \in s.adm.grants THEN s.adm.grants \ {s.adm.role}
                                  ELSE s.adm.grants \cup {s.adm.role})
             m == Message("admin", "role_update_permissions", s.adm.role, u)
  <2>1. AdminStill(s, RolePermissionToggle(s)) \/ AdminSends(s, RolePermissionToggle(s), m)
    BY <1>4 DEF RolePermissionToggle, Asking, TextModes
  <2> HIDE DEF m, AdminStill, AdminSends
  <2> QED
    BY <2>1
<1>5. ASSUME s.mode = "adminRolePermissionList"
      PROVE  AdminStill(s, RoleDeleteEnter(s))
  BY <1>5 DEF RoleDeleteEnter
<1>6. ASSUME s.mode = "adminRoleDeleteReplacement", NEW r
      PROVE  \/ AdminStill(s, ReplacementEnter(s, r))
             \/ AdminSends(s, ReplacementEnter(s, r), Message("admin", "role_delete", s.adm.role, r))
  BY <1>6 DEF ReplacementEnter, Asking, TextModes
<1>7. ASSUME s.mode = "adminRoleNameEdit"
      PROVE  /\ AdminStill(s, RoleNameEscape(s))
             /\ \/ AdminStill(s, RoleNameSubmit(s))
                \/ AdminSends(s, RoleNameSubmit(s), Message("admin", "role_create", None, None))
  BY <1>7 DEF RoleNameSubmit, RoleNameEscape
<1>8. ASSUME s.mode = "adminMenu", NEW a \in AdminActions
      PROVE  \E m : AdminSends(s, AdminMenuEnter(s, a), m)
  <2>1. CASE a = "manage_roles"
    <3>1. AdminSends(s, AdminMenuEnter(s, a), Message("admin", "roles_list", None, None))
      BY <1>8, <2>1 DEF AdminMenuEnter, Asking, TextModes
    <3> QED
      BY <3>1
  <2>2. CASE a = "list_users"
    <3>1. AdminSends(s, AdminMenuEnter(s, a), Message("admin", "users_list", None, None))
      BY <1>8, <2>2 DEF AdminMenuEnter, Asking, TextModes
    <3> QED
      BY <3>1
  <2>3. CASE a \in UserActions
    <3>1. AdminSends(s, AdminMenuEnter(s, a), Message("admin", "users_list", None, a))
      BY <1>8, <2>3 DEF AdminMenuEnter, Asking, TextModes, UserActions
    <3> QED
      BY <3>1
  <2> QED
    BY <2>1, <2>2, <2>3 DEF AdminActions
<1> HIDE DEF PageOK, AdminStill, AdminSends
<1> QED
  BY <1>1, <1>2, <1>3, <1>4, <1>5, <1>6, <1>7, <1>8, AdminDoes

LEMMA UserMenus ==
    ASSUME NEW s, PageOK(s)
    PROVE  /\ s.mode = "adminUserList" =>
                Does(s, UserListEscape(s)) /\ \A n : Does(s, UserListEnter(s, n))
           /\ s.mode = "adminUserRoleSelect" =>
                Does(s, UserRoleEscape(s)) /\ \A r : Does(s, UserRoleEnter(s, r))
           /\ s.mode = "adminUserDeleteConfirm" =>
                \A yes \in BOOLEAN : Does(s, UserDeleteAnswer(s, yes))
<1> USE DEF PageOK, Shape, PageFields, AdminFields, AdminQuiet, AdminMoves, AdminModes, AdminKept,
           Lists, Listing, To, AdminAsks, AdminAsk, Ask, Send, Message,
           RequestOK, AdminOps, Meant, Kinds, Expect
<1>1. ASSUME s.mode = "adminUserList"
      PROVE  Frame(s, UserListEscape(s)) /\ AdminQuiet(s, UserListEscape(s))
  <2>1. Frame(s, UserListEscape(s))
    BY <1>1 DEF UserListEscape, Frame, AskedAbout
  <2>2. AdminQuiet(s, UserListEscape(s))
    BY <1>1 DEF UserListEscape
  <2> QED
    BY <2>1, <2>2
<1>2. ASSUME s.mode = "adminUserRoleSelect"
      PROVE  Frame(s, UserRoleEscape(s)) /\ AdminQuiet(s, UserRoleEscape(s))
  <2>1. Frame(s, UserRoleEscape(s))
    BY <1>2 DEF UserRoleEscape, Frame, AskedAbout
  <2>2. AdminQuiet(s, UserRoleEscape(s))
    BY <1>2 DEF UserRoleEscape
  <2> QED
    BY <2>1, <2>2
<1>3. ASSUME s.mode = "adminUserRoleSelect", NEW r
      PROVE  /\ Frame(s, UserRoleEnter(s, r))
             /\ \/ AdminQuiet(s, UserRoleEnter(s, r))
                \/ \E m : AdminAsks(s, UserRoleEnter(s, r), m)
  <2> DEFINE t == UserRoleEnter(s, r)
             m == Message("admin", "set_role", s.adm.user, r)
  <2>1. Frame(s, UserRoleEnter(s, r))
    BY <1>3 DEF UserRoleEnter, Frame, AskedAbout
  <2>2. CASE s.adm.roles = {}
    BY <1>3, <2>1, <2>2 DEF UserRoleEnter
  <2>3. CASE s.adm.roles # {}
    <3>1. AdminAsks(s, t, m)
      BY <1>3, <2>3 DEF UserRoleEnter, Asking, TextModes
    <3> QED
      BY <2>1, <3>1, SMTT(30)
  <2> QED
    BY <2>2, <2>3
<1>4. ASSUME s.mode = "adminUserDeleteConfirm", NEW yes \in BOOLEAN
      PROVE  /\ Frame(s, UserDeleteAnswer(s, yes))
             /\ \/ AdminQuiet(s, UserDeleteAnswer(s, yes))
                \/ \E m : AdminAsks(s, UserDeleteAnswer(s, yes), m)
  <2> DEFINE t == UserDeleteAnswer(s, yes)
             m == Message("admin", "delete_account", s.adm.user, None)
  <2>1. Frame(s, UserDeleteAnswer(s, yes))
    BY <1>4 DEF UserDeleteAnswer, Frame, AskedAbout
  <2>2. s.adm.user = s.prompt
    BY <1>4 DEF AskedAbout
  <2>3. AdminQuiet(s, t) \/ AdminAsks(s, t, m)
    BY <1>4, <2>2 DEF UserDeleteAnswer
  <2> QED
    BY <2>1, <2>3
<1>5. ASSUME s.mode = "adminUserList", NEW n
      PROVE  /\ Frame(s, UserListEnter(s, n))
             /\ \/ AdminQuiet(s, UserListEnter(s, n))
                \/ \E m : AdminAsks(s, UserListEnter(s, n), m)
  <2> DEFINE t == UserListEnter(s, n)
  <2>0. Frame(s, t)
    BY <1>5 DEF UserListEnter, Frame, AskedAbout
  <2>1. ASSUME s.adm.users = {} PROVE AdminQuiet(s, t)
    BY <1>5, <2>1 DEF UserListEnter
  <2>2. CASE s.adm.users # {} /\ s.adm.pending = "set_role"
    <3>1. AdminAsks(s, t, Message("admin", "roles_list", None, None))
      BY <1>5, <2>2 DEF UserListEnter, Asking, TextModes, Marks
    <3> QED
      BY <2>0, <3>1, SMTT(30)
  <2>3. ASSUME s.adm.users # {}, s.adm.pending = "delete_account" PROVE AdminQuiet(s, t)
    BY <1>5, <2>3 DEF UserListEnter
  <2>4. CASE s.adm.users # {} /\ s.adm.pending \in {"ban", "unban"}
    <3>1. AdminAsks(s, t, Message("admin", s.adm.pending, n, None))
      BY <1>5, <2>4 DEF UserListEnter, Asking, TextModes
    <3> QED
      BY <2>0, <3>1, SMTT(30)
  <2>5. ASSUME s.adm.users # {},
               s.adm.pending \notin {"set_role", "delete_account", "ban", "unban"}
        PROVE  AdminQuiet(s, t)
    BY <1>5, <2>5 DEF UserListEnter
  <2> HIDE DEF t, AdminQuiet, AdminAsks
  <2> QED
    BY <2>0, <2>1, <2>2, <2>3, <2>4, <2>5 DEF t
<1> HIDE DEF PageOK, AdminQuiet, AdminAsks
<1> QED
  BY <1>1, <1>2, <1>3, <1>4, <1>5, AdminDoes DEF AdminStill, AdminSends

-----------------------------------------------------------------------------
(* Items: properties and management. *)

ItemModes ==
    {"normal", "selectItem", "itemProperties", "itemPropertyEdit", "optionSelect",
     "itemManageOptions", "confirmYesNo"}
ItemMoves(s, t) ==
    /\ t.world = s.world /\ t.wb = s.wb /\ t.adm = s.adm
    /\ t.mode = s.mode \/ t.mode \in ItemModes
    /\ t.itm.list = s.itm.list \/ t.itm.list \subseteq DOMAIN s.items
    /\ t.mode = "selectItem" => t.itm.context \in Contexts
ItemStill(s, t) == Frame(s, t) /\ ItemMoves(s, t) /\ t.out = s.out
ItemSends(s, t, m) ==
    /\ Frame(s, t) /\ ItemMoves(s, t) /\ t.out = Append(s.out, m)
    /\ m.kind = "item" /\ Meant(s, m)

LEMMA ItemDoes ==
    ASSUME NEW s, NEW t, PageOK(s), ItemStill(s, t) \/ (\E m : ItemSends(s, t, m))
    PROVE  Does(s, t)
<1>0. Frame(s, t)
  BY DEF ItemStill, ItemSends
<1>1. ItemMoves(s, t)
  BY DEF ItemStill, ItemSends
<1>2. Held(t) /\ Ways(t)
  BY <1>0, BoundsAssumption DEF PageOK, Frame, Held, Ways, Texts
<1>3. t.itm.list \subseteq Items
  BY <1>1 DEF PageOK, ItemMoves, MenusHeld, Held, IsMap
<1>4. MenusHeld(t)
  BY <1>0, <1>1, <1>3 DEF PageOK, ItemMoves, Frame, MenusHeld
<1>5. AdminKept(s, t)
  BY <1>1 DEF ItemMoves, ItemModes, AdminKept, Lists, Listing
<1>6. PageOK(t)
  <2>1. IsWorld(t.world)
    BY <1>1 DEF PageOK, ItemMoves
  <2>2. Shape(t) /\ AskedAbout(t)
    BY <1>0 DEF Frame
  <2> QED
    BY <1>2, <1>4, <2>1, <2>2 DEF PageOK
<1>7. CASE ItemStill(s, t)
  <2>1. Quiet(s, t)
    BY <1>5, <1>7 DEF ItemStill, ItemMoves, Frame, Quiet
  <2> QED
    BY <1>6, <2>1 DEF Does
<1>8. ASSUME NEW m, ItemSends(s, t, m)
      PROVE  Does(s, t)
  <2>1. Previews(s, t, m) /\ Live(s, m)
    BY <1>8, Unchanged DEF ItemSends, ItemMoves, Live
  <2>2. AdminAsk(s, t, m) /\ RequestOK(m)
    BY <1>8 DEF ItemSends, ItemMoves, AdminAsk, RequestOK, Kinds
  <2>3. Asks(s, t, m)
    BY <1>5, <1>8, <2>1, <2>2 DEF ItemSends, Frame, Asks
  <2> QED
    BY <1>6, <2>3 DEF Does
<1> QED
  BY <1>7, <1>8

LEMMA ItemPropertyMenus ==
    ASSUME NEW s, PageOK(s)
    PROVE  /\ s.mode = "itemProperties" =>
                /\ Does(s, ItemPropertiesEscape(s))
                /\ \A k : Does(s, ItemPropertiesSide(s, k)) /\ Does(s, ItemPropertiesEnter(s, k))
           /\ s.mode = "optionSelect" /\ s.option = None =>
                /\ Does(s, ItemOptionCancelled(s))
                /\ \A r, v : r.id = s.prompt => Does(s, ItemOptionChosen(s, r, v))
           /\ s.mode = "itemPropertyEdit" =>
                Does(s, ItemPropertyEditSubmit(s)) /\ Does(s, ItemPropertyEditEscape(s))
           /\ \A id, all : Does(s, BeginItemProperties(s, id, all))
<1> USE DEF PageOK, Shape, PageFields, ItemFields, ItemStill, ItemMoves, ItemModes, Frame, AskedAbout,
           ItemSends, ItemMessage, Send, Message, Meant, ItemIsGone, To
<1>1. ASSUME s.mode = "itemProperties"
      PROVE  ItemStill(s, ItemPropertiesEscape(s))
  BY <1>1 DEF ItemPropertiesEscape
<1>2. ASSUME s.mode = "itemProperties", NEW k
      PROVE  \/ ItemStill(s, ItemPropertiesSide(s, k))
             \/ ItemSends(s, ItemPropertiesSide(s, k),
                          Message("item", "update", s.itm.item, [prop |-> k, value |-> 1]))
  BY <1>2 DEF ItemPropertiesSide, ItemUpdate, Asking, TextModes
<1>3. ASSUME s.mode = "itemProperties", NEW k
      PROVE  \/ ItemStill(s, ItemPropertiesEnter(s, k))
             \/ ItemSends(s, ItemPropertiesEnter(s, k),
                          Message("item", "update", s.itm.item, [prop |-> k, value |-> 1]))
  BY <1>3
  DEF ItemPropertiesEnter, ItemUpdate, Asking, TextModes, OpenOptionSelector, OpenText, About
<1>4. ASSUME s.mode = "optionSelect", s.option = None
      PROVE  ItemStill(s, ItemOptionCancelled(s))
  BY <1>4 DEF ItemOptionCancelled
<1>5. ASSUME s.mode = "optionSelect", s.option = None, NEW r, NEW v, r.id = s.prompt
      PROVE  ItemSends(s, ItemOptionChosen(s, r, v),
                       Message("item", "update", r.id, [prop |-> "option", value |-> v]))
  BY <1>5 DEF ItemOptionChosen
<1>6. ASSUME s.mode = "itemPropertyEdit"
      PROVE  ItemStill(s, ItemPropertyEditEscape(s))
  BY <1>6 DEF ItemPropertyEditEscape
<1>7. ASSUME s.mode = "itemPropertyEdit"
      PROVE  \/ ItemStill(s, ItemPropertyEditSubmit(s))
             \/ ItemSends(s, ItemPropertyEditSubmit(s),
                          Message("item", "update", s.itm.item, [prop |-> s.itm.key, value |-> s.text]))
  BY <1>7 DEF ItemPropertyEditSubmit, ItemUpdate
<1>8. ASSUME NEW id, NEW all
      PROVE  ItemStill(s, BeginItemProperties(s, id, all))
  <2> DEFINE t == [s EXCEPT !.itm.all = all, !.itm.item = id, !.itm.key = None]
             keys == KeysOf(t, id)
  <2> HIDE DEF keys
  <2> QED
    BY DEF BeginItemProperties, keys
<1> HIDE DEF PageOK, ItemStill, ItemSends
<1> QED
  BY <1>1, <1>2, <1>3, <1>4, <1>5, <1>6, <1>7, <1>8, ItemDoes

LEMMA LeavingManagement ==
    ASSUME NEW s, PageOK(s)
    PROVE  ItemStill(s, LeaveManagement(s)) /\ ItemStill(s, BackToOptions(s))
<1> USE DEF PageOK, Shape, PageFields, ItemFields, ItemStill, ItemMoves, ItemModes, To,
           LeaveManagement, BackToOptions, ResetItemManagement, ResetTargetSelection
<1>1. Frame(s, LeaveManagement(s))
  BY DEF Frame, AskedAbout
<1>2. Frame(s, BackToOptions(s))
  BY DEF Frame, AskedAbout
<1>3. ItemMoves(s, LeaveManagement(s)) /\ LeaveManagement(s).out = s.out
  OBVIOUS
<1>4. ItemMoves(s, BackToOptions(s)) /\ BackToOptions(s).out = s.out
  OBVIOUS
<1> HIDE DEF LeaveManagement, BackToOptions
<1> QED
  BY <1>1, <1>2, <1>3, <1>4

LEMMA LeavingWith ==
    ASSUME NEW s, PageOK(s), NEW op, NEW id, NEW arg, s.mode \in Asking => id = s.prompt
    PROVE  Does(s, LeaveManagement(ItemMessage(s, op, id, arg)))
<1> DEFINE m == Message("item", op, id, arg)
           t == LeaveManagement(Send(s, m))
<1>1. m.kind = "item" /\ Meant(s, m)
  BY DEF Message, Meant
<1> HIDE DEF m
<1> USE DEF PageOK, Shape, PageFields, ItemFields, ItemModes, To, Send,
           LeaveManagement, ResetItemManagement, ResetTargetSelection
<1>2. Frame(s, t)
  BY DEF Frame, AskedAbout
<1>3. ItemMoves(s, t) /\ t.out = Append(s.out, m)
  BY DEF ItemMoves
<1> HIDE DEF t, PageOK
<1>4. ItemSends(s, t, m)
  BY <1>1, <1>2, <1>3 DEF ItemSends
<1> QED
  BY <1>4, ItemDoes DEF t, m, ItemMessage

LEMMA ManagementMenus ==
    ASSUME NEW s, PageOK(s)
    PROVE  /\ s.mode = "itemManageOptions" =>
                /\ Does(s, ItemManageOptionsEscape(s))
                /\ \A o : Does(s, ItemManageOptionsEnter(s, o))
           /\ s.mode = "itemManageTransferUser" =>
                /\ Does(s, TransferUserEscape(s))
                /\ \A u : Does(s, TransferUserEnter(s, u))
           /\ s.mode = "confirmYesNo" /\ s.confirm = None =>
                /\ Does(s, ItemConfirmCancelled(s))
                /\ \A r : r.id = s.prompt => Does(s, ItemConfirmed(s, r))
           /\ \A id : s.mode \notin Asking => Does(s, BeginItemManagement(s, id))
           /\ Does(s, s)
<1>1. Does(s, LeaveManagement(s)) /\ Does(s, BackToOptions(s))
  BY LeavingManagement, ItemDoes
<1>2. Does(s, s)
  <2>1. ItemStill(s, s)
    BY DEF PageOK, ItemStill, ItemMoves, Frame, MenusHeld
  <2> QED
    BY <2>1, ItemDoes
<1> DEFINE u == ResetTargetSelection(s)
<1>3. Shape(u) /\ u.mode = s.mode /\ u.out = s.out /\ ItemMoves(s, u)
  BY DEF PageOK, Shape, PageFields, ItemFields, ResetTargetSelection, ItemMoves, MenusHeld
<1>4. s.mode # "itemManageTransferUser" => Frame(s, u)
  BY DEF PageOK, Shape, PageFields, ItemFields, ResetTargetSelection, Frame, AskedAbout
<1>5. ASSUME s.mode = "itemManageOptions", NEW o
      PROVE  Does(s, ItemManageOptionsEnter(s, o))
  <2> DEFINE t == ItemManageOptionsEnter(s, o)
             v == [u EXCEPT !.itm.action = o]
             m == Message("item", "targets", s.itm.managed, o)
  <2>1. Frame(s, v) /\ ItemMoves(s, v) /\ v.mode = s.mode /\ v.out = s.out
    BY <1>5
    DEF PageOK, Shape, PageFields, ItemFields, ResetTargetSelection, Frame, AskedAbout, ItemMoves
  <2>2. Frame(s, Send(v, m)) /\ ItemMoves(s, Send(v, m)) /\ Send(v, m).out = Append(s.out, m)
    <3> HIDE DEF v, m
    <3> QED
      BY <1>5, <2>1 DEF Shape, PageFields, Send, Frame, AskedAbout, ItemMoves
  <2>3. Meant(s, m) /\ m.kind = "item"
    BY <1>5 DEF Meant, Message, Asking, TextModes
  <2>4. ItemSends(s, Send(v, m), m)
    <3> HIDE DEF v, m
    <3> QED
      BY <2>2, <2>3 DEF ItemSends
  <2>5. Does(s, Send(v, m))
    BY <2>4, ItemDoes
  <2> DEFINE w == OpenConfirmation(u, AboutItem("itemDelete", s.itm.managed, None))
  <2>6. Frame(s, w) /\ ItemMoves(s, w) /\ w.out = s.out
    <3> HIDE DEF u
    <3> QED
      BY <1>3, <1>4, <1>5
      DEF Shape, PageFields, OpenConfirmation, AboutItem, Frame, AskedAbout, ItemMoves, ItemModes
  <2>7. Does(s, w)
    <3>1. ItemStill(s, w)
      <4> HIDE DEF w
      <4> QED
        BY <2>6 DEF ItemStill
    <3> QED
      BY <3>1, ItemDoes
  <2>8. t \in {LeaveManagement(s), s, w, Send(v, m)}
    BY DEF ItemManageOptionsEnter, ItemMessage
  <2> HIDE DEF t, w, v, m
  <2> QED
    BY <1>1, <1>2, <2>5, <2>7, <2>8 DEF t
<1>6. ASSUME s.mode = "itemManageTransferUser", NEW p
      PROVE  Does(s, TransferUserEnter(s, p))
  <2> DEFINE id == s.itm.managed
             w == OpenConfirmation(u, AboutItem("itemTransfer", id, p))
  <2>1. Frame(s, w) /\ ItemMoves(s, w) /\ w.out = s.out
    BY <1>6 DEF PageOK, Shape, PageFields, ItemFields, ResetTargetSelection, OpenConfirmation,
                AboutItem, Frame, AskedAbout, ItemMoves, ItemModes
  <2>2. Does(s, w)
    <3>1. ItemStill(s, w)
      <4> HIDE DEF w
      <4> QED
        BY <2>1 DEF ItemStill
    <3> QED
      BY <3>1, ItemDoes
  <2>3. Does(s, LeaveManagement(ItemMessage(s, "hand", id, p)))
    <3>1. s.mode \notin Asking
      BY <1>6 DEF Asking, TextModes
    <3> QED
      BY <3>1, LeavingWith
  <2>4. TransferUserEnter(s, p) \in {BackToOptions(s), LeaveManagement(ItemMessage(s, "hand", id, p)), w}
    BY DEF TransferUserEnter
  <2> HIDE DEF w
  <2> QED
    BY <1>1, <2>2, <2>3, <2>4
<1>7. ASSUME s.mode = "confirmYesNo", s.confirm = None, NEW r, r.id = s.prompt
      PROVE  Does(s, ItemConfirmed(s, r))
  <2>1. \A op, arg : Does(s, LeaveManagement(ItemMessage(s, op, r.id, arg)))
    BY <1>7, LeavingWith
  <2> QED
    BY <2>1 DEF ItemConfirmed
<1>8. ASSUME NEW id, s.mode \notin Asking
      PROVE  Does(s, BeginItemManagement(s, id))
  <2> DEFINE w == [u EXCEPT !.itm.managed = id, !.mode = "itemManageOptions"]
  <2>1. Shape(w) /\ w.mode = "itemManageOptions" /\ w.out = s.out /\ ItemMoves(s, w)
    <3> HIDE DEF u
    <3> QED
      BY <1>3 DEF Shape, PageFields, ItemFields, ItemMoves, ItemModes
  <2>2. Frame(s, w)
    BY DEF PageOK, Shape, PageFields, ItemFields, ResetTargetSelection, Frame, AskedAbout
  <2>3. Does(s, w)
    <3>1. ItemStill(s, w)
      <4> HIDE DEF w
      <4> QED
        BY <2>1, <2>2 DEF ItemStill
    <3> QED
      BY <3>1, ItemDoes
  <2>4. BeginItemManagement(s, id) \in {s, w}
    BY DEF BeginItemManagement
  <2> HIDE DEF w
  <2> QED
    BY <1>2, <2>3, <2>4
<1> QED
  BY <1>1, <1>2, <1>5, <1>6, <1>7, <1>8
     DEF ItemManageOptionsEscape, TransferUserEscape, ItemConfirmCancelled

LEMMA Onwards ==
    ASSUME NEW r, NEW s, NEW t, Does(s, t), s.running = r.running, s.hasty = r.hasty,
           s.out = r.out, s.world = r.world, s.can = r.can, s.prompt = r.prompt, s.adm = r.adm,
           s.mode = r.mode \/ {r.mode, s.mode} \cap (Asking \cup Lists) = {}
    PROVE  Does(r, t)
<1>1. AdminKept(s, t) => AdminKept(r, t)
  BY DEF AdminKept, Lists, Listing
<1>2. Quiet(s, t) => Quiet(r, t)
  BY <1>1 DEF Quiet
<1>3. \A m : Asks(s, t, m) => Asks(r, t, m)
  BY <1>1 DEF Asks, Previews, Live, Meant, AdminAsk, May
<1> QED
  BY <1>2, <1>3 DEF Does

LEMMA ItemCommands ==
    ASSUME NEW s, PageOK(s), s.mode \notin Asking \cup Lists
    PROVE  /\ \A c \in Contexts : Does(s, ItemCommand(s, c))
           /\ \A c \in Contexts : \A id : Does(s, RunOnItem(s, c, id))
           /\ Does(s, AddItemEnter(s))
<1>1. \A op, id, arg : Does(s, ItemMessage(s, op, id, arg))
  <2> SUFFICES ASSUME NEW op, NEW id, NEW arg
               PROVE  Does(s, ItemMessage(s, op, id, arg))
    OBVIOUS
  <2> DEFINE m == Message("item", op, id, arg)
             t == Send(s, m)
  <2>1. m.kind = "item" /\ Meant(s, m)
    BY DEF Message, Meant
  <2> HIDE DEF m
  <2>2. ItemSends(s, t, m)
    BY <2>1 DEF ItemSends, PageOK, Shape, PageFields, Send, Frame, AskedAbout, ItemMoves, MenusHeld
  <2> QED
    BY <2>2, ItemDoes DEF ItemMessage, m
<1>2. ASSUME NEW c \in Contexts, NEW id
      PROVE  Does(s, RunOnItem(s, c, id))
  <2>1. Does(s, PickupDropItem(s, id))
    BY <1>1 DEF PickupDropItem
  <2>2. Does(s, BeginItemProperties(s, id, TRUE)) /\ Does(s, BeginItemProperties(s, id, FALSE))
    BY ItemPropertyMenus
  <2>3. Does(s, BeginItemManagement(s, id))
    BY ManagementMenus
  <2> QED
    BY <1>1, <2>1, <2>2, <2>3 DEF RunOnItem, Contexts
<1>3. ASSUME NEW c \in Contexts
      PROVE  Does(s, ItemCommand(s, c))
  <2> DEFINE candidates == {i \in InteractionItems(s) : c = "manage" => ManagementOptions(s, i) # {}}
             t == [s EXCEPT !.mode = "selectItem", !.itm.context = c, !.itm.list = candidates]
             it == CHOOSE i \in candidates : TRUE
  <2>1. candidates \subseteq DOMAIN s.items
    BY DEF InteractionItems
  <2>2. ItemStill(s, t)
    <3> HIDE DEF candidates
    <3> QED
      BY <2>1
      DEF PageOK, Shape, PageFields, ItemFields, ItemStill, Frame, AskedAbout, ItemMoves, ItemModes
  <2>3. ItemCommand(s, c) \in {s, RunOnItem(s, c, it), t}
    <3> DEFINE k == Cardinality(candidates)
    <3> HIDE DEF k
    <3> QED
      BY DEF ItemCommand, k
  <2> HIDE DEF t, it
  <2> QED
    BY <1>2, <2>2, <2>3, ItemDoes, ManagementMenus
<1>4. Does(s, AddItemEnter(s))
  <2> DEFINE m == Message("item", "add", None, None)
             t == To(Send(s, m), "normal")
  <2>1. m.kind = "item" /\ Meant(s, m)
    BY DEF Message, Meant
  <2> HIDE DEF m
  <2>2. ItemSends(s, t, m)
    BY <2>1
    DEF ItemSends, PageOK, Shape, PageFields, Send, To, Frame, AskedAbout, ItemMoves, ItemModes
  <2> QED
    BY <2>2, ItemDoes DEF AddItemEnter, ItemMessage, m
<1> QED
  BY <1>2, <1>3, <1>4

LEMMA SelectMenu ==
    ASSUME NEW s, PageOK(s), s.mode = "selectItem"
    PROVE  Does(s, SelectItemEscape(s)) /\ \A id : Does(s, SelectItemEnter(s, id))
<1> DEFINE t == [s EXCEPT !.mode = "normal", !.itm.context = None]
<1>1. ItemStill(s, t)
  BY DEF PageOK, Shape, PageFields, ItemFields, ItemStill, Frame, AskedAbout, ItemMoves, ItemModes
<1>2. t.mode = "normal" /\ t.prompt = s.prompt
  BY DEF PageOK, Shape, PageFields
<1> HIDE DEF t
<1>3. Does(s, t) /\ PageOK(t)
  BY <1>1, ItemDoes DEF Does
<1>4. \A id : Does(t, RunOnItem(t, s.itm.context, id))
  BY <1>2, <1>3, ItemCommands DEF PageOK, MenusHeld, Asking, TextModes, Lists, Listing
<1>5. \A id : Does(s, RunOnItem(t, s.itm.context, id))
  <2>1. {s.mode, t.mode} \cap (Asking \cup Lists) = {}
    BY <1>2 DEF Asking, TextModes, Lists, Listing
  <2> QED
    BY <1>1, <1>2, <1>4, <2>1, Onwards DEF ItemStill, Frame, ItemMoves
<1> QED
  BY <1>3, <1>5 DEF SelectItemEscape, SelectItemEnter, t

LEMMA ItemAnswers ==
    ASSUME NEW s, PageOK(s), NEW m
    PROVE  /\ Does(s, HandleItemTargets(s, m))
           /\ s.mode = "itemPropertyEdit" =>
                \A text \in Texts : Does(s, ItemPropertyEditType(s, text))
<1>1. Does(s, HandleItemTargets(s, m))
  <2> DEFINE t == [s EXCEPT !.itm.targets = m.arg, !.itm.targetsOf = <<m.op, m.id>>,
                            !.mode = "itemManageTransferUser"]
  <2>1. Does(s, s) /\ Does(s, BackToOptions(s))
    BY ManagementMenus, LeavingManagement, ItemDoes
  <2>2. ASSUME s.itm.managed = m.id, s.itm.action = m.op
        PROVE  Does(s, t)
    <3>1. Shape(t) /\ t.mode = "itemManageTransferUser" /\ t.itm.targetsOf = <<t.itm.action, t.itm.managed>>
      BY <2>2 DEF PageOK, Shape, PageFields, ItemFields
    <3>2. /\ t.running = s.running /\ t.hasty = s.hasty /\ t.can = s.can
          /\ t.adminActions = s.adminActions /\ t.items = s.items /\ t.piano = s.piano
          /\ t.palette = s.palette /\ t.back = s.back /\ t.helpBack = s.helpBack
          /\ t.loopback = s.loopback /\ t.restore = s.restore /\ t.text = s.text
          /\ t.world = s.world /\ t.wb = s.wb /\ t.adm = s.adm /\ t.itm.list = s.itm.list
          /\ t.out = s.out
      BY DEF PageOK, Shape, PageFields, ItemFields
    <3> HIDE DEF t
    <3>3. AskedAbout(t) /\ Ways(t) /\ Held(t)
      BY <3>1, <3>2 DEF PageOK, AskedAbout, Ways, Held
    <3>4. MenusHeld(t)
      BY <3>1, <3>2 DEF PageOK, MenusHeld
    <3>5. AdminKept(s, t) /\ t.mode \notin Listing
      BY <3>1 DEF AdminKept, Listing
    <3> QED
      BY <3>1, <3>2, <3>3, <3>4, <3>5 DEF PageOK, Does, Quiet
  <2>3. \/ HandleItemTargets(s, m) \in {s, BackToOptions(s)}
        \/ s.itm.managed = m.id /\ s.itm.action = m.op /\ HandleItemTargets(s, m) = t
    BY DEF HandleItemTargets, BackToOptions
  <2> HIDE DEF t
  <2> QED
    BY <2>1, <2>2, <2>3
<1>2. ASSUME s.mode = "itemPropertyEdit", NEW text \in Texts
      PROVE  Does(s, ItemPropertyEditType(s, text))
  <2>1. Does(s, ApplyTextInputEdit(s, text))
    BY <1>2, Typing DEF Lists, Listing
  <2>2. Does(s, To(s, "normal"))
    BY WallMenus
  <2>3. ItemStill(s, ItemIsGone(s))
    BY DEF PageOK, Shape, PageFields, ItemFields, ItemStill, Frame, AskedAbout, ItemMoves,
           ItemModes, ItemIsGone
  <2>4. ItemPropertyEditType(s, text) \in {To(s, "normal"), ItemIsGone(s), ApplyTextInputEdit(s, text)}
    BY DEF ItemPropertyEditType
  <2> QED
    BY <2>1, <2>2, <2>3, <2>4, ItemDoes
<1> QED
  BY <1>1, <1>2

-----------------------------------------------------------------------------
(* The commands of normal mode, the palette, lists and dialogs. *)

OwnModes ==
    {"normal", "pianoUse", "nickname", "chat", "micGainEdit", "effectSelect", "addItem",
     "listItems", "listUsers", "helpView", "commandPalette"}
OwnMoves(s, t) ==
    /\ Shape(t) /\ t.out = s.out /\ t.world = s.world /\ t.wb = s.wb /\ t.adm = s.adm /\ t.itm = s.itm
    /\ t.running = s.running /\ t.hasty = s.hasty /\ t.can = s.can
    /\ t.adminActions = s.adminActions /\ t.items = s.items /\ t.piano \in {s.piano, None}
    /\ t.palette \in {s.palette, PianoCommands} \cup SUBSET Commands
    /\ t.back \in {s.back, "normal", "pianoUse"} /\ t.helpBack \in {s.helpBack, "normal", "pianoUse"}
    /\ \/ t.loopback \in {s.loopback, ~s.loopback, TRUE}
       \/ t.loopback = s.restore /\ s.restore # None
    /\ t.restore \in {s.restore, s.loopback, None}
    /\ t.text \in {s.text, -1, 0}
    /\ t.mode \in OwnModes \/ (t.mode = s.mode /\ s.mode \notin Asking)

LEMMA OwnDoes ==
    ASSUME NEW s, NEW t, PageOK(s), OwnMoves(s, t)
    PROVE  Does(s, t)
<1>1. Held(t)
  <2>1. t.loopback \in BOOLEAN /\ t.restore \in BOOLEAN \cup {None}
    BY DEF OwnMoves, PageOK, Held
  <2> QED
    BY <2>1, BoundsAssumption DEF OwnMoves, PageOK, Held, Texts
<1>2. Ways(t)
  BY DEF OwnMoves, PageOK, Ways
<1>3. MenusHeld(t)
  BY DEF OwnMoves, OwnModes, PageOK, MenusHeld
<1>4. AskedAbout(t)
  BY DEF OwnMoves, OwnModes, PageOK, AskedAbout, Asking, TextModes
<1>5. PageOK(t)
  BY <1>1, <1>2, <1>3, <1>4 DEF OwnMoves, PageOK
<1>6. Quiet(s, t)
  BY DEF OwnMoves, OwnModes, Quiet, AdminKept, Lists, Listing
<1> QED
  BY <1>5, <1>6 DEF Does

LEMMA OwnCommands ==
    ASSUME NEW s, PageOK(s)
    PROVE  /\ s.mode \notin Asking =>
                /\ Does(s, s) /\ Does(s, ToggleMute(s)) /\ Does(s, ToggleLoopback(s))
                /\ Does(s, OpenMicGainEdit(s)) /\ Does(s, ListItems(s)) /\ Does(s, ListUsers(s))
                /\ Does(s, StopUseMode(s))
                /\ \A escaping : Does(s, [s EXCEPT !.escaping = escaping])
           /\ Does(s, OpenNicknameEditor(s)) /\ Does(s, OpenChat(s))
           /\ \A mode \in OwnModes : Does(s, To(s, mode))
           /\ \A back \in {"normal", "pianoUse"} : Does(s, OpenHelpViewer(s, back))
           /\ Does(s, PaletteEscape(s)) /\ Does(s, HelpViewEscape(s))
           /\ Does(s, RestoreLoopback(To(s, "normal")))
<1> USE DEF PageOK, Shape, PageFields, OwnMoves, OwnModes
<1>1. ASSUME s.mode \notin Asking
      PROVE  /\ OwnMoves(s, s) /\ OwnMoves(s, ToggleMute(s)) /\ OwnMoves(s, ToggleLoopback(s))
             /\ OwnMoves(s, OpenMicGainEdit(s)) /\ OwnMoves(s, ListItems(s)) /\ OwnMoves(s, ListUsers(s))
             /\ OwnMoves(s, StopUseMode(s))
             /\ \A escaping : OwnMoves(s, [s EXCEPT !.escaping = escaping])
  <2>1. OwnMoves(s, s)
    BY <1>1
  <2>2. OwnMoves(s, ToggleMute(s))
    BY <1>1 DEF ToggleMute
  <2>3. OwnMoves(s, ToggleLoopback(s))
    BY <1>1 DEF ToggleLoopback
  <2>4. OwnMoves(s, OpenMicGainEdit(s))
    BY <1>1 DEF OpenMicGainEdit, OpenText
  <2>5. OwnMoves(s, ListItems(s))
    BY <1>1 DEF ListItems
  <2>6. OwnMoves(s, ListUsers(s))
    BY <1>1 DEF ListUsers
  <2>7. OwnMoves(s, StopUseMode(s))
    BY <1>1 DEF StopUseMode
  <2>8. ASSUME NEW escaping PROVE OwnMoves(s, [s EXCEPT !.escaping = escaping])
    BY <1>1
  <2> QED
    BY <2>1, <2>2, <2>3, <2>4, <2>5, <2>6, <2>7, <2>8
<1>2. OwnMoves(s, OpenNicknameEditor(s))
  BY DEF OpenNicknameEditor, OpenText
<1>3. OwnMoves(s, OpenChat(s))
  BY DEF OpenChat, OpenText
<1>4. ASSUME NEW mode \in OwnModes PROVE OwnMoves(s, To(s, mode))
  BY DEF To
<1>5. ASSUME NEW back \in {"normal", "pianoUse"} PROVE OwnMoves(s, OpenHelpViewer(s, back))
  BY DEF OpenHelpViewer
<1>6. PaletteEscape(s) = To(s, s.back) /\ HelpViewEscape(s) = To(s, s.helpBack)
  BY DEF PaletteEscape, HelpViewEscape
<1>7. {s.back, s.helpBack} \subseteq OwnModes
  BY DEF Ways
<1>8. OwnMoves(s, RestoreLoopback(To(s, "normal")))
  BY DEF RestoreLoopback, To
<1> HIDE DEF PageOK, OwnMoves, OwnModes
<1> QED
  BY <1>1, <1>2, <1>3, <1>4, <1>5, <1>6, <1>7, <1>8, OwnDoes

LEMMA Disconnecting ==
    ASSUME NEW s, PageOK(s)
    PROVE  PageOK(Disconnect(s)) /\ Leaves(Disconnect(s))
<1> DEFINE r == ResetItemManagement(s)
           u == RestoreLoopback(r)
           t == [u EXCEPT
                    !.running = FALSE, !.mode = "normal", !.peers = {}, !.items = <<>>, !.escaping = FALSE,
                    !.itm = [@ EXCEPT !.list = {}, !.context = None, !.item = None, !.keys = {}, !.key = None],
                    !.piano = None, !.out = <<>>]
<1>1. /\ Shape(r) /\ r.loopback = s.loopback /\ r.restore = s.restore /\ r.world = s.world
      /\ r.can = s.can /\ r.adminActions = s.adminActions /\ r.wb = s.wb /\ r.adm = s.adm
      /\ r.back = s.back /\ r.helpBack = s.helpBack /\ r.palette = s.palette /\ r.text = s.text
  BY DEF PageOK, Shape, PageFields, ItemFields, ResetItemManagement, ResetTargetSelection
<1> HIDE DEF r
<1>2. /\ Shape(u) /\ u.world = s.world
      /\ u.can = s.can /\ u.adminActions = s.adminActions /\ u.wb = s.wb /\ u.adm = s.adm
      /\ u.back = s.back /\ u.helpBack = s.helpBack /\ u.palette = s.palette /\ u.text = s.text
  BY <1>1 DEF Shape, PageFields, RestoreLoopback
<1>3. u.loopback \in BOOLEAN /\ u.restore \in BOOLEAN \cup {None}
  BY <1>1 DEF PageOK, Held, Shape, PageFields, RestoreLoopback
<1> HIDE DEF u
<1>4. /\ Shape(t) /\ t.running = FALSE /\ t.mode = "normal" /\ t.items = <<>> /\ t.piano = None
      /\ t.out = <<>>
  BY <1>2 DEF Shape, PageFields, ItemFields
<1>5. /\ t.world = s.world /\ t.can = s.can /\ t.adminActions = s.adminActions /\ t.wb = s.wb
      /\ t.adm = s.adm /\ t.back = s.back /\ t.helpBack = s.helpBack /\ t.palette = s.palette
      /\ t.text = s.text /\ t.loopback = u.loopback /\ t.restore = u.restore
  BY <1>2 DEF Shape, PageFields
<1>6. t.itm.list = {}
  BY <1>2 DEF Shape, PageFields, ItemFields
<1>7. t = Disconnect(s)
  BY DEF Disconnect, r, u
<1> HIDE DEF t
<1>8. IsMap(t.items, Items, ItemValues)
  <2>1. \A S, V : IsMap(<<>>, S, V)
    BY DEF IsMap
  <2> QED
    BY <1>4, <2>1
<1>9. Held(t)
  BY <1>3, <1>4, <1>5, <1>8 DEF PageOK, Held
<1>10. MenusHeld(t)
  BY <1>4, <1>5, <1>6 DEF PageOK, MenusHeld
<1>11. AskedAbout(t) /\ Ways(t)
  BY <1>4, <1>5 DEF PageOK, AskedAbout, Ways
<1> QED
  BY <1>4, <1>5, <1>7, <1>9, <1>10, <1>11 DEF PageOK, Leaves

LEMMA NormalCommands ==
    ASSUME NEW s, PageOK(s), s.mode \in {"normal", "pianoUse"}, NEW c \in Commands
    PROVE  Does(s, MainModeCommand(s, c))
<1>1. s.mode \notin Asking \cup Lists
  BY DEF Asking, TextModes, Lists, Listing
<1>2. \A x \in Contexts : Does(s, ItemCommand(s, x))
  BY <1>1, ItemCommands
<1>3. Does(s, EscapeCommand(s))
  <2>1. Does(s, Disconnect(s))
    BY Disconnecting DEF Does
  <2>2. Does(s, [s EXCEPT !.escaping = TRUE])
    BY <1>1, OwnCommands
  <2> QED
    BY <2>1, <2>2 DEF EscapeCommand
<1>4. \A mode \in OwnModes : Does(s, To(s, mode))
  BY OwnCommands
<1>5. Does(s, OpenHelpViewer(s, "normal"))
  BY OwnCommands
<1>6. Does(s, OpenAdminMenu(s)) /\ Does(s, OpenBuilder(s))
  BY <1>1, RoleMenus, AmbianceMenus
<1>7. /\ Does(s, OpenNicknameEditor(s)) /\ Does(s, OpenChat(s)) /\ Does(s, ToggleMute(s))
      /\ Does(s, ToggleLoopback(s)) /\ Does(s, OpenMicGainEdit(s)) /\ Does(s, ListItems(s))
      /\ Does(s, ListUsers(s))
  BY <1>1, OwnCommands
<1>8. Does(s, OpenEffectSelect(s)) /\ Does(s, OpenAddItem(s))
  BY <1>4 DEF OpenEffectSelect, OpenAddItem, OwnModes
<1> QED
  BY <1>2, <1>3, <1>5, <1>6, <1>7, <1>8 DEF MainModeCommand, Commands, Contexts

LEMMA PianoCommandsDo ==
    ASSUME NEW s, PageOK(s), s.mode \notin Asking
    PROVE  Does(s, PianoKey(s)) /\ \A c : Does(s, PianoCommand(s, c))
<1>1. Does(s, s) /\ Does(s, StopUseMode(s)) /\ Does(s, OpenHelpViewer(s, "pianoUse"))
  BY OwnCommands
<1>2. Does(s, To(s, "normal"))
  BY OwnCommands DEF OwnModes
<1> QED
  BY <1>1, <1>2 DEF PianoKey, PianoCommand

LEMMA CommandKeys ==
    ASSUME NEW s, PageOK(s)
    PROVE  /\ s.mode = "normal" => \A c \in Commands : Does(s, NormalKey(s, c))
           /\ s.mode \in {"normal", "pianoUse"} => Does(s, OpenCommandPalette(s))
           /\ s.mode = "commandPalette" =>
                 \A c \in s.palette : Does(s, ExecuteCommandPaletteSelection(s, c))
<1>1. ASSUME s.mode = "normal", NEW c \in Commands
      PROVE  Does(s, NormalKey(s, c))
  <2> DEFINE e == s.escaping /\ c = "escape"
             t == [s EXCEPT !.escaping = e]
  <2>1. s.mode \notin Asking
    BY <1>1 DEF Asking, TextModes
  <2>2. Does(s, t) /\ PageOK(t)
    BY <2>1, OwnCommands, OwnDoes DEF Does
  <2>3. /\ t.mode = s.mode /\ t.running = s.running /\ t.hasty = s.hasty /\ t.out = s.out
        /\ t.world = s.world /\ t.can = s.can /\ t.prompt = s.prompt /\ t.adm = s.adm
    BY DEF PageOK, Shape, PageFields
  <2>4. NormalKey(s, c) = MainModeCommand(t, c)
    BY DEF NormalKey
  <2> HIDE DEF t
  <2>5. Does(t, MainModeCommand(t, c))
    BY <1>1, <2>2, <2>3, NormalCommands
  <2> QED
    BY <2>3, <2>4, <2>5, Onwards
<1>2. ASSUME s.mode \in {"normal", "pianoUse"}
      PROVE  Does(s, OpenCommandPalette(s))
  <2> DEFINE commands == IF s.mode = "normal" THEN Available(s)
                         ELSE IF s.piano # None THEN PianoCommands ELSE {}
             t == [s EXCEPT !.palette = commands, !.back = s.mode, !.mode = "commandPalette"]
  <2>1. commands \in {PianoCommands} \cup SUBSET Commands
    BY DEF Available
  <2>2. OwnMoves(s, t)
    <3> HIDE DEF commands
    <3> QED
      BY <1>2, <2>1 DEF PageOK, Shape, PageFields, OwnMoves, OwnModes
  <2>3. Does(s, s)
    BY <1>2, OwnCommands DEF Asking, TextModes
  <2>4. OpenCommandPalette(s) \in {s, t}
    BY DEF OpenCommandPalette
  <2> HIDE DEF t
  <2> QED
    BY <2>2, <2>3, <2>4, OwnDoes
<1>3. ASSUME s.mode = "commandPalette", NEW c \in s.palette
      PROVE  Does(s, ExecuteCommandPaletteSelection(s, c))
  <2> DEFINE t == To(s, s.back)
  <2>1. s.back \in {"normal", "pianoUse"} /\ s.palette \subseteq Commands \cup PianoCommands
    BY DEF PageOK, Ways, Held
  <2>2. OwnMoves(s, t)
    BY <2>1 DEF PageOK, Shape, PageFields, OwnMoves, OwnModes, To
  <2>3. /\ t.mode = s.back /\ t.running = s.running /\ t.hasty = s.hasty /\ t.out = s.out
        /\ t.world = s.world /\ t.can = s.can /\ t.prompt = s.prompt /\ t.adm = s.adm
    BY DEF PageOK, Shape, PageFields, To
  <2> HIDE DEF t
  <2>4. PageOK(t)
    BY <2>2, OwnDoes DEF Does
  <2>5. Does(t, PianoCommand(t, c))
    BY <2>1, <2>3, <2>4, PianoCommandsDo DEF Asking, TextModes
  <2>6. c \notin PianoCommands => Does(t, MainModeCommand(t, c))
    BY <2>1, <2>3, <2>4, NormalCommands
  <2>7. Does(t, ExecuteCommandPaletteSelection(s, c))
    BY <2>5, <2>6 DEF ExecuteCommandPaletteSelection, t
  <2>8. {s.mode, t.mode} \cap (Asking \cup Lists) = {}
    BY <1>3, <2>1, <2>3 DEF Asking, TextModes, Lists, Listing
  <2> QED
    BY <2>3, <2>7, <2>8, Onwards
<1> QED
  BY <1>1, <1>2, <1>3

\* A dialog is closed before its callback runs.
LEMMA DialogClosed ==
    ASSUME NEW s, PageOK(s)
    PROVE  /\ s.mode = "confirmYesNo" =>
                LET t == [s EXCEPT !.confirm = None]
                IN  /\ PageOK(t) /\ t.mode = s.mode /\ t.confirm = None /\ t.prompt = s.prompt
                    /\ t.wb = s.wb
                    /\ \A u : Does(t, u) => Does(s, u)
           /\ s.mode = "optionSelect" =>
                LET t == [s EXCEPT !.option = None]
                IN  /\ PageOK(t) /\ t.mode = s.mode /\ t.option = None /\ t.prompt = s.prompt
                    /\ \A u : Does(t, u) => Does(s, u)
<1>1. ASSUME NEW t, t.mode = s.mode, t.mode \in {"confirmYesNo", "optionSelect"},
             t.mode = "confirmYesNo" => t.confirm = None,
             t.mode = "optionSelect" => t.option = None, t.wb = s.wb, t.adm = s.adm, t.itm = s.itm,
             t.running = s.running, t.hasty = s.hasty, t.out = s.out, t.can = s.can,
             t.adminActions = s.adminActions, t.items = s.items, t.piano = s.piano,
             t.palette = s.palette, t.back = s.back, t.helpBack = s.helpBack,
             t.loopback = s.loopback, t.restore = s.restore, t.world = s.world, t.text = s.text,
             t.prompt = s.prompt, Shape(t)
      PROVE  PageOK(t) /\ \A u : Does(t, u) => Does(s, u)
  <2>1. AskedAbout(t) /\ Ways(t)
    BY <1>1 DEF PageOK, AskedAbout, Ways
  <2>2. Held(t)
    BY <1>1 DEF PageOK, Held
  <2>3. MenusHeld(t)
    BY <1>1 DEF PageOK, MenusHeld
  <2>4. \A u : Does(t, u) => Does(s, u)
    BY <1>1, Onwards
  <2> QED
    BY <1>1, <2>1, <2>2, <2>3, <2>4 DEF PageOK
<1>2. ASSUME s.mode = "confirmYesNo"
      PROVE  LET t == [s EXCEPT !.confirm = None]
             IN  /\ PageOK(t) /\ t.mode = s.mode /\ t.confirm = None /\ t.prompt = s.prompt
                 /\ t.wb = s.wb
                 /\ \A u : Does(t, u) => Does(s, u)
  <2> DEFINE t == [s EXCEPT !.confirm = None]
  <2>1. /\ t.mode = s.mode /\ t.confirm = None /\ t.wb = s.wb /\ t.adm = s.adm /\ t.itm = s.itm
        /\ t.running = s.running /\ t.hasty = s.hasty /\ t.out = s.out /\ t.can = s.can
        /\ t.adminActions = s.adminActions /\ t.items = s.items /\ t.piano = s.piano
        /\ t.palette = s.palette /\ t.back = s.back /\ t.helpBack = s.helpBack
        /\ t.loopback = s.loopback /\ t.restore = s.restore /\ t.world = s.world
        /\ t.text = s.text /\ t.prompt = s.prompt /\ Shape(t)
    BY DEF PageOK, Shape, PageFields
  <2> HIDE DEF t
  <2>2. PageOK(t) /\ \A u : Does(t, u) => Does(s, u)
    BY <1>1, <1>2, <2>1
  <2> QED
    BY <2>1, <2>2 DEF t
<1>3. ASSUME s.mode = "optionSelect"
      PROVE  LET t == [s EXCEPT !.option = None]
             IN  /\ PageOK(t) /\ t.mode = s.mode /\ t.option = None /\ t.prompt = s.prompt
                 /\ \A u : Does(t, u) => Does(s, u)
  <2> DEFINE t == [s EXCEPT !.option = None]
  <2>1. /\ t.mode = s.mode /\ t.option = None /\ t.wb = s.wb /\ t.adm = s.adm /\ t.itm = s.itm
        /\ t.running = s.running /\ t.hasty = s.hasty /\ t.out = s.out /\ t.can = s.can
        /\ t.adminActions = s.adminActions /\ t.items = s.items /\ t.piano = s.piano
        /\ t.palette = s.palette /\ t.back = s.back /\ t.helpBack = s.helpBack
        /\ t.loopback = s.loopback /\ t.restore = s.restore /\ t.world = s.world
        /\ t.text = s.text /\ t.prompt = s.prompt /\ Shape(t)
    BY DEF PageOK, Shape, PageFields
  <2> HIDE DEF t
  <2>2. PageOK(t) /\ \A u : Does(t, u) => Does(s, u)
    BY <1>1, <1>3, <2>1
  <2> QED
    BY <2>1, <2>2 DEF t
<1> QED
  BY <1>2, <1>3

LEMMA DialogKeys ==
    ASSUME NEW s, PageOK(s)
    PROVE  /\ s.mode = "confirmYesNo" => \A yes \in BOOLEAN : Does(s, ConfirmationAnswer(s, yes))
           /\ s.mode = "optionSelect" =>
                Does(s, OptionCancel(s)) /\ \A v \in Presets : Does(s, OptionSelect(s, v))
<1>1. Does(s, To(s, "normal"))
  BY OwnCommands DEF OwnModes
<1>2. ASSUME s.mode = "confirmYesNo", NEW yes \in BOOLEAN
      PROVE  Does(s, ConfirmationAnswer(s, yes))
  <2> DEFINE t == [s EXCEPT !.confirm = None]
             r == s.confirm
  <2>1. CASE s.confirm = None
    BY <1>1, <2>1 DEF ConfirmationAnswer
  <2>2. CASE s.confirm # None
    <3>1. /\ PageOK(t) /\ t.mode = "confirmYesNo" /\ t.confirm = None /\ t.prompt = s.prompt
          /\ t.wb = s.wb /\ \A u : Does(t, u) => Does(s, u)
      BY <1>2, DialogClosed
    <3>2. r.id = s.prompt /\ (r.of = "ambianceDelete" => s.wb.ambiance = r.id)
      BY <1>2, <2>2 DEF PageOK, AskedAbout
    <3>3. ConfirmationAnswer(s, yes) = IF yes THEN Confirmed(t, r) ELSE ConfirmCancelled(t, r)
      BY <2>2 DEF ConfirmationAnswer
    <3> HIDE DEF t, r
    <3>4. Does(t, ConfirmCancelled(t, r))
      BY <3>1, WallMenus, AmbianceMenus, ManagementMenus DEF ConfirmCancelled, WallDialogCancelled
    <3>5. Does(t, WallDeleteConfirmed(t, r)) /\ Does(t, ItemConfirmed(t, r))
      BY <3>1, <3>2, WallChanges, ManagementMenus
    <3>6. r.of = "ambianceDelete" => Does(t, AmbianceDeleteConfirmed(t, r))
      BY <3>1, <3>2, AmbianceChanges
    <3>7. Does(t, Confirmed(t, r))
      BY <3>5, <3>6 DEF Confirmed
    <3> QED
      BY <3>1, <3>3, <3>4, <3>7
  <2> QED
    BY <2>1, <2>2
<1>3. ASSUME s.mode = "optionSelect", NEW v \in Presets
      PROVE  Does(s, OptionCancel(s)) /\ Does(s, OptionSelect(s, v))
  <2> DEFINE t == [s EXCEPT !.option = None]
             r == s.option
  <2>1. CASE s.option = None
    BY <1>1, <2>1 DEF OptionCancel, OptionSelect
  <2>2. CASE s.option # None
    <3>1. /\ PageOK(t) /\ t.mode = "optionSelect" /\ t.option = None /\ t.prompt = s.prompt
          /\ \A u : Does(t, u) => Does(s, u)
      BY <1>3, DialogClosed
    <3>2. r.id = s.prompt
      BY <1>3, <2>2 DEF PageOK, AskedAbout
    <3>3. OptionCancel(s) \in {WallDialogCancelled(t), AmbianceDialogCancelled(t), ItemOptionCancelled(t)}
      BY <2>2 DEF OptionCancel
    <3>4. OptionSelect(s, v) \in {WallTypeChosen(t, r, v), WallOrientationChosen(t, r),
                                  AmbianceTypeChosen(t, r, v), ItemOptionChosen(t, r, v)}
      BY <2>2 DEF OptionSelect
    <3> HIDE DEF t, r
    <3>5. /\ Does(t, WallDialogCancelled(t)) /\ Does(t, AmbianceDialogCancelled(t))
          /\ Does(t, ItemOptionCancelled(t))
      BY <3>1, WallMenus, AmbianceMenus, ItemPropertyMenus DEF WallDialogCancelled
    <3>6. Does(t, WallTypeChosen(t, r, v)) /\ Does(t, WallOrientationChosen(t, r))
      BY <3>1, <3>2, WallChanges
    <3>7. Does(t, AmbianceTypeChosen(t, r, v)) /\ Does(t, ItemOptionChosen(t, r, v))
      BY <3>1, <3>2, AmbianceChanges, ItemPropertyMenus
    <3> QED
      BY <3>1, <3>3, <3>4, <3>5, <3>6, <3>7
  <2> QED
    BY <2>1, <2>2
<1>4. 0 \in Presets
  BY BoundsAssumption DEF Presets
<1> QED
  BY <1>2, <1>3, <1>4

-----------------------------------------------------------------------------
(* What each mode's keys do. *)

LEMMA PickKeys ==
    ASSUME NEW s, PageOK(s)
    PROVE  /\ Does(s, ChatEnter(s)) /\ Does(s, NicknameEnter(s)) /\ Does(s, EffectSelectEnter(s))
           /\ Does(s, MicGainSubmit(s))
           /\ \A peer, near : Does(s, ListUsersEnter(s, peer, near))
           /\ \A id : Does(s, ListItemsEnter(s, id))
           /\ s.mode \in TextModes => \A text \in Texts : Does(s, ApplyTextInputEdit(s, text))
<1>1. Does(s, To(s, "normal")) /\ Does(s, RestoreLoopback(To(s, "normal"))) /\ Does(s, s)
  BY OwnCommands, ManagementMenus DEF OwnModes
<1>2. s.mode \in TextModes => s.mode \notin Lists
  BY DEF TextModes, Lists, Listing
<1>3. Does(s, ChatEnter(s)) /\ Does(s, NicknameEnter(s)) /\ Does(s, EffectSelectEnter(s))
  BY <1>1 DEF ChatEnter, NicknameEnter, EffectSelectEnter
<1>4. Does(s, MicGainSubmit(s))
  BY <1>1 DEF MicGainSubmit
<1>5. \A peer, near : Does(s, ListUsersEnter(s, peer, near))
  BY <1>1 DEF ListUsersEnter
<1>6. \A id : Does(s, ListItemsEnter(s, id))
  BY <1>1 DEF ListItemsEnter
<1> QED
  BY <1>2, <1>3, <1>4, <1>5, <1>6, Typing

LEMMA EscapeDoes ==
    ASSUME NEW s, PageOK(s)
    PROVE  Does(s, EscapeKey(s))
<1>1. CASE s.mode = "normal"
  <2>1. Does(s, MainModeCommand(s, "escape"))
    BY <1>1, NormalCommands DEF Commands
  <2>2. EscapeCommand(s) = MainModeCommand(s, "escape")
    BY DEF MainModeCommand
  <2> QED
    BY <1>1, <2>1, <2>2 DEF EscapeKey
<1>2. CASE s.mode = "pianoUse"
  BY <1>2, PianoCommandsDo DEF EscapeKey, Asking, TextModes
<1>3. CASE s.mode \in {"commandPalette", "helpView", "micGainEdit"}
  BY <1>3, OwnCommands DEF EscapeKey
<1>4. CASE s.mode \in {"confirmYesNo", "optionSelect"}
  BY <1>4, DialogKeys DEF EscapeKey
<1>5. CASE s.mode \in {"selectItem", "itemProperties", "itemPropertyEdit", "itemManageOptions",
                       "itemManageTransferUser"}
  BY <1>5, SelectMenu, ItemPropertyMenus, ManagementMenus DEF EscapeKey
<1>6. CASE s.mode \in {"adminRolePermissionList", "adminRoleDeleteReplacement", "adminRoleNameEdit"}
  <2>1. s.mode \notin Lists
    BY <1>6 DEF Lists, Listing
  <2> QED
    BY <1>6, <2>1, RoleMenus DEF EscapeKey, RolePermissionListEscape, ReplacementEscape
<1>7. CASE s.mode \in {"adminUserList", "adminUserRoleSelect", "adminUserDeleteConfirm"}
  BY <1>7, UserMenus DEF EscapeKey
<1>8. CASE s.mode \in {"worldBuilderPreset", "worldBuilderDirection", "worldBuilderWallList",
                       "worldBuilderWallActions", "worldBuilderPropertyList",
                       "worldBuilderPropertyEdit"}
  <2>1. /\ \A mode \in {"worldBuilderPreset", "worldBuilderWallActions", "worldBuilderPropertyList"} :
              Does(s, To(s, mode))
        /\ s.mode = "worldBuilderWallActions" => Does(s, OpenWallList(s))
        /\ Does(s, OpenBuilder(s))
    BY WallMenus, AmbianceMenus
  <2> QED
    BY <1>8, <2>1 DEF EscapeKey, PresetEscape, DirectionEscape, WallListEscape, WallActionsEscape,
                      PropertyListEscape, PropertyEditEscape
<1>9. CASE s.mode \in {"worldBuilderAmbianceList", "worldBuilderAmbianceActions",
                       "worldBuilderAmbianceEdit"}
  BY <1>9, AmbianceMenus DEF EscapeKey, AmbianceListEscape
<1>10. Does(s, To(s, "normal"))
  BY OwnCommands DEF OwnModes
<1> QED
  BY <1>1, <1>2, <1>3, <1>4, <1>5, <1>6, <1>7, <1>8, <1>9, <1>10 DEF EscapeKey

-----------------------------------------------------------------------------
(* Escape. *)

\* The modes from which one, two, ... Escapes lead to normal mode.
FromOne == {"normal", "pianoUse", "micGainEdit", "selectItem", "itemProperties",
            "itemManageOptions", "adminMenu", "adminRoleList", "worldBuilder"}
FromTwo == FromOne \cup
    {"commandPalette", "helpView", "itemPropertyEdit", "itemManageTransferUser",
     "adminRolePermissionList", "adminUserList", "adminRoleNameEdit", "worldBuilderPreset",
     "worldBuilderWallList", "worldBuilderAmbianceList"}
FromThree == FromTwo \cup
    {"adminRoleDeleteReplacement", "adminUserRoleSelect", "adminUserDeleteConfirm",
     "worldBuilderDirection", "worldBuilderWallActions", "worldBuilderAmbianceActions"}
FromFour == FromThree \cup
    {"confirmYesNo", "optionSelect", "worldBuilderPropertyList", "worldBuilderAmbianceEdit"}

Back(s, t, modes) == t.can = s.can /\ t.out = s.out /\ t.mode \in modes
LEMMA BuilderBack ==
    ASSUME NEW s, Shape(s)
    PROVE  /\ Back(s, HandleStaleSelection(s), {s.mode, "worldBuilder"})
           /\ Back(s, OpenBuilder(s), {s.mode, "worldBuilder"})
           /\ \A mode : Back(s, To(s, mode), {mode})
           /\ Back(s, OpenWallList(s), {s.mode, "worldBuilder", "worldBuilderWallList"})
           /\ Back(s, OpenAmbianceList(s), {"normal", "worldBuilder", "worldBuilderAmbianceList"})
           /\ May(s, "structure") => /\ Back(s, HandleStaleSelection(s), {"worldBuilder"})
                                     /\ Back(s, OpenBuilder(s), {"worldBuilder"})
                                     /\ Back(s, OpenWallList(s), {"worldBuilder", "worldBuilderWallList"})
           /\ Back(s, [s EXCEPT !.wb.edited = None, !.mode = "worldBuilderAmbianceActions"],
                   {"worldBuilderAmbianceActions"})
<1> USE DEF Shape, PageFields, BuilderFields, Back, May
<1>1. /\ Back(s, HandleStaleSelection(s), {s.mode, "worldBuilder"})
      /\ May(s, "structure") => Back(s, HandleStaleSelection(s), {"worldBuilder"})
  BY DEF HandleStaleSelection, OpenBuilder, To
<1>2. /\ Back(s, OpenBuilder(s), {s.mode, "worldBuilder"})
      /\ May(s, "structure") => Back(s, OpenBuilder(s), {"worldBuilder"})
  BY DEF OpenBuilder, To
<1>3. \A mode : Back(s, To(s, mode), {mode})
  BY DEF To
<1>4. /\ Back(s, OpenWallList(s), {s.mode, "worldBuilder", "worldBuilderWallList"})
      /\ May(s, "structure") => Back(s, OpenWallList(s), {"worldBuilder", "worldBuilderWallList"})
  <2> DEFINE near == NearbyWalls(s)
  <2> HIDE DEF near
  <2> QED
    BY DEF OpenWallList, OpenBuilder, To, near
<1>5. Back(s, OpenAmbianceList(s), {"normal", "worldBuilder", "worldBuilderAmbianceList"})
  BY DEF OpenAmbianceList, Refused, To
<1>6. Back(s, [s EXCEPT !.wb.edited = None, !.mode = "worldBuilderAmbianceActions"],
           {"worldBuilderAmbianceActions"})
  OBVIOUS
<1> QED
  BY <1>1, <1>2, <1>3, <1>4, <1>5, <1>6

\* Where an Escape leads that did not come from under World Builder's root.
Above == {"normal", "pianoUse", "itemManageOptions", "itemProperties", "adminMenu",
          "adminRoleList", "adminRolePermissionList", "adminUserList"}
Able(s) == UnderTheRoot(s) => May(s, "structure")
Down(s, t) ==
    /\ Back(s, t, {t.mode})
    /\ Able(s) =>
          /\ UnderTheRoot(s) \/ t.mode \in Above
          /\ t.mode \in FromFour
          /\ s.mode \in FromFour => t.mode \in FromThree
          /\ s.mode \in FromThree => t.mode \in FromTwo
          /\ s.mode \in FromTwo => t.mode \in FromOne
          /\ s.mode \in FromOne => t.mode = "normal"
LEMMA Deeper ==
    ASSUME NEW s, NEW t, Back(s, t, {t.mode}),
           Able(s) => UnderTheRoot(s) \/ t.mode \in Above,
           Able(s) =>
              \/ t.mode = "normal"
              \/ t.mode \in FromOne /\ s.mode \notin FromOne
              \/ t.mode \in FromTwo /\ s.mode \notin FromTwo
              \/ t.mode \in FromThree /\ s.mode \notin FromThree
              \/ t.mode \in FromFour /\ s.mode \notin FromFour
    PROVE  Down(s, t)
<1>1. FromOne \subseteq FromTwo
  BY DEF FromTwo
<1>2. FromTwo \subseteq FromThree
  BY DEF FromThree
<1>3. FromThree \subseteq FromFour
  BY DEF FromFour
<1>4. "normal" \in FromOne
  BY DEF FromOne
<1> QED
  BY <1>1, <1>2, <1>3, <1>4 DEF Down

LEMMA EscapeBack ==
    ASSUME NEW s, PageOK(s), s.mode # "normal"
    PROVE  Down(s, EscapeKey(s))
<1> USE DEF Back
<1>1. CASE s.mode \in {"pianoUse", "commandPalette", "helpView", "micGainEdit"}
  <2>1. Back(s, PianoCommand(s, "stopUseMode"), {"normal"})
    BY DEF PageOK, Shape, PageFields, PianoCommand, StopUseMode, To
  <2>2. Back(s, PaletteEscape(s), {"normal", "pianoUse"}) /\ Back(s, HelpViewEscape(s), {"normal", "pianoUse"})
    BY DEF PageOK, Shape, PageFields, Ways, PaletteEscape, HelpViewEscape, To
  <2>3. Back(s, RestoreLoopback(To(s, "normal")), {"normal"})
    BY DEF PageOK, Shape, PageFields, RestoreLoopback, To
  <2> QED
    BY <1>1, <2>1, <2>2, <2>3 DEF EscapeKey, Down, Above, FromOne, FromTwo, FromThree, FromFour
<1>2. CASE s.mode \in {"confirmYesNo", "optionSelect"}
  <2> DEFINE c == [s EXCEPT !.confirm = None]
             o == [s EXCEPT !.option = None]
             Left == {"worldBuilder", "worldBuilderWallActions", "worldBuilderAmbianceActions",
                      "itemManageOptions", "itemProperties"}
             OfItems == {"itemManageOptions", "itemProperties"}
  <2>1. Shape(c) /\ Shape(o) /\ Back(s, c, {s.mode}) /\ Back(s, o, {s.mode})
    BY DEF PageOK, Shape, PageFields
  <2>2. ASSUME NEW d, Shape(d)
        PROVE  /\ Back(d, WallDialogCancelled(d), Left)
               /\ Back(d, AmbianceDialogCancelled(d), Left \cup {d.mode})
               /\ May(d, "structure") => Back(d, AmbianceDialogCancelled(d), Left)
               /\ Back(d, ItemConfirmCancelled(d), OfItems) /\ Back(d, ItemOptionCancelled(d), OfItems)
    <3>1. Back(d, WallDialogCancelled(d), Left)
      BY <2>2 DEF Shape, PageFields, WallDialogCancelled, To
    <3>2. /\ Back(d, AmbianceDialogCancelled(d), Left \cup {d.mode})
          /\ May(d, "structure") => Back(d, AmbianceDialogCancelled(d), Left)
      BY <2>2, BuilderBack DEF AmbianceDialogCancelled
    <3>3. Back(d, ItemConfirmCancelled(d), OfItems)
      BY <2>2 DEF Shape, PageFields, ItemFields, ItemConfirmCancelled, BackToOptions,
                  ResetTargetSelection, To
    <3>4. Back(d, ItemOptionCancelled(d), OfItems)
      BY <2>2 DEF Shape, PageFields, ItemFields, ItemOptionCancelled
    <3> QED
      BY <3>1, <3>2, <3>3, <3>4
  <2>3. Back(s, To(s, "normal"), {"normal"})
    BY BuilderBack DEF PageOK
  <2>4. /\ ConfirmationAnswer(s, FALSE) \in {To(s, "normal"), WallDialogCancelled(c),
                                             AmbianceDialogCancelled(c), ItemConfirmCancelled(c)}
        /\ s.mode = "confirmYesNo" /\ ~UnderTheRoot(s) =>
              ConfirmationAnswer(s, FALSE) \in {To(s, "normal"), ItemConfirmCancelled(c)}
    BY DEF ConfirmationAnswer, ConfirmCancelled, UnderTheRoot
  <2>5. /\ OptionCancel(s) \in {To(s, "normal"), WallDialogCancelled(o),
                                AmbianceDialogCancelled(o), ItemOptionCancelled(o)}
        /\ s.mode = "optionSelect" /\ ~UnderTheRoot(s) =>
              OptionCancel(s) \in {To(s, "normal"), ItemOptionCancelled(o)}
    BY DEF OptionCancel, UnderTheRoot
  <2>6. /\ s.mode = "confirmYesNo" => EscapeKey(s) = ConfirmationAnswer(s, FALSE)
        /\ s.mode = "optionSelect" => EscapeKey(s) = OptionCancel(s)
    BY DEF EscapeKey
  <2>7. ASSUME NEW d \in {c, o}, NEW t \in {To(s, "normal"), WallDialogCancelled(d), AmbianceDialogCancelled(d),
                                    ItemConfirmCancelled(d), ItemOptionCancelled(d)}
        PROVE  Back(s, t, {t.mode}) /\ (May(s, "structure") => t.mode \in Left \cup {"normal"})
    <3> HIDE DEF c, o
    <3>1. Shape(d) /\ Back(s, d, {s.mode})
      BY <2>1, <2>7
    <3>2. OfItems \subseteq Left
      OBVIOUS
    <3> HIDE DEF Left, OfItems
    <3> QED
      BY <2>2, <2>3, <2>7, <3>1, <3>2 DEF May
  <2>9. ASSUME NEW t \in {To(s, "normal"), ItemConfirmCancelled(c), ItemOptionCancelled(o)}
        PROVE  t.mode \in OfItems \cup {"normal"}
    <3> HIDE DEF c, o, OfItems
    <3> QED
      BY <2>1, <2>2, <2>3, <2>9
  <2> HIDE DEF c, o
  <2>8. LET t == EscapeKey(s)
        IN  /\ Back(s, t, {t.mode}) /\ (May(s, "structure") => t.mode \in Left \cup {"normal"})
            /\ ~UnderTheRoot(s) => t.mode \in OfItems \cup {"normal"}
    BY <1>2, <2>4, <2>5, <2>6, <2>7, <2>9
  <2> DEFINE t == EscapeKey(s)
  <2> HIDE DEF t
  <2>10. /\ Back(s, t, {t.mode})
         /\ Able(s) => t.mode \in Left \cup {"normal"} /\ (UnderTheRoot(s) \/ t.mode \in OfItems \cup {"normal"})
    BY <2>8 DEF Able, t
  <2>11. Down(s, t)
    BY <1>2, <2>10 DEF Down, Above, FromOne, FromTwo, FromThree, FromFour
  <2> QED
    BY <2>11 DEF t
<1>3. CASE s.mode \in {"selectItem", "itemProperties", "itemPropertyEdit", "itemManageOptions",
                       "itemManageTransferUser"}
  <2> USE DEF PageOK, Shape, PageFields, ItemFields
  <2>1. Back(s, SelectItemEscape(s), {"normal"})
    BY DEF SelectItemEscape
  <2>2. Back(s, ItemPropertiesEscape(s), {"normal"})
    BY DEF ItemPropertiesEscape, ItemIsGone
  <2>3. Back(s, ItemPropertyEditEscape(s), {"normal", "itemProperties"})
    BY DEF ItemPropertyEditEscape, ItemIsGone, To
  <2>4. Back(s, ItemManageOptionsEscape(s), {"normal"})
    BY DEF ItemManageOptionsEscape, LeaveManagement, ResetItemManagement, ResetTargetSelection, To
  <2>5. Back(s, TransferUserEscape(s), {"itemManageOptions"})
    BY DEF TransferUserEscape, BackToOptions, ResetTargetSelection, To
  <2> HIDE DEF PageOK, Shape, PageFields, ItemFields
  <2> QED
    BY <1>3, <2>1, <2>2, <2>3, <2>4, <2>5, ZenonT(60)
    DEF EscapeKey, Down, Above, FromOne, FromTwo, FromThree, FromFour
<1>4. CASE s.mode \in {"adminRolePermissionList", "adminRoleDeleteReplacement", "adminRoleNameEdit",
                       "adminUserList", "adminUserRoleSelect", "adminUserDeleteConfirm"}
  <2> USE DEF PageOK, Shape, PageFields, AdminFields
  <2>1. Back(s, RolePermissionListEscape(s), {"adminRoleList"})
    BY DEF RolePermissionListEscape, To
  <2>2. Back(s, ReplacementEscape(s), {"adminRolePermissionList"})
    BY DEF ReplacementEscape, To
  <2>3. Back(s, RoleNameEscape(s), {"adminRoleList"})
    BY DEF RoleNameEscape
  <2>4. Back(s, UserListEscape(s), {"normal", "adminMenu"})
    BY DEF UserListEscape
  <2>5. Back(s, UserRoleEscape(s), {"normal", "adminUserList"})
    BY DEF UserRoleEscape, To
  <2>6. Back(s, UserDeleteAnswer(s, FALSE), {"adminUserList"})
    BY DEF UserDeleteAnswer, To
  <2> HIDE DEF PageOK, Shape, PageFields, AdminFields
  <2> QED
    BY <1>4, <2>1, <2>2, <2>3, <2>4, <2>5, <2>6, ZenonT(60)
    DEF EscapeKey, Down, Above, FromOne, FromTwo, FromThree, FromFour
<1>5. CASE s.mode \in {"worldBuilderPreset", "worldBuilderDirection", "worldBuilderWallList",
                       "worldBuilderWallActions", "worldBuilderPropertyList", "worldBuilderPropertyEdit"}
  <2>1. /\ s.mode \in {"worldBuilderPreset", "worldBuilderWallList"} => EscapeKey(s) = OpenBuilder(s)
        /\ s.mode = "worldBuilderDirection" => EscapeKey(s) = To(s, "worldBuilderPreset")
        /\ s.mode = "worldBuilderWallActions" => EscapeKey(s) = OpenWallList(s)
        /\ s.mode = "worldBuilderPropertyList" => EscapeKey(s) = To(s, "worldBuilderWallActions")
        /\ s.mode = "worldBuilderPropertyEdit" => EscapeKey(s) = To(s, "worldBuilderPropertyList")
    BY DEF EscapeKey, PresetEscape, DirectionEscape, WallListEscape, WallActionsEscape,
           PropertyListEscape, PropertyEditEscape
  <2> DEFINE t == EscapeKey(s)
  <2> HIDE DEF t
  <2>2. /\ s.mode \in {"worldBuilderPreset", "worldBuilderWallList"} =>
             Back(s, t, {s.mode, "worldBuilder"}) /\ (May(s, "structure") => Back(s, t, {"worldBuilder"}))
        /\ s.mode = "worldBuilderDirection" => Back(s, t, {"worldBuilderPreset"})
        /\ s.mode = "worldBuilderWallActions" =>
             /\ Back(s, t, {s.mode, "worldBuilder", "worldBuilderWallList"})
             /\ May(s, "structure") => Back(s, t, {"worldBuilder", "worldBuilderWallList"})
        /\ s.mode = "worldBuilderPropertyList" => Back(s, t, {"worldBuilderWallActions"})
        /\ s.mode = "worldBuilderPropertyEdit" => Back(s, t, {"worldBuilderPropertyList"})
    BY <2>1, BuilderBack DEF PageOK, t
  <2>6. UnderTheRoot(s) /\ (Able(s) => May(s, "structure"))
    BY <1>5 DEF UnderTheRoot, Able
  <2>3. CASE s.mode \in {"worldBuilderPreset", "worldBuilderWallList"}
    <3>1. Back(s, t, {t.mode}) /\ (May(s, "structure") => t.mode = "worldBuilder")
      BY <2>2, <2>3
    <3>2. Down(s, t)
      BY <2>3, <2>6, <3>1, Deeper DEF FromOne, FromTwo, FromThree
    <3> QED
      BY <3>2 DEF t
  <2>4. CASE s.mode = "worldBuilderWallActions"
    <3>1. Back(s, t, {t.mode}) /\ (May(s, "structure") => t.mode \in {"worldBuilder", "worldBuilderWallList"})
      BY <2>2, <2>4
    <3>2. Down(s, t)
      BY <2>4, <2>6, <3>1, Deeper DEF FromOne, FromTwo, FromThree
    <3> QED
      BY <3>2 DEF t
  <2>5. CASE s.mode \in {"worldBuilderDirection", "worldBuilderPropertyList", "worldBuilderPropertyEdit"}
    <3>1. /\ s.mode = "worldBuilderDirection" => Down(s, t)
          /\ s.mode = "worldBuilderPropertyList" => Down(s, t)
          /\ s.mode = "worldBuilderPropertyEdit" => Down(s, t)
      <4>1. s.mode = "worldBuilderDirection" => Down(s, t)
        BY <2>2, <2>6, Deeper DEF FromOne, FromTwo
      <4>2. s.mode = "worldBuilderPropertyList" => Down(s, t)
        BY <2>2, <2>6, Deeper DEF FromOne, FromTwo, FromThree
      <4>3. s.mode = "worldBuilderPropertyEdit" => Down(s, t)
        <5>1. "worldBuilderPropertyEdit" \notin FromFour /\ "worldBuilderPropertyList" \in FromFour
          BY DEF FromOne, FromTwo, FromThree, FromFour
        <5> QED
          BY <2>2, <2>6, <5>1, Deeper
      <4> QED
        BY <4>1, <4>2, <4>3
    <3> QED
      BY <2>5, <3>1 DEF t
  <2> QED
    BY <1>5, <2>3, <2>4, <2>5
<1>6. CASE s.mode \in {"worldBuilderAmbianceList", "worldBuilderAmbianceActions", "worldBuilderAmbianceEdit"}
  <2>1. Shape(s)
    BY DEF PageOK
  <2>2. AmbianceListEscape(s) = OpenBuilder(s)
    BY DEF AmbianceListEscape
  <2>3. AmbianceActionsEscape(s) \in {HandleStaleSelection(s), OpenAmbianceList(s)}
    BY DEF AmbianceActionsEscape
  <2>4. AmbianceEditEscape(s) \in {HandleStaleSelection(s),
           [s EXCEPT !.wb.edited = None, !.mode = "worldBuilderAmbianceActions"]}
    BY DEF AmbianceEditEscape
  <2> DEFINE t == EscapeKey(s)
  <2>5. /\ s.mode = "worldBuilderAmbianceList" => t = OpenBuilder(s)
        /\ s.mode = "worldBuilderAmbianceActions" => t \in {HandleStaleSelection(s), OpenAmbianceList(s)}
        /\ s.mode = "worldBuilderAmbianceEdit" => t \in {HandleStaleSelection(s),
              [s EXCEPT !.wb.edited = None, !.mode = "worldBuilderAmbianceActions"]}
    BY <2>2, <2>3, <2>4 DEF EscapeKey
  <2> HIDE DEF t
  <2>8. /\ Back(s, OpenBuilder(s), {s.mode, "worldBuilder"})
        /\ Back(s, OpenAmbianceList(s), {"normal", "worldBuilder", "worldBuilderAmbianceList"})
        /\ Back(s, HandleStaleSelection(s), {s.mode, "worldBuilder"})
        /\ Back(s, [s EXCEPT !.wb.edited = None, !.mode = "worldBuilderAmbianceActions"],
                {"worldBuilderAmbianceActions"})
        /\ May(s, "structure") => Back(s, OpenBuilder(s), {"worldBuilder"}) /\ Back(s, HandleStaleSelection(s), {"worldBuilder"})
    BY <2>1, BuilderBack
  <2> DEFINE u == [s EXCEPT !.wb.edited = None, !.mode = "worldBuilderAmbianceActions"]
  <2> HIDE DEF u
  <2>9. t = u => Back(s, t, {"worldBuilderAmbianceActions"})
    BY <2>8 DEF u
  <2>6. /\ Back(s, t, {s.mode, "normal", "worldBuilder", "worldBuilderAmbianceList", "worldBuilderAmbianceActions"})
        /\ May(s, "structure") /\ s.mode = "worldBuilderAmbianceList" => Back(s, t, {"worldBuilder"})
        /\ May(s, "structure") /\ s.mode = "worldBuilderAmbianceActions" =>
              Back(s, t, {"normal", "worldBuilder", "worldBuilderAmbianceList"})
        /\ May(s, "structure") /\ s.mode = "worldBuilderAmbianceEdit" =>
              Back(s, t, {"worldBuilder", "worldBuilderAmbianceActions"})
    BY <1>6, <2>5, <2>8, <2>9 DEF u
  <2>10. UnderTheRoot(s) /\ (Able(s) => May(s, "structure"))
    BY <1>6 DEF UnderTheRoot, Able
  <2>7. Down(s, t)
    BY <1>6, <2>6, <2>10 DEF Down, FromOne, FromTwo, FromThree, FromFour
  <2> QED
    BY <2>7 DEF t
<1>7. CASE s.mode \in {"adminMenu", "adminRoleList", "worldBuilder"} \/ s.mode \notin FromFour \cup {"worldBuilderPropertyEdit"}
  <2>1. Back(s, To(s, "normal"), {"normal"})
    BY BuilderBack DEF PageOK
  <2>2. CASE s.mode \in {"adminMenu", "adminRoleList", "worldBuilder"}
    <3>1. EscapeKey(s) = To(s, "normal")
      BY <2>2 DEF EscapeKey
    <3> QED
      BY <2>1, <3>1, Deeper DEF Above, FromOne, FromTwo, FromThree
  <2>3. CASE s.mode \notin FromFour /\ s.mode # "worldBuilderPropertyEdit"
    <3> DEFINE t == EscapeKey(s)
    <3>1. t = To(s, "normal")
      <4>1. s.mode \notin {"normal", "pianoUse", "commandPalette", "helpView", "micGainEdit",
              "confirmYesNo", "optionSelect", "selectItem", "itemProperties", "itemPropertyEdit",
              "itemManageOptions", "itemManageTransferUser", "adminRolePermissionList",
              "adminRoleDeleteReplacement", "adminUserList", "adminUserRoleSelect",
              "adminUserDeleteConfirm", "adminRoleNameEdit", "worldBuilderPreset",
              "worldBuilderDirection", "worldBuilderWallList", "worldBuilderWallActions",
              "worldBuilderPropertyList", "worldBuilderPropertyEdit",
              "worldBuilderAmbianceList", "worldBuilderAmbianceActions", "worldBuilderAmbianceEdit"}
        BY <2>3 DEF FromOne, FromTwo, FromThree, FromFour
      <4> QED
        BY <4>1 DEF EscapeKey
    <3> HIDE DEF t
    <3>2. Down(s, t)
      BY <2>1, <3>1, Deeper DEF Above, FromOne, FromTwo, FromThree
    <3> QED
      BY <3>2 DEF t
  <2> QED
    BY <1>7, <2>2, <2>3
<1> QED
  BY <1>1, <1>2, <1>3, <1>4, <1>5, <1>6, <1>7, SMTT(30) DEF FromOne, FromTwo, FromThree, FromFour

\* Each Escape leads one menu further out.
LEMMA EscapesHome ==
    ASSUME PageOK(page), Able(page)
    PROVE  EscapesLeadOut
<1> DEFINE Fine(s) == PageOK(s) /\ Able(s)
<1>1. ASSUME NEW s, Fine(s), ~AtHome(s)
      PROVE  Fine(EscapeKey(s)) /\ Down(s, EscapeKey(s))
  <2>1. PageOK(EscapeKey(s))
    BY <1>1, EscapeDoes DEF Does
  <2>2. Down(s, EscapeKey(s))
    BY <1>1, EscapeBack DEF AtHome
  <2>3. EscapeKey(s).can = s.can /\ (UnderTheRoot(s) \/ EscapeKey(s).mode \in Above)
    BY <1>1, <2>2 DEF Down, Back
  <2>4. EscapeKey(s).mode \in Above => ~UnderTheRoot(EscapeKey(s))
    BY DEF Above, UnderTheRoot
  <2> QED
    BY <1>1, <2>1, <2>2, <2>3, <2>4 DEF May, Able
<1>2. ASSUME NEW s, Fine(s), ~AtHome(s)
      PROVE  EscapeKey(s).mode \in FromFour
  BY <1>1, <1>2 DEF Down
<1> HIDE DEF Fine
<1>3. ASSUME NEW s, Fine(s), s.mode \in FromOne PROVE WithinOne(s)
  BY <1>1, <1>3 DEF WithinOne, AtHome, Down, Fine
<1>4. ASSUME NEW s, Fine(s), s.mode \in FromTwo PROVE WithinTwo(s)
  BY <1>1, <1>3, <1>4 DEF WithinTwo, Down, Fine
<1>5. ASSUME NEW s, Fine(s), s.mode \in FromThree PROVE WithinThree(s)
  BY <1>1, <1>4, <1>5 DEF WithinThree, Down, Fine
<1>6. ASSUME NEW s, Fine(s), s.mode \in FromFour PROVE WithinFour(s)
  BY <1>1, <1>5, <1>6 DEF WithinFour, Down, Fine
<1> QED
  BY <1>1, <1>2, <1>6 DEF EscapesLeadOut, Fine

-----------------------------------------------------------------------------
(* The fields of closed menus; the key actions as a whole. *)

\* What forgetting the fields of closed menus leaves.
Settled(s, t) ==
    /\ t.mode = s.mode /\ t.running = s.running /\ t.hasty = s.hasty /\ t.out = s.out
    /\ t.world = s.world /\ t.can = s.can /\ t.adm.pending = s.adm.pending
    /\ t.adm.mutation = s.adm.mutation
    /\ s.mode \in Lists => t.adm.users = s.adm.users
LEMMA ShownOK ==
    ASSUME NEW s, PageOK(s)
    PROVE  PageOK(Shown(s)) /\ Settled(s, Shown(s))
<1>1. CASE s.mode = page.mode
  BY <1>1 DEF Shown, Settled
<1>2. CASE s.mode # page.mode
  <2> DEFINE t == Shown(s)
             quiet == s.out = <<>> /\ srv.inbox = <<>>
  <2> HIDE DEF quiet
  <2>1. /\ Shape(s) /\ DOMAIN t = PageFields
        /\ t.running = s.running /\ t.mode = s.mode /\ t.can = s.can /\ t.out = s.out
        /\ t.world = s.world /\ t.adminActions = s.adminActions /\ t.items = s.items
        /\ t.hasty = s.hasty /\ t.loopback = s.loopback /\ t.restore = s.restore /\ t.piano = s.piano
    BY <1>2 DEF PageOK, Shape, PageFields, Shown
  <2>2. /\ t.text = Kept(s.mode, TextModes, s.text, -1)
        /\ t.prompt = Kept(s.mode, TextModes \cup Dialogs \cup {"adminUserList"}, s.prompt, None)
        /\ t.confirm = Kept(s.mode, {"confirmYesNo"}, s.confirm, None)
        /\ t.option = Kept(s.mode, {"optionSelect"}, s.option, None)
        /\ t.palette = Kept(s.mode, {"commandPalette"}, s.palette, {})
        /\ t.back = Kept(s.mode, {"commandPalette"}, s.back, "normal")
        /\ t.helpBack = Kept(s.mode, {"helpView"}, s.helpBack, "normal")
    BY <1>2, <2>1 DEF Shape, PageFields, Shown
  <2>3. /\ t.wb = ShownBuilder(s.wb, s.mode) /\ t.adm = ShownAdmin(s.adm, s.mode, quiet)
        /\ t.itm = ShownItems(s.itm, s.mode)
    BY <1>2, <2>1 DEF Shape, PageFields, Shown, quiet
  <2> HIDE DEF t
  <2>4. /\ DOMAIN t.wb = BuilderFields
        /\ t.wb.wall = Kept(s.mode, {"worldBuilderWallActions", "worldBuilderPropertyList",
                                     "worldBuilderPropertyEdit"} \cup Dialogs, s.wb.wall, None)
        /\ t.wb.prop \in {s.wb.prop, None} /\ t.wb.preset \in {s.wb.preset, None}
        /\ t.wb.ambiance = s.wb.ambiance /\ t.wb.edited = s.wb.edited
    BY <2>1, <2>3 DEF Shape, BuilderFields, ShownBuilder, Kept
  <2>5. /\ DOMAIN t.adm = AdminFields
        /\ t.adm.users \in {s.adm.users, {}} /\ (s.mode \in Lists => t.adm.users = s.adm.users)
        /\ t.adm.roles \in {s.adm.roles, {}} /\ t.adm.actions \in {s.adm.actions, {}}
        /\ t.adm.pending = s.adm.pending /\ t.adm.mutation = s.adm.mutation
        /\ t.adm.user = s.adm.user
    BY <2>1, <2>3 DEF Shape, AdminFields, ShownAdmin, Kept, Lists, Listing
  <2>6. /\ DOMAIN t.itm = ItemFields
        /\ t.itm.list \in {s.itm.list, {}}
        /\ t.itm.context = Kept(s.mode, {"selectItem"}, s.itm.context, None)
        /\ t.itm.item = Kept(s.mode, {"itemProperties", "itemPropertyEdit", "optionSelect"}, s.itm.item, None)
        /\ t.itm.managed = Kept(s.mode, {"itemManageOptions", "itemManageTransferUser",
                                         "confirmYesNo"}, s.itm.managed, None)
        /\ t.itm.action = s.itm.action /\ t.itm.targetsOf = s.itm.targetsOf
    BY <2>1, <2>3 DEF Shape, ItemFields, ShownItems, Kept
  <2>7. Shape(t)
    BY <2>1, <2>4, <2>5, <2>6 DEF Shape
  <2>8. Ways(t)
    BY <2>2 DEF PageOK, Ways, Kept
  <2>9. Held(t)
    <3>1. t.text \in Texts
      BY <2>2, BoundsAssumption DEF PageOK, Held, Kept, Texts
    <3>2. t.palette \subseteq Commands \cup PianoCommands
      BY <2>2 DEF PageOK, Held, Kept
    <3> QED
      BY <2>1, <3>1, <3>2 DEF PageOK, Held
  <2>10. MenusHeld(t)
    BY <2>1, <2>4, <2>5, <2>6 DEF PageOK, MenusHeld, Kept
  <2>11. AskedAbout(t)
    BY <2>1, <2>2, <2>4, <2>5, <2>6 DEF PageOK, AskedAbout, Kept, TextModes, Dialogs
  <2>12. PageOK(t) /\ Settled(s, t)
    BY <2>1, <2>5, <2>7, <2>8, <2>9, <2>10, <2>11 DEF PageOK, Settled
  <2> QED
    BY <2>12 DEF t
<1> QED
  BY <1>1, <1>2

Pressed == page.running /\ \E t : Does(page, t) /\ Become(t)
LEMMA KeysPress ==
    ASSUME PageOK(page),
           \/ NormalKeys \/ PaletteOpened \/ PaletteEnter \/ PianoKeys \/ PickEnter \/ TypeText
           \/ SubmitText \/ DialogAnswered \/ ItemMenuKeys \/ AdminKeys \/ BuilderKeys
    PROVE  Pressed
<1> USE DEF In, Pressed
<1> HIDE DEF Become
<1>1. CASE NormalKeys
  BY <1>1, CommandKeys DEF NormalKeys
<1>2. CASE PaletteOpened
  BY <1>2, CommandKeys DEF PaletteOpened
<1>3. CASE PaletteEnter
  BY <1>3, CommandKeys DEF PaletteEnter
<1>4. CASE PianoKeys
  BY <1>4, PianoCommandsDo DEF PianoKeys, Asking, TextModes
<1>5. CASE PickEnter
  <2>1. CASE page.mode \in {"effectSelect", "listUsers", "listItems"}
    BY <1>5, <2>1, PickKeys DEF PickEnter
  <2>2. CASE page.mode = "addItem"
    <3>1. page.mode \notin Asking \cup Lists
      BY <2>2 DEF Asking, TextModes, Lists, Listing
    <3> QED
      BY <1>5, <2>2, <3>1, ItemCommands DEF PickEnter
  <2>3. CASE page.mode = "selectItem"
    BY <1>5, <2>3, SelectMenu DEF PickEnter
  <2> QED
    BY <1>5, <2>1, <2>2, <2>3 DEF PickEnter
<1>6. CASE TypeText
  <2> PICK text \in Texts :
         Become(CASE page.mode = "itemPropertyEdit" -> ItemPropertyEditType(page, text)
                  [] page.mode = "worldBuilderAmbianceEdit" -> AmbianceEditType(page, text)
                  [] OTHER -> ApplyTextInputEdit(page, text))
    BY <1>6 DEF TypeText
  <2> DEFINE t == CASE page.mode = "itemPropertyEdit" -> ItemPropertyEditType(page, text)
                    [] page.mode = "worldBuilderAmbianceEdit" -> AmbianceEditType(page, text)
                    [] OTHER -> ApplyTextInputEdit(page, text)
  <2>1. /\ page.mode = "itemPropertyEdit" => t = ItemPropertyEditType(page, text)
        /\ page.mode = "worldBuilderAmbianceEdit" => t = AmbianceEditType(page, text)
        /\ page.mode \notin {"itemPropertyEdit", "worldBuilderAmbianceEdit"} => t = ApplyTextInputEdit(page, text)
    OBVIOUS
  <2>2. Become(t)
    OBVIOUS
  <2> HIDE DEF t
  <2>3. ASSUME page.mode \in {"itemPropertyEdit", "worldBuilderAmbianceEdit"}
        PROVE  Does(page, t)
    BY <2>1, <2>3, ItemAnswers, BuilderAnswers
  <2>4. ASSUME page.mode \notin {"itemPropertyEdit", "worldBuilderAmbianceEdit"}
        PROVE  Does(page, t)
    <3>1. page.mode \in TextModes
      BY <1>6 DEF TypeText
    <3> QED
      BY <2>1, <2>4, <3>1, PickKeys
  <2> QED
    BY <1>6, <2>2, <2>3, <2>4 DEF TypeText
<1>7. CASE SubmitText
  <2>1. CASE page.mode \in {"chat", "nickname", "micGainEdit"}
    BY <1>7, <2>1, PickKeys DEF SubmitText
  <2>2. CASE page.mode = "itemPropertyEdit"
    BY <1>7, <2>2, ItemPropertyMenus DEF SubmitText
  <2>3. CASE page.mode = "adminRoleNameEdit"
    BY <1>7, <2>3, RoleMenus DEF SubmitText, Lists, Listing
  <2>4. CASE page.mode = "worldBuilderPropertyEdit"
    BY <1>7, <2>4, WallChanges DEF SubmitText
  <2>5. CASE page.mode = "worldBuilderAmbianceEdit"
    BY <1>7, <2>5, AmbianceChanges DEF SubmitText
  <2> QED
    BY <1>7, <2>1, <2>2, <2>3, <2>4, <2>5 DEF SubmitText
<1>8. CASE DialogAnswered
  BY <1>8, DialogKeys, UserMenus DEF DialogAnswered
<1>9. CASE ItemMenuKeys
  <2>1. CASE page.mode = "itemProperties"
    BY <1>9, <2>1, ItemPropertyMenus DEF ItemMenuKeys
  <2>2. CASE page.mode \in {"itemManageOptions", "itemManageTransferUser"}
    BY <1>9, <2>2, ManagementMenus DEF ItemMenuKeys
  <2> QED
    BY <1>9, <2>1, <2>2 DEF ItemMenuKeys
<1>10. CASE AdminKeys
  <2>1. CASE page.mode \in {"adminUserList", "adminUserRoleSelect"}
    BY <1>10, <2>1, UserMenus DEF AdminKeys
  <2>2. CASE page.mode \notin Lists
    <3>1. page.adm.actions \subseteq AdminActions
      BY DEF PageOK, MenusHeld
    <3> QED
      BY <1>10, <2>2, <3>1, RoleMenus DEF AdminKeys, Lists, Listing
  <2> QED
    BY <1>10, <2>1, <2>2 DEF AdminKeys, Lists, Listing
<1>11. CASE BuilderKeys
  <2>1. CASE page.mode = "worldBuilder"
    <3> PICK entry \in RootActions : Become(RootEnter(page, entry))
      BY <1>11, <2>1 DEF BuilderKeys
    <3>1. RootEnter(page, entry) \in {To(page, "worldBuilderPreset"), RequestAdd(page),
             OpenAmbianceList(page), OpenWallList(page), [page EXCEPT !.wb.list = {}]}
      BY DEF RootEnter, RootActions
    <3>2. Does(page, RootEnter(page, entry))
      BY <2>1, <3>1, WallMenus, AmbianceMenus
    <3> QED
      BY <1>11, <3>2 DEF BuilderKeys
  <2>2. CASE page.mode \in {"worldBuilderPreset", "worldBuilderDirection", "worldBuilderWallList"}
    BY <1>11, <2>2, WallMenus DEF BuilderKeys, WallListEnter
  <2>3. CASE page.mode = "worldBuilderWallActions"
    BY <1>11, <2>3, WallMenus, WallSides DEF BuilderKeys, Steps
  <2>4. CASE page.mode = "worldBuilderPropertyList"
    BY <1>11, <2>4, WallMenus, WallSides DEF BuilderKeys
  <2>5. CASE page.mode = "worldBuilderAmbianceList"
    BY <1>11, <2>5, AmbianceMenus DEF BuilderKeys
  <2>6. CASE page.mode = "worldBuilderAmbianceActions"
    BY <1>11, <2>6, AmbianceMenus, AmbianceSides, SMTT(30) DEF BuilderKeys, Steps
  <2> QED
    BY <1>11, <2>1, <2>2, <2>3, <2>4, <2>5, <2>6 DEF BuilderKeys
<1> QED
  BY <1>1, <1>2, <1>3, <1>4, <1>5, <1>6, <1>7, <1>8, <1>9, <1>10, <1>11

-----------------------------------------------------------------------------
(* Queues. *)

\* The two queues of the page's socket.
IsSeq(q) == q \in Seq(Range(q))
LEMMA Appended ==
    ASSUME NEW q, IsSeq(q), NEW e, NEW r, r = Append(q, e)
    PROVE  /\ IsSeq(r) /\ r # q /\ r # <<>>
           /\ Len(q) \in Nat /\ Len(r) = Len(q) + 1
           /\ DOMAIN q = 1..Len(q) /\ DOMAIN r = 1..(Len(q) + 1)
           /\ \A i \in 1..Len(q) : r[i] = q[i]
           /\ r[Len(q) + 1] = e
<1> DEFINE S == Range(q) \cup {e}
<1>1. q \in Seq(S)
  BY SeqMonotonic DEF IsSeq
<1> HIDE DEF S
<1>2. e \in S
  BY DEF S
<1>3. /\ r \in Seq(S) /\ r # <<>> /\ Len(r) = Len(q) + 1 /\ r[Len(q) + 1] = e
      /\ \A i \in 1..Len(q) : r[i] = q[i]
  BY <1>1, <1>2, AppendProperties
<1>4. Len(q) \in Nat /\ DOMAIN q = 1..Len(q) /\ DOMAIN r = 1..Len(r)
  BY <1>1, <1>3, LenProperties
<1>5. IsSeq(r)
  BY <1>3, SeqOfRange DEF IsSeq
<1>6. r # q
  <2> SUFFICES ASSUME Len(r) = Len(q) PROVE FALSE
    OBVIOUS
  <2>1. Len(q) + 1 # Len(q)
    BY <1>4
  <2> QED
    BY <1>3, <2>1
<1> QED
  BY <1>3, <1>4, <1>5, <1>6

LEMMA Joined ==
    ASSUME NEW q, IsSeq(q), NEW p, IsSeq(p), NEW r, r = q \o p
    PROVE  /\ IsSeq(r) /\ Len(q) \in Nat /\ Len(p) \in Nat /\ Len(r) = Len(q) + Len(p)
           /\ DOMAIN q = 1..Len(q) /\ DOMAIN p = 1..Len(p) /\ DOMAIN r = 1..(Len(q) + Len(p))
           /\ \A i \in 1..Len(q) : r[i] = q[i]
           /\ \A i \in 1..Len(p) : r[Len(q) + i] = p[i]
<1> DEFINE S == Range(q) \cup Range(p)
<1>1. q \in Seq(S) /\ p \in Seq(S)
  BY SeqMonotonic DEF IsSeq
<1> HIDE DEF S
<1>2. /\ r \in Seq(S) /\ Len(r) = Len(q) + Len(p)
      /\ \A i \in 1..(Len(q) + Len(p)) : r[i] = IF i <= Len(q) THEN q[i] ELSE p[i - Len(q)]
  BY <1>1, ConcatProperties
<1>3. /\ Len(q) \in Nat /\ Len(p) \in Nat /\ DOMAIN q = 1..Len(q) /\ DOMAIN p = 1..Len(p)
      /\ DOMAIN r = 1..Len(r)
  BY <1>1, <1>2, LenProperties
<1>4. IsSeq(r)
  BY <1>2, SeqOfRange DEF IsSeq
<1>5. \A i \in 1..Len(q) : r[i] = q[i]
  BY <1>2, <1>3
<1>6. ASSUME NEW i \in 1..Len(p) PROVE r[Len(q) + i] = p[i]
  <2>1. Len(q) + i \in 1..(Len(q) + Len(p)) /\ ~(Len(q) + i <= Len(q)) /\ (Len(q) + i) - Len(q) = i
    BY <1>3
  <2> QED
    BY <1>2, <2>1
<1> QED
  BY <1>2, <1>3, <1>4, <1>5, <1>6

LEMMA Rest ==
    ASSUME NEW q, IsSeq(q), q # <<>>, NEW r, r = Tail(q)
    PROVE  /\ IsSeq(r) /\ Len(q) \in Nat \ {0} /\ Len(r) = Len(q) - 1
           /\ DOMAIN q = 1..Len(q) /\ DOMAIN r = 1..(Len(q) - 1)
           /\ \A i \in DOMAIN r : i + 1 \in DOMAIN q /\ r[i] = q[i + 1]
           /\ Head(q) = q[1] /\ 1 \in DOMAIN q
<1>1. q \in Seq(Range(q))
  BY DEF IsSeq
<1>2. /\ r \in Seq(Range(q)) /\ Len(r) = Len(q) - 1
      /\ \A i \in 1..Len(r) : r[i] = q[i + 1]
  BY <1>1, HeadTailProperties
<1>3. Len(q) \in Nat \ {0} /\ DOMAIN q = 1..Len(q) /\ DOMAIN r = 1..Len(r)
  BY <1>1, <1>2, LenProperties, EmptySeq
<1>4. IsSeq(r)
  BY <1>2, SeqOfRange DEF IsSeq
<1>5. Head(q) = q[1]
  BY <1>1
<1> QED
  BY <1>2, <1>3, <1>4, <1>5

LEMMA Short ==
    ASSUME NEW a, NEW b
    PROVE  /\ IsSeq(<<>>) /\ Len(<<>>) = 0 /\ DOMAIN <<>> = {}
           /\ IsSeq(<<a>>) /\ Len(<<a>>) = 1 /\ <<a>>[1] = a
           /\ IsSeq(<<a, b>>) /\ Len(<<a, b>>) = 2 /\ <<a, b>>[1] = a /\ <<a, b>>[2] = b
<1> DEFINE none == <<>>
           one == <<a>>
           two == <<a, b>>
<1>1. none \in Seq({}) /\ one \in Seq({a}) /\ two \in Seq({a, b})
  OBVIOUS
<1>2. IsSeq(none) /\ IsSeq(one) /\ IsSeq(two)
  <2> HIDE DEF none, one, two
  <2> QED
    BY <1>1, SeqOfRange DEF IsSeq
<1> QED
  BY <1>2

IsOne(q, a) == q = <<a>>
IsTwo(q, a, b) == q = <<a, b>>
LEMMA One ==
    ASSUME NEW a, NEW q, IsOne(q, a)
    PROVE  IsSeq(q) /\ DOMAIN q = {1} /\ q[1] = a
<1>1. DOMAIN q = {1} /\ q[1] = a
  BY DEF IsOne
<1> QED
  BY <1>1, Short DEF IsOne

LEMMA Two ==
    ASSUME NEW a, NEW b, NEW q, IsTwo(q, a, b)
    PROVE  IsSeq(q) /\ DOMAIN q = 1..2 /\ q[1] = a /\ q[2] = b
<1>1. DOMAIN q = 1..2 /\ q[1] = a /\ q[2] = b
  BY DEF IsTwo
<1> QED
  BY <1>1, Short DEF IsTwo

-----------------------------------------------------------------------------
(* What the server's messages do to the page. *)

AnswerOK(m) ==
    /\ m.kind \in {"upsert", "remove", "itemUpsert", "itemRemove", "wall", "ambiance",
                   "permissions", "rolesList", "usersList", "adminResult", "targets", "piano"}
    /\ m.kind \in {"upsert", "remove"} => m.op \in Kinds
    /\ m.kind = "upsert" => m.id \in (IF m.op = "wall" THEN Walls ELSE Ambiances) /\ m.arg \in Objects
    /\ m.kind = "itemUpsert" => m.id \in Items /\ m.arg \in ItemValues
    /\ m.kind = "permissions" => m.arg \subseteq Permissions
    /\ m.kind = "rolesList" => m.arg.roles \subseteq Roles
    /\ m.kind = "usersList" => m.arg \subseteq Names

\* What an answer leaves: no menu but those of the administration asks for
\* anything, and only news of the world changes the page's copy of it.
Apart(s, t) ==
    /\ AdminKept(s, t)
    /\ t.mode \in Listing => t.adm.mutation = s.adm.mutation
    /\ s.mode \notin Lists => t.adm.pending = s.adm.pending
Took(s, t, m) ==
    /\ t.running = s.running /\ t.hasty = s.hasty
    /\ t.world = IF m.kind = "upsert" THEN [s.world EXCEPT ![m.op] = With(@, m.id, m.arg)]
                 ELSE IF m.kind = "remove" THEN [s.world EXCEPT ![m.op] = Without(@, m.id)]
                 ELSE s.world
Listed(s, t, m) ==
    /\ t.mode = "adminUserRoleSelect" => t.adm.pending \notin Marks \/ Apart(s, t)
    /\ t.mode \in Listing /\ t.adm.pending \in Marks =>
         /\ t.adm.pending = s.adm.pending
         /\ (m.kind = "usersList" /\ t.adm.users = m.arg)
            \/ /\ m.kind = "adminResult" /\ s.mode \in Listing
               /\ m.op = s.adm.pending /\ s.adm.mutation.action # None
                     /\ s.adm.mutation.action = s.adm.pending =>
                    t.adm.users = IF m.ok THEN s.adm.users \ {s.adm.mutation.id} ELSE s.adm.users
Received(s, t, m) ==
    /\ Took(s, t, m)
    /\ \/ Apart(s, t) /\ t.out = s.out /\ m.kind \notin {"rolesList", "usersList", "adminResult"}
       \/ /\ m.kind \in {"rolesList", "usersList", "adminResult"} /\ Listed(s, t, m)
          /\ t.out = s.out \/ \E r : /\ t.out = Append(s.out, r) /\ r.kind = "admin"
                                     /\ r.op = "roles_list"
                                     /\ m.kind = "adminResult" /\ m.op \notin Marks

LEMMA Quietly ==
    ASSUME NEW s, NEW t, Does(s, t), s.running, t.running = s.running, IsSeq(s.out), t.out = s.out
    PROVE  PageOK(t) /\ Quiet(s, t) /\ Apart(s, t)
<1>1. ASSUME NEW m, Asks(s, t, m) PROVE FALSE
  <2>1. t.out = Append(s.out, m)
    BY <1>1 DEF Asks
  <2> QED
    BY <2>1, Appended
<1>2. Quiet(s, t) /\ PageOK(t)
  BY <1>1 DEF Does, Leaves
<1> QED
  BY <1>2 DEF Quiet, Apart

LEMMA MenusReceive ==
    ASSUME NEW s, PageOK(s), s.running, IsSeq(s.out), NEW m,
           m.kind \in {"wall", "ambiance", "targets"}
    PROVE  PageOK(Receive(s, m)) /\ Received(s, Receive(s, m), m)
<1> DEFINE t == Receive(s, m)
<1>1. t \in {HandleWallActionResult(s, m), HandleAmbianceActionResult(s, m), HandleItemTargets(s, m)}
  BY DEF Receive
<1>2. ASSUME NEW u \in {HandleWallActionResult(s, m), HandleAmbianceActionResult(s, m),
                        HandleItemTargets(s, m)}
      PROVE  u.out = s.out /\ u.running = s.running /\ u.hasty = s.hasty
  <2> USE DEF PageOK, Shape, PageFields, BuilderFields, ItemFields
  <2>1. LET v == HandleWallActionResult(s, m)
        IN  v.out = s.out /\ v.running = s.running /\ v.hasty = s.hasty
    BY DEF HandleWallActionResult, OpenWallActions
  <2>2. LET v == HandleAmbianceActionResult(s, m)
        IN  v.out = s.out /\ v.running = s.running /\ v.hasty = s.hasty
    BY DEF HandleAmbianceActionResult, OpenActions
  <2>3. LET v == HandleItemTargets(s, m)
        IN  v.out = s.out /\ v.running = s.running /\ v.hasty = s.hasty
    BY DEF HandleItemTargets, ResetTargetSelection, To
  <2> QED
    BY <1>2, <2>1, <2>2, <2>3
<1>3. \A u \in {HandleWallActionResult(s, m), HandleAmbianceActionResult(s, m),
                HandleItemTargets(s, m)} : Does(s, u)
  BY BuilderAnswers, ItemAnswers
<1> HIDE DEF t
<1>4. Does(s, t) /\ t.out = s.out /\ t.running = s.running /\ t.hasty = s.hasty
  BY <1>1, <1>2, <1>3
<1>5. PageOK(t) /\ Quiet(s, t) /\ Apart(s, t)
  BY <1>4, Quietly
<1>6. Received(s, t, m)
  BY <1>4, <1>5 DEF Received, Took, Quiet
<1> QED
  BY <1>5, <1>6 DEF t

LEMMA Maps ==
    ASSUME NEW S, NEW V, NEW f, IsMap(f, S, V), NEW id
    PROVE  /\ \A v : /\ DOMAIN With(f, id, v) = DOMAIN f \cup {id} /\ With(f, id, v)[id] = v
                     /\ \A i \in DOMAIN f \ {id} : With(f, id, v)[i] = f[i]
                     /\ id \in S /\ v \in V => IsMap(With(f, id, v), S, V)
           /\ DOMAIN Without(f, id) = DOMAIN f \ {id}
           /\ \A i \in DOMAIN f \ {id} : Without(f, id)[i] = f[i]
           /\ IsMap(Without(f, id), S, V)
<1>1. ASSUME NEW v
      PROVE  /\ DOMAIN With(f, id, v) = DOMAIN f \cup {id} /\ With(f, id, v)[id] = v
             /\ \A i \in DOMAIN f \ {id} : With(f, id, v)[i] = f[i]
  BY DEF With
<1>2. ASSUME NEW v, id \in S, v \in V PROVE IsMap(With(f, id, v), S, V)
  <2> DEFINE g == With(f, id, v)
  <2>1. g = [i \in DOMAIN g |-> g[i]]
    BY DEF With
  <2> HIDE DEF g
  <2>2. /\ DOMAIN g = DOMAIN f \cup {id} /\ g[id] = v /\ \A i \in DOMAIN f \ {id} : g[i] = f[i]
    BY <1>1 DEF g
  <2>3. \A i \in DOMAIN f : f[i] \in V
    BY DEF IsMap
  <2>4. \A i \in DOMAIN g : g[i] \in V
    BY <1>2, <2>2, <2>3
  <2>5. DOMAIN g \subseteq S
    BY <1>2, <2>2 DEF IsMap
  <2>6. IsMap(g, S, V)
    BY <2>1, <2>4, <2>5 DEF IsMap
  <2> QED
    BY <2>6 DEF g
<1>3. /\ DOMAIN Without(f, id) = DOMAIN f \ {id}
      /\ \A i \in DOMAIN f \ {id} : Without(f, id)[i] = f[i]
  BY DEF Without, Restrict
<1>4. IsMap(Without(f, id), S, V)
  <2> DEFINE g == Without(f, id)
  <2>1. g = [i \in DOMAIN g |-> g[i]]
    BY DEF Without, Restrict
  <2> HIDE DEF g
  <2>2. DOMAIN g = DOMAIN f \ {id} /\ \A i \in DOMAIN f \ {id} : g[i] = f[i]
    BY <1>3 DEF g
  <2>3. DOMAIN f \subseteq S /\ \A i \in DOMAIN f : f[i] \in V
    BY DEF IsMap
  <2>4. IsMap(g, S, V)
    BY <2>1, <2>2, <2>3 DEF IsMap
  <2> QED
    BY <2>4 DEF g
<1> QED
  BY <1>1, <1>2, <1>3, <1>4

Ids(kind) == IF kind = "wall" THEN Walls ELSE Ambiances
LEMMA Worlds ==
    ASSUME NEW w, IsWorld(w), NEW kind \in Kinds, NEW id
    PROVE  /\ \A v : id \in Ids(kind) /\ v \in Objects => IsWorld([w EXCEPT ![kind] = With(@, id, v)])
           /\ IsWorld([w EXCEPT ![kind] = Without(@, id)])
<1>1. IsMap(w[kind], Ids(kind), Objects)
  BY DEF IsWorld, Kinds, Ids
<1>2. ASSUME NEW g, IsMap(g, Ids(kind), Objects)
      PROVE  IsWorld([w EXCEPT ![kind] = g])
  <2> DEFINE u == [w EXCEPT ![kind] = g]
  <2>1. /\ u = [wall |-> u.wall, ambiance |-> u.ambiance]
        /\ kind = "wall" => u.wall = g /\ u.ambiance = w.ambiance
        /\ kind = "ambiance" => u.ambiance = g /\ u.wall = w.wall
    <3> DEFINE a == w.wall
               b == w.ambiance
               rec == [wall |-> a, ambiance |-> b]
    <3>1. w = rec
      BY DEF IsWorld
    <3>2. CASE kind = "wall"
      <4>1. [rec EXCEPT !["wall"] = g] = [wall |-> g, ambiance |-> b]
        <5> HIDE DEF a, b
        <5> QED
          OBVIOUS
      <4> HIDE DEF rec
      <4>2. u = [wall |-> g, ambiance |-> b]
        BY <3>1, <3>2, <4>1
      <4> QED
        BY <3>2, <4>2
    <3>3. CASE kind = "ambiance"
      <4>1. [rec EXCEPT !["ambiance"] = g] = [wall |-> a, ambiance |-> g]
        <5> HIDE DEF a, b
        <5> QED
          OBVIOUS
      <4> HIDE DEF rec
      <4>2. u = [wall |-> a, ambiance |-> g]
        BY <3>1, <3>3, <4>1
      <4> QED
        BY <3>3, <4>2
    <3> QED
      BY <3>2, <3>3 DEF Kinds
  <2> HIDE DEF u
  <2>2. IsWorld(u)
    BY <1>2, <2>1 DEF IsWorld, Kinds, Ids
  <2> QED
    BY <2>2 DEF u
<1>3. IsMap(Without(w[kind], id), Ids(kind), Objects)
  BY <1>1, Maps
<1>4. ASSUME NEW v \in Objects, id \in Ids(kind)
      PROVE  IsMap(With(w[kind], id, v), Ids(kind), Objects)
  BY <1>1, <1>4, Maps
<1> DEFINE less == Without(w[kind], id)
<1> HIDE DEF less
<1>5. IsWorld([w EXCEPT ![kind] = less])
  BY <1>2, <1>3 DEF less
<1>6. ASSUME NEW v \in Objects, id \in Ids(kind)
      PROVE  IsWorld([w EXCEPT ![kind] = With(@, id, v)])
  <2> DEFINE more == With(w[kind], id, v)
  <2> HIDE DEF more
  <2>1. IsWorld([w EXCEPT ![kind] = more])
    BY <1>2, <1>4, <1>6 DEF more
  <2> QED
    BY <2>1 DEF more
<1> QED
  BY <1>5, <1>6 DEF less

LEMMA NewsOK ==
    ASSUME NEW s, PageOK(s), NEW t, Shape(t),
           t.mode = s.mode \/ t.mode = "pianoUse",
           t.text = s.text, t.prompt = s.prompt, t.confirm = s.confirm, t.option = s.option,
           t.palette = s.palette, t.back = s.back, t.helpBack = s.helpBack,
           t.loopback = s.loopback, t.restore = s.restore, t.wb = s.wb, t.adm = s.adm,
           t.itm.list = s.itm.list, t.itm.context = s.itm.context, t.itm.item = s.itm.item,
           t.itm.managed = s.itm.managed, t.itm.action = s.itm.action,
           t.itm.targetsOf = s.itm.targetsOf,
           IsWorld(t.world), IsMap(t.items, Items, ItemValues), t.can \subseteq Permissions,
           t.adminActions \subseteq AdminActions, t.piano \in Items \cup {None}
    PROVE  PageOK(t) /\ Apart(s, t)
<1>1. AskedAbout(t)
  BY DEF PageOK, AskedAbout
<1>2. Held(t)
  BY DEF PageOK, Held
<1>3. MenusHeld(t) /\ Ways(t)
  BY DEF PageOK, MenusHeld, Ways
<1>4. Apart(s, t)
  BY DEF Apart, AdminKept, Lists, Listing
<1> QED
  BY <1>1, <1>2, <1>3, <1>4 DEF PageOK

LEMMA NewsReceived ==
    ASSUME NEW s, PageOK(s), NEW m, AnswerOK(m),
           m.kind \in {"upsert", "remove", "itemUpsert", "itemRemove", "permissions", "piano"}
    PROVE  PageOK(Receive(s, m)) /\ Received(s, Receive(s, m), m)
<1> DEFINE t == Receive(s, m)
<1>1. CASE m.kind \in {"upsert", "remove"}
  <2> DEFINE w == IF m.kind = "upsert" THEN [s.world EXCEPT ![m.op] = With(@, m.id, m.arg)]
                  ELSE [s.world EXCEPT ![m.op] = Without(@, m.id)]
             u == [s EXCEPT !.world = w]
  <2>1. t = u
    BY <1>1 DEF Receive, WorldUpsert, WorldRemove
  <2>2. IsWorld(w)
    BY <1>1, Worlds DEF AnswerOK, Ids, PageOK
  <2>3. w = IF m.kind = "upsert" THEN [s.world EXCEPT ![m.op] = With(@, m.id, m.arg)]
            ELSE IF m.kind = "remove" THEN [s.world EXCEPT ![m.op] = Without(@, m.id)]
            ELSE s.world
    BY <1>1
  <2> HIDE DEF w, t
  <2>4. /\ Shape(u) /\ u.world = w
        /\ u.mode = s.mode /\ u.text = s.text /\ u.prompt = s.prompt /\ u.confirm = s.confirm
        /\ u.option = s.option /\ u.palette = s.palette /\ u.back = s.back
        /\ u.helpBack = s.helpBack /\ u.loopback = s.loopback /\ u.restore = s.restore
        /\ u.wb = s.wb /\ u.adm = s.adm /\ u.itm = s.itm /\ u.items = s.items /\ u.can = s.can
        /\ u.adminActions = s.adminActions /\ u.piano = s.piano /\ u.out = s.out
        /\ u.running = s.running /\ u.hasty = s.hasty
    BY DEF PageOK, Shape, PageFields
  <2> HIDE DEF u
  <2>5. /\ IsMap(s.items, Items, ItemValues) /\ s.can \subseteq Permissions
        /\ s.adminActions \subseteq AdminActions /\ s.piano \in Items \cup {None}
    BY DEF PageOK, Held, MenusHeld
  <2>6. PageOK(u) /\ Apart(s, u)
    BY <2>2, <2>4, <2>5, NewsOK
  <2>7. Received(s, u, m)
    BY <1>1, <2>3, <2>4, <2>6 DEF Received, Took
  <2> QED
    BY <2>1, <2>6, <2>7 DEF t
<1>2. CASE m.kind \in {"itemUpsert", "itemRemove", "permissions", "piano"}
  <2>1. /\ IsMap(With(s.items, m.id, m.arg), Items, ItemValues) \/ m.kind # "itemUpsert"
        /\ IsMap(Without(s.items, m.id), Items, ItemValues)
    BY Maps DEF PageOK, Held, AnswerOK
  <2> DEFINE more == With(s.items, m.id, m.arg)
             less == Without(s.items, m.id)
             v == [s EXCEPT !.items = more]
  <2>2. /\ t.running = s.running /\ t.hasty = s.hasty /\ t.out = s.out /\ t.world = s.world
        /\ Shape(t) /\ t.mode \in {s.mode, "pianoUse"}
        /\ t.text = s.text /\ t.prompt = s.prompt /\ t.confirm = s.confirm
        /\ t.option = s.option /\ t.palette = s.palette /\ t.back = s.back
        /\ t.helpBack = s.helpBack /\ t.loopback = s.loopback /\ t.restore = s.restore
        /\ t.wb = s.wb /\ t.adm = s.adm
        /\ t.itm.list = s.itm.list /\ t.itm.context = s.itm.context /\ t.itm.item = s.itm.item
        /\ t.itm.managed = s.itm.managed /\ t.itm.action = s.itm.action
        /\ t.itm.targetsOf = s.itm.targetsOf
        /\ IsMap(t.items, Items, ItemValues) /\ t.can \subseteq Permissions
        /\ t.adminActions \subseteq AdminActions /\ t.piano \in Items \cup {None}
    <3> USE DEF PageOK, Shape, PageFields, ItemFields
    <3>1. CASE m.kind = "itemUpsert"
      <4>1. t = RecomputeActiveItemPropertyKeys(v, m.id) /\ IsMap(more, Items, ItemValues)
        BY <2>1, <3>1 DEF Receive, ItemUpsert
      <4> DEFINE keys == KeysOf(v, m.id)
      <4> HIDE DEF more, t
      <4>2. t \in {v, [v EXCEPT !.itm.keys = keys]}
        BY <4>1 DEF RecomputeActiveItemPropertyKeys
      <4> HIDE DEF keys
      <4>3. /\ Shape(v) /\ v.items = more /\ v.running = s.running /\ v.hasty = s.hasty
            /\ v.out = s.out /\ v.world = s.world /\ v.mode = s.mode
            /\ v.text = s.text /\ v.prompt = s.prompt /\ v.confirm = s.confirm
            /\ v.option = s.option /\ v.palette = s.palette /\ v.back = s.back
            /\ v.helpBack = s.helpBack /\ v.loopback = s.loopback /\ v.restore = s.restore
            /\ v.wb = s.wb /\ v.adm = s.adm /\ v.itm = s.itm /\ v.can = s.can
            /\ v.adminActions = s.adminActions /\ v.piano = s.piano
        OBVIOUS
      <4> HIDE DEF v
      <4>4. t = v \/ /\ Shape(t) /\ t.items = v.items /\ t.running = v.running /\ t.hasty = v.hasty
                     /\ t.out = v.out /\ t.world = v.world /\ t.mode = v.mode
                     /\ t.text = v.text /\ t.prompt = v.prompt /\ t.confirm = v.confirm
                     /\ t.option = v.option /\ t.palette = v.palette /\ t.back = v.back
                     /\ t.helpBack = v.helpBack /\ t.loopback = v.loopback /\ t.restore = v.restore
                     /\ t.wb = v.wb /\ t.adm = v.adm /\ t.can = v.can
                     /\ t.adminActions = v.adminActions /\ t.piano = v.piano
                     /\ t.itm.list = v.itm.list /\ t.itm.context = v.itm.context
                     /\ t.itm.item = v.itm.item /\ t.itm.managed = v.itm.managed
                     /\ t.itm.action = v.itm.action /\ t.itm.targetsOf = v.itm.targetsOf
        BY <4>2, <4>3
      <4>5. /\ s.can \subseteq Permissions /\ s.adminActions \subseteq AdminActions
            /\ s.piano \in Items \cup {None}
        BY DEF Held, MenusHeld
      <4> QED
        BY <4>1, <4>3, <4>4, <4>5
    <3>2. CASE m.kind = "itemRemove"
      <4>1. t = [s EXCEPT !.items = less]
        BY <3>2 DEF Receive
      <4> HIDE DEF less, t
      <4>2. IsMap(less, Items, ItemValues)
        BY <2>1 DEF less
      <4> QED
        BY <4>1, <4>2 DEF Held, MenusHeld
    <3>3. CASE m.kind = "permissions"
      <4>1. t = SetPermissions(s, m.arg) /\ m.arg \subseteq Permissions
        BY <3>3 DEF Receive, AnswerOK
      <4> HIDE DEF t
      <4> QED
        BY <4>1 DEF Held, MenusHeld, SetPermissions
    <3>4. CASE m.kind = "piano"
      <4>1. t = StartUseMode(s, m.id)
        BY <3>4 DEF Receive
      <4> HIDE DEF t
      <4>2. DOMAIN s.items \subseteq Items
        BY DEF Held, IsMap
      <4> QED
        BY <4>1, <4>2 DEF Held, MenusHeld, StartUseMode
    <3> QED
      BY <1>2, <3>1, <3>2, <3>3, <3>4
  <2> HIDE DEF t
  <2>3. PageOK(t) /\ Apart(s, t)
    BY <2>2, NewsOK DEF PageOK
  <2>4. Received(s, t, m)
    BY <1>2, <2>2, <2>3 DEF Received, Took
  <2> QED
    BY <2>3, <2>4 DEF t
<1> QED
  BY <1>1, <1>2

LEMMA AdminNewsOK ==
    ASSUME NEW s, PageOK(s), NEW t, Shape(t),
           t.mode = s.mode \/ t.mode \in {"normal", "adminRoleList", "adminUserRoleSelect",
                                          "adminUserList", "adminMenu"},
           t.text = s.text, t.prompt = s.prompt, t.confirm = s.confirm, t.option = s.option,
           t.palette = s.palette, t.back = s.back, t.helpBack = s.helpBack,
           t.loopback = s.loopback, t.restore = s.restore, t.wb = s.wb, t.itm = s.itm,
           t.world = s.world, t.items = s.items, t.can = s.can,
           t.adminActions = s.adminActions, t.piano = s.piano,
           t.adm.actions = s.adm.actions, t.adm.users \subseteq Names, t.adm.roles \subseteq Roles,
           t.adm.pending \in UserActions \cup {None},
           t.adm.user = s.adm.user \/ t.mode = "normal"
    PROVE  PageOK(t)
<1>1. AskedAbout(t)
  BY DEF PageOK, AskedAbout
<1>2. Held(t)
  BY DEF PageOK, Held
<1>3. MenusHeld(t) /\ Ways(t)
  BY DEF PageOK, MenusHeld, Ways
<1> QED
  BY <1>1, <1>2, <1>3 DEF PageOK

\* What settles in the page when an administrator's change is confirmed.
SameButAdmin(s, t) ==
    /\ Shape(t) /\ t.running = s.running /\ t.hasty = s.hasty
    /\ t.text = s.text /\ t.prompt = s.prompt /\ t.confirm = s.confirm /\ t.option = s.option
    /\ t.palette = s.palette /\ t.back = s.back /\ t.helpBack = s.helpBack
    /\ t.loopback = s.loopback /\ t.restore = s.restore /\ t.wb = s.wb /\ t.itm = s.itm
    /\ t.world = s.world /\ t.items = s.items /\ t.can = s.can
    /\ t.adminActions = s.adminActions /\ t.piano = s.piano /\ t.adm.actions = s.adm.actions
Settles(s, t) ==
    /\ SameButAdmin(s, t) /\ t.out = s.out
    /\ t.adm.roles = s.adm.roles /\ t.adm.user = s.adm.user
    /\ t.adm.users \in {s.adm.users, s.adm.users \ {s.adm.mutation.id}}
    /\ \/ t.mode = s.mode /\ t.adm.pending = s.adm.pending
       \/ t.mode = "adminMenu" /\ t.adm.pending = None
       \/ t.mode = "adminUserList" /\ t.adm.pending = "set_role"
    /\ s.adm.mutation.action # None /\ s.adm.mutation.action \in Marks =>
          t.adm.users = s.adm.users \ {s.adm.mutation.id}
\* One change of the administration's record or of the mode.
LEMMA AdminSteps ==
    ASSUME NEW s, Shape(s)
    PROVE  /\ SameButAdmin(s, s)
           /\ \A mode : LET t == [s EXCEPT !.mode = mode] IN
                 SameButAdmin(s, t) /\ t.adm = s.adm /\ t.mode = mode /\ t.out = s.out
           /\ \A a : DOMAIN a = AdminFields /\ a.actions = s.adm.actions =>
                 LET t == [s EXCEPT !.adm = a] IN
                    SameButAdmin(s, t) /\ t.adm = a /\ t.mode = s.mode /\ t.out = s.out
<1> USE DEF Shape, PageFields, SameButAdmin
<1>1. SameButAdmin(s, s)
  OBVIOUS
<1>2. ASSUME NEW mode, NEW t, t = [s EXCEPT !.mode = mode]
      PROVE  SameButAdmin(s, t) /\ t.adm = s.adm /\ t.mode = mode /\ t.out = s.out
  <2>1. DOMAIN t = PageFields /\ t.adm = s.adm /\ t.mode = mode /\ t.out = s.out
    BY <1>2
  <2> QED
    BY <1>2, <2>1
<1>3. ASSUME NEW a, DOMAIN a = AdminFields, a.actions = s.adm.actions, NEW t, t = [s EXCEPT !.adm = a]
      PROVE  SameButAdmin(s, t) /\ t.adm = a /\ t.mode = s.mode /\ t.out = s.out
  <2>1. DOMAIN t = PageFields /\ t.adm = a /\ t.mode = s.mode /\ t.out = s.out
    BY <1>3
  <2> QED
    BY <1>3, <2>1
<1> HIDE DEF Shape, PageFields, SameButAdmin
<1> QED
  BY <1>1, <1>2, <1>3

LEMMA Settling ==
    ASSUME NEW s, PageOK(s)
    PROVE  Settles(s, Settle(s, s.adm.mutation))
<1> DEFINE v == Settle(s, s.adm.mutation)
           mutation == s.adm.mutation
           left == s.adm.users \ {mutation.id}
<1>0. Shape(s) /\ DOMAIN s.adm = AdminFields
  BY DEF PageOK, Shape
<1>1. CASE mutation.action = None
  BY <1>0, <1>1, AdminSteps DEF Settle, Settles
<1>2. CASE mutation.action # None /\ mutation.action # "set_role"
  <2> DEFINE a == [s.adm EXCEPT !.users = left]
             t == [s EXCEPT !.adm = a]
             b == [t.adm EXCEPT !.pending = None]
             u == [t EXCEPT !.mode = "adminMenu"]
             w == [u EXCEPT !.adm = b]
  <2>1. v = t \/ v = [t EXCEPT !.mode = "adminMenu", !.adm = b]
    BY <1>2 DEF Settle, Unlist
  <2>2. [t EXCEPT !.mode = "adminMenu", !.adm = b] = w
    OBVIOUS
  <2>3. /\ DOMAIN a = AdminFields /\ a.actions = s.adm.actions /\ a.users = left
        /\ a.roles = s.adm.roles /\ a.user = s.adm.user /\ a.pending = s.adm.pending
    BY <1>0 DEF AdminFields
  <2> HIDE DEF v, a
  <2>4. SameButAdmin(s, t) /\ t.adm = a /\ t.mode = s.mode /\ t.out = s.out
    BY <1>0, <2>3, AdminSteps
  <2> HIDE DEF t
  <2>5. /\ DOMAIN b = AdminFields /\ b.actions = a.actions /\ b.users = left
        /\ b.roles = s.adm.roles /\ b.user = s.adm.user /\ b.pending = None
    BY <2>3, <2>4 DEF AdminFields
  <2> HIDE DEF b
  <2>6. SameButAdmin(t, u) /\ u.adm = a /\ u.mode = "adminMenu" /\ u.out = s.out /\ Shape(u)
    BY <2>4, AdminSteps DEF SameButAdmin
  <2> HIDE DEF u
  <2>7. SameButAdmin(u, w) /\ w.adm = b /\ w.mode = "adminMenu" /\ w.out = s.out
    BY <2>5, <2>6, AdminSteps
  <2> HIDE DEF w
  <2>8. Settles(s, t)
    BY <2>3, <2>4 DEF Settles
  <2>9. SameButAdmin(s, w)
    BY <2>4, <2>6, <2>7 DEF SameButAdmin
  <2>10. Settles(s, w)
    BY <2>3, <2>5, <2>7, <2>9 DEF Settles
  <2> QED
    BY <2>1, <2>2, <2>8, <2>10 DEF v
<1>3. CASE mutation.action # None /\ mutation.action = "set_role"
  <2> DEFINE a == [s.adm EXCEPT !.pending = "set_role"]
             t == [s EXCEPT !.mode = "adminUserList"]
             u == [t EXCEPT !.adm = a]
  <2>1. v = s \/ v = [s EXCEPT !.mode = "adminUserList", !.adm = a]
    BY <1>3 DEF Settle
  <2>2. [s EXCEPT !.mode = "adminUserList", !.adm = a] = u
    OBVIOUS
  <2>3. /\ DOMAIN a = AdminFields /\ a.actions = s.adm.actions /\ a.users = s.adm.users
        /\ a.roles = s.adm.roles /\ a.user = s.adm.user /\ a.pending = "set_role"
    BY <1>0 DEF AdminFields
  <2> HIDE DEF v, a
  <2>4. SameButAdmin(s, t) /\ t.adm = s.adm /\ t.mode = "adminUserList" /\ t.out = s.out /\ Shape(t)
    BY <1>0, AdminSteps DEF SameButAdmin
  <2> HIDE DEF t
  <2>5. SameButAdmin(t, u) /\ u.adm = a /\ u.mode = "adminUserList" /\ u.out = s.out
    BY <2>3, <2>4, AdminSteps
  <2> HIDE DEF u
  <2>6. SameButAdmin(s, u)
    BY <2>4, <2>5 DEF SameButAdmin
  <2>7. Settles(s, u)
    BY <1>3, <2>3, <2>5, <2>6 DEF Settles, Marks
  <2>8. Settles(s, s)
    BY <1>0, <1>3, AdminSteps DEF Settles, Marks
  <2> QED
    BY <2>1, <2>2, <2>7, <2>8 DEF v
<1> QED
  BY <1>1, <1>2, <1>3

LEMMA AdminReceived ==
    ASSUME NEW s, PageOK(s), NEW m, AnswerOK(m), m.kind \in {"rolesList", "usersList", "adminResult"}
    PROVE  PageOK(Receive(s, m)) /\ Received(s, Receive(s, m), m)
<1> DEFINE t == Receive(s, m)
<1> SUFFICES PageOK(t) /\ Received(s, t, m)
  OBVIOUS
<1>0. /\ s.adm.users \subseteq Names /\ s.adm.roles \subseteq Roles
      /\ s.adm.pending \in UserActions \cup {None}
  BY DEF PageOK, MenusHeld
<1>1. CASE m.kind = "rolesList"
  <2> DEFINE roles == m.arg.roles
             grants == m.arg.grants
             a == [s.adm EXCEPT !.roles = roles]
             u == [s EXCEPT !.adm = a]
             b == [u.adm EXCEPT !.grants = grants]
             v == [u EXCEPT !.adm = b]
             none == [v EXCEPT !.mode = "normal", !.adm.pending = None, !.adm.user = None]
             c == [[v.adm EXCEPT !.pending = None] EXCEPT !.user = None]
             home == [v EXCEPT !.mode = "normal"]
             forget == [home EXCEPT !.adm = c]
  <2>1. \/ t = none \/ t = [v EXCEPT !.mode = "adminRoleList"]
        \/ t = [v EXCEPT !.mode = "adminUserRoleSelect"] /\ s.adm.pending = "set_role"
    BY <1>1 DEF Receive, HandleAdminRolesList, To
  <2>2. roles \subseteq Roles
    BY <1>1 DEF AnswerOK
  <2> HIDE DEF t, roles, grants
  <2>3. /\ DOMAIN a = AdminFields /\ a.actions = s.adm.actions /\ a.roles = roles
        /\ a.users = s.adm.users /\ a.user = s.adm.user /\ a.pending = s.adm.pending
    BY DEF AdminFields, PageOK, Shape
  <2>4. none = forget
    <3> HIDE DEF v
    <3> QED
      OBVIOUS
  <2> HIDE DEF a, none
  <2>5. SameButAdmin(s, u) /\ u.adm = a /\ u.mode = s.mode /\ u.out = s.out
    BY <2>3, AdminSteps DEF PageOK
  <2> HIDE DEF u
  <2>6. /\ DOMAIN b = AdminFields /\ b.actions = s.adm.actions /\ b.roles = roles
        /\ b.users = s.adm.users /\ b.user = s.adm.user /\ b.pending = s.adm.pending
    BY <2>3, <2>5 DEF AdminFields
  <2> HIDE DEF b
  <2>7. SameButAdmin(u, v) /\ v.adm = b /\ v.mode = s.mode /\ v.out = s.out
    BY <2>3, <2>5, <2>6, AdminSteps DEF SameButAdmin
  <2> HIDE DEF v
  <2>8. SameButAdmin(s, v) /\ Shape(v)
    BY <2>5, <2>7 DEF SameButAdmin
  <2>9. \A mode : LET w == [v EXCEPT !.mode = mode] IN
           SameButAdmin(v, w) /\ w.adm = b /\ w.mode = mode /\ w.out = s.out /\ Shape(w)
    BY <2>7, <2>8, AdminSteps DEF SameButAdmin
  <2>10. /\ DOMAIN c = AdminFields /\ c.actions = s.adm.actions /\ c.roles = roles
         /\ c.users = s.adm.users /\ c.pending = None
    BY <2>6, <2>7 DEF AdminFields
  <2> HIDE DEF c
  <2>11. SameButAdmin(v, home) /\ home.adm = b /\ home.mode = "normal" /\ home.out = s.out /\ Shape(home)
    BY <2>9
  <2> HIDE DEF home
  <2>12. SameButAdmin(home, forget) /\ forget.adm = c /\ forget.mode = "normal" /\ forget.out = s.out
    BY <2>6, <2>10, <2>11, AdminSteps
  <2> HIDE DEF forget
  <2>13. /\ SameButAdmin(s, t) /\ t.out = s.out /\ t.adm.roles = roles /\ t.adm.users = s.adm.users
         /\ \/ t.mode = "normal" /\ t.adm.pending = None
            \/ t.mode \in {"adminUserRoleSelect", "adminRoleList"} /\ t.adm.pending = s.adm.pending
               /\ t.adm.user = s.adm.user
               /\ (t.mode = "adminUserRoleSelect" => s.adm.pending = "set_role")
    <3>1. CASE t = none
      <4>1. SameButAdmin(s, forget)
        BY <2>8, <2>11, <2>12 DEF SameButAdmin
      <4> QED
        BY <2>4, <2>10, <2>12, <3>1, <4>1
    <3>2. ASSUME NEW mode \in {"adminUserRoleSelect", "adminRoleList"}, t = [v EXCEPT !.mode = mode]
          PROVE  /\ SameButAdmin(s, t) /\ t.out = s.out /\ t.adm = b /\ t.mode = mode
      BY <2>8, <2>9, <3>2 DEF SameButAdmin
    <3> QED
      BY <2>1, <2>6, <3>1, <3>2
  <2>14. PageOK(t)
    BY <1>0, <2>2, <2>13, AdminNewsOK DEF SameButAdmin
  <2>15. Received(s, t, m)
    BY <1>1, <2>13 DEF Received, Took, Listed, SameButAdmin, Marks, Listing
  <2> QED
    BY <2>14, <2>15
<1>2. CASE m.kind = "usersList"
  <2> DEFINE users == m.arg
             a == [s.adm EXCEPT !.users = users]
             u == [s EXCEPT !.adm = a]
             home == [u EXCEPT !.mode = "normal"]
             b == [u.adm EXCEPT !.pending = None]
             none == [u EXCEPT !.mode = "normal", !.adm.pending = None]
             forget == [home EXCEPT !.adm = b]
             list == [u EXCEPT !.mode = "adminUserList"]
  <2>1. t = none \/ t = list
    BY <1>2 DEF Receive, HandleAdminUsersList, To
  <2>2. users \subseteq Names
    BY <1>2 DEF AnswerOK
  <2>0. users = m.arg
    OBVIOUS
  <2> HIDE DEF t, users
  <2>4. none = forget
    <3> HIDE DEF u
    <3> QED
      OBVIOUS
  <2>7. /\ DOMAIN a = AdminFields /\ a.actions = s.adm.actions /\ a.roles = s.adm.roles
        /\ a.users = users /\ a.user = s.adm.user /\ a.pending = s.adm.pending
    BY DEF AdminFields, PageOK, Shape
  <2> HIDE DEF a, none
  <2>8. SameButAdmin(s, u) /\ u.adm = a /\ u.mode = s.mode /\ u.out = s.out /\ Shape(u)
    BY <2>7, AdminSteps DEF PageOK, SameButAdmin
  <2> HIDE DEF u
  <2>9. /\ DOMAIN b = AdminFields /\ b.actions = s.adm.actions /\ b.roles = s.adm.roles
        /\ b.users = users /\ b.user = s.adm.user /\ b.pending = None
    BY <2>7, <2>8 DEF AdminFields
  <2> HIDE DEF b
  <2>10. SameButAdmin(u, home) /\ home.adm = a /\ home.mode = "normal" /\ home.out = s.out /\ Shape(home)
    BY <2>8, AdminSteps DEF SameButAdmin
  <2>11. SameButAdmin(u, list) /\ list.adm = a /\ list.mode = "adminUserList" /\ list.out = s.out
    BY <2>8, AdminSteps
  <2> HIDE DEF home, list
  <2>12. SameButAdmin(home, forget) /\ forget.adm = b /\ forget.mode = "normal" /\ forget.out = s.out
    BY <2>7, <2>9, <2>10, AdminSteps
  <2> HIDE DEF forget
  <2>3. /\ SameButAdmin(s, t) /\ t.out = s.out /\ t.adm.roles = s.adm.roles /\ t.adm.users = users
        /\ t.adm.user = s.adm.user
        /\ \/ t.mode = "normal" /\ t.adm.pending = None
           \/ t.mode = "adminUserList" /\ t.adm.pending = s.adm.pending
    <3>1. SameButAdmin(s, list) /\ SameButAdmin(s, forget)
      BY <2>8, <2>10, <2>11, <2>12 DEF SameButAdmin
    <3> QED
      BY <2>1, <2>4, <2>7, <2>9, <2>11, <2>12, <3>1
  <2>5. PageOK(t)
    BY <1>0, <2>2, <2>3, AdminNewsOK DEF SameButAdmin
  <2>6. Received(s, t, m)
    BY <1>2, <2>0, <2>3 DEF Received, Took, Listed, SameButAdmin, Marks, Listing
  <2> QED
    BY <2>5, <2>6
<1>3. CASE m.kind = "adminResult"
  <2> DEFINE v == Settle(s, s.adm.mutation)
             a == [v.adm EXCEPT !.mutation = NoMutation]
             w == [v EXCEPT !.adm = a]
             x == [s EXCEPT !.adm.mutation = NoMutation]
             r == Message("admin", "roles_list", None, None)
             y == [w EXCEPT !.out = Append(@, r)]
  <2>1. /\ m.op = "role_update_permissions" => t = s
        /\ m.op # "role_update_permissions" /\ ~m.ok => t = x
        /\ m.op # "role_update_permissions" /\ m.ok =>
              t = w \/ (m.op \in {"role_create", "role_delete"} /\ t = y)
    BY <1>3 DEF Receive, HandleAdminActionResult, Ask, Send
  <2>2. r.kind = "admin" /\ r.op = "roles_list"
    BY DEF Message
  <2>3. Settles(s, v)
    BY Settling
  <2> HIDE DEF t, v, r
  <2> USE DEF SameButAdmin, Shape, PageFields, AdminFields
  <2>4. CASE t = s /\ m.op = "role_update_permissions"
    <3>1. Received(s, s, m)
      BY <1>3, <2>4 DEF Received, Took, Listed, AdminKept, Lists, Marks, Apart
    <3> QED
      BY <2>4, <3>1
  <2>5. CASE t = x /\ m.op # "role_update_permissions" /\ ~m.ok
    <3>1. /\ SameButAdmin(s, t) /\ t.out = s.out /\ t.adm.roles = s.adm.roles
          /\ t.adm.users = s.adm.users /\ t.adm.user = s.adm.user
          /\ t.mode = s.mode /\ t.adm.pending = s.adm.pending
      BY <2>5 DEF PageOK
    <3> HIDE DEF x
    <3>2. PageOK(t)
      BY <1>0, <3>1, AdminNewsOK
    <3>3. Apart(s, t) \/ t.mode # "adminUserRoleSelect"
      BY <3>1 DEF Apart, AdminKept, Listing
    <3>4. Received(s, t, m)
      BY <1>3, <2>5, <3>1, <3>3 DEF Received, Took, Listed
    <3> QED
      BY <3>2, <3>4
  <2>6. CASE t \in {w, y} /\ m.op # "role_update_permissions" /\ m.ok
               /\ (t = w \/ m.op \in {"role_create", "role_delete"})
    <3> HIDE DEF SameButAdmin, Shape, PageFields
    <3>0. Shape(v) /\ SameButAdmin(s, v) /\ v.out = s.out /\ v.adm.roles = s.adm.roles
          /\ v.adm.user = s.adm.user
      BY <2>3 DEF Settles, SameButAdmin
    <3>10. /\ DOMAIN a = AdminFields /\ a.actions = v.adm.actions /\ a.roles = v.adm.roles
           /\ a.users = v.adm.users /\ a.user = v.adm.user /\ a.pending = v.adm.pending
      BY <3>0 DEF Shape
    <3> HIDE DEF a
    <3>1. /\ SameButAdmin(v, w) /\ w.adm = a /\ w.mode = v.mode /\ w.out = v.out /\ Shape(w)
      BY <3>0, <3>10, AdminSteps DEF SameButAdmin
    <3> HIDE DEF w
    <3>11. DOMAIN y = PageFields /\ y.out = Append(w.out, r) /\ y.adm = w.adm /\ y.mode = w.mode
      BY <3>1 DEF Shape, PageFields
    <3>12. SameButAdmin(w, y)
      BY <3>1, <3>11 DEF Shape, PageFields, SameButAdmin
    <3> HIDE DEF y
    <3>13. SameButAdmin(s, w) /\ SameButAdmin(s, y)
      BY <3>0, <3>1, <3>12 DEF SameButAdmin
    <3>2. /\ SameButAdmin(s, t) /\ t.adm.roles = s.adm.roles /\ t.adm.user = s.adm.user
          /\ t.adm.users = v.adm.users /\ t.mode = v.mode /\ t.adm.pending = v.adm.pending
          /\ t.out = IF t = w THEN s.out ELSE Append(s.out, r)
      BY <2>6, <3>0, <3>1, <3>10, <3>11, <3>13
    <3>3. /\ v.adm.users \in {s.adm.users, s.adm.users \ {s.adm.mutation.id}}
          /\ \/ v.mode = s.mode /\ v.adm.pending = s.adm.pending
             \/ v.mode = "adminMenu" /\ v.adm.pending = None
             \/ v.mode = "adminUserList" /\ v.adm.pending = "set_role"
          /\ s.adm.mutation.action # None /\ s.adm.mutation.action \in Marks =>
                v.adm.users = s.adm.users \ {s.adm.mutation.id}
      BY <2>3 DEF Settles
    <3> HIDE DEF SameButAdmin
    <3>4. PageOK(t)
      <4>1. t.adm.users \subseteq Names /\ t.adm.pending \in UserActions \cup {None}
        BY <1>0, <3>2, <3>3 DEF UserActions
      <4> QED
        BY <1>0, <3>2, <3>3, <4>1, AdminNewsOK DEF SameButAdmin
    <3>5. t.mode = "adminUserRoleSelect" => Apart(s, t)
      BY <3>2, <3>3 DEF Apart, AdminKept, Listing
    <3>6. t.mode \in Listing /\ t.adm.pending \in Marks =>
            /\ t.adm.pending = s.adm.pending /\ s.mode \in Listing
            /\ s.adm.mutation.action # None /\ s.adm.mutation.action = s.adm.pending =>
                  t.adm.users = s.adm.users \ {s.adm.mutation.id}
      BY <3>2, <3>3 DEF Marks, Listing
    <3>7. Listed(s, t, m)
      BY <1>3, <2>6, <3>5, <3>6 DEF Listed
    <3>8. Took(s, t, m)
      BY <1>3, <3>2 DEF Took, SameButAdmin
    <3>9. t.out = s.out \/ /\ t.out = Append(s.out, r) /\ m.op \notin Marks
      BY <2>6, <3>2 DEF Marks
    <3> QED
      BY <1>3, <2>2, <3>4, <3>7, <3>8, <3>9 DEF Received
  <2> QED
    BY <2>1, <2>4, <2>5, <2>6
<1> QED
  BY <1>1, <1>2, <1>3

-----------------------------------------------------------------------------
(* The invariant all the others rest on, and the two ends of a key. *)

ServerOK ==
    /\ DOMAIN srv = ServerFields /\ IsWorld(srv.world)
    /\ srv.can \subseteq Permissions /\ srv.roles \subseteq Roles /\ srv.items \subseteq Items
    /\ srv.accounts \in [Names -> {"active", "disabled", "gone"}]
LinksOK ==
    /\ IsSeq(page.out) /\ IsSeq(srv.inbox)
    /\ \A i \in DOMAIN page.out : RequestOK(page.out[i])
    /\ \A i \in DOMAIN srv.inbox : AnswerOK(srv.inbox[i])
    /\ ~page.running => page.out = <<>> /\ srv.inbox = <<>> /\ page.mode = "normal"
BaseInv == PageOK(page) /\ ServerOK /\ LinksOK

\* The fields of the page that none of the menus reads.
SameMenus(s, t) ==
    /\ Shape(t) /\ t.mode = s.mode /\ t.can = s.can /\ t.confirm = s.confirm
    /\ t.option = s.option /\ t.text = s.text /\ t.prompt = s.prompt /\ t.world = s.world
    /\ t.wb = s.wb /\ t.adminActions = s.adminActions /\ t.adm = s.adm /\ t.itm = s.itm
    /\ t.palette = s.palette /\ t.back = s.back /\ t.helpBack = s.helpBack
    /\ t.loopback = s.loopback /\ t.restore = s.restore /\ t.piano = s.piano
LEMMA Untouched ==
    ASSUME NEW s, PageOK(s), NEW t, SameMenus(s, t),
           t.items = s.items \/ IsMap(t.items, Items, ItemValues)
    PROVE  PageOK(t)
<1> USE DEF SameMenus
<1>1. Shape(t) /\ IsWorld(t.world)
  BY DEF PageOK
<1>2. Ways(t)
  BY DEF PageOK, Ways
<1>3. Held(t)
  BY DEF PageOK, Held
<1>4. MenusHeld(t)
  BY DEF PageOK, MenusHeld
<1>5. AskedAbout(t)
  BY DEF PageOK, AskedAbout
<1> QED
  BY <1>1, <1>2, <1>3, <1>4, <1>5 DEF PageOK

LEMMA Unread ==
    ASSUME NEW s, PageOK(s), NEW value
    PROVE  /\ LET t == [s EXCEPT !.hasty = value]
              IN  SameMenus(s, t) /\ t.items = s.items /\ t.hasty = value /\ t.out = s.out
                  /\ t.running = s.running
           /\ LET t == [s EXCEPT !.out = value]
              IN  SameMenus(s, t) /\ t.items = s.items /\ t.hasty = s.hasty /\ t.out = value
                  /\ t.running = s.running
           /\ LET t == [s EXCEPT !.peers = value]
              IN  SameMenus(s, t) /\ t.items = s.items /\ t.hasty = s.hasty /\ t.out = s.out
                  /\ t.running = s.running
           /\ LET t == [s EXCEPT !.onFloor = value]
              IN  SameMenus(s, t) /\ t.items = s.items /\ t.hasty = s.hasty /\ t.out = s.out
                  /\ t.running = s.running
<1> USE DEF PageOK, Shape, PageFields, SameMenus
<1>1. LET t == [s EXCEPT !.hasty = value]
      IN  SameMenus(s, t) /\ t.items = s.items /\ t.hasty = value /\ t.out = s.out
          /\ t.running = s.running
  OBVIOUS
<1>2. LET t == [s EXCEPT !.out = value]
      IN  SameMenus(s, t) /\ t.items = s.items /\ t.hasty = s.hasty /\ t.out = value
          /\ t.running = s.running
  OBVIOUS
<1>3. LET t == [s EXCEPT !.peers = value]
      IN  SameMenus(s, t) /\ t.items = s.items /\ t.hasty = s.hasty /\ t.out = s.out
          /\ t.running = s.running
  OBVIOUS
<1>4. LET t == [s EXCEPT !.onFloor = value]
      IN  SameMenus(s, t) /\ t.items = s.items /\ t.hasty = s.hasty /\ t.out = s.out
          /\ t.running = s.running
  OBVIOUS
<1> QED
  BY <1>1, <1>2, <1>3, <1>4

\* What a key does to the page and to its socket.
Hurried(t) == Len(t.out) > Len(page.out) /\ t.out[Len(t.out)].kind = "admin" /\ UnderWay
Became(t) ==
    /\ PageOK(page') /\ page'.mode = t.mode /\ page'.running = t.running
    /\ page'.out = t.out /\ page'.world = t.world /\ page'.can = t.can
    /\ page'.adm.pending = t.adm.pending /\ page'.adm.mutation = t.adm.mutation
    /\ t.mode \in Lists => page'.adm.users = t.adm.users
    /\ t.running /\ ~page'.hasty => ~page.hasty /\ ~Hurried(t)
    /\ srv' = IF t.running THEN srv ELSE [srv EXCEPT !.inbox = <<>>]
Moved == page.running /\ \E t : Does(page, t) /\ Became(t)

LEMMA PressedMoves ==
    ASSUME BaseInv, Pressed
    PROVE  Moved
<1>1. PICK t : Does(page, t) /\ Become(t)
  BY DEF Pressed
<1> DEFINE s == Shown(t)
           hasty == s.hasty \/ Hurried(t)
<1>2. page' = [s EXCEPT !.hasty = hasty] /\ srv' = IF t.running THEN srv ELSE [srv EXCEPT !.inbox = <<>>]
  BY <1>1 DEF Become, Hurried
<1>3. PageOK(s) /\ Settled(t, s)
  BY <1>1, ShownOK DEF Does
<1>4. t.hasty = page.hasty \/ ~t.running
  BY <1>1 DEF Does, Quiet, Asks, Leaves
<1> HIDE DEF s
<1>5. hasty <=> s.hasty \/ Hurried(t)
  OBVIOUS
<1> HIDE DEF hasty
<1>6. /\ SameMenus(s, page') /\ page'.items = s.items /\ page'.hasty = hasty
      /\ page'.out = s.out /\ page'.running = s.running
  BY <1>2, <1>3, Unread, ZenonT(60)
<1>7. PageOK(page')
  BY <1>3, <1>6, Untouched
<1>8. Became(t)
  BY <1>2, <1>3, <1>4, <1>5, <1>6, <1>7 DEF Became, Settled, SameMenus
<1> QED
  BY <1>1, <1>8 DEF Pressed, Moved

LEMMA EscapeMoves ==
    ASSUME BaseInv, Escape
    PROVE  Moved
<1> DEFINE t == EscapeKey(page)
<1>1. Does(page, t) /\ PageOK(page) /\ IsSeq(page.out) /\ page.running
  BY EscapeDoes DEF BaseInv, LinksOK, Escape
<1>2. t.out = page.out \/ ~t.running
  <2>1. CASE page.mode = "normal"
    <3> DEFINE u == [page EXCEPT !.escaping = TRUE]
               v == Disconnect(page)
    <3>1. t \in {u, v}
      BY <2>1 DEF EscapeKey, EscapeCommand
    <3>2. u.out = page.out
      BY <1>1 DEF PageOK, Shape, PageFields
    <3>3. ~v.running
      BY <1>1, Disconnecting DEF Leaves
    <3> HIDE DEF t, u, v
    <3> QED
      BY <3>1, <3>2, <3>3
  <2>2. CASE page.mode # "normal"
    BY <1>1, <2>2, EscapeBack DEF Down, Back
  <2> QED
    BY <2>1, <2>2
<1>3. page' = Shown(t) /\ srv' = IF page'.running THEN srv ELSE [srv EXCEPT !.inbox = <<>>]
  BY DEF Escape
<1> HIDE DEF t
<1>4. PageOK(page') /\ Settled(t, page')
  BY <1>1, <1>3, ShownOK DEF Does
<1>5. t.running => t.hasty = page.hasty /\ ~Hurried(t)
  <2> SUFFICES ASSUME t.running PROVE t.hasty = page.hasty /\ ~Hurried(t)
    OBVIOUS
  <2>1. t.hasty = page.hasty
    BY <1>1 DEF Does, Quiet, Asks, Leaves
  <2>2. Len(page.out) \in Nat
    BY <1>1, LenProperties DEF IsSeq
  <2> QED
    BY <1>2, <2>1, <2>2 DEF Hurried
<1>6. Became(t)
  BY <1>3, <1>4, <1>5 DEF Became, Settled
<1> QED
  BY <1>1, <1>6 DEF Moved

KeyActions ==
    \/ NormalKeys \/ PaletteOpened \/ PaletteEnter \/ PianoKeys \/ PickEnter \/ TypeText
    \/ SubmitText \/ DialogAnswered \/ ItemMenuKeys \/ AdminKeys \/ BuilderKeys
LEMMA KeysMove ==
    ASSUME BaseInv, KeyActions \/ Escape
    PROVE  Moved
BY EscapeMoves, KeysPress, PressedMoves DEF BaseInv, KeyActions

\* What a message does to the page.
Heard(m, t) ==
    /\ page.running /\ srv.inbox # <<>> /\ m = Head(srv.inbox) /\ AnswerOK(m)
    /\ PageOK(t) /\ Received(page, t, m) /\ PageOK(page') /\ Settled(t, page')
    /\ srv' = [srv EXCEPT !.inbox = Tail(@)]
LEMMA MessageHeard ==
    ASSUME BaseInv, OnMessage
    PROVE  \E m, t : Heard(m, t)
<1> DEFINE m == Head(srv.inbox)
           t == Receive(page, m)
<1>1. page.running /\ srv.inbox # <<>> /\ page' = Shown(t) /\ srv' = [srv EXCEPT !.inbox = Tail(@)]
  BY DEF OnMessage
<1>2. PageOK(page) /\ IsSeq(page.out) /\ AnswerOK(m)
  BY <1>1, Rest, ZenonT(60) DEF BaseInv, LinksOK
<1> HIDE DEF m
<1>3. PageOK(t) /\ Received(page, t, m)
  <2>1. CASE m.kind \in {"wall", "ambiance", "targets"}
    BY <1>1, <1>2, <2>1, MenusReceive
  <2>2. CASE m.kind \in {"upsert", "remove", "itemUpsert", "itemRemove", "permissions", "piano"}
    BY <1>2, <2>2, NewsReceived
  <2>3. CASE m.kind \in {"rolesList", "usersList", "adminResult"}
    BY <1>2, <2>3, AdminReceived
  <2> QED
    BY <1>2, <2>1, <2>2, <2>3 DEF AnswerOK
<1> HIDE DEF t
<1>4. PageOK(page') /\ Settled(t, page')
  BY <1>1, <1>3, ShownOK
<1>5. Heard(m, t)
  BY <1>1, <1>2, <1>3, <1>4 DEF Heard, m
<1> QED
  BY <1>5

-----------------------------------------------------------------------------
(* The server. *)

\* What two copies of a map say of one object.
Holds(f, i, v) == i \in DOMAIN f /\ f[i] = v
Lacks(f, i) == i \notin DOMAIN f
Agree(f, g, i) == (i \in DOMAIN f <=> i \in DOMAIN g) /\ (i \in DOMAIN g => f[i] = g[i])

\* What the server does to its copy of the world it tells the page in one
\* message, and it tells nothing else.
Touches(m, k, i) == m.kind \in {"upsert", "remove"} /\ m.op = k /\ m.id = i
TellsOf(a, k, i) ==
    LET v == srv.world[k]
        w == srv'.world[k]
    IN  /\ \A n \in DOMAIN a : Touches(a[n], k, i) =>
              IF a[n].kind = "upsert" THEN Holds(w, i, a[n].arg) ELSE Lacks(w, i)
        /\ (\A n \in DOMAIN a : ~Touches(a[n], k, i)) => Agree(w, v, i)
Tells(a) == \A k \in Kinds : \A i : TellsOf(a, k, i)
Spoke(a) ==
    /\ IsSeq(a) /\ \A i \in DOMAIN a : AnswerOK(a[i])
    /\ srv'.inbox = srv.inbox \o a /\ ServerOK' /\ Tells(a)
SamePeople == srv'.accounts = srv.accounts /\ srv'.touched = srv.touched
SameRights == srv'.can = srv.can /\ srv'.taken = srv.taken /\ SamePeople
FromAdminKinds == {"rolesList", "usersList", "adminResult"}

Keeps(a, w) ==
    /\ DOMAIN srv' = ServerFields /\ srv'.world = w /\ srv'.inbox = srv.inbox \o a
    /\ srv'.can = srv.can /\ srv'.taken = srv.taken /\ srv'.accounts = srv.accounts
    /\ srv'.touched = srv.touched /\ srv'.roles = srv.roles /\ srv'.items = srv.items

LEMMA WorldSet ==
    ASSUME NEW w, IsWorld(w), NEW kind \in Kinds, NEW g, NEW u, u = [w EXCEPT ![kind] = g]
    PROVE  \A k \in Kinds : u[k] = IF k = kind THEN g ELSE w[k]
<1> DEFINE a == w.wall
           b == w.ambiance
           rec == [wall |-> a, ambiance |-> b]
<1>1. w = rec
  BY DEF IsWorld
<1>2. DOMAIN rec = Kinds
  BY DEF Kinds
<1> HIDE DEF rec
<1>3. \A k \in Kinds : [rec EXCEPT ![kind] = g][k] = IF k = kind THEN g ELSE rec[k]
  BY <1>2
<1> QED
  BY <1>1, <1>3

Puts(u, w, kind, id, v) == u = [w EXCEPT ![kind] = With(w[kind], id, v)]
Drops(u, w, kind, id) == u = [w EXCEPT ![kind] = Without(w[kind], id)]
LEMMA WorldWith ==
    ASSUME NEW w, IsWorld(w), NEW kind \in Kinds, NEW id \in Ids(kind), NEW v \in Objects,
           NEW u, Puts(u, w, kind, id, v)
    PROVE  /\ IsWorld(u) /\ Holds(u[kind], id, v)
           /\ \A k \in Kinds : \A i : k # kind \/ i # id => Agree(u[k], w[k], i)
<1> DEFINE f == w[kind]
           g == With(f, id, v)
<1>0. u = [w EXCEPT ![kind] = g]
  BY DEF Puts
<1>1. IsMap(f, Ids(kind), Objects)
  BY DEF IsWorld, Ids, Kinds
<1>2. IsWorld(u)
  BY Worlds DEF Puts
<1>3. DOMAIN g = DOMAIN f \cup {id} /\ g[id] = v /\ \A i \in DOMAIN f \ {id} : g[i] = f[i]
  BY DEF With
<1> HIDE DEF g
<1>5. \A k \in Kinds : u[k] = IF k = kind THEN g ELSE w[k]
  BY <1>0, WorldSet
<1> QED
  BY <1>2, <1>3, <1>5 DEF Holds, Lacks, Agree

LEMMA WorldWithout ==
    ASSUME NEW w, IsWorld(w), NEW kind \in Kinds, NEW id,
           NEW u, Drops(u, w, kind, id)
    PROVE  /\ IsWorld(u) /\ Lacks(u[kind], id)
           /\ \A k \in Kinds : \A i : k # kind \/ i # id => Agree(u[k], w[k], i)
<1> DEFINE f == w[kind]
           g == Without(f, id)
<1>0. u = [w EXCEPT ![kind] = g]
  BY DEF Drops
<1>1. IsMap(f, Ids(kind), Objects)
  BY DEF IsWorld, Ids, Kinds
<1>2. IsWorld(u)
  BY Worlds DEF Drops
<1>3. DOMAIN g = DOMAIN f \ {id} /\ \A i \in DOMAIN f \ {id} : g[i] = f[i]
  BY DEF Without, Restrict
<1> HIDE DEF g
<1>5. \A k \in Kinds : u[k] = IF k = kind THEN g ELSE w[k]
  BY <1>0, WorldSet
<1> QED
  BY <1>2, <1>3, <1>5 DEF Holds, Lacks, Agree

\* The news itself, and then the answer to whoever asked for it.
Says(a, news) ==
    /\ IsSeq(a) /\ 1 \in DOMAIN a /\ a[1] = news
    /\ \A n \in DOMAIN a \ {1} : a[n].kind \in Kinds
LEMMA Upserted ==
    ASSUME ServerOK, NEW kind \in Kinds, NEW id \in Ids(kind), NEW v \in Objects, NEW a,
           Says(a, Answer("upsert", kind, id, v, TRUE)),
           NEW w, Puts(w, srv.world, kind, id, v), Keeps(a, w)
    PROVE  Spoke(a) /\ SameRights
<1>9. /\ IsWorld(w) /\ Holds(w[kind], id, v)
      /\ \A k \in Kinds : \A i : k # kind \/ i # id => Agree(w[k], srv.world[k], i)
  <2> DEFINE old == srv.world
  <2>1. IsWorld(old)
    BY DEF ServerOK
  <2> HIDE DEF old
  <2>2. Puts(w, old, kind, id, v)
    BY DEF old
  <2>3. /\ IsWorld(w) /\ Holds(w[kind], id, v)
        /\ \A k \in Kinds : \A i : k # kind \/ i # id => Agree(w[k], old[k], i)
    BY <2>1, <2>2, WorldWith
  <2> QED
    BY <2>3 DEF old
<1>5. ServerOK'
  BY <1>9 DEF ServerOK, Keeps
<1>6. a[1].kind = "upsert" /\ a[1].op = kind /\ a[1].id = id /\ a[1].arg = v
  BY DEF Answer, Says
<1>7. \A i \in DOMAIN a : AnswerOK(a[i])
  BY <1>6 DEF AnswerOK, Ids, Kinds, Says
<1>8. ASSUME NEW k \in Kinds, NEW i
      PROVE  TellsOf(a, k, i)
  <2>1. \A n \in DOMAIN a : Touches(a[n], k, i) <=> n = 1 /\ k = kind /\ i = id
    BY <1>6 DEF Touches, Kinds, Says
  <2> QED
    BY <1>6, <1>9, <2>1 DEF TellsOf, Keeps, Says
<1> QED
  BY <1>5, <1>7, <1>8 DEF Spoke, Tells, SameRights, SamePeople, Keeps, Says

LEMMA Removed ==
    ASSUME ServerOK, NEW kind \in Kinds, NEW id, NEW a,
           Says(a, Answer("remove", kind, id, None, TRUE)),
           NEW w, Drops(w, srv.world, kind, id), Keeps(a, w)
    PROVE  Spoke(a) /\ SameRights
<1>9. /\ IsWorld(w) /\ Lacks(w[kind], id)
      /\ \A k \in Kinds : \A i : k # kind \/ i # id => Agree(w[k], srv.world[k], i)
  <2> DEFINE old == srv.world
  <2>1. IsWorld(old)
    BY DEF ServerOK
  <2> HIDE DEF old
  <2>2. Drops(w, old, kind, id)
    BY DEF old
  <2>3. /\ IsWorld(w) /\ Lacks(w[kind], id)
        /\ \A k \in Kinds : \A i : k # kind \/ i # id => Agree(w[k], old[k], i)
    BY <2>1, <2>2, WorldWithout
  <2> QED
    BY <2>3 DEF old
<1>5. ServerOK'
  BY <1>9 DEF ServerOK, Keeps
<1>6. a[1].kind = "remove" /\ a[1].op = kind /\ a[1].id = id
  BY DEF Answer, Says
<1>7. \A i \in DOMAIN a : AnswerOK(a[i])
  BY <1>6 DEF AnswerOK, Kinds, Says
<1>8. ASSUME NEW k \in Kinds, NEW i
      PROVE  TellsOf(a, k, i)
  <2>1. \A n \in DOMAIN a : Touches(a[n], k, i) <=> n = 1 /\ k = kind /\ i = id
    BY <1>6 DEF Touches, Kinds, Says
  <2> QED
    BY <1>6, <1>9, <2>1 DEF TellsOf, Keeps, Says
<1> QED
  BY <1>5, <1>7, <1>8 DEF Spoke, Tells, SameRights, SamePeople, Keeps, Says

\* A change of anything but the world, and the messages about it.
LEMMA Announced ==
    ASSUME NEW a, IsSeq(a), \A n \in DOMAIN a : AnswerOK(a[n]) /\ a[n].kind \notin {"upsert", "remove"},
           srv'.inbox = srv.inbox \o a, srv'.world = srv.world, ServerOK'
    PROVE  Spoke(a)
<1>1. \A n \in DOMAIN a : \A k, i : ~Touches(a[n], k, i)
  BY DEF Touches
<1>2. Tells(a)
  BY <1>1 DEF Tells, TellsOf, Agree
<1> QED
  BY <1>2 DEF Spoke

LEMMA ToldOnly ==
    ASSUME ServerOK, NEW a, IsSeq(a), srv' = Told(a),
           \A n \in DOMAIN a : AnswerOK(a[n]) /\ a[n].kind \notin {"upsert", "remove"}
    PROVE  Spoke(a) /\ SameRights
<1>1. /\ DOMAIN srv' = ServerFields /\ srv'.world = srv.world /\ srv'.inbox = srv.inbox \o a
      /\ srv'.can = srv.can /\ srv'.taken = srv.taken /\ srv'.accounts = srv.accounts
      /\ srv'.touched = srv.touched /\ srv'.roles = srv.roles /\ srv'.items = srv.items
  BY DEF ServerOK, ServerFields, Told
<1>2. ServerOK'
  BY <1>1, SMTT(30) DEF ServerOK
<1> QED
  BY <1>1, <1>2, Announced DEF SameRights, SamePeople

\* The server's answer to a change of the world.
WorldTold(m, a) ==
    /\ Spoke(a) /\ SameRights
    /\ \A n \in DOMAIN a : a[n].kind \notin FromAdminKinds
    /\ "structure" \in srv.can /\ m.op = "update" =>
          \/ \E n \in DOMAIN a : Touches(a[n], m.kind, m.id)
          \/ Lacks(srv.world[m.kind], m.id) /\ Lacks(srv'.world[m.kind], m.id)
LEMMA WorldHandled ==
    ASSUME ServerOK, NEW m, RequestOK(m), m.kind \in Kinds, WorldAnswered(m)
    PROVE  \E a : WorldTold(m, a)
<1> DEFINE kind == m.kind
           world == srv.world[m.kind]
           may == "structure" \in srv.can /\ (m.op = "add" \/ m.id \in DOMAIN world)
           done(id) == Answer(kind, m.op, id, None, TRUE)
           more(id, v) == <<Answer("upsert", kind, id, v, TRUE), done(id)>>
<1> USE DEF RequestOK
<1>1. IsMap(world, Ids(kind), Objects)
  BY DEF ServerOK, IsWorld, Ids, Kinds
<1>2. ASSUME NEW id \in Ids(kind), NEW v \in Objects, m.op = "update" => id = m.id,
             srv' = [Told(more(id, v)) EXCEPT !.world[kind] = With(@, id, v)]
      PROVE  WorldTold(m, more(id, v))
  <2> DEFINE a == more(id, v)
             first == Answer("upsert", kind, id, v, TRUE)
             last == Answer(kind, m.op, id, None, TRUE)
             w == [srv.world EXCEPT ![kind] = With(srv.world[kind], id, v)]
  <2>1. IsSeq(a) /\ DOMAIN a = 1..2 /\ a[1] = first /\ a[2] = last
    <3>1. IsTwo(a, first, last)
      BY DEF IsTwo
    <3> HIDE DEF first, last, a
    <3> QED
      BY <3>1, Two
  <2>2. first.kind = "upsert" /\ first.op = kind /\ first.id = id /\ last.kind = kind
    BY DEF Answer
  <2>9. srv' = [Told(a) EXCEPT !.world[kind] = With(@, id, v)]
    BY <1>2
  <2> HIDE DEF a, last
  <2>3. Keeps(a, w) /\ Puts(w, srv.world, kind, id, v)
    BY <2>9 DEF Keeps, Told, ServerOK, ServerFields, Puts
  <2>4. \A n \in DOMAIN a \ {1} : a[n].kind \in Kinds
    BY <2>1, <2>2
  <2>5. Spoke(a) /\ SameRights
    <3>1. kind \in Kinds /\ id \in Ids(kind) /\ Says(a, first)
      BY <2>1, <2>4 DEF Says
    <3> HIDE DEF kind, w
    <3> QED
      BY <2>3, <3>1, Upserted
  <2>6. m.op = "update" => Touches(a[1], m.kind, m.id)
    BY <1>2, <2>1, <2>2 DEF Touches
  <2> HIDE DEF first, kind
  <2>7. \A n \in DOMAIN a : a[n].kind \notin FromAdminKinds
    BY <2>1, <2>2, <2>4 DEF FromAdminKinds, Kinds
  <2>8. WorldTold(m, a)
    BY <2>1, <2>5, <2>6, <2>7 DEF WorldTold
  <2> QED
    BY <2>8 DEF a
<1>3. CASE /\ ~may \/ m.op \in {"add", "move"}
           /\ srv' = Told(<<Answer(m.kind, m.op, None, None, FALSE)>>)
  <2> DEFINE last == Answer(m.kind, m.op, None, None, FALSE)
             a == <<last>>
  <2>1. IsSeq(a) /\ DOMAIN a = {1} /\ a[1] = last
    <3>1. IsOne(a, last)
      BY DEF IsOne
    <3> HIDE DEF last, a
    <3> QED
      BY <3>1, One
  <2>2. last.kind = kind
    BY DEF Answer
  <2>3. srv' = Told(a)
    BY <1>3
  <2> HIDE DEF a, last
  <2>4. Spoke(a) /\ SameRights
    BY <2>1, <2>2, <2>3, ToldOnly DEF AnswerOK, Kinds
  <2>5. srv'.world = srv.world
    BY <2>3 DEF Told, ServerOK, ServerFields
  <2>6. "structure" \in srv.can /\ m.op = "update" =>
          Lacks(srv.world[m.kind], m.id) /\ Lacks(srv'.world[m.kind], m.id)
    BY <1>3, <2>5 DEF Lacks
  <2>7. WorldTold(m, a)
    BY <2>1, <2>2, <2>4, <2>6 DEF WorldTold, FromAdminKinds, Kinds
  <2> QED
    BY <2>7
<1>4. CASE /\ may /\ m.op = "add"
           /\ \E id \in Ids(kind) \ DOMAIN world :
                 srv' = [Told(more(id, NewObject(m))) EXCEPT !.world[kind] = With(@, id, NewObject(m))]
  <2>1. NewObject(m) \in Objects
    <3> DEFINE c == [prop |-> "type", value |-> m.arg]
               o == [type |-> 0, level |-> 0]
    <3>1. o \in Objects
      BY BoundsAssumption DEF Objects, Presets, Levels
    <3>2. m.kind = "wall" => ChangeOK(c)
      BY <1>4 DEF ChangeOK
    <3>3. NewObject(m) = IF m.kind = "ambiance" THEN o ELSE Edited("wall", o, c)
      BY DEF NewObject
    <3> HIDE DEF c, o
    <3> QED
      BY <3>1, <3>2, <3>3, EditedIsObject DEF Kinds
  <2> DEFINE v == NewObject(m)
  <2> HIDE DEF v
  <2>2. PICK id \in Ids(kind) \ DOMAIN world :
          srv' = [Told(more(id, v)) EXCEPT !.world[kind] = With(@, id, v)]
    BY <1>4 DEF v
  <2> QED
    BY <1>2, <1>4, <2>1, <2>2 DEF v
<1>5. CASE /\ may /\ m.op \in {"move", "update"}
           /\ LET v == IF m.op = "move" THEN world[m.id] ELSE Edited(m.kind, world[m.id], m.arg)
              IN  srv' = [Told(more(m.id, v)) EXCEPT !.world[kind] = With(@, m.id, v)]
  <2> DEFINE v == IF m.op = "move" THEN world[m.id] ELSE Edited(m.kind, world[m.id], m.arg)
  <2>1. m.id \in Ids(kind) /\ world[m.id] \in Objects
    BY <1>1, <1>5 DEF IsMap
  <2>2. v \in Objects
    BY <1>5, <2>1, EditedIsObject
  <2>3. srv' = [Told(more(m.id, v)) EXCEPT !.world[kind] = With(@, m.id, v)]
    BY <1>5
  <2> HIDE DEF v
  <2> QED
    BY <1>2, <2>1, <2>2, <2>3
<1>6. CASE /\ may /\ m.op = "delete"
           /\ srv' = [Told(<<Answer("remove", m.kind, m.id, None, TRUE), done(m.id)>>)
                        EXCEPT !.world[m.kind] = Without(@, m.id)]
  <2> DEFINE first == Answer("remove", kind, m.id, None, TRUE)
             last == Answer(kind, m.op, m.id, None, TRUE)
             a == <<first, last>>
             w == [srv.world EXCEPT ![kind] = Without(srv.world[kind], m.id)]
  <2>1. IsSeq(a) /\ DOMAIN a = 1..2 /\ a[1] = first /\ a[2] = last
    <3>1. IsTwo(a, first, last)
      BY DEF IsTwo
    <3> HIDE DEF first, last, a
    <3> QED
      BY <3>1, Two
  <2>2. first.kind = "remove" /\ last.kind = kind
    BY DEF Answer
  <2>9. srv' = [Told(a) EXCEPT !.world[kind] = Without(@, m.id)]
    BY <1>6
  <2> HIDE DEF a, last
  <2>3. Keeps(a, w) /\ Drops(w, srv.world, kind, m.id)
    BY <2>9 DEF Keeps, Told, ServerOK, ServerFields, Drops
  <2>4. \A n \in DOMAIN a \ {1} : a[n].kind \in Kinds
    BY <2>1, <2>2
  <2>5. Spoke(a) /\ SameRights
    <3>1. kind \in Kinds /\ Says(a, first)
      BY <2>1, <2>4 DEF Says
    <3> HIDE DEF kind, w
    <3> QED
      BY <2>3, <3>1, Removed
  <2> HIDE DEF first, kind
  <2>6. \A n \in DOMAIN a : a[n].kind \notin FromAdminKinds
    BY <2>1, <2>2, <2>4 DEF FromAdminKinds, Kinds
  <2>7. WorldTold(m, a)
    BY <1>6, <2>5, <2>6 DEF WorldTold
  <2> QED
    BY <2>7
<1> QED
  <2>1. (IF m.kind = "wall" THEN Walls ELSE Ambiances) = Ids(kind)
    BY DEF Ids
  <2> QED
    BY <1>2, <1>3, <1>4, <1>5, <1>6, <2>1 DEF WorldAnswered

LEMMA Answered ==
    ASSUME NEW a, NEW x, IsOne(a, x), AnswerOK(x), x.kind \notin {"upsert", "remove"},
           srv'.inbox = srv.inbox \o a, srv'.world = srv.world, ServerOK'
    PROVE  Spoke(a)
BY One, Announced

\* A list of users, but for those whom somebody else changed since it was sent.
Matches(users, op, known) ==
    users \ known.touched = Eligible(known.accounts, op) \ known.touched
KnowsOn == \A users, op : Matches(users, op, srv) => Matches(users, op, srv')
LEMMA SamePeopleKnown ==
    ASSUME SamePeople
    PROVE  KnowsOn
BY DEF SamePeople, KnowsOn, Matches

\* Another administrator, or whoever registers.
LEMMA Administering ==
    ASSUME ServerOK, OthersAdminister
    PROVE  /\ page.running /\ UNCHANGED page /\ ServerOK' /\ KnowsOn
           /\ srv'.inbox = srv.inbox /\ srv'.world = srv.world
           /\ srv'.can = srv.can /\ srv'.taken = srv.taken
<1> PICK n \in Names, status \in {"active", "disabled", "gone"} :
      srv' = [srv EXCEPT !.accounts[n] = status, !.touched = @ \cup {n}]
  BY DEF OthersAdminister
<1>1. page.running /\ UNCHANGED page
  BY DEF OthersAdminister
<1> DEFINE accounts == [srv.accounts EXCEPT ![n] = status]
           touched == srv.touched \cup {n}
<1>2. srv' = [srv EXCEPT !.accounts = accounts, !.touched = touched]
  BY DEF ServerOK, ServerFields
<1>3. accounts \in [Names -> {"active", "disabled", "gone"}]
  BY DEF ServerOK
<1>4. \A o \in Names \ {n} : accounts[o] = srv.accounts[o]
  BY DEF ServerOK
<1>5. \A op : Eligible(accounts, op) \ touched = Eligible(srv.accounts, op) \ touched
  <2> HIDE DEF accounts
  <2> QED
    BY <1>4 DEF Eligible
<1> HIDE DEF accounts, touched
<1>6. /\ DOMAIN srv' = ServerFields /\ srv'.inbox = srv.inbox /\ srv'.world = srv.world
      /\ srv'.can = srv.can /\ srv'.taken = srv.taken /\ srv'.accounts = accounts
      /\ srv'.touched = touched /\ srv'.roles = srv.roles /\ srv'.items = srv.items
  BY <1>2 DEF ServerOK, ServerFields
<1>7. ServerOK'
  BY <1>3, <1>6 DEF ServerOK
<1>8. KnowsOn
  <2> SUFFICES ASSUME NEW users, NEW op, Matches(users, op, srv) PROVE Matches(users, op, srv')
    BY DEF KnowsOn
  <2>1. users \ srv.touched = Eligible(srv.accounts, op) \ srv.touched
    BY DEF Matches
  <2>2. users \ touched = Eligible(srv.accounts, op) \ touched
    BY <2>1 DEF touched
  <2> QED
    BY <1>5, <1>6, <2>2 DEF Matches
<1> QED
  BY <1>1, <1>6, <1>7, <1>8

\* What a change of an account does to those it still applies to.
LEMMA AfterChange ==
    ASSUME NEW accounts \in [Names -> {"active", "disabled", "gone"}], NEW op \in AdminOps, NEW n,
           op \in Marks => n \in Eligible(accounts, op)
    PROVE  /\ After(accounts, op, n) \in [Names -> {"active", "disabled", "gone"}]
           /\ op \notin Marks => After(accounts, op, n) = accounts
           /\ op \in Marks => Eligible(After(accounts, op, n), op) = Eligible(accounts, op) \ {n}
<1> DEFINE b == After(accounts, op, n)
<1>1. CASE op \notin Marks
  BY <1>1 DEF After, Marks
<1>2. CASE op \in Marks
  <2>1. n \in Names
    BY <1>2 DEF Eligible
  <2>2. b = [accounts EXCEPT ![n] = IF op = "ban" THEN "disabled" ELSE IF op = "unban" THEN "active"
                                    ELSE "gone"]
    BY <1>2 DEF After, Marks
  <2>3. \A o \in Names : b[o] = IF o # n THEN accounts[o]
                                ELSE IF op = "ban" THEN "disabled" ELSE IF op = "unban" THEN "active"
                                ELSE "gone"
    BY <2>2
  <2>4. b \in [Names -> {"active", "disabled", "gone"}]
    BY <2>2
  <2> HIDE DEF b
  <2>5. Eligible(b, op) = Eligible(accounts, op) \ {n}
    BY <1>2, <2>3 DEF Eligible, Marks
  <2> QED
    BY <1>2, <2>4, <2>5 DEF b
<1> QED
  BY <1>1, <1>2

\* The server's answer to an administrator.
AdminTold(m, a, x) ==
    /\ IsOne(a, x) /\ Spoke(a) /\ srv'.can = srv.can /\ srv'.taken = srv.taken
    /\ x.kind \in FromAdminKinds
    /\ x.kind = "usersList" => m.op = "users_list" /\ x.arg = Eligible(srv.accounts, m.arg)
    /\ x.kind = "adminResult" => x.op = m.op
    /\ x.kind = "rolesList" => m.op = "roles_list"
    /\ x.kind # "usersList" => srv'.touched = srv.touched
    /\ srv'.accounts = srv.accounts
       \/ /\ x.kind = "adminResult" /\ m.op \in Marks /\ x.ok
          /\ Eligible(srv'.accounts, m.op) = Eligible(srv.accounts, m.op) \ {m.id}
    /\ m.op \in Marks /\ x.ok =>
          Eligible(srv'.accounts, m.op) = Eligible(srv.accounts, m.op) \ {m.id}
LEMMA AdminHandled ==
    ASSUME ServerOK, NEW m, RequestOK(m), m.kind = "admin", AdminAnswered(m)
    PROVE  \E a, x : AdminTold(m, a, x)
<1> DEFINE result(ok) == Answer("adminResult", m.op, None, None, ok)
           list == RolesSent(srv.roles, srv.grants)
           users == Answer("usersList", m.arg, None, Eligible(srv.accounts, m.arg), TRUE)
<1>1. m.op \in AdminOps
  BY DEF RequestOK
<1>2. ASSUME NEW x, AnswerOK(x), x.kind \in FromAdminKinds,
             x.kind = "usersList" => m.op = "users_list" /\ x.arg = Eligible(srv.accounts, m.arg),
             x.kind = "adminResult" => x.op = m.op, x.kind = "rolesList" => m.op = "roles_list",
             x.kind # "usersList" => srv'.touched = srv.touched,
             NEW a, IsOne(a, x), srv'.inbox = srv.inbox \o a,
             DOMAIN srv' = ServerFields, srv'.world = srv.world, srv'.can = srv.can,
             srv'.taken = srv.taken, srv'.items = srv.items, srv'.roles \subseteq Roles,
             \/ srv'.accounts = srv.accounts /\ (m.op \in Marks => ~x.ok)
             \/ /\ x.kind = "adminResult" /\ m.op \in Marks /\ x.ok
                /\ m.id \in Eligible(srv.accounts, m.op)
                /\ srv'.accounts = After(srv.accounts, m.op, m.id)
      PROVE  AdminTold(m, a, x)
  <2>1. srv.accounts \in [Names -> {"active", "disabled", "gone"}]
    BY DEF ServerOK
  <2>2. /\ srv'.accounts \in [Names -> {"active", "disabled", "gone"}]
        /\ \/ srv'.accounts = srv.accounts /\ (m.op \in Marks => ~x.ok)
           \/ /\ x.kind = "adminResult" /\ m.op \in Marks /\ x.ok
              /\ Eligible(srv'.accounts, m.op) = Eligible(srv.accounts, m.op) \ {m.id}
    BY <1>1, <1>2, <2>1, AfterChange
  <2>3. ServerOK'
    BY <1>2, <2>2 DEF ServerOK
  <2>4. Spoke(a)
    BY <1>2, <2>3, Answered DEF FromAdminKinds
  <2> QED
    BY <1>2, <2>2, <2>4 DEF AdminTold
<1>3. \A ok : AnswerOK(result(ok)) /\ result(ok).kind = "adminResult" /\ result(ok).op = m.op
              /\ result(ok).ok = ok
  BY DEF Answer, AnswerOK
<1>4. /\ AnswerOK(list) /\ list.kind = "rolesList"
      /\ AnswerOK(users) /\ users.kind = "usersList" /\ users.arg = Eligible(srv.accounts, m.arg)
  <2>1. Eligible(srv.accounts, m.arg) \subseteq Names
    BY DEF Eligible
  <2>2. list.kind = "rolesList" /\ list.arg.roles = srv.roles
    BY DEF RolesSent, Answer
  <2>3. users.kind = "usersList" /\ users.arg = Eligible(srv.accounts, m.arg)
    BY DEF Answer
  <2> HIDE DEF list, users
  <2> QED
    BY <2>1, <2>2, <2>3 DEF AnswerOK, ServerOK
<1>5. \A x : IsOne(<<x>>, x)
  BY DEF IsOne
<1> HIDE DEF result, list, users
<1>6. ASSUME NEW x, srv' = Told(<<x>>)
      PROVE  /\ DOMAIN srv' = ServerFields /\ srv'.world = srv.world /\ srv'.can = srv.can
             /\ srv'.taken = srv.taken /\ srv'.items = srv.items /\ srv'.roles \subseteq Roles
             /\ srv'.accounts = srv.accounts /\ srv'.inbox = srv.inbox \o <<x>>
             /\ srv'.touched = srv.touched
  <2> DEFINE a == <<x>>
  <2>1. srv' = Told(a)
    BY <1>6
  <2> HIDE DEF a
  <2> QED
    BY <2>1 DEF Told, ServerOK, ServerFields, a
<1>7. CASE (~("admin" \in srv.can) \/ m.op \notin {"roles_list", "users_list"})
           /\ srv' = Told(<<result(FALSE)>>)
  <2> DEFINE x == result(FALSE)
  <2>1. AnswerOK(x) /\ x.kind = "adminResult" /\ x.op = m.op /\ ~x.ok
    BY <1>3
  <2> HIDE DEF x
  <2>2. AdminTold(m, <<x>>, x)
    BY <1>2, <1>5, <1>6, <1>7, <2>1 DEF FromAdminKinds, x
  <2> QED
    BY <2>2
<1>8. CASE m.op = "roles_list" /\ srv' = Told(<<list>>)
  <2>1. AdminTold(m, <<list>>, list)
    BY <1>2, <1>4, <1>5, <1>6, <1>8 DEF FromAdminKinds, Marks
  <2> QED
    BY <2>1
<1>9. CASE m.op = "users_list" /\ srv' = [Told(<<users>>) EXCEPT !.touched = {}]
  <2> DEFINE a == <<users>>
  <2>1. srv' = [Told(a) EXCEPT !.touched = {}]
    BY <1>9
  <2> HIDE DEF a
  <2>2. /\ DOMAIN srv' = ServerFields /\ srv'.world = srv.world /\ srv'.can = srv.can
        /\ srv'.taken = srv.taken /\ srv'.items = srv.items /\ srv'.roles \subseteq Roles
        /\ srv'.accounts = srv.accounts /\ srv'.inbox = srv.inbox \o a
    BY <2>1 DEF Told, ServerOK, ServerFields
  <2>3. AdminTold(m, a, users)
    BY <1>2, <1>4, <1>5, <1>9, <2>2 DEF FromAdminKinds, Marks, a
  <2> QED
    BY <2>3
<1>10. ASSUME NEW roles, roles \subseteq Roles, NEW grants, NEW accounts,
              DOMAIN srv' = ServerFields, srv'.inbox = srv.inbox \o <<result(TRUE)>>,
              srv'.world = srv.world, srv'.can = srv.can,
              srv'.taken = srv.taken, srv'.items = srv.items, srv'.roles = roles,
              srv'.touched = srv.touched,
              \/ srv'.accounts = srv.accounts /\ m.op \notin Marks
              \/ /\ m.op \in Marks /\ m.id \in Eligible(srv.accounts, m.op)
                 /\ srv'.accounts = After(srv.accounts, m.op, m.id)
       PROVE  \E a, x : AdminTold(m, a, x)
  <2> DEFINE x == result(TRUE)
  <2>1. AnswerOK(x) /\ x.kind = "adminResult" /\ x.op = m.op /\ x.ok
    BY <1>3
  <2> HIDE DEF x
  <2>2. AdminTold(m, <<x>>, x)
    BY <1>2, <1>5, <1>10, <2>1 DEF FromAdminKinds, x
  <2> QED
    BY <2>2
<1> DEFINE a == <<result(TRUE)>>
<1>11. CASE /\ m.op \in {"ban", "unban", "delete_account"}
            /\ m.id \in Eligible(srv.accounts, m.op)
            /\ srv' = [Told(a) EXCEPT !.accounts = After(@, m.op, m.id)]
  <2> HIDE DEF a
  <2> DEFINE accounts == After(srv.accounts, m.op, m.id)
  <2>1. /\ DOMAIN srv' = ServerFields /\ srv'.inbox = srv.inbox \o a
        /\ srv'.world = srv.world /\ srv'.can = srv.can
        /\ srv'.taken = srv.taken /\ srv'.items = srv.items /\ srv'.roles = srv.roles
        /\ srv'.touched = srv.touched /\ srv'.accounts = After(srv.accounts, m.op, m.id)
    BY <1>11 DEF Told, ServerOK, ServerFields
  <2> QED
    BY <1>10, <1>11, <2>1 DEF Marks, ServerOK, a
<1>12. CASE m.op = "set_role" /\ srv' = Told(a)
  <2> HIDE DEF a
  <2>1. /\ DOMAIN srv' = ServerFields /\ srv'.inbox = srv.inbox \o a
        /\ srv'.world = srv.world /\ srv'.can = srv.can
        /\ srv'.taken = srv.taken /\ srv'.items = srv.items /\ srv'.roles = srv.roles
        /\ srv'.touched = srv.touched /\ srv'.accounts = srv.accounts
    BY <1>12 DEF Told, ServerOK, ServerFields
  <2> QED
    BY <1>10, <1>12, <2>1 DEF Marks, ServerOK, a
<1>13. CASE /\ m.op = "role_create"
            /\ \E role \in Roles \ srv.roles : srv' = [Told(a) EXCEPT !.roles = @ \cup {role}]
  <2> HIDE DEF a
  <2> PICK role \in Roles \ srv.roles : srv' = [Told(a) EXCEPT !.roles = @ \cup {role}]
    BY <1>13
  <2>1. /\ DOMAIN srv' = ServerFields /\ srv'.inbox = srv.inbox \o a
        /\ srv'.world = srv.world /\ srv'.can = srv.can
        /\ srv'.taken = srv.taken /\ srv'.items = srv.items /\ srv'.roles = srv.roles \cup {role}
        /\ srv'.touched = srv.touched /\ srv'.accounts = srv.accounts
    BY DEF Told, ServerOK, ServerFields
  <2>2. srv.roles \cup {role} \subseteq Roles
    BY DEF ServerOK
  <2> QED
    BY <1>10, <1>13, <2>1, <2>2 DEF Marks, a
<1>14. CASE /\ m.op = "role_delete"
            /\ srv' = [Told(a) EXCEPT !.roles = @ \ {m.id}, !.grants = @ \ {m.id}]
  <2> HIDE DEF a
  <2>1. /\ DOMAIN srv' = ServerFields /\ srv'.inbox = srv.inbox \o a
        /\ srv'.world = srv.world /\ srv'.can = srv.can
        /\ srv'.taken = srv.taken /\ srv'.items = srv.items /\ srv'.roles = srv.roles \ {m.id}
        /\ srv'.touched = srv.touched /\ srv'.accounts = srv.accounts
    BY <1>14 DEF Told, ServerOK, ServerFields
  <2>2. srv.roles \ {m.id} \subseteq Roles
    BY DEF ServerOK
  <2> QED
    BY <1>10, <1>14, <2>1, <2>2 DEF Marks, a
<1>15. CASE /\ m.op = "role_update_permissions"
            /\ srv' = [Told(a) EXCEPT !.grants = IF m.arg THEN @ \cup {m.id} ELSE @ \ {m.id}]
  <2> HIDE DEF a
  <2>1. /\ DOMAIN srv' = ServerFields /\ srv'.inbox = srv.inbox \o a
        /\ srv'.world = srv.world /\ srv'.can = srv.can
        /\ srv'.taken = srv.taken /\ srv'.items = srv.items /\ srv'.roles = srv.roles
        /\ srv'.touched = srv.touched /\ srv'.accounts = srv.accounts
    BY <1>15 DEF Told, ServerOK, ServerFields
  <2> QED
    BY <1>10, <1>15, <2>1 DEF Marks, ServerOK, a
<1> QED
  BY <1>7, <1>8, <1>9, <1>11, <1>12, <1>13, <1>14, <1>15
  DEF AdminAnswered, result, list, users

\* What everybody else does, and what the server answers about items.
OthersTold(a) ==
    /\ Spoke(a) /\ SamePeople
    /\ SameRights \/ (~srv'.taken => ~srv.taken /\ "structure" \in srv'.can)
    /\ \A n \in DOMAIN a : a[n].kind \notin FromAdminKinds
LEMMA OneTold ==
    ASSUME NEW x, AnswerOK(x), x.kind \notin {"upsert", "remove"} \cup FromAdminKinds, ServerOK,
           DOMAIN srv' = ServerFields, srv'.inbox = srv.inbox \o <<x>>,
           srv'.world = srv.world, srv'.roles = srv.roles, SamePeople,
           srv'.can \subseteq Permissions, srv'.items \subseteq Items,
           \/ srv'.can = srv.can /\ srv'.taken = srv.taken
           \/ ~srv'.taken => ~srv.taken /\ "structure" \in srv'.can
    PROVE  OthersTold(<<x>>)
<1> DEFINE a == <<x>>
<1>1. IsOne(a, x) /\ srv'.inbox = srv.inbox \o a
  BY DEF IsOne
<1> HIDE DEF a
<1>2. ServerOK'
  BY DEF ServerOK, SamePeople
<1>3. Spoke(a)
  BY <1>1, <1>2, Answered
<1>4. OthersTold(a)
  BY <1>1, <1>3, One DEF OthersTold, SameRights
<1> QED
  BY <1>4 DEF a

LEMMA ItemSavedTold ==
    ASSUME ServerOK, NEW id \in Items, ItemSaved(id) \/ ItemRemoved(id)
    PROVE  \E a : OthersTold(a)
<1>1. CASE ItemSaved(id)
  <2> PICK item \in ItemValues :
        srv' = [Told(<<Answer("itemUpsert", "item", id, item, TRUE)>>) EXCEPT !.items = @ \cup {id}]
    BY <1>1 DEF ItemSaved
  <2> DEFINE x == Answer("itemUpsert", "item", id, item, TRUE)
             a == <<x>>
  <2>1. AnswerOK(x) /\ x.kind = "itemUpsert"
    BY DEF Answer, AnswerOK
  <2>2. srv' = [Told(a) EXCEPT !.items = @ \cup {id}]
    OBVIOUS
  <2> HIDE DEF a
  <2>3. /\ DOMAIN srv' = ServerFields /\ srv'.inbox = srv.inbox \o a
        /\ srv'.world = srv.world /\ srv'.can = srv.can /\ srv'.taken = srv.taken
        /\ srv'.items = srv.items \cup {id} /\ srv'.roles = srv.roles
        /\ SamePeople
    BY <2>2 DEF Told, ServerOK, ServerFields, SamePeople
  <2> HIDE DEF x
  <2>4. srv.items \cup {id} \subseteq Items /\ srv.can \subseteq Permissions
    BY DEF ServerOK
  <2>5. OthersTold(<<x>>)
    BY <2>1, <2>3, <2>4, OneTold DEF FromAdminKinds, a
  <2> QED
    BY <2>5
<1>2. CASE ItemRemoved(id)
  <2> DEFINE x == Answer("itemRemove", "item", id, None, TRUE)
             a == <<x>>
  <2>1. AnswerOK(x) /\ x.kind = "itemRemove"
    BY DEF Answer, AnswerOK
  <2>2. srv' = [Told(a) EXCEPT !.items = @ \ {id}]
    BY <1>2 DEF ItemRemoved
  <2> HIDE DEF a
  <2>3. /\ DOMAIN srv' = ServerFields /\ srv'.inbox = srv.inbox \o a
        /\ srv'.world = srv.world /\ srv'.can = srv.can /\ srv'.taken = srv.taken
        /\ srv'.items = srv.items \ {id} /\ srv'.roles = srv.roles
        /\ SamePeople
    BY <2>2 DEF Told, ServerOK, ServerFields, SamePeople
  <2> HIDE DEF x
  <2>4. srv.items \ {id} \subseteq Items /\ srv.can \subseteq Permissions
    BY DEF ServerOK
  <2>5. OthersTold(<<x>>)
    BY <2>1, <2>3, <2>4, OneTold DEF FromAdminKinds, a
  <2> QED
    BY <2>5
<1> QED
  BY <1>1, <1>2

LEMMA ItemHandled ==
    ASSUME ServerOK, IsSeq(srv.inbox), NEW m, RequestOK(m), m.kind = "item", ItemAnswered(m)
    PROVE  \E a : OthersTold(a) /\ SameRights
<1>1. ASSUME NEW x, AnswerOK(x), x.kind \in {"piano", "targets"}, srv' = Told(<<x>>)
      PROVE  \E a : OthersTold(a) /\ SameRights
  <2> DEFINE a == <<x>>
  <2>1. srv' = Told(a)
    BY <1>1
  <2> HIDE DEF a
  <2>2. /\ DOMAIN srv' = ServerFields /\ srv'.inbox = srv.inbox \o a
        /\ srv'.world = srv.world /\ srv'.can = srv.can /\ srv'.taken = srv.taken
        /\ srv'.items = srv.items /\ srv'.roles = srv.roles /\ SamePeople
    BY <2>1 DEF Told, ServerOK, ServerFields, SamePeople
  <2>3. srv.items \subseteq Items /\ srv.can \subseteq Permissions
    BY DEF ServerOK
  <2>4. OthersTold(<<x>>)
    BY <1>1, <2>2, <2>3, OneTold DEF FromAdminKinds, a
  <2> QED
    BY <2>2, <2>4 DEF SameRights
<1>2. CASE UNCHANGED srv
  <2> DEFINE a == <<>>
  <2>1. /\ srv'.inbox = srv.inbox /\ srv'.world = srv.world /\ srv'.can = srv.can
        /\ srv'.taken = srv.taken /\ SamePeople
    BY <1>2 DEF SamePeople
  <2>2. srv.inbox \o a = srv.inbox
    BY DEF IsSeq
  <2>3. IsSeq(a) /\ DOMAIN a = {}
    BY Short
  <2>4. ServerOK'
    BY <1>2 DEF ServerOK
  <2> HIDE DEF a
  <2>5. Spoke(a)
    BY <2>1, <2>2, <2>3, <2>4, Announced
  <2> QED
    BY <2>1, <2>3, <2>5 DEF OthersTold, SameRights
<1>3. CASE \E id \in Items : ItemSaved(id) \/ ItemRemoved(id)
  <2> PICK id \in Items : ItemSaved(id) \/ ItemRemoved(id)
    BY <1>3
  <2>1. SameRights
    <3> HIDE DEF Told
    <3>1. ASSUME NEW x, NEW items, srv' = [Told(x) EXCEPT !.items = items]
          PROVE  SameRights
      BY <3>1 DEF Told, SameRights, SamePeople, ServerOK, ServerFields
    <3> QED
      BY <3>1 DEF ItemSaved, ItemRemoved
  <2> QED
    BY <2>1, ItemSavedTold
<1>4. CASE m.op = "use" /\ srv' = Told(<<Answer("piano", "use", m.id, None, TRUE)>>)
  <2> DEFINE x == Answer("piano", "use", m.id, None, TRUE)
  <2>1. AnswerOK(x) /\ x.kind = "piano"
    BY DEF Answer, AnswerOK
  <2> HIDE DEF x
  <2> QED
    BY <1>1, <1>4, <2>1 DEF x
<1>5. CASE /\ m.op = "targets"
           /\ \E targets \in SUBSET Users :
                 srv' = Told(<<Answer("targets", m.arg, m.id, targets, TRUE)>>)
  <2> PICK targets \in SUBSET Users : srv' = Told(<<Answer("targets", m.arg, m.id, targets, TRUE)>>)
    BY <1>5
  <2> DEFINE x == Answer("targets", m.arg, m.id, targets, TRUE)
  <2>1. AnswerOK(x) /\ x.kind = "targets" /\ srv' = Told(<<x>>)
    BY DEF Answer, AnswerOK
  <2> HIDE DEF x
  <2> QED
    BY <1>1, <2>1
<1>6. srv.items \subseteq Items
  BY DEF ServerOK
<1> QED
  BY <1>2, <1>3, <1>4, <1>5, <1>6 DEF ItemAnswered

LEMMA OthersAct ==
    ASSUME ServerOK, OthersBuild \/ OthersRemove \/ OthersMoveItems \/ PermissionsChange
    PROVE  page.running /\ UNCHANGED page /\ \E a : OthersTold(a)
<1>0. page.running /\ UNCHANGED page
  BY DEF OthersBuild, OthersRemove, OthersMoveItems, PermissionsChange
<1>1. CASE OthersBuild
  <2> PICK kind \in {"wall", "ambiance"}, type \in Presets, level \in Levels :
         \E id \in IF kind = "wall" THEN Walls ELSE Ambiances :
            /\ id \in DOMAIN srv.world[kind] => srv.world[kind][id] # [type |-> type, level |-> level]
            /\ srv' = [Told(<<Answer("upsert", kind, id, [type |-> type, level |-> level], TRUE)>>)
                         EXCEPT !.world[kind] = With(@, id, [type |-> type, level |-> level])]
    BY <1>1 DEF OthersBuild
  <2> DEFINE v == [type |-> type, level |-> level]
  <2> PICK id \in IF kind = "wall" THEN Walls ELSE Ambiances :
        srv' = [Told(<<Answer("upsert", kind, id, v, TRUE)>>)
                  EXCEPT !.world[kind] = With(@, id, v)]
    OBVIOUS
  <2>1. v \in Objects /\ kind \in Kinds /\ id \in Ids(kind)
    BY DEF Objects, Kinds, Ids
  <2> HIDE DEF v
  <2> DEFINE x == Answer("upsert", kind, id, v, TRUE)
             a == <<x>>
             w == [srv.world EXCEPT ![kind] = With(srv.world[kind], id, v)]
  <2>2. IsOne(a, x)
    BY DEF IsOne
  <2>3. srv' = [Told(a) EXCEPT !.world[kind] = With(@, id, v)]
    OBVIOUS
  <2>4. x.kind = "upsert"
    BY DEF Answer
  <2> HIDE DEF a
  <2>5. Keeps(a, w) /\ Puts(w, srv.world, kind, id, v)
    BY <2>3 DEF Keeps, Told, ServerOK, ServerFields, Puts
  <2> HIDE DEF w
  <2>6. Says(a, x)
    <3> HIDE DEF x
    <3> QED
      BY <2>2, One DEF Says
  <2>7. Spoke(a) /\ SameRights
    BY <2>1, <2>5, <2>6, Upserted
  <2> HIDE DEF x
  <2>8. OthersTold(a)
    BY <2>2, <2>4, <2>7, One DEF OthersTold, FromAdminKinds, SameRights
  <2> QED
    BY <1>0, <2>8
<1>2. CASE OthersRemove
  <2> PICK kind \in Kinds : \E id \in DOMAIN srv.world[kind] :
        srv' = [Told(<<Answer("remove", kind, id, None, TRUE)>>)
                  EXCEPT !.world[kind] = Without(@, id)]
    BY <1>2 DEF OthersRemove, Kinds
  <2> PICK id : srv' = [Told(<<Answer("remove", kind, id, None, TRUE)>>)
                          EXCEPT !.world[kind] = Without(@, id)]
    OBVIOUS
  <2> DEFINE x == Answer("remove", kind, id, None, TRUE)
             a == <<x>>
             w == [srv.world EXCEPT ![kind] = Without(srv.world[kind], id)]
  <2>2. IsOne(a, x)
    BY DEF IsOne
  <2>3. srv' = [Told(a) EXCEPT !.world[kind] = Without(@, id)]
    OBVIOUS
  <2>4. x.kind = "remove"
    BY DEF Answer
  <2> HIDE DEF a
  <2>5. Keeps(a, w) /\ Drops(w, srv.world, kind, id)
    BY <2>3 DEF Keeps, Told, ServerOK, ServerFields, Drops
  <2> HIDE DEF w
  <2>6. Says(a, x)
    <3> HIDE DEF x
    <3> QED
      BY <2>2, One DEF Says
  <2>7. Spoke(a) /\ SameRights
    BY <2>5, <2>6, Removed
  <2> HIDE DEF x
  <2>8. OthersTold(a)
    BY <2>2, <2>4, <2>7, One DEF OthersTold, FromAdminKinds, SameRights
  <2> QED
    BY <1>0, <2>8
<1>3. CASE OthersMoveItems
  BY <1>0, <1>3, ItemSavedTold DEF OthersMoveItems
<1>4. CASE PermissionsChange
  <2> PICK permission \in Permissions :
        LET can == IF permission \in srv.can THEN srv.can \ {permission} ELSE srv.can \cup {permission}
        IN  srv' = [Told(<<Answer("permissions", None, None, can, TRUE)>>)
                      EXCEPT !.can = can, !.taken = @ \/ "structure" \notin can]
    BY <1>4 DEF PermissionsChange
  <2> DEFINE can == IF permission \in srv.can THEN srv.can \ {permission} ELSE srv.can \cup {permission}
             taken == srv.taken \/ "structure" \notin can
             x == Answer("permissions", None, None, can, TRUE)
             a == <<x>>
  <2>1. can \subseteq Permissions
    BY DEF ServerOK
  <2>2. srv' = [Told(a) EXCEPT !.can = can, !.taken = @ \/ "structure" \notin can]
    OBVIOUS
  <2>3. ~taken <=> ~srv.taken /\ "structure" \in can
    OBVIOUS
  <2>4. AnswerOK(x) /\ x.kind = "permissions"
    BY <2>1 DEF Answer, AnswerOK
  <2> HIDE DEF can, a
  <2>5. /\ DOMAIN srv' = ServerFields /\ srv'.inbox = srv.inbox \o a
        /\ srv'.world = srv.world /\ srv'.can = can /\ srv'.taken = taken
        /\ srv'.items = srv.items /\ srv'.roles = srv.roles /\ SamePeople
    BY <2>2 DEF Told, ServerOK, ServerFields, SamePeople
  <2>6. srv.items \subseteq Items
    BY DEF ServerOK
  <2> HIDE DEF taken, x
  <2>7. OthersTold(<<x>>)
    BY <2>1, <2>3, <2>4, <2>5, <2>6, OneTold DEF FromAdminKinds, a
  <2> QED
    BY <1>0, <2>7
<1> QED
  BY <1>1, <1>2, <1>3, <1>4

\* The server takes up the page's next request.
Answers(m) ==
    \/ m.kind \in Kinds /\ \E a : WorldTold(m, a)
    \/ m.kind = "admin" /\ \E a, x : AdminTold(m, a, x)
    \/ m.kind = "item" /\ \E a : OthersTold(a) /\ SameRights
Handled(m) ==
    /\ page.out # <<>> /\ m = Head(page.out) /\ RequestOK(m) /\ page.running
    /\ PageOK(page') /\ SameMenus(page, page') /\ page'.out = Tail(page.out)
    /\ page'.running = page.running /\ page'.hasty = page.hasty
    /\ Answers(m)
LEMMA RequestHandled ==
    ASSUME BaseInv, ServerHandles
    PROVE  \E m : Handled(m)
<1> DEFINE m == Head(page.out)
           rest == Tail(page.out)
<1>1. page.out # <<>> /\ page' = [page EXCEPT !.out = rest]
  BY DEF ServerHandles
<1>2. /\ m.kind \in {"wall", "ambiance"} => WorldAnswered(m)
      /\ m.kind = "admin" => AdminAnswered(m)
      /\ m.kind = "item" => ItemAnswered(m)
  BY DEF ServerHandles
<1>3. RequestOK(m) /\ page.running
  BY <1>1, Rest DEF BaseInv, LinksOK
<1>4. PageOK(page) /\ ServerOK /\ IsSeq(srv.inbox)
  BY DEF BaseInv, LinksOK
<1> HIDE DEF m
<1>5. Answers(m)
  BY <1>2, <1>3, <1>4, WorldHandled, AdminHandled, ItemHandled DEF Answers, RequestOK, Kinds
<1> HIDE DEF rest
<1>6. /\ SameMenus(page, page') /\ page'.items = page.items /\ page'.hasty = page.hasty
      /\ page'.out = rest /\ page'.running = page.running
  <2>1. page' = [page EXCEPT !.out = rest] /\ PageOK(page)
    BY <1>1, <1>4
  <2> QED
    BY <2>1, Unread, ZenonT(60)
<1>7. PageOK(page')
  BY <1>4, <1>6, Untouched
<1>8. Handled(m)
  BY <1>1, <1>3, <1>5, <1>6, <1>7 DEF Handled, m, rest
<1> QED
  BY <1>8

\* What none of these changes: the page and what it sent.
Aside ==
    /\ PageOK(page') /\ page'.out = page.out /\ page'.running = page.running
    /\ page'.hasty = page.hasty /\ SameMenus(page, page')
LEMMA WalkMap ==
    ASSUME NEW f, IsMap(f, Items, ItemValues), NEW moved
    PROVE  IsMap([i \in DOMAIN f |-> IF i \in moved THEN Walked(f[i]) ELSE f[i]], Items, ItemValues)
<1> DEFINE g == [i \in DOMAIN f |-> IF i \in moved THEN Walked(f[i]) ELSE f[i]]
<1>1. DOMAIN g = DOMAIN f /\ g = [i \in DOMAIN g |-> g[i]]
  OBVIOUS
<1>2. ASSUME NEW v \in ItemValues PROVE Walked(v) \in ItemValues
  <2> DEFINE at == IF v.at = "here" THEN "away" ELSE "here"
  <2>1. at \in {"me", "here", "away", "other"} /\ Walked(v) = [v EXCEPT !.at = at]
    BY DEF Walked
  <2> HIDE DEF at
  <2> QED
    BY <2>1 DEF ItemValues
<1>3. \A i \in DOMAIN f : g[i] \in ItemValues
  BY <1>2 DEF IsMap
<1> HIDE DEF g
<1>4. IsMap(g, Items, ItemValues)
  BY <1>1, <1>3 DEF IsMap
<1> QED
  BY <1>4 DEF g

LEMMA AsideSteps ==
    ASSUME PageOK(page), PeersChange \/ CarriedToFloor \/ Walk
    PROVE  page.running /\ UNCHANGED srv /\ Aside
<1>1. CASE PeersChange
  <2> PICK peers : page' = [page EXCEPT !.peers = peers]
    BY <1>1 DEF PeersChange
  <2>1. /\ SameMenus(page, page') /\ page'.items = page.items /\ page'.hasty = page.hasty
        /\ page'.out = page.out /\ page'.running = page.running
    BY Unread
  <2> QED
    BY <1>1, <2>1, Untouched DEF PeersChange, Aside
<1>2. CASE CarriedToFloor
  <2> DEFINE floor == ~page.onFloor
  <2>1. page' = [page EXCEPT !.onFloor = floor]
    BY <1>2 DEF CarriedToFloor
  <2> HIDE DEF floor
  <2>2. /\ SameMenus(page, page') /\ page'.items = page.items /\ page'.hasty = page.hasty
        /\ page'.out = page.out /\ page'.running = page.running
    BY <2>1, Unread, ZenonT(60)
  <2> QED
    BY <1>2, <2>2, Untouched DEF CarriedToFloor, Aside
<1>3. CASE Walk
  <2> PICK moved :
        page' = [page EXCEPT !.escaping = FALSE,
                    !.items = [i \in DOMAIN @ |-> IF i \in moved THEN Walked(@[i]) ELSE @[i]]]
    BY <1>3 DEF Walk
  <2> DEFINE f == page.items
             g == [i \in DOMAIN f |-> IF i \in moved THEN Walked(f[i]) ELSE f[i]]
  <2>1. page' = [page EXCEPT !.escaping = FALSE, !.items = g]
    OBVIOUS
  <2>2. IsMap(g, Items, ItemValues)
    <3>1. IsMap(f, Items, ItemValues)
      BY DEF PageOK, Held
    <3> HIDE DEF f
    <3> QED
      BY <3>1, WalkMap DEF g
  <2> HIDE DEF g
  <2>3. /\ SameMenus(page, page') /\ page'.items = g /\ page'.hasty = page.hasty
        /\ page'.out = page.out /\ page'.running = page.running
    BY <2>1, ZenonT(60) DEF PageOK, Shape, PageFields, SameMenus
  <2>4. PageOK(page')
    BY <2>2, <2>3, Untouched
  <2> QED
    BY <1>3, <2>3, <2>4 DEF Walk, Aside
<1> QED
  BY <1>1, <1>2, <1>3

-----------------------------------------------------------------------------
(* Every step, and the base of the invariants. *)

LEMMA Dropped ==
    ASSUME ServerOK, NEW q, srv' = [srv EXCEPT !.inbox = q]
    PROVE  ServerOK' /\ srv'.inbox = q /\ SameRights /\ srv'.world = srv.world
<1>1. /\ DOMAIN srv' = ServerFields /\ srv'.inbox = q /\ srv'.world = srv.world
      /\ srv'.can = srv.can /\ srv'.taken = srv.taken /\ srv'.accounts = srv.accounts
      /\ srv'.touched = srv.touched /\ srv'.roles = srv.roles /\ srv'.items = srv.items
  BY DEF ServerOK, ServerFields
<1> QED
  BY <1>1 DEF ServerOK, SameRights, SamePeople

LEMMA JoinedParts ==
    ASSUME NEW q, IsSeq(q), NEW p, IsSeq(p), NEW r, r = q \o p, NEW i \in DOMAIN r
    PROVE  \/ i \in DOMAIN q /\ r[i] = q[i]
           \/ i - Len(q) \in DOMAIN p /\ r[i] = p[i - Len(q)]
<1>1. /\ Len(q) \in Nat /\ Len(p) \in Nat
      /\ DOMAIN q = 1..Len(q) /\ DOMAIN p = 1..Len(p) /\ DOMAIN r = 1..(Len(q) + Len(p))
      /\ \A j \in 1..Len(q) : r[j] = q[j]
      /\ \A j \in 1..Len(p) : r[Len(q) + j] = p[j]
  BY Joined
<1>2. CASE i \in 1..Len(q)
  BY <1>1, <1>2
<1>3. CASE i \notin 1..Len(q)
  <2>1. i - Len(q) \in 1..Len(p) /\ Len(q) + (i - Len(q)) = i
    BY <1>1, <1>3
  <2> QED
    BY <1>1, <2>1
<1> QED
  BY <1>2, <1>3

LEMMA SpokenLinks ==
    ASSUME BaseInv, NEW a, Spoke(a)
    PROVE  /\ ServerOK' /\ IsSeq(srv'.inbox)
           /\ \A i \in DOMAIN srv'.inbox : AnswerOK(srv'.inbox[i])
<1> DEFINE q == srv.inbox
           r == srv'.inbox
<1>1. /\ IsSeq(q) /\ IsSeq(a) /\ r = q \o a /\ ServerOK'
      /\ \A i \in DOMAIN q : AnswerOK(q[i])
      /\ \A i \in DOMAIN a : AnswerOK(a[i])
  BY DEF BaseInv, LinksOK, Spoke
<1> HIDE DEF q, r
<1>2. IsSeq(r)
  BY <1>1, Joined
<1>3. ASSUME NEW i \in DOMAIN r PROVE AnswerOK(r[i])
  BY <1>1, JoinedParts
<1> QED
  BY <1>1, <1>2, <1>3 DEF r

\* The steps of the whole, told apart by what they mean for the two queues.
Broadcast == page.running /\ UNCHANGED page /\ \E a : OthersTold(a)
Administered ==
    /\ page.running /\ UNCHANGED page /\ ServerOK' /\ KnowsOn
    /\ srv'.inbox = srv.inbox /\ srv'.world = srv.world
    /\ srv'.can = srv.can /\ srv'.taken = srv.taken
Elsewhere == page.running /\ UNCHANGED srv /\ Aside
Unplugged ==
    /\ page.running /\ PageOK(page') /\ Leaves(page') /\ page'.world = page.world
    /\ srv' = [srv EXCEPT !.inbox = <<>>]
Welcomed ==
    /\ ~page.running /\ page'.running /\ PageOK(page') /\ page'.mode = "normal"
    /\ page'.out = <<>> /\ page'.world = srv.world /\ UNCHANGED srv
StepKinds ==
    \/ Moved \/ (\E m, t : Heard(m, t)) \/ (\E m : Handled(m))
    \/ Broadcast \/ Administered \/ Elsewhere \/ Unplugged \/ Welcomed

LEMMA WelcomeSteps ==
    ASSUME BaseInv, Welcome
    PROVE  Welcomed
<1>1. PICK item \in ItemValues :
         page' = [SetPermissions(page, srv.can) EXCEPT !.running = TRUE, !.world = srv.world,
                     !.items = [i \in srv.items |-> item], !.onFloor = TRUE]
  BY DEF Welcome
<1> DEFINE items == [i \in srv.items |-> item]
           world == srv.world
           can == srv.can
           u == SetPermissions(page, can)
<1>2. page' = [u EXCEPT !.running = TRUE, !.world = world, !.items = items, !.onFloor = TRUE]
  BY <1>1
<1>3. /\ PageOK(page) /\ IsWorld(world) /\ can \subseteq Permissions /\ srv.items \subseteq Items
      /\ ~page.running /\ page.mode = "normal" /\ page.out = <<>> /\ UNCHANGED srv
  BY DEF BaseInv, ServerOK, LinksOK, Welcome
<1>4. IsMap(items, Items, ItemValues)
  BY <1>1, <1>3 DEF IsMap
<1> HIDE DEF items, world, can
<1>5. /\ Shape(u) /\ u.can = can /\ u.adminActions \subseteq AdminActions
      /\ u.mode = page.mode /\ u.out = page.out /\ u.text = page.text /\ u.prompt = page.prompt
      /\ u.confirm = page.confirm /\ u.option = page.option /\ u.palette = page.palette
      /\ u.back = page.back /\ u.helpBack = page.helpBack /\ u.loopback = page.loopback
      /\ u.restore = page.restore /\ u.wb = page.wb /\ u.adm = page.adm /\ u.itm = page.itm
      /\ u.piano = page.piano
  BY <1>3 DEF PageOK, Shape, PageFields, SetPermissions
<1> HIDE DEF u
<1>6. /\ Shape(page') /\ page'.running /\ page'.can = u.can /\ page'.adminActions = u.adminActions
      /\ page'.mode = u.mode /\ page'.out = u.out /\ page'.text = u.text /\ page'.prompt = u.prompt
      /\ page'.confirm = u.confirm /\ page'.option = u.option /\ page'.palette = u.palette
      /\ page'.back = u.back /\ page'.helpBack = u.helpBack /\ page'.loopback = u.loopback
      /\ page'.restore = u.restore /\ page'.wb = u.wb /\ page'.adm = u.adm /\ page'.itm = u.itm
      /\ page'.piano = u.piano /\ page'.world = world /\ page'.items = items
  BY <1>2, <1>5 DEF Shape, PageFields
<1>7. page.piano \in Items \cup {None}
  BY <1>3 DEF PageOK, Held
<1>8. PageOK(page')
  BY <1>3, <1>4, <1>5, <1>6, <1>7, NewsOK
<1> QED
  BY <1>3, <1>5, <1>6, <1>8 DEF Welcomed, world

LEMMA ButtonSteps ==
    ASSUME BaseInv, DisconnectButton
    PROVE  Unplugged
<1> DEFINE t == Disconnect(page)
<1>1. PageOK(page) /\ page' = t /\ page.running /\ srv' = [srv EXCEPT !.inbox = <<>>]
  BY DEF BaseInv, DisconnectButton
<1>2. PageOK(t) /\ Leaves(t)
  BY <1>1, Disconnecting
<1>3. t.world = page.world
  <2> DEFINE r == ResetItemManagement(page)
             u == RestoreLoopback(r)
  <2>1. Shape(r) /\ r.world = page.world
    BY <1>1 DEF PageOK, Shape, PageFields, ItemFields, ResetItemManagement, ResetTargetSelection
  <2> HIDE DEF r
  <2>2. Shape(u) /\ u.world = page.world
    BY <2>1 DEF Shape, PageFields, RestoreLoopback
  <2> HIDE DEF u
  <2> QED
    BY <2>2 DEF Disconnect, r, u, Shape, PageFields
<1> HIDE DEF t
<1> QED
  BY <1>1, <1>2, <1>3 DEF Unplugged

LEMMA NextSteps ==
    ASSUME BaseInv, Next
    PROVE  StepKinds
<1>0. PageOK(page) /\ ServerOK
  BY DEF BaseInv
<1>1. CASE OnMessage
  BY <1>1, MessageHeard DEF StepKinds
<1>2. CASE ServerHandles
  BY <1>2, RequestHandled DEF StepKinds
<1>3. CASE Walk \/ PeersChange \/ CarriedToFloor
  BY <1>0, <1>3, AsideSteps DEF StepKinds, Elsewhere
<1>4. CASE Welcome
  BY <1>4, WelcomeSteps DEF StepKinds
<1>5. CASE KeyActions \/ Escape
  BY <1>5, KeysMove DEF StepKinds
<1>6. CASE OthersBuild \/ OthersRemove \/ OthersMoveItems \/ PermissionsChange
  BY <1>0, <1>6, OthersAct DEF StepKinds, Broadcast
<1>7. CASE DisconnectButton
  BY <1>7, ButtonSteps DEF StepKinds
<1>8. CASE OthersAdminister
  BY <1>0, <1>8, Administering DEF StepKinds, Administered
<1> QED
  BY <1>1, <1>2, <1>3, <1>4, <1>5, <1>6, <1>7, <1>8 DEF Next, Own, Others, KeyActions

LEMMA RequestAdded ==
    ASSUME NEW q, IsSeq(q), NEW e, NEW r, r = Append(q, e), RequestOK(e),
           \A i \in DOMAIN q : RequestOK(q[i])
    PROVE  IsSeq(r) /\ \A i \in DOMAIN r : RequestOK(r[i])
<1>1. IsSeq(r) /\ Len(q) \in Nat /\ DOMAIN q = 1..Len(q)
  BY Appended
<1>2. DOMAIN r = 1..(Len(q) + 1)
  BY Appended
<1>3. r[Len(q) + 1] = e
  BY Appended
<1>4. \A i \in 1..Len(q) : r[i] = q[i]
  BY Appended
<1>5. ASSUME NEW i \in DOMAIN r PROVE RequestOK(r[i])
  <2>1. i \in 1..Len(q) \/ i = Len(q) + 1
    BY <1>1, <1>2
  <2> QED
    BY <1>1, <1>3, <1>4, <2>1
<1> QED
  BY <1>1, <1>5

LEMMA MovedBase ==
    ASSUME BaseInv, Moved
    PROVE  BaseInv'
<1>1. PICK t : Does(page, t) /\ Became(t)
  BY DEF Moved
<1>2. /\ PageOK(page') /\ page'.mode = t.mode /\ page'.running = t.running /\ page'.out = t.out
      /\ srv' = IF t.running THEN srv ELSE [srv EXCEPT !.inbox = <<>>]
      /\ page.running
  BY <1>1 DEF Became, Moved
<1>3. /\ ServerOK /\ IsSeq(page.out) /\ IsSeq(srv.inbox)
      /\ \A i \in DOMAIN page.out : RequestOK(page.out[i])
      /\ \A i \in DOMAIN srv.inbox : AnswerOK(srv.inbox[i])
  BY DEF BaseInv, LinksOK
<1>4. CASE Quiet(page, t) \/ \E m : Asks(page, t, m)
  <2>1. t.running /\ srv' = srv
    BY <1>2, <1>4 DEF Quiet, Asks
  <2>2. ServerOK'
    BY <1>3, <2>1 DEF ServerOK
  <2>3. IsSeq(t.out) /\ \A i \in DOMAIN t.out : RequestOK(t.out[i])
    <3>1. CASE Quiet(page, t)
      BY <1>3, <3>1 DEF Quiet
    <3>2. CASE \E m : Asks(page, t, m)
      <4> PICK m : Asks(page, t, m)
        BY <3>2
      <4> DEFINE q == page.out
                 r == t.out
      <4>1. r = Append(q, m) /\ RequestOK(m) /\ IsSeq(q) /\ \A i \in DOMAIN q : RequestOK(q[i])
        BY <1>3 DEF Asks
      <4> HIDE DEF q, r
      <4>2. IsSeq(r) /\ \A i \in DOMAIN r : RequestOK(r[i])
        BY <4>1, RequestAdded
      <4> QED
        BY <4>2 DEF r
    <3> QED
      BY <1>4, <3>1, <3>2
  <2> QED
    BY <1>2, <1>3, <2>1, <2>2, <2>3 DEF BaseInv, LinksOK
<1>5. CASE Leaves(t)
  <2>1. ~t.running /\ t.out = <<>> /\ t.mode = "normal" /\ srv' = [srv EXCEPT !.inbox = <<>>]
    BY <1>2, <1>5 DEF Leaves
  <2>2. ServerOK' /\ srv'.inbox = <<>>
    BY <1>3, <2>1, Dropped
  <2>3. IsSeq(<<>>) /\ DOMAIN <<>> = {}
    BY Short
  <2> QED
    BY <1>2, <2>1, <2>2, <2>3 DEF BaseInv, LinksOK
<1> QED
  BY <1>1, <1>4, <1>5 DEF Does

LEMMA HeardBase ==
    ASSUME BaseInv, NEW m, NEW t, Heard(m, t)
    PROVE  BaseInv' /\ page'.running
<1>1. /\ PageOK(page') /\ page.running /\ srv.inbox # <<>> /\ srv' = [srv EXCEPT !.inbox = Tail(srv.inbox)]
      /\ page'.out = t.out /\ page'.running = t.running /\ Received(page, t, m)
  BY DEF Heard, Settled
<1>2. /\ ServerOK /\ IsSeq(page.out) /\ IsSeq(srv.inbox)
      /\ \A i \in DOMAIN page.out : RequestOK(page.out[i])
      /\ \A i \in DOMAIN srv.inbox : AnswerOK(srv.inbox[i])
  BY DEF BaseInv, LinksOK
<1>3. page'.running
  BY <1>1 DEF Received, Took
<1> DEFINE rest == Tail(srv.inbox)
<1>4. IsSeq(rest) /\ \A i \in DOMAIN rest : AnswerOK(rest[i])
  <2> DEFINE q == srv.inbox
  <2>1. IsSeq(q) /\ q # <<>> /\ rest = Tail(q) /\ \A i \in DOMAIN q : AnswerOK(q[i])
    BY <1>1, <1>2
  <2> HIDE DEF rest, q
  <2>2. IsSeq(rest) /\ \A i \in DOMAIN rest : i + 1 \in DOMAIN q /\ rest[i] = q[i + 1]
    BY <2>1, Rest
  <2> QED
    BY <2>1, <2>2
<1>5. srv' = [srv EXCEPT !.inbox = rest]
  BY <1>1
<1> HIDE DEF rest
<1>6. ServerOK' /\ srv'.inbox = rest
  BY <1>2, <1>5, Dropped
<1>7. IsSeq(t.out) /\ \A i \in DOMAIN t.out : RequestOK(t.out[i])
  <2>1. CASE t.out = page.out
    BY <1>2, <2>1
  <2>2. CASE \E r : t.out = Append(page.out, r) /\ r.kind = "admin" /\ r.op = "roles_list"
    <3> PICK x : t.out = Append(page.out, x) /\ x.kind = "admin" /\ x.op = "roles_list"
      BY <2>2
    <3> DEFINE q == page.out
               r == t.out
    <3>1. r = Append(q, x) /\ IsSeq(q) /\ \A i \in DOMAIN q : RequestOK(q[i])
      BY <1>2
    <3>2. RequestOK(x)
      BY DEF RequestOK, Kinds, AdminOps
    <3> HIDE DEF q, r
    <3>3. IsSeq(r) /\ \A i \in DOMAIN r : RequestOK(r[i])
      BY <3>1, <3>2, RequestAdded
    <3> QED
      BY <3>3 DEF r
  <2> QED
    BY <1>1, <2>1, <2>2 DEF Received
<1> QED
  BY <1>1, <1>3, <1>4, <1>6, <1>7 DEF BaseInv, LinksOK

LEMMA HandledBase ==
    ASSUME BaseInv, NEW m, Handled(m)
    PROVE  BaseInv'
<1>1. PICK a : Spoke(a)
  BY DEF Handled, Answers, WorldTold, AdminTold, OthersTold
<1>2. /\ ServerOK' /\ IsSeq(srv'.inbox) /\ \A i \in DOMAIN srv'.inbox : AnswerOK(srv'.inbox[i])
  BY <1>1, SpokenLinks
<1>3. /\ page.out # <<>> /\ page'.out = Tail(page.out) /\ page'.running /\ PageOK(page')
  BY DEF Handled
<1>4. IsSeq(page.out) /\ \A i \in DOMAIN page.out : RequestOK(page.out[i])
  BY DEF BaseInv, LinksOK
<1>5. IsSeq(page'.out) /\ \A i \in DOMAIN page'.out : RequestOK(page'.out[i])
  <2> DEFINE q == page.out
             r == page'.out
  <2>1. IsSeq(q) /\ q # <<>> /\ r = Tail(q) /\ \A i \in DOMAIN q : RequestOK(q[i])
    BY <1>3, <1>4
  <2> HIDE DEF q, r
  <2>2. IsSeq(r) /\ \A i \in DOMAIN r : i + 1 \in DOMAIN q /\ r[i] = q[i + 1]
    BY <2>1, Rest
  <2>3. IsSeq(r) /\ \A i \in DOMAIN r : RequestOK(r[i])
    BY <2>1, <2>2
  <2> QED
    BY <2>3 DEF r
<1> QED
  BY <1>2, <1>3, <1>5 DEF BaseInv, LinksOK

LEMMA BaseStep == BaseInv /\ [Next]_vars => BaseInv'
<1> SUFFICES ASSUME BaseInv, [Next]_vars PROVE BaseInv'
  OBVIOUS
<1>0. PageOK(page) /\ ServerOK /\ LinksOK
  BY DEF BaseInv
<1>1. CASE Moved
  BY <1>1, MovedBase
<1>2. CASE \E m, t : Heard(m, t)
  BY <1>2, HeardBase
<1>3. CASE \E m : Handled(m)
  BY <1>3, HandledBase
<1>4. CASE Broadcast
  <2>1. PICK a : Spoke(a)
    BY <1>4 DEF Broadcast, OthersTold
  <2>2. /\ ServerOK' /\ IsSeq(srv'.inbox) /\ \A i \in DOMAIN srv'.inbox : AnswerOK(srv'.inbox[i])
    BY <2>1, SpokenLinks
  <2>3. page' = page /\ page.running
    BY <1>4 DEF Broadcast
  <2> QED
    BY <1>0, <2>2, <2>3 DEF BaseInv, LinksOK
<1>5. CASE Elsewhere
  BY <1>0, <1>5 DEF Elsewhere, Aside, BaseInv, LinksOK, ServerOK
<1>6. CASE Unplugged
  <2>1. ServerOK' /\ srv'.inbox = <<>>
    BY <1>0, <1>6, Dropped DEF Unplugged
  <2>2. IsSeq(<<>>) /\ DOMAIN <<>> = {}
    BY Short
  <2> QED
    BY <1>6, <2>1, <2>2 DEF Unplugged, Leaves, BaseInv, LinksOK
<1>7. CASE Welcomed
  <2>1. IsSeq(<<>>) /\ DOMAIN <<>> = {}
    BY Short
  <2> QED
    BY <1>0, <1>7, <2>1 DEF Welcomed, BaseInv, LinksOK, ServerOK
<1>8. CASE UNCHANGED vars
  BY <1>0, <1>8 DEF vars, BaseInv, LinksOK, ServerOK
<1>9. CASE Administered
  BY <1>0, <1>9 DEF Administered, BaseInv, LinksOK
<1> QED
  BY <1>1, <1>2, <1>3, <1>4, <1>5, <1>6, <1>7, <1>8, <1>9, NextSteps DEF StepKinds

Started ==
    /\ page.running /\ page.out = <<>> /\ srv.inbox = <<>> /\ page.mode = "normal"
    /\ page.world = srv.world /\ (srv.taken <=> "structure" \notin srv.can)
LEMMA InitBase ==
    ASSUME Init
    PROVE  BaseInv /\ Started
<1> PICK walls \in SUBSET Walls, regions \in SUBSET Ambiances, items \in SUBSET Items,
         can \in SUBSET Permissions :
      LET world == [wall |-> Plain(walls), ambiance |-> Plain(regions)]
      IN  /\ srv = [inbox |-> <<>>, can |-> can, world |-> world, taken |-> "structure" \notin can,
                    accounts |-> [n \in Names |-> "active"], touched |-> {}, roles |-> BuiltIn,
                    grants |-> {}, items |-> items]
          /\ page = [SetPermissions(EmptyPage, can) EXCEPT !.world = world,
                       !.items = [i \in items |-> [at |-> "here", full |-> FALSE]]]
  BY DEF Init
<1> DEFINE a == Plain(walls)
           b == Plain(regions)
           world == [wall |-> a, ambiance |-> b]
           accounts == [n \in Names |-> "active"]
           map == [i \in items |-> [at |-> "here", full |-> FALSE]]
           u == SetPermissions(EmptyPage, can)
<1>1. /\ srv = [inbox |-> <<>>, can |-> can, world |-> world, taken |-> "structure" \notin can,
                accounts |-> accounts, touched |-> {}, roles |-> BuiltIn, grants |-> {},
                items |-> items]
      /\ page = [u EXCEPT !.world = world, !.items = map]
  OBVIOUS
<1>2. IsMap(a, Walls, Objects) /\ IsMap(b, Ambiances, Objects)
  <2> DEFINE o == [type |-> 0, level |-> 0]
  <2>1. o \in Objects
    BY BoundsAssumption DEF Objects, Presets, Levels
  <2>2. \A S : Plain(S) = [id \in S |-> o]
    BY DEF Plain
  <2> HIDE DEF o
  <2> QED
    BY <2>1, <2>2 DEF IsMap
<1>3. IsMap(map, Items, ItemValues)
  <2> DEFINE o == [at |-> "here", full |-> FALSE]
  <2>1. o \in ItemValues
    BY DEF ItemValues
  <2> HIDE DEF o
  <2>2. map = [i \in items |-> o]
    BY DEF o
  <2> QED
    BY <2>1, <2>2 DEF IsMap
<1> HIDE DEF a, b, map
<1>4. IsWorld(world)
  BY <1>2 DEF IsWorld
<1>5. accounts \in [Names -> {"active", "disabled", "gone"}]
  OBVIOUS
<1> HIDE DEF world, accounts
<1>6. /\ DOMAIN srv = ServerFields /\ srv.inbox = <<>> /\ srv.can = can /\ srv.world = world
      /\ (srv.taken <=> "structure" \notin can) /\ srv.accounts = accounts
      /\ srv.roles = BuiltIn /\ srv.items = items
  <2> DEFINE taken == "structure" \notin can
             builtIn == BuiltIn
  <2> HIDE DEF taken, builtIn
  <2>1. srv = [inbox |-> <<>>, can |-> can, world |-> world, taken |-> taken,
               accounts |-> accounts, touched |-> {}, roles |-> builtIn, grants |-> {},
               items |-> items]
    BY <1>1 DEF taken, builtIn
  <2>2. /\ DOMAIN srv = ServerFields /\ srv.inbox = <<>> /\ srv.can = can /\ srv.world = world
        /\ srv.taken = taken /\ srv.accounts = accounts
        /\ srv.roles = builtIn /\ srv.items = items
    BY <2>1 DEF ServerFields
  <2> QED
    BY <2>2 DEF taken, builtIn
<1>7. ServerOK
  BY <1>4, <1>5, <1>6, RolesAssumption DEF ServerOK
<1> DEFINE e == EmptyPage
<1>8. /\ Shape(e) /\ e.mode = "normal" /\ e.running /\ e.out = <<>> /\ e.text = -1
      /\ e.back = "normal" /\ e.helpBack = "normal" /\ e.palette = {} /\ e.piano = None
      /\ e.restore = None /\ e.loopback = FALSE
      /\ e.wb = NoBuilder /\ e.adm = NoAdmin /\ e.itm = NoItems
  BY
  DEF EmptyPage, Shape, PageFields, BuilderFields, AdminFields, ItemFields, NoBuilder,
      NoAdmin, NoItems
<1>9. /\ e.wb.preset = None /\ e.wb.prop = None /\ e.wb.edited = None
      /\ e.adm.users = {} /\ e.adm.roles = {} /\ e.adm.pending = None /\ e.adm.actions = {}
      /\ e.itm.list = {}
  BY <1>8 DEF NoBuilder, NoAdmin, NoItems
<1> HIDE DEF e
<1>10. /\ Shape(u) /\ u.mode = "normal" /\ u.running /\ u.out = <<>> /\ u.text = -1
       /\ u.back = "normal" /\ u.helpBack = "normal" /\ u.palette = {} /\ u.piano = None
       /\ u.restore = None /\ u.loopback = FALSE
       /\ u.wb = e.wb /\ u.adm = e.adm /\ u.itm = e.itm
       /\ u.can = can /\ u.adminActions \subseteq AdminActions
  <2>1. u = [e EXCEPT !.can = can, !.adminActions = IF "admin" \in can THEN AdminActions ELSE {}]
    BY DEF SetPermissions, e
  <2> QED
    BY <1>8, <2>1 DEF Shape, PageFields
<1> HIDE DEF u
<1>11. /\ Shape(page) /\ page.mode = "normal" /\ page.running /\ page.out = <<>> /\ page.text = -1
       /\ page.back = "normal" /\ page.helpBack = "normal" /\ page.palette = {} /\ page.piano = None
       /\ page.restore = None /\ page.loopback = FALSE
       /\ page.wb = e.wb /\ page.adm = e.adm /\ page.itm = e.itm
       /\ page.can = can /\ page.adminActions \subseteq AdminActions
       /\ page.world = world /\ page.items = map
  BY <1>1, <1>10, ZenonT(60) DEF Shape, PageFields
<1>12. Held(page)
  <2>1. -1 \in Texts
    BY BoundsAssumption DEF Texts
  <2>2. can \subseteq Permissions
    OBVIOUS
  <2>3. page.palette \subseteq Commands \cup PianoCommands
    BY <1>11
  <2>4. page.restore \in BOOLEAN \cup {None} /\ page.loopback \in BOOLEAN
    BY <1>11
  <2>5. page.piano \in Items \cup {None} /\ IsMap(page.items, Items, ItemValues)
    BY <1>3, <1>11
  <2>6. page.can \subseteq Permissions /\ page.text \in Texts
    BY <1>11, <2>1, <2>2
  <2> QED
    BY <2>3, <2>4, <2>5, <2>6 DEF Held
<1>13. MenusHeld(page)
  BY <1>9, <1>11 DEF MenusHeld
<1>14. Ways(page) /\ AskedAbout(page)
  BY <1>11 DEF Ways, AskedAbout
<1>15. PageOK(page)
  BY <1>4, <1>11, <1>12, <1>13, <1>14 DEF PageOK
<1>16. LinksOK
  <2>1. IsSeq(<<>>) /\ DOMAIN <<>> = {}
    BY Short
  <2> QED
    BY <1>6, <1>11, <2>1 DEF LinksOK
<1> QED
  BY <1>6, <1>7, <1>11, <1>15, <1>16 DEF BaseInv, Started

\* The records keep their shape and the queues carry only what the page and
\* the server say to each other.
THEOREM BaseHolds == Spec => []BaseInv
<1>1. Init => BaseInv
  BY InitBase
<1> QED
  BY <1>1, BaseStep, PTL DEF Spec

-----------------------------------------------------------------------------
(* Escape, and what is sent. *)

\* Whatever answers and changes by others reached the page in the middle of
\* a menu, and whatever permission was taken away there, five Escapes lead home;
\* from under World Builder's root if the user may build: EscapeLeadsOut.
THEOREM EscapeLeadsOutHolds == Spec => []EscapeLeadsOut
<1>1. BaseInv => EscapeLeadsOut
  BY EscapesHome DEF BaseInv, EscapeLeadsOut, Able
<1> QED
  BY <1>1, BaseHolds, PTL

\* Only a key sends what a menu asks for; an answer makes the page ask for
\* the roles again at most.
LEMMA Sends ==
    ASSUME BaseInv, Next, Sent
    PROVE  (\E t : Asks(page, t, New)) \/ (New.kind = "admin" /\ srv' # srv)
<1>0. IsSeq(page.out) /\ IsSeq(srv.inbox) /\ Len(page.out) \in Nat
  BY LenProperties DEF BaseInv, LinksOK, IsSeq
<1>1. page'.out # page.out /\ page'.out # <<>>
  <2>1. Len(<<>>) = 0
    BY Short
  <2> QED
    BY <1>0, <2>1 DEF Sent
<1>2. ASSUME NEW m, page'.out = Append(page.out, m)
      PROVE  New = m
  <2> DEFINE q == page.out
             r == page'.out
  <2>1. IsSeq(q) /\ r = Append(q, m)
    BY <1>0, <1>2
  <2> HIDE DEF q, r
  <2>2. Len(q) \in Nat /\ Len(r) = Len(q) + 1 /\ r[Len(q) + 1] = m
    BY <2>1, Appended
  <2>3. r[Len(r)] = m
    BY <2>2
  <2> QED
    BY <2>3 DEF New, r
<1>3. CASE Moved
  <2> PICK t : Does(page, t) /\ Became(t)
    BY <1>3 DEF Moved
  <2>1. page'.out = t.out
    BY DEF Became
  <2>2. PICK m : Asks(page, t, m)
    BY <1>1, <2>1 DEF Does, Quiet, Leaves
  <2>3. New = m
    BY <1>2, <2>1, <2>2 DEF Asks
  <2> QED
    BY <2>2, <2>3
<1>4. CASE \E m, t : Heard(m, t)
  <2> PICK m, t : Heard(m, t)
    BY <1>4
  <2>1. /\ page'.out = t.out /\ Received(page, t, m)
        /\ srv.inbox # <<>> /\ srv' = [srv EXCEPT !.inbox = Tail(srv.inbox)] /\ ServerOK
    BY DEF Heard, Settled, BaseInv
  <2>2. PICK r : t.out = Append(page.out, r) /\ r.kind = "admin"
    BY <1>1, <2>1 DEF Received
  <2>3. New.kind = "admin"
    BY <1>2, <2>1, <2>2
  <2>4. srv' # srv
    <3> DEFINE q == srv.inbox
               rest == Tail(q)
    <3>1. srv' = [srv EXCEPT !.inbox = rest] /\ ServerOK /\ IsSeq(q) /\ q # <<>>
      BY <1>0, <2>1
    <3>2. rest # q
      <4> DEFINE p == rest
      <4>1. p = Tail(q)
        OBVIOUS
      <4> HIDE DEF p, q
      <4>2. Len(q) \in Nat /\ Len(p) = Len(q) - 1
        BY <3>1, <4>1, Rest
      <4>3. p # q
        BY <4>2
      <4> QED
        BY <4>3 DEF p
    <3> HIDE DEF rest
    <3>3. srv'.inbox = rest
      BY <3>1, Dropped
    <3> QED
      BY <3>2, <3>3 DEF q
  <2> QED
    BY <2>3, <2>4
<1>5. CASE \E m : Handled(m)
  <2> DEFINE q == page.out
             r == page'.out
  <2>1. IsSeq(q) /\ q # <<>> /\ r = Tail(q) /\ Len(r) > Len(q)
    BY <1>0, <1>5 DEF Handled, Sent
  <2> HIDE DEF q, r
  <2>2. Len(q) \in Nat /\ Len(r) = Len(q) - 1
    BY <2>1, Rest
  <2> QED
    BY <2>1, <2>2
<1>6. CASE Broadcast \/ Administered
  BY <1>1, <1>6 DEF Broadcast, Administered
<1>7. CASE Elsewhere
  BY <1>1, <1>7 DEF Elsewhere, Aside
<1>8. CASE Unplugged
  BY <1>1, <1>8 DEF Unplugged, Leaves
<1>9. CASE Welcomed
  BY <1>1, <1>9 DEF Welcomed
<1> QED
  BY <1>3, <1>4, <1>5, <1>6, <1>7, <1>8, <1>9, NextSteps DEF StepKinds

\* What a key sends is about the object the user was asked about, and a change
\* of an ambiance about one the page still has and the user may still change,
\* in whatever order answers, dialogs and the edits of others came: SendsAreMeant.
THEOREM SendsAreMeantHolds == Spec => SendsAreMeant
<1>1. ASSUME BaseInv, [Next]_vars
      PROVE  [Sent /\ New.kind = "ambiance" /\ New.op # "add" =>
                 New.id \in DOMAIN page.world.ambiance /\ May(page, "structure")]_vars
  BY <1>1, Sends DEF Asks, Live
<1>2. ASSUME BaseInv, [Next]_vars
      PROVE  [/\ page.mode \in TextModes \cup {"confirmYesNo", "optionSelect", "adminUserDeleteConfirm"}
              /\ srv' = srv /\ Sent
              => New.id = page.prompt]_vars
  BY <1>2, Sends DEF Asks, Meant, Asking
<1> QED
  BY <1>1, <1>2, BaseHolds, PTL DEF SendsAreMeant, AmbianceEditsAreLive, SendsMatchThePrompt, Spec

-----------------------------------------------------------------------------
(* The page's copy of the world and the server's. *)

\* What the last message under way about an object says of it is what the
\* server has; without such a message the page agrees with the server, or its
\* own edit of the object is still under way.
Fits(m, f, i) == IF m.kind = "upsert" THEN Holds(f, i, m.arg) ELSE Lacks(f, i)
NoTouch(q, k, i) == \A n \in DOMAIN q : ~Touches(q[n], k, i)
LastTouch(q, k, i, n) ==
    /\ n \in DOMAIN q /\ Touches(q[n], k, i)
    /\ \A l \in DOMAIN q : l > n => ~Touches(q[l], k, i)
Word(q, k, i, f) == \A n \in DOMAIN q : LastTouch(q, k, i, n) => Fits(q[n], f, i)
Edits(m, k, i) == m.kind = k /\ m.op = "update" /\ m.id = i
Awaited(q, k, i) == \E n \in DOMAIN q : Edits(q[n], k, i)
SameDomain(f, g, i) == i \in DOMAIN f <=> i \in DOMAIN g
SettlesAt(k, i) ==
    LET f == page.world[k]
        g == srv.world[k]
    IN  /\ Word(srv.inbox, k, i, g)
        /\ NoTouch(srv.inbox, k, i) =>
              SameDomain(f, g, i) /\ (Agree(f, g, i) \/ Awaited(page.out, k, i))
WorldInv ==
    ~srv.taken => /\ "structure" \in srv.can
                  /\ page.running => \A k \in Kinds : \A i : SettlesAt(k, i)

LEMMA AwaitedAdded ==
    ASSUME NEW q, IsSeq(q), NEW e, NEW r, r = Append(q, e), NEW k, NEW i
    PROVE  /\ Awaited(q, k, i) => Awaited(r, k, i)
           /\ Edits(e, k, i) => Awaited(r, k, i)
<1>1. Len(q) \in Nat /\ DOMAIN q = 1..Len(q)
  BY Appended
<1>2. DOMAIN r = 1..(Len(q) + 1)
  BY Appended
<1>3. r[Len(q) + 1] = e
  BY Appended
<1>4. \A n \in 1..Len(q) : r[n] = q[n]
  BY Appended
<1>5. ASSUME Awaited(q, k, i) PROVE Awaited(r, k, i)
  <2> PICK n \in DOMAIN q : Edits(q[n], k, i)
    BY <1>5 DEF Awaited
  <2>1. n \in DOMAIN r /\ r[n] = q[n]
    BY <1>1, <1>2, <1>4
  <2> QED
    BY <2>1 DEF Awaited
<1>6. ASSUME Edits(e, k, i) PROVE Awaited(r, k, i)
  <2>1. Len(q) + 1 \in DOMAIN r
    BY <1>1, <1>2
  <2> QED
    BY <1>3, <1>6, <2>1 DEF Awaited
<1> QED
  BY <1>5, <1>6

LEMMA AwaitedRest ==
    ASSUME NEW q, IsSeq(q), q # <<>>, NEW r, r = Tail(q), NEW k, NEW i, Awaited(q, k, i)
    PROVE  Edits(Head(q), k, i) \/ Awaited(r, k, i)
<1>1. /\ Len(q) \in Nat \ {0} /\ DOMAIN q = 1..Len(q) /\ DOMAIN r = 1..(Len(q) - 1)
      /\ Head(q) = q[1]
  BY Rest
<1>2. \A n \in DOMAIN r : r[n] = q[n + 1]
  BY Rest
<1> PICK n \in DOMAIN q : Edits(q[n], k, i)
  BY DEF Awaited
<1>3. CASE n = 1
  BY <1>1, <1>3
<1>4. CASE n # 1
  <2>1. n - 1 \in DOMAIN r /\ (n - 1) + 1 = n
    BY <1>1, <1>4
  <2>2. r[n - 1] = q[n]
    BY <1>2, <2>1
  <2> QED
    BY <2>1, <2>2 DEF Awaited
<1> QED
  BY <1>3, <1>4

LEMMA WordRest ==
    ASSUME NEW q, IsSeq(q), q # <<>>, NEW r, r = Tail(q), NEW k, NEW i, NEW f, Word(q, k, i, f)
    PROVE  /\ Word(r, k, i, f)
           /\ NoTouch(r, k, i) /\ ~Touches(Head(q), k, i) => NoTouch(q, k, i)
           /\ NoTouch(r, k, i) /\ Touches(Head(q), k, i) => Fits(Head(q), f, i)
<1>1. /\ Len(q) \in Nat \ {0} /\ DOMAIN q = 1..Len(q) /\ DOMAIN r = 1..(Len(q) - 1)
      /\ Head(q) = q[1]
  BY Rest
<1>2. \A n \in DOMAIN r : r[n] = q[n + 1]
  BY Rest
<1>3. ASSUME NEW n \in DOMAIN q, n # 1
      PROVE  n - 1 \in DOMAIN r /\ r[n - 1] = q[n]
  <2>1. n - 1 \in DOMAIN r /\ (n - 1) + 1 = n
    BY <1>1, <1>3
  <2> QED
    BY <1>2, <2>1
<1>4. ASSUME NEW n \in DOMAIN r, LastTouch(r, k, i, n)
      PROVE  Fits(r[n], f, i)
  <2>1. n + 1 \in DOMAIN q /\ q[n + 1] = r[n]
    BY <1>1, <1>2
  <2>2. ASSUME NEW l \in DOMAIN q, l > n + 1 PROVE ~Touches(q[l], k, i)
    <3>1. l # 1 /\ l - 1 > n
      BY <1>1, <2>2
    <3>2. l - 1 \in DOMAIN r /\ r[l - 1] = q[l]
      BY <1>3, <3>1
    <3> QED
      BY <1>4, <3>1, <3>2 DEF LastTouch
  <2>3. LastTouch(q, k, i, n + 1)
    BY <1>4, <2>1, <2>2 DEF LastTouch
  <2> QED
    BY <2>1, <2>3 DEF Word
<1>5. ASSUME NoTouch(r, k, i), ~Touches(Head(q), k, i) PROVE NoTouch(q, k, i)
  BY <1>1, <1>3, <1>5 DEF NoTouch
<1>6. ASSUME NoTouch(r, k, i), Touches(Head(q), k, i) PROVE Fits(Head(q), f, i)
  <2>1. ASSUME NEW l \in DOMAIN q, l > 1 PROVE ~Touches(q[l], k, i)
    BY <1>1, <1>3, <1>6, <2>1 DEF NoTouch
  <2>2. LastTouch(q, k, i, 1) /\ 1 \in DOMAIN q
    BY <1>1, <1>6, <2>1 DEF LastTouch
  <2> QED
    BY <1>1, <2>2 DEF Word
<1> QED
  BY <1>4, <1>5, <1>6 DEF Word

LEMMA WordJoined ==
    ASSUME NEW q, IsSeq(q), NEW a, IsSeq(a), NEW r, r = q \o a, NEW k, NEW i, NEW f, NEW g,
           Word(q, k, i, f),
           \A n \in DOMAIN a : Touches(a[n], k, i) => Fits(a[n], g, i),
           NoTouch(a, k, i) => Agree(g, f, i)
    PROVE  Word(r, k, i, g) /\ (NoTouch(r, k, i) => NoTouch(q, k, i) /\ NoTouch(a, k, i))
<1>1. /\ Len(q) \in Nat /\ Len(a) \in Nat
      /\ DOMAIN q = 1..Len(q) /\ DOMAIN a = 1..Len(a) /\ DOMAIN r = 1..(Len(q) + Len(a))
  BY Joined
<1>2. /\ \A n \in 1..Len(q) : r[n] = q[n]
      /\ \A n \in 1..Len(a) : r[Len(q) + n] = a[n]
  BY Joined
<1>3. ASSUME NEW n \in DOMAIN r, LastTouch(r, k, i, n) PROVE Fits(r[n], g, i)
  <2>1. CASE n \in DOMAIN q /\ r[n] = q[n]
    <3>1. ASSUME NEW l \in DOMAIN a PROVE ~Touches(a[l], k, i)
      <4>1. Len(q) + l \in DOMAIN r /\ Len(q) + l > n /\ r[Len(q) + l] = a[l]
        BY <1>1, <1>2, <2>1
      <4> QED
        BY <1>3, <4>1 DEF LastTouch
    <3>2. ASSUME NEW l \in DOMAIN q, l > n PROVE ~Touches(q[l], k, i)
      <4>1. l \in DOMAIN r /\ r[l] = q[l]
        BY <1>1, <1>2
      <4> QED
        BY <1>3, <3>2, <4>1 DEF LastTouch
    <3>3. Agree(g, f, i)
      BY <3>1 DEF NoTouch
    <3>4. LastTouch(q, k, i, n)
      BY <1>3, <2>1, <3>2 DEF LastTouch
    <3>5. Fits(q[n], f, i)
      BY <2>1, <3>4 DEF Word
    <3> QED
      BY <2>1, <3>3, <3>5 DEF Fits, Holds, Lacks, Agree
  <2>2. CASE n - Len(q) \in DOMAIN a /\ r[n] = a[n - Len(q)]
    BY <1>3, <2>2 DEF LastTouch
  <2> QED
    BY <2>1, <2>2, JoinedParts
<1>4. ASSUME NoTouch(r, k, i) PROVE NoTouch(q, k, i)
  BY <1>1, <1>2, <1>4 DEF NoTouch
<1>5. ASSUME NoTouch(r, k, i) PROVE NoTouch(a, k, i)
  <2>1. ASSUME NEW n \in DOMAIN a PROVE ~Touches(a[n], k, i)
    <3>1. Len(q) + n \in DOMAIN r /\ r[Len(q) + n] = a[n]
      BY <1>1, <1>2
    <3> QED
      BY <1>5, <3>1 DEF NoTouch
  <2> QED
    BY <2>1 DEF NoTouch
<1> QED
  BY <1>3, <1>4, <1>5 DEF Word

LEMMA TookAt ==
    ASSUME NEW w, IsWorld(w), NEW m, AnswerOK(m), NEW u,
           m.kind = "upsert" => Puts(u, w, m.op, m.id, m.arg),
           m.kind = "remove" => Drops(u, w, m.op, m.id),
           m.kind \notin {"upsert", "remove"} => u = w,
           NEW k \in Kinds, NEW i
    PROVE  IF Touches(m, k, i) THEN Fits(m, u[k], i) ELSE Agree(u[k], w[k], i)
<1>1. CASE m.kind = "upsert"
  <2>1. m.op \in Kinds /\ m.id \in Ids(m.op) /\ m.arg \in Objects /\ Puts(u, w, m.op, m.id, m.arg)
    BY <1>1 DEF AnswerOK, Ids
  <2>2. Holds(u[m.op], m.id, m.arg)
    BY <2>1, WorldWith
  <2>3. \A l \in Kinds : \A j : l # m.op \/ j # m.id => Agree(u[l], w[l], j)
    BY <2>1, WorldWith
  <2> QED
    BY <1>1, <2>2, <2>3 DEF Touches, Fits
<1>2. CASE m.kind = "remove"
  <2>1. m.op \in Kinds /\ Drops(u, w, m.op, m.id)
    BY <1>2 DEF AnswerOK
  <2>2. Lacks(u[m.op], m.id)
    BY <2>1, WorldWithout
  <2>3. \A l \in Kinds : \A j : l # m.op \/ j # m.id => Agree(u[l], w[l], j)
    BY <2>1, WorldWithout
  <2> QED
    BY <1>2, <2>2, <2>3 DEF Touches, Fits
<1>3. CASE m.kind \notin {"upsert", "remove"}
  BY <1>3 DEF Touches, Agree
<1> QED
  BY <1>1, <1>2, <1>3

\* A message reaches the page.
LEMMA HeardWorld ==
    ASSUME BaseInv, WorldInv, NEW m, NEW t, Heard(m, t)
    PROVE  WorldInv'
<1>1. /\ page.running /\ srv.inbox # <<>> /\ m = Head(srv.inbox) /\ AnswerOK(m)
      /\ srv' = [srv EXCEPT !.inbox = Tail(srv.inbox)]
      /\ page'.out = t.out /\ page'.world = t.world /\ Received(page, t, m)
  BY DEF Heard, Settled
<1>2. ServerOK /\ IsSeq(page.out) /\ IsSeq(srv.inbox) /\ IsWorld(page.world)
  BY DEF BaseInv, LinksOK, PageOK
<1> DEFINE rest == Tail(srv.inbox)
<1>3. srv' = [srv EXCEPT !.inbox = rest]
  BY <1>1
<1> HIDE DEF rest
<1>4. srv'.inbox = rest /\ SameRights /\ srv'.world = srv.world
  BY <1>2, <1>3, Dropped
<1> SUFFICES ASSUME ~srv.taken, NEW k \in Kinds, NEW i
             PROVE  SettlesAt(k, i)'
  BY <1>4 DEF WorldInv, SameRights
<1> DEFINE q == srv.inbox
           f == page.world[k]
           g == srv.world[k]
           h == page'.world[k]
<1>5. Word(q, k, i, g) /\ (NoTouch(q, k, i) => SameDomain(f, g, i) /\ (Agree(f, g, i) \/ Awaited(page.out, k, i)))
  BY <1>1 DEF WorldInv, SettlesAt
<1>6. IF Touches(m, k, i) THEN Fits(m, h, i) ELSE Agree(h, f, i)
  <2> DEFINE w == page.world
             u == page'.world
  <2>1. /\ IsWorld(w)
        /\ m.kind = "upsert" => Puts(u, w, m.op, m.id, m.arg)
        /\ m.kind = "remove" => Drops(u, w, m.op, m.id)
        /\ m.kind \notin {"upsert", "remove"} => u = w
    BY <1>1, <1>2 DEF Received, Took, Puts, Drops
  <2> HIDE DEF w, u
  <2>2. IF Touches(m, k, i) THEN Fits(m, u[k], i) ELSE Agree(u[k], w[k], i)
    BY <1>1, <2>1, TookAt
  <2> QED
    BY <2>2 DEF w, u
<1>7. Awaited(page.out, k, i) => Awaited(page'.out, k, i)
  <2>1. CASE t.out = page.out
    BY <1>1, <2>1
  <2>2. CASE \E r : t.out = Append(page.out, r)
    <3> PICK e : t.out = Append(page.out, e)
      BY <2>2
    <3> DEFINE p == page.out
               r == t.out
    <3>1. IsSeq(p) /\ r = Append(p, e)
      BY <1>2
    <3> HIDE DEF p, r
    <3>2. Awaited(p, k, i) => Awaited(r, k, i)
      BY <3>1, AwaitedAdded
    <3> QED
      BY <1>1, <3>2 DEF p, r
  <2> QED
    BY <1>1, <2>1, <2>2 DEF Received
<1>8. IsSeq(q) /\ q # <<>> /\ rest = Tail(q) /\ m = Head(q)
  BY <1>1, <1>2 DEF rest
<1> HIDE DEF q, f, g, h
<1>9. /\ Word(rest, k, i, g)
      /\ NoTouch(rest, k, i) /\ ~Touches(m, k, i) => NoTouch(q, k, i)
      /\ NoTouch(rest, k, i) /\ Touches(m, k, i) => Fits(m, g, i)
  BY <1>5, <1>8, WordRest
<1>10. ASSUME NoTouch(rest, k, i)
       PROVE  SameDomain(h, g, i) /\ (Agree(h, g, i) \/ Awaited(page'.out, k, i))
  <2>1. CASE Touches(m, k, i)
    BY <1>6, <1>9, <1>10, <2>1 DEF Fits, Holds, Lacks, Agree, SameDomain
  <2>2. CASE ~Touches(m, k, i)
    BY <1>5, <1>6, <1>7, <1>9, <1>10, <2>2 DEF Agree, SameDomain
  <2> QED
    BY <2>1, <2>2
<1> QED
  BY <1>4, <1>9, <1>10 DEF SettlesAt, g, h

\* The server tells of what it did; what an update previews stays awaited
\* until it is taken up.
LEMMA SpokenWorld ==
    ASSUME BaseInv, WorldInv, NEW a, Spoke(a), page.running, page'.world = page.world,
           ~srv'.taken => ~srv.taken /\ "structure" \in srv'.can,
           NEW k \in Kinds, NEW i, ~srv.taken,
           \/ Awaited(page.out, k, i) => Awaited(page'.out, k, i)
           \/ ~NoTouch(a, k, i)
           \/ Lacks(srv.world[k], i) /\ Lacks(srv'.world[k], i)
    PROVE  SettlesAt(k, i)'
<1> DEFINE q == srv.inbox
           r == srv'.inbox
           f == page.world[k]
           g == srv.world[k]
           h == srv'.world[k]
<1>1. Word(q, k, i, g) /\ (NoTouch(q, k, i) => SameDomain(f, g, i) /\ (Agree(f, g, i) \/ Awaited(page.out, k, i)))
  BY DEF WorldInv, SettlesAt
<1>2. IsSeq(q) /\ IsSeq(a) /\ r = q \o a
  BY DEF BaseInv, LinksOK, Spoke
<1>3. /\ \A n \in DOMAIN a : Touches(a[n], k, i) => Fits(a[n], h, i)
      /\ NoTouch(a, k, i) => Agree(h, g, i)
  BY DEF Spoke, Tells, TellsOf, Fits, NoTouch
<1>4. \/ Awaited(page.out, k, i) => Awaited(page'.out, k, i)
      \/ ~NoTouch(a, k, i)
      \/ Lacks(g, i) /\ Lacks(h, i)
  OBVIOUS
<1>5. page'.world[k] = f
  OBVIOUS
<1> HIDE DEF q, r, f, g, h
<1>6. Word(r, k, i, h) /\ (NoTouch(r, k, i) => NoTouch(q, k, i) /\ NoTouch(a, k, i))
  BY <1>1, <1>2, <1>3, WordJoined
<1>7. ASSUME NoTouch(r, k, i)
      PROVE  SameDomain(f, h, i) /\ (Agree(f, h, i) \/ Awaited(page'.out, k, i))
  <2>1. /\ NoTouch(a, k, i) /\ Agree(h, g, i)
        /\ SameDomain(f, g, i) /\ (Agree(f, g, i) \/ Awaited(page.out, k, i))
    BY <1>1, <1>3, <1>6, <1>7
  <2> QED
    BY <1>4, <2>1 DEF Agree, SameDomain, Lacks
<1> QED
  BY <1>5, <1>6, <1>7 DEF SettlesAt, f, h, r

LEMMA HandledWorld ==
    ASSUME BaseInv, WorldInv, NEW m, Handled(m)
    PROVE  WorldInv'
<1>1. /\ page.out # <<>> /\ m = Head(page.out) /\ page.running /\ page'.out = Tail(page.out)
      /\ page'.world = page.world /\ IsSeq(page.out)
  BY DEF Handled, SameMenus, BaseInv, LinksOK
<1>2. PICK a : /\ Spoke(a)
               /\ srv'.can = srv.can /\ srv'.taken = srv.taken
               /\ m.kind \in Kinds => WorldTold(m, a)
  <2>1. CASE m.kind \in Kinds /\ \E a : WorldTold(m, a)
    BY <2>1 DEF WorldTold, SameRights
  <2>2. CASE m.kind = "admin" /\ \E a, x : AdminTold(m, a, x)
    BY <2>2 DEF AdminTold, Kinds
  <2>3. CASE m.kind = "item" /\ \E a : OthersTold(a) /\ SameRights
    BY <2>3 DEF OthersTold, SameRights, Kinds
  <2> QED
    BY <2>1, <2>2, <2>3 DEF Handled, Answers
<1> SUFFICES ASSUME ~srv.taken, NEW k \in Kinds, NEW i
             PROVE  SettlesAt(k, i)'
  BY <1>2 DEF WorldInv
<1>3. "structure" \in srv.can
  BY DEF WorldInv
<1>4. Awaited(page.out, k, i) => Edits(m, k, i) \/ Awaited(page'.out, k, i)
  <2> DEFINE q == page.out
             r == page'.out
  <2>1. IsSeq(q) /\ q # <<>> /\ r = Tail(q) /\ m = Head(q)
    BY <1>1
  <2> HIDE DEF q, r
  <2>2. Awaited(q, k, i) => Edits(m, k, i) \/ Awaited(r, k, i)
    BY <2>1, AwaitedRest
  <2> QED
    BY <2>2 DEF q, r
<1>5. ASSUME Edits(m, k, i)
      PROVE  ~NoTouch(a, k, i) \/ (Lacks(srv.world[k], i) /\ Lacks(srv'.world[k], i))
  BY <1>2, <1>3, <1>5 DEF Edits, WorldTold, NoTouch
<1> QED
  BY <1>1, <1>2, <1>3, <1>4, <1>5, SpokenWorld

LEMMA MovedWorld ==
    ASSUME BaseInv, WorldInv, Moved
    PROVE  WorldInv'
<1>1. PICK t : Does(page, t) /\ Became(t)
  BY DEF Moved
<1>2. /\ page'.running = t.running /\ page'.out = t.out /\ page'.world = t.world
      /\ srv' = IF t.running THEN srv ELSE [srv EXCEPT !.inbox = <<>>]
      /\ page.running /\ ServerOK /\ IsSeq(page.out)
  BY <1>1 DEF Became, Moved, BaseInv, LinksOK
<1>3. CASE Leaves(t)
  <2>1. SameRights
    BY <1>2, <1>3, Dropped DEF Leaves
  <2> QED
    BY <1>2, <1>3, <2>1 DEF Leaves, SameRights, WorldInv
<1>4. CASE Quiet(page, t)
  <2>1. srv' = srv /\ page'.out = page.out /\ page'.world = page.world
    BY <1>2, <1>4 DEF Quiet
  <2> QED
    BY <1>2, <2>1 DEF WorldInv, SettlesAt
<1>5. CASE \E m : Asks(page, t, m)
  <2> PICK m : Asks(page, t, m)
    BY <1>5
  <2>1. srv' = srv
    BY <1>2 DEF Asks
  <2> SUFFICES ASSUME ~srv.taken, NEW k \in Kinds, NEW i
               PROVE  SettlesAt(k, i)'
    BY <2>1 DEF WorldInv
  <2> DEFINE f == page.world[k]
             g == srv.world[k]
             h == page'.world[k]
  <2>2. /\ Word(srv.inbox, k, i, g)
        /\ NoTouch(srv.inbox, k, i) => SameDomain(f, g, i) /\ (Agree(f, g, i) \/ Awaited(page.out, k, i))
    BY <1>2 DEF WorldInv, SettlesAt
  <2>3. DOMAIN h = DOMAIN f /\ (i \in DOMAIN f => h[i] = f[i] \/ Edits(m, k, i))
    BY <1>2 DEF Asks, Previews, Edits
  <2>4. /\ Awaited(page.out, k, i) => Awaited(page'.out, k, i)
        /\ Edits(m, k, i) => Awaited(page'.out, k, i)
    <3> DEFINE q == page.out
               r == page'.out
    <3>1. IsSeq(q) /\ r = Append(q, m)
      BY <1>2 DEF Asks
    <3> HIDE DEF q, r
    <3>2. /\ Awaited(q, k, i) => Awaited(r, k, i)
          /\ Edits(m, k, i) => Awaited(r, k, i)
      BY <3>1, AwaitedAdded
    <3> QED
      BY <3>2 DEF q, r
  <2> HIDE DEF f, g, h
  <2>5. NoTouch(srv.inbox, k, i) => SameDomain(h, g, i) /\ (Agree(h, g, i) \/ Awaited(page'.out, k, i))
    BY <2>2, <2>3, <2>4 DEF Agree, SameDomain
  <2> QED
    BY <2>1, <2>2, <2>5 DEF SettlesAt, g, h
<1> QED
  BY <1>1, <1>3, <1>4, <1>5 DEF Does

LEMMA WorldStep ==
    ASSUME BaseInv, WorldInv, [Next]_vars
    PROVE  WorldInv'
<1>0. ServerOK /\ LinksOK
  BY DEF BaseInv
<1>1. CASE Moved
  BY <1>1, MovedWorld
<1>2. CASE \E m, t : Heard(m, t)
  BY <1>2, HeardWorld
<1>3. CASE \E m : Handled(m)
  BY <1>3, HandledWorld
<1>4. CASE Broadcast
  <2>1. PICK a : OthersTold(a)
    BY <1>4 DEF Broadcast
  <2>2. page.running /\ page' = page
    BY <1>4 DEF Broadcast
  <2> SUFFICES ASSUME ~srv'.taken PROVE WorldInv'
    BY DEF WorldInv
  <2>3. ~srv.taken /\ "structure" \in srv'.can
    BY <2>1 DEF OthersTold, SameRights, WorldInv
  <2>4. ASSUME NEW k \in Kinds, NEW i PROVE SettlesAt(k, i)'
    BY <2>1, <2>2, <2>3, SpokenWorld DEF OthersTold
  <2> QED
    BY <2>3, <2>4 DEF WorldInv
<1>5. CASE Elsewhere
  <2>1. srv' = srv /\ page'.out = page.out /\ page'.world = page.world /\ page.running
    BY <1>5 DEF Elsewhere, Aside, SameMenus
  <2> QED
    BY <2>1 DEF WorldInv, SettlesAt
<1>6. CASE Unplugged
  <2>1. SameRights /\ ~page'.running
    BY <1>0, <1>6, Dropped DEF Unplugged, Leaves
  <2> QED
    BY <2>1 DEF SameRights, WorldInv
<1>7. CASE Welcomed
  <2>1. srv' = srv /\ page'.world = srv.world /\ srv.inbox = <<>> /\ DOMAIN <<>> = {}
    BY <1>0, <1>7, Short DEF Welcomed, LinksOK
  <2>2. ASSUME NEW k \in Kinds, NEW i PROVE SettlesAt(k, i)'
    BY <2>1 DEF SettlesAt, Word, SameDomain, Agree
  <2> QED
    BY <2>1, <2>2 DEF WorldInv
<1>8. CASE UNCHANGED vars
  BY <1>8 DEF vars, WorldInv, SettlesAt
<1>9. CASE Administered
  BY <1>9 DEF Administered, WorldInv, SettlesAt, Word
<1> QED
  BY <1>1, <1>2, <1>3, <1>4, <1>5, <1>6, <1>7, <1>8, <1>9, NextSteps DEF StepKinds

LEMMA InitWorld ==
    ASSUME Init
    PROVE  WorldInv
<1>1. Started /\ DOMAIN <<>> = {}
  BY InitBase, Short
<1>2. ASSUME NEW k \in Kinds, NEW i PROVE SettlesAt(k, i)
  BY <1>1 DEF Started, SettlesAt, Word, SameDomain, Agree
<1> QED
  BY <1>1, <1>2 DEF Started, WorldInv

\* The page shows its own edits before the server has them, others edit the
\* same objects, and its requests may be refused: when nothing is under way
\* any more and building was never forbidden, the page's copy of the world is
\* the server's: PreviewsSettle.
THEOREM PreviewsSettleHolds == Spec => []PreviewsSettle
<1>1. Init => BaseInv /\ WorldInv
  BY InitBase, InitWorld
<1>2. BaseInv /\ WorldInv /\ [Next]_vars => (BaseInv /\ WorldInv)'
  BY BaseStep, WorldStep
<1>3. BaseInv /\ WorldInv => PreviewsSettle
  <2> SUFFICES ASSUME BaseInv, WorldInv, page.running, ~srv.taken, page.out = <<>>, srv.inbox = <<>>
               PROVE  page.world = srv.world
    BY DEF PreviewsSettle
  <2>1. DOMAIN <<>> = {}
    BY Short
  <2>2. \A k \in Kinds : \A i : Agree(page.world[k], srv.world[k], i)
    BY <2>1 DEF WorldInv, SettlesAt, NoTouch, Awaited
  <2> DEFINE w == page.world
             v == srv.world
             a == w.wall
             b == w.ambiance
             c == v.wall
             d == v.ambiance
  <2>3. w = [wall |-> a, ambiance |-> b] /\ v = [wall |-> c, ambiance |-> d]
    BY DEF BaseInv, PageOK, ServerOK, IsWorld
  <2>4. /\ a = [i \in DOMAIN a |-> a[i]] /\ b = [i \in DOMAIN b |-> b[i]]
        /\ c = [i \in DOMAIN c |-> c[i]] /\ d = [i \in DOMAIN d |-> d[i]]
    BY DEF BaseInv, PageOK, ServerOK, IsWorld, IsMap
  <2>5. (\A i : Agree(a, c, i)) /\ (\A i : Agree(b, d, i))
    BY <2>2 DEF Kinds
  <2> HIDE DEF a, b, c, d
  <2>6. ASSUME NEW f, NEW g, f = [i \in DOMAIN f |-> f[i]], g = [i \in DOMAIN g |-> g[i]],
               \A i : Agree(f, g, i)
        PROVE  f = g
    <3>1. DOMAIN f = DOMAIN g /\ \A i \in DOMAIN f : f[i] = g[i]
      BY <2>6 DEF Agree
    <3> QED
      BY <2>6, <3>1
  <2>7. a = c /\ b = d
    BY <2>4, <2>5, <2>6
  <2> QED
    BY <2>3, <2>7
<1> QED
  BY <1>1, <1>2, <1>3, PTL DEF Spec

-----------------------------------------------------------------------------
(* The lists of users. *)

\* Messages of the kinds K in a queue: none, or one at most.
Free(q, K) == \A i \in DOMAIN q : q[i].kind \notin K
Single(q, K) == \A i, j \in DOMAIN q : q[i].kind \in K /\ q[j].kind \in K => i = j
LEMMA FewLeft ==
    ASSUME NEW q, IsSeq(q), q # <<>>, NEW r, r = Tail(q), NEW K
    PROVE  /\ Single(q, K) => Single(r, K)
           /\ Free(q, K) => Free(r, K)
           /\ Free(r, K) /\ Head(q).kind \notin K => Free(q, K)
           /\ Single(q, K) /\ Head(q).kind \in K => Free(r, K)
<1>1. /\ Len(q) \in Nat \ {0} /\ DOMAIN q = 1..Len(q) /\ DOMAIN r = 1..(Len(q) - 1)
      /\ Head(q) = q[1]
  BY Rest
<1>2. \A n \in DOMAIN r : r[n] = q[n + 1]
  BY Rest
<1>3. ASSUME NEW n \in DOMAIN q, n # 1
      PROVE  n - 1 \in DOMAIN r /\ r[n - 1] = q[n]
  <2>1. n - 1 \in DOMAIN r /\ (n - 1) + 1 = n
    BY <1>1, <1>3
  <2> QED
    BY <1>2, <2>1
<1>4. ASSUME NEW n \in DOMAIN r PROVE n + 1 \in DOMAIN q \ {1} /\ r[n] = q[n + 1]
  BY <1>1, <1>2
<1>5. ASSUME Single(q, K) PROVE Single(r, K)
  <2>1. ASSUME NEW i \in DOMAIN r, NEW j \in DOMAIN r, r[i].kind \in K, r[j].kind \in K
        PROVE  i = j
    <3>1. i + 1 = j + 1
      BY <1>4, <1>5, <2>1 DEF Single
    <3> QED
      BY <1>1, <3>1
  <2> QED
    BY <2>1 DEF Single
<1>6. ASSUME Single(q, K), Head(q).kind \in K PROVE Free(r, K)
  <2>1. ASSUME NEW i \in DOMAIN r, r[i].kind \in K PROVE FALSE
    BY <1>1, <1>4, <1>6, <2>1 DEF Single
  <2> QED
    BY <2>1 DEF Free
<1>7. Free(q, K) => Free(r, K)
  BY <1>4 DEF Free
<1>8. Free(r, K) /\ Head(q).kind \notin K => Free(q, K)
  BY <1>1, <1>3 DEF Free
<1> QED
  BY <1>5, <1>6, <1>7, <1>8

LEMMA FewAdded ==
    ASSUME NEW q, IsSeq(q), NEW e, NEW r, r = Append(q, e), NEW K
    PROVE  /\ \A i \in DOMAIN r : (i \in DOMAIN q /\ r[i] = q[i]) \/ r[i] = e
           /\ e.kind \notin K => (Single(q, K) => Single(r, K)) /\ (Free(q, K) => Free(r, K))
           /\ Free(q, K) => Single(r, K)
<1>1. Len(q) \in Nat /\ DOMAIN q = 1..Len(q)
  BY Appended
<1>2. DOMAIN r = 1..(Len(q) + 1)
  BY Appended
<1>3. r[Len(q) + 1] = e
  BY Appended
<1>4. \A n \in 1..Len(q) : r[n] = q[n]
  BY Appended
<1>5. ASSUME NEW i \in DOMAIN r
      PROVE  (i \in DOMAIN q /\ r[i] = q[i]) \/ (i = Len(q) + 1 /\ r[i] = e)
  <2>1. i \in 1..Len(q) \/ i = Len(q) + 1
    BY <1>1, <1>2
  <2> QED
    BY <1>1, <1>3, <1>4, <2>1
<1> QED
  BY <1>5 DEF Single, Free

LEMMA FewJoined ==
    ASSUME NEW q, IsSeq(q), NEW a, IsSeq(a), NEW r, r = q \o a, NEW K
    PROVE  /\ Free(a, K) => (Single(q, K) => Single(r, K)) /\ (Free(q, K) => Free(r, K))
           /\ Free(r, K) => Free(q, K)
           /\ Free(q, K) /\ DOMAIN a = {1} => Single(r, K)
<1>1. /\ Len(q) \in Nat /\ Len(a) \in Nat
      /\ DOMAIN q = 1..Len(q) /\ DOMAIN a = 1..Len(a) /\ DOMAIN r = 1..(Len(q) + Len(a))
  BY Joined
<1>2. \A n \in 1..Len(q) : r[n] = q[n]
  BY Joined
<1>3. ASSUME NEW i \in DOMAIN r
      PROVE  (i \in DOMAIN q /\ r[i] = q[i]) \/ (i - Len(q) \in DOMAIN a /\ r[i] = a[i - Len(q)])
  BY JoinedParts
<1>4. Free(a, K) => (Single(q, K) => Single(r, K)) /\ (Free(q, K) => Free(r, K))
  BY <1>3 DEF Single, Free
<1>5. Free(r, K) => Free(q, K)
  BY <1>1, <1>2 DEF Free
<1>6. ASSUME Free(q, K), DOMAIN a = {1} PROVE Single(r, K)
  <2>1. ASSUME NEW i \in DOMAIN r, r[i].kind \in K PROVE i = Len(q) + 1
    <3>1. i - Len(q) = 1
      BY <1>3, <1>6, <2>1 DEF Free
    <3> QED
      BY <1>1, <3>1
  <2> QED
    BY <2>1 DEF Single
<1> QED
  BY <1>4, <1>5, <1>6

\* One request of an administrator's, or its answer, is under way at a time.
\* A list of users shown to be banned, unbanned or deleted holds those to whom
\* that applies; while a change of one of them is under way the page remembers
\* which, and a new list is awaited only when none is shown.
Asked(m, s) ==
    /\ s.mode \in Listing /\ s.adm.pending \in Marks =>
          m.op = s.adm.pending /\ s.adm.mutation = [action |-> s.adm.pending, id |-> m.id]
    /\ m.op = "users_list" => s.adm.pending = m.arg /\ s.mode \notin Lists
Left(m, s) == IF m.ok THEN s.adm.users \ {s.adm.mutation.id} ELSE s.adm.users
Comes(m, s, known) ==
    /\ s.mode \in Listing /\ s.adm.pending \in Marks =>
          /\ m.kind = "adminResult" /\ m.op = s.adm.pending
          /\ s.adm.mutation.action = s.adm.pending
          /\ Matches(Left(m, s), s.adm.pending, known)
    /\ m.kind = "usersList" => Matches(m.arg, s.adm.pending, known) /\ s.mode \notin Lists
ToAdmin == {"admin"}
Orderly ==
    /\ Single(page.out, ToAdmin) /\ Single(srv.inbox, FromAdminKinds)
    /\ Free(page.out, ToAdmin) \/ Free(srv.inbox, FromAdminKinds)
NotMarking(s) == s.mode = "adminUserRoleSelect" => s.adm.pending \notin Marks
ShowsEligible(s, known) ==
    s.mode \in Listing /\ s.adm.pending \in Marks => Matches(s.adm.users, s.adm.pending, known)
Followed ==
    /\ Orderly /\ NotMarking(page)
    /\ Free(srv.inbox, FromAdminKinds) => ShowsEligible(page, srv)
    /\ \A i \in DOMAIN page.out : page.out[i].kind = "admin" => Asked(page.out[i], page)
    /\ \A i \in DOMAIN srv.inbox :
          srv.inbox[i].kind \in FromAdminKinds => Comes(srv.inbox[i], page, srv)
ListInv == page.running /\ ~page.hasty => Followed

LEMMA Known ==
    ASSUME KnowsOn
    PROVE  \A s : /\ ShowsEligible(s, srv) => ShowsEligible(s, srv')
                  /\ \A m : Comes(m, s, srv) => Comes(m, s, srv')
<1>1. \A s : ShowsEligible(s, srv) => ShowsEligible(s, srv')
  BY DEF KnowsOn, ShowsEligible
<1>2. \A s, m : Comes(m, s, srv) => Comes(m, s, srv')
  <2> SUFFICES ASSUME NEW s, NEW m, Comes(m, s, srv) PROVE Comes(m, s, srv')
    OBVIOUS
  <2>1. s.mode \in Listing /\ s.adm.pending \in Marks =>
          /\ m.kind = "adminResult" /\ m.op = s.adm.pending
          /\ s.adm.mutation.action = s.adm.pending
          /\ Matches(Left(m, s), s.adm.pending, srv')
    BY DEF KnowsOn, Comes
  <2>2. m.kind = "usersList" => Matches(m.arg, s.adm.pending, srv') /\ s.mode \notin Lists
    BY DEF KnowsOn, Comes
  <2> QED
    BY <2>1, <2>2 DEF Comes
<1> QED
  BY <1>1, <1>2

\* What no menu of the administration has a part in leaves all of this.
LEMMA ApartFits ==
    ASSUME NEW s, NEW t, Apart(s, t), NotMarking(s)
    PROVE  /\ NotMarking(t)
           /\ \A m : Asked(m, s) => Asked(m, t)
           /\ \A known : ShowsEligible(s, known) => ShowsEligible(t, known)
           /\ \A known, m : Comes(m, s, known) => Comes(m, t, known)
<1>1. /\ t.mode = "adminUserRoleSelect" => s.mode = t.mode /\ t.adm.pending = s.adm.pending
      /\ t.mode \in Listing =>
            /\ s.mode \in Lists /\ t.adm.pending = s.adm.pending
            /\ t.adm.pending \in Marks => t.adm.users = s.adm.users
      /\ t.mode \in Listing => t.adm.mutation = s.adm.mutation
      /\ s.mode \notin Lists => t.adm.pending = s.adm.pending
  BY DEF Apart, AdminKept
<1>2. NotMarking(t)
  BY <1>1 DEF NotMarking
<1>3. t.mode \in Listing /\ t.adm.pending \in Marks =>
         /\ s.mode \in Listing /\ s.adm.pending = t.adm.pending
         /\ s.adm.mutation = t.adm.mutation /\ s.adm.users = t.adm.users
  BY <1>1 DEF NotMarking, Lists
<1>4. s.mode \notin Lists => t.mode \notin Lists /\ t.adm.pending = s.adm.pending
  BY <1>1 DEF Lists
<1>5. \A m : Asked(m, s) => Asked(m, t)
  BY <1>3, <1>4 DEF Asked
<1>6. \A known : ShowsEligible(s, known) => ShowsEligible(t, known)
  BY <1>3 DEF ShowsEligible
<1>7. ASSUME NEW known, NEW m, Comes(m, s, known) PROVE Comes(m, t, known)
  <2>1. ASSUME t.mode \in Listing, t.adm.pending \in Marks
        PROVE  /\ m.kind = "adminResult" /\ m.op = t.adm.pending
               /\ t.adm.mutation.action = t.adm.pending
               /\ Matches(Left(m, t), t.adm.pending, known)
    BY <1>3, <1>7, <2>1 DEF Comes, Left
  <2>2. m.kind = "usersList" => Matches(m.arg, t.adm.pending, known) /\ t.mode \notin Lists
    BY <1>4, <1>7 DEF Comes
  <2> QED
    BY <2>1, <2>2 DEF Comes
<1> QED
  BY <1>2, <1>5, <1>6, <1>7

LEMMA ApartNow ==
    ASSUME Apart(page, page'), NotMarking(page)
    PROVE  /\ NotMarking(page')
           /\ \A m : Asked(m, page) => Asked(m, page')
           /\ ShowsEligible(page, srv') => ShowsEligible(page', srv')
           /\ \A m : Comes(m, page, srv') => Comes(m, page', srv')
<1> DEFINE known == srv'
<1> HIDE DEF known
<1>1. /\ NotMarking(page')
      /\ \A m : Asked(m, page) => Asked(m, page')
      /\ ShowsEligible(page, known) => ShowsEligible(page', known)
      /\ \A m : Comes(m, page, known) => Comes(m, page', known)
  BY ApartFits
<1> QED
  BY <1>1 DEF known

LEMMA ApartKnown ==
    ASSUME Apart(page, page'), NotMarking(page), KnowsOn
    PROVE  /\ NotMarking(page')
           /\ \A m : Asked(m, page) => Asked(m, page')
           /\ ShowsEligible(page, srv) => ShowsEligible(page', srv')
           /\ \A m : Comes(m, page, srv) => Comes(m, page', srv')
BY ApartNow, Known

LEMMA MovedApart ==
    ASSUME NEW t, Became(t), t.running,
           Quiet(page, t) \/ \E m : Asks(page, t, m) /\ m.kind # "admin"
    PROVE  Apart(page, page')
<1>1. Apart(page, t)
  BY DEF Apart, Quiet, Asks, AdminAsk
<1> QED
  BY <1>1 DEF Apart, AdminKept, Became, Lists

LEMMA MovedList ==
    ASSUME BaseInv, ListInv, Moved
    PROVE  ListInv'
<1>1. PICK t : Does(page, t) /\ Became(t)
  BY DEF Moved
<1>2. /\ page'.running = t.running /\ page'.out = t.out /\ page.running
      /\ srv' = IF t.running THEN srv ELSE [srv EXCEPT !.inbox = <<>>]
      /\ IsSeq(page.out)
  BY <1>1 DEF Became, Moved, BaseInv, LinksOK
<1> SUFFICES ASSUME t.running, ~page'.hasty PROVE Followed'
  BY <1>2 DEF ListInv
<1>3. ~page.hasty /\ ~Hurried(t) /\ srv' = srv
  BY <1>1, <1>2 DEF Became
<1>4. Followed
  BY <1>2, <1>3 DEF ListInv
<1>9. KnowsOn
  BY <1>3, SamePeopleKnown DEF SamePeople
<1>5. CASE Quiet(page, t)
  <2>1. Apart(page, page')
    BY <1>1, <1>5, MovedApart
  <2>2. page'.out = page.out
    BY <1>2, <1>5 DEF Quiet
  <2>3. NotMarking(page)
    BY <1>4 DEF Followed
  <2>4. /\ NotMarking(page') /\ (\A m : Asked(m, page) => Asked(m, page'))
        /\ ShowsEligible(page, srv) => ShowsEligible(page', srv')
        /\ \A m : Comes(m, page, srv) => Comes(m, page', srv')
    BY <1>9, <2>1, <2>3, ApartKnown
  <2> QED
    BY <1>3, <1>4, <2>2, <2>4 DEF Followed, Orderly
<1>6. ASSUME NEW m, Asks(page, t, m), m.kind # "admin" PROVE Followed'
  <2>1. Apart(page, page')
    BY <1>1, <1>6, MovedApart
  <2>2. NotMarking(page)
    BY <1>4 DEF Followed
  <2>3. /\ NotMarking(page') /\ (\A x : Asked(x, page) => Asked(x, page'))
        /\ ShowsEligible(page, srv) => ShowsEligible(page', srv')
        /\ \A x : Comes(x, page, srv) => Comes(x, page', srv')
    BY <1>9, <2>1, <2>2, ApartKnown
  <2> DEFINE q == page.out
             r == page'.out
  <2>4. IsSeq(q) /\ r = Append(q, m) /\ m.kind \notin ToAdmin
    BY <1>2, <1>6 DEF Asks, ToAdmin
  <2> HIDE DEF q, r
  <2>5. /\ \A i \in DOMAIN r : (i \in DOMAIN q /\ r[i] = q[i]) \/ r[i] = m
        /\ (Single(q, ToAdmin) => Single(r, ToAdmin)) /\ (Free(q, ToAdmin) => Free(r, ToAdmin))
    <3>1. \A i \in DOMAIN r : (i \in DOMAIN q /\ r[i] = q[i]) \/ r[i] = m
      BY <2>4, FewAdded
    <3>2. Single(q, ToAdmin) => Single(r, ToAdmin)
      BY <2>4, FewAdded
    <3>3. Free(q, ToAdmin) => Free(r, ToAdmin)
      BY <2>4, FewAdded
    <3> QED
      BY <3>1, <3>2, <3>3
  <2>6. Orderly'
    BY <1>3, <1>4, <2>5 DEF Followed, Orderly, q, r
  <2>7. \A i \in DOMAIN r : r[i].kind = "admin" => Asked(r[i], page')
    BY <1>4, <1>6, <2>3, <2>5 DEF Followed, q
  <2> QED
    BY <1>3, <1>4, <2>3, <2>6, <2>7 DEF Followed, r
<1>7. ASSUME NEW m, Asks(page, t, m), m.kind = "admin" PROVE Followed'
  <2> DEFINE q == page.out
             r == page'.out
  <2>1. IsSeq(q) /\ r = Append(q, m)
    BY <1>2, <1>7 DEF Asks
  <2>2. r = t.out /\ AdminKept(page, t) /\ AdminAsk(page, t, m)
    BY <1>2, <1>7 DEF Asks
  <2>3. /\ Len(q) \in Nat /\ Len(r) = Len(q) + 1 /\ r[Len(q) + 1] = m
    <3> HIDE DEF q, r
    <3> QED
      BY <2>1, Appended
  <2>4. ~UnderWay
    <3>1. Len(r) > Len(q) /\ r[Len(r)] = m
      BY <2>3
    <3> QED
      BY <1>3, <1>7, <2>2, <3>1 DEF Hurried
  <2>5. q = <<>> /\ Free(srv.inbox, FromAdminKinds)
    BY <2>4 DEF UnderWay, Free, FromAdminKinds
  <2>6. Free(q, ToAdmin)
    BY <2>5, Short DEF Free
  <2> HIDE DEF q, r
  <2>7. /\ \A i \in DOMAIN r : (i \in DOMAIN q /\ r[i] = q[i]) \/ r[i] = m
        /\ Single(r, ToAdmin)
    <3>1. \A i \in DOMAIN r : (i \in DOMAIN q /\ r[i] = q[i]) \/ r[i] = m
      BY <2>1, FewAdded
    <3>2. Single(r, ToAdmin)
      BY <2>1, <2>6, FewAdded
    <3> QED
      BY <3>1, <3>2
  <2>8. \A i \in DOMAIN r : r[i] = m
    BY <2>5, <2>7, Short
  <2>9. Orderly'
    BY <1>3, <1>4, <2>5, <2>7 DEF Followed, Orderly, r
  <2>10. page'.mode = t.mode /\ page'.adm.pending = t.adm.pending
         /\ page'.adm.mutation = t.adm.mutation
         /\ (t.mode \in Lists => page'.adm.users = t.adm.users)
    BY <1>1 DEF Became
  <2>11. Asked(m, page')
    BY <1>7, <2>2, <2>10 DEF Asked, AdminAsk
  <2>12. NotMarking(page') /\ ShowsEligible(page', srv)
    <3>1. NotMarking(page) /\ ShowsEligible(page, srv)
      BY <1>4, <2>5 DEF Followed
    <3>2. NotMarking(page')
      BY <2>2, <2>10, <3>1 DEF NotMarking, AdminKept
    <3>3. ASSUME page'.mode \in Listing, page'.adm.pending \in Marks
          PROVE  Matches(page'.adm.users, page'.adm.pending, srv)
      <4>1. /\ page.mode \in Lists /\ t.adm.pending = page.adm.pending
            /\ t.adm.users = page.adm.users /\ page'.adm.users = t.adm.users
        BY <2>2, <2>10, <3>3 DEF AdminKept, Lists
      <4>2. page.mode \in Listing
        BY <2>10, <3>1, <3>3, <4>1 DEF Lists, NotMarking
      <4> QED
        BY <2>10, <3>1, <3>3, <4>1, <4>2 DEF ShowsEligible
    <3> QED
      BY <3>2, <3>3 DEF ShowsEligible
  <2>13. \A i \in DOMAIN srv.inbox : srv.inbox[i].kind \notin FromAdminKinds
    BY <2>5 DEF Free
  <2> QED
    BY <1>3, <2>8, <2>9, <2>11, <2>12, <2>13 DEF Followed, r
<1>8. CASE Leaves(t)
  BY <1>8 DEF Leaves
<1> QED
  BY <1>1, <1>5, <1>6, <1>7, <1>8 DEF Does

FromParts(q, p, r, i) ==
    \/ i \in DOMAIN q /\ r[i] = q[i]
    \/ i - Len(q) \in DOMAIN p /\ r[i] = p[i - Len(q)]
LEMMA JoinedEach ==
    ASSUME NEW q, IsSeq(q), NEW p, IsSeq(p), NEW r, r = q \o p
    PROVE  \A i \in DOMAIN r : FromParts(q, p, r, i)
<1>1. ASSUME NEW i \in DOMAIN r PROVE FromParts(q, p, r, i)
  BY JoinedParts DEF FromParts
<1> QED
  BY <1>1

\* An answer to an administrator leaves what the page then shows true.
LEMMA ListedFits ==
    ASSUME NEW s, NEW t, NEW m, Listed(s, t, m), NotMarking(s),
           NEW known, Comes(m, s, known)
    PROVE  /\ NotMarking(t) /\ ShowsEligible(t, known)
           /\ t.mode \in Listing /\ t.adm.pending \in Marks /\ m.kind = "adminResult" => m.op \in Marks
<1>1. NotMarking(t)
  BY DEF Listed, Apart, AdminKept, NotMarking
<1>2. ASSUME t.mode \in Listing, t.adm.pending \in Marks
      PROVE  /\ Matches(t.adm.users, t.adm.pending, known)
             /\ m.kind = "adminResult" => m.op \in Marks
  <2>1. /\ t.adm.pending = s.adm.pending
        /\ (m.kind = "usersList" /\ t.adm.users = m.arg)
           \/ /\ m.kind = "adminResult" /\ s.mode \in Listing
              /\ m.op = s.adm.pending /\ s.adm.mutation.action # None
                     /\ s.adm.mutation.action = s.adm.pending =>
                    t.adm.users = IF m.ok THEN s.adm.users \ {s.adm.mutation.id} ELSE s.adm.users
    BY <1>2 DEF Listed
  <2>2. CASE m.kind = "usersList" /\ t.adm.users = m.arg
    BY <2>1, <2>2 DEF Comes
  <2>3. CASE m.kind = "adminResult" /\ s.mode \in Listing
    <3>1. /\ m.op = s.adm.pending /\ s.adm.mutation.action = s.adm.pending
          /\ Matches(Left(m, s), s.adm.pending, known)
      BY <1>2, <2>1, <2>3 DEF Comes
    <3>2. s.adm.pending # None
      BY <1>2, <2>1, NoneAssumption DEF Marks, UserActions
    <3>3. t.adm.users = Left(m, s)
      BY <2>1, <2>3, <3>1, <3>2 DEF Left
    <3> QED
      BY <1>2, <2>1, <3>1, <3>3
  <2> QED
    BY <2>1, <2>2, <2>3
<1> QED
  BY <1>1, <1>2 DEF ShowsEligible

\* Asking for the roles again says nothing of users.
LEMMA AgainFits ==
    ASSUME NEW t, NEW r, r.kind = "admin", r.op = "roles_list",
           ~(t.mode \in Listing /\ t.adm.pending \in Marks)
    PROVE  Asked(r, t)
BY DEF Asked

LEMMA HeardList ==
    ASSUME BaseInv, ListInv, NEW m, NEW t, Heard(m, t)
    PROVE  ListInv'
<1>1. /\ page.running /\ srv.inbox # <<>> /\ m = Head(srv.inbox)
      /\ srv' = [srv EXCEPT !.inbox = Tail(srv.inbox)]
      /\ page'.out = t.out /\ page'.hasty = t.hasty /\ Received(page, t, m)
      /\ page'.mode = t.mode /\ page'.adm.pending = t.adm.pending
      /\ page'.adm.mutation = t.adm.mutation
      /\ (t.mode \in Lists => page'.adm.users = t.adm.users)
      /\ ServerOK /\ IsSeq(page.out) /\ IsSeq(srv.inbox)
  BY DEF Heard, Settled, BaseInv, LinksOK
<1>2. page'.hasty = page.hasty
  BY <1>1 DEF Received, Took
<1> DEFINE q == srv.inbox
           rest == Tail(q)
<1>3. srv'.inbox = rest /\ KnowsOn
  <2>1. srv' = [srv EXCEPT !.inbox = rest] /\ ServerOK
    BY <1>1
  <2> HIDE DEF rest
  <2> QED
    BY <2>1, Dropped, SamePeopleKnown DEF SameRights
<1>4. IsSeq(q) /\ q # <<>> /\ rest = Tail(q) /\ m = Head(q)
  BY <1>1
<1> HIDE DEF q, rest
<1> SUFFICES ASSUME ~page.hasty PROVE Followed'
  BY <1>2 DEF ListInv
<1>5. Followed
  BY <1>1 DEF ListInv
<1> DEFINE K == FromAdminKinds
<1>6. /\ Single(q, K) => Single(rest, K)
      /\ Free(q, K) => Free(rest, K)
      /\ Free(rest, K) /\ m.kind \notin K => Free(q, K)
      /\ Single(q, K) /\ m.kind \in K => Free(rest, K)
  <2> HIDE DEF K
  <2>1. Single(q, K) => Single(rest, K)
    BY <1>4, FewLeft
  <2>2. Free(q, K) => Free(rest, K)
    BY <1>4, FewLeft
  <2>3. Free(rest, K) /\ m.kind \notin K => Free(q, K)
    BY <1>4, FewLeft
  <2>4. Single(q, K) /\ m.kind \in K => Free(rest, K)
    BY <1>4, FewLeft
  <2> QED
    BY <2>1, <2>2, <2>3, <2>4
<1>7. \A i \in DOMAIN rest : i + 1 \in DOMAIN q /\ rest[i] = q[i + 1]
  BY <1>4, Rest
<1>8. CASE Apart(page, t) /\ t.out = page.out /\ m.kind \notin K
  <2>1. Apart(page, page')
    BY <1>1, <1>8 DEF Apart, AdminKept, Lists
  <2>2. NotMarking(page)
    BY <1>5 DEF Followed
  <2>3. /\ NotMarking(page') /\ (\A x : Asked(x, page) => Asked(x, page'))
        /\ ShowsEligible(page, srv) => ShowsEligible(page', srv')
        /\ \A x : Comes(x, page, srv) => Comes(x, page', srv')
    BY <1>3, <2>1, <2>2, ApartKnown
  <2>4. Orderly'
    BY <1>1, <1>3, <1>5, <1>6, <1>8 DEF Followed, Orderly, q
  <2>5. Free(srv'.inbox, K) => ShowsEligible(page', srv')
    BY <1>3, <1>5, <1>6, <1>8, <2>3 DEF Followed, q
  <2>6. \A i \in DOMAIN page'.out : page'.out[i].kind = "admin" => Asked(page'.out[i], page')
    BY <1>1, <1>5, <1>8, <2>3 DEF Followed
  <2>7. \A i \in DOMAIN rest : rest[i].kind \in K => Comes(rest[i], page', srv')
    BY <1>5, <1>7, <2>3 DEF Followed, q
  <2> QED
    BY <1>3, <2>3, <2>4, <2>5, <2>6, <2>7 DEF Followed
<1>9. CASE /\ m.kind \in K /\ Listed(page, t, m)
           /\ t.out = page.out \/ \E r : /\ t.out = Append(page.out, r) /\ r.kind = "admin"
                                         /\ r.op = "roles_list"
                                         /\ m.kind = "adminResult" /\ m.op \notin Marks
  <2>1. 1 \in DOMAIN q /\ m = q[1]
    BY <1>4, Rest
  <2>2. NotMarking(page) /\ Comes(m, page, srv)
    BY <1>5, <1>9, <2>1 DEF Followed, q
  <2>3. /\ NotMarking(t) /\ ShowsEligible(t, srv)
        /\ t.mode \in Listing /\ t.adm.pending \in Marks /\ m.kind = "adminResult" => m.op \in Marks
    BY <1>9, <2>2, ListedFits
  <2>4. NotMarking(page') /\ ShowsEligible(page', srv')
    <3>1. NotMarking(page') /\ ShowsEligible(page', srv)
      BY <1>1, <2>3 DEF NotMarking, ShowsEligible, Lists
    <3> QED
      BY <1>3, <3>1, Known
  <2>5. Free(rest, K)
    BY <1>5, <1>6, <1>9 DEF Followed, Orderly, q
  <2>6. Free(page.out, ToAdmin)
    BY <1>5, <1>9, <2>1 DEF Followed, Orderly, Free, q
  <2>7. CASE t.out = page.out
    <3>1. Single(page'.out, ToAdmin) /\ \A i \in DOMAIN page'.out : page'.out[i].kind # "admin"
      BY <1>1, <2>6, <2>7 DEF Single, Free, ToAdmin
    <3>2. Single(rest, K) /\ \A i \in DOMAIN rest : rest[i].kind \notin K
      BY <2>5 DEF Single, Free
    <3> QED
      BY <1>3, <2>4, <2>5, <3>1, <3>2 DEF Followed, Orderly
  <2>8. ASSUME NEW x, t.out = Append(page.out, x), x.kind = "admin", x.op = "roles_list",
               m.kind = "adminResult", m.op \notin Marks
        PROVE  Followed'
    <3> DEFINE p == page.out
               r == page'.out
    <3>1. IsSeq(p) /\ r = Append(p, x) /\ Free(p, ToAdmin)
      BY <1>1, <2>6, <2>8
    <3> HIDE DEF p, r
    <3>2. \A i \in DOMAIN r : (i \in DOMAIN p /\ r[i] = p[i]) \/ r[i] = x
      BY <3>1, FewAdded
    <3>3. Single(r, ToAdmin)
      BY <3>1, FewAdded
    <3>4. ~(page'.mode \in Listing /\ page'.adm.pending \in Marks)
      BY <1>1, <2>3, <2>8
    <3>5. Asked(x, page')
      BY <2>8, <3>4, AgainFits
    <3>6. \A i \in DOMAIN r : r[i].kind = "admin" => Asked(r[i], page')
      BY <3>1, <3>2, <3>5 DEF Free, ToAdmin
    <3>7. Single(rest, K) /\ \A i \in DOMAIN rest : rest[i].kind \notin K
      BY <2>5 DEF Single, Free
    <3> QED
      BY <1>3, <2>4, <2>5, <3>3, <3>6, <3>7 DEF Followed, Orderly, r
  <2> QED
    BY <1>9, <2>7, <2>8
<1> QED
  BY <1>1, <1>8, <1>9 DEF Received, FromAdminKinds

\* The server answers the one request of the administrator's.
LEMMA AdminToldFits ==
    ASSUME NEW m, m.kind = "admin", NEW a, NEW x, AdminTold(m, a, x), Asked(m, page),
           ShowsEligible(page, srv)
    PROVE  Comes(x, page, srv')
<1>1. /\ x.kind \in FromAdminKinds
      /\ x.kind = "usersList" => m.op = "users_list" /\ x.arg = Eligible(srv.accounts, m.arg)
      /\ x.kind = "adminResult" => x.op = m.op
      /\ x.kind = "rolesList" => m.op = "roles_list"
      /\ x.kind # "usersList" => srv'.touched = srv.touched
      /\ srv'.accounts = srv.accounts
         \/ /\ x.kind = "adminResult" /\ m.op \in Marks /\ x.ok
            /\ Eligible(srv'.accounts, m.op) = Eligible(srv.accounts, m.op) \ {m.id}
      /\ m.op \in Marks /\ x.ok =>
            Eligible(srv'.accounts, m.op) = Eligible(srv.accounts, m.op) \ {m.id}
  BY DEF AdminTold
<1>2. ASSUME page.mode \in Listing, page.adm.pending \in Marks
      PROVE  /\ x.kind = "adminResult" /\ x.op = page.adm.pending
             /\ page.adm.mutation.action = page.adm.pending
             /\ Matches(Left(x, page), page.adm.pending, srv')
  <2>1. m.op = page.adm.pending /\ page.adm.mutation = [action |-> page.adm.pending, id |-> m.id]
    BY <1>2 DEF Asked
  <2>2. page.adm.mutation.action = page.adm.pending /\ page.adm.mutation.id = m.id
    BY <2>1
  <2>3. x.kind = "adminResult" /\ x.op = m.op /\ srv'.touched = srv.touched
    BY <1>1, <1>2, <2>1 DEF FromAdminKinds, Marks
  <2>4. Matches(page.adm.users, page.adm.pending, srv)
    BY <1>2 DEF ShowsEligible
  <2>5. CASE x.ok
    <3>1. Left(x, page) = page.adm.users \ {m.id}
      BY <2>2, <2>5 DEF Left
    <3>2. Eligible(srv'.accounts, m.op) = Eligible(srv.accounts, m.op) \ {m.id}
      BY <1>1, <1>2, <2>1, <2>5
    <3>3. Matches(Left(x, page), m.op, srv')
      BY <2>1, <2>3, <2>4, <3>1, <3>2 DEF Matches
    <3> QED
      BY <2>1, <2>2, <2>3, <3>3
  <2>6. CASE ~x.ok
    <3>1. Left(x, page) = page.adm.users /\ srv'.accounts = srv.accounts
      BY <1>1, <2>6 DEF Left
    <3>2. Matches(Left(x, page), m.op, srv')
      BY <2>1, <2>3, <2>4, <3>1 DEF Matches
    <3> QED
      BY <2>1, <2>2, <2>3, <3>2
  <2> QED
    BY <2>5, <2>6
<1>3. ASSUME x.kind = "usersList"
      PROVE  Matches(x.arg, page.adm.pending, srv') /\ page.mode \notin Lists
  <2>1. x.arg = Eligible(srv'.accounts, page.adm.pending) /\ page.mode \notin Lists
    BY <1>1, <1>3 DEF Asked
  <2> QED
    BY <2>1 DEF Matches
<1> QED
  BY <1>2, <1>3 DEF Comes

LEMMA HandledList ==
    ASSUME BaseInv, ListInv, NEW m, Handled(m)
    PROVE  ListInv'
<1>1. /\ page.out # <<>> /\ m = Head(page.out) /\ page.running /\ page'.out = Tail(page.out)
      /\ page'.hasty = page.hasty /\ SameMenus(page, page') /\ Answers(m)
      /\ IsSeq(page.out) /\ IsSeq(srv.inbox)
  BY DEF Handled, BaseInv, LinksOK
<1> SUFFICES ASSUME ~page.hasty PROVE Followed'
  BY <1>1 DEF ListInv
<1>2. Followed
  BY <1>1 DEF ListInv
<1>3. NotMarking(page) /\ Apart(page, page')
  BY <1>1, <1>2 DEF Followed, SameMenus, Apart, AdminKept, Lists
<1>4. /\ NotMarking(page') /\ (\A x : Asked(x, page) => Asked(x, page'))
      /\ ShowsEligible(page, srv') => ShowsEligible(page', srv')
      /\ \A x : Comes(x, page, srv') => Comes(x, page', srv')
  BY <1>3, ApartNow
<1> DEFINE q == page.out
           r == page'.out
           p == srv.inbox
           u == srv'.inbox
           K == FromAdminKinds
<1>5. IsSeq(q) /\ q # <<>> /\ r = Tail(q) /\ m = Head(q) /\ IsSeq(p)
  BY <1>1
<1> HIDE DEF q, r, p, u, K
<1>6. 1 \in DOMAIN q /\ m = q[1]
  BY <1>5, Rest
<1>7. Single(q, ToAdmin) => Single(r, ToAdmin)
  BY <1>5, FewLeft
<1>8. Free(q, ToAdmin) => Free(r, ToAdmin)
  BY <1>5, FewLeft
<1>9. Single(q, ToAdmin) /\ m.kind \in ToAdmin => Free(r, ToAdmin)
  BY <1>5, FewLeft
<1>10. \A i \in DOMAIN r : i + 1 \in DOMAIN q /\ r[i] = q[i + 1]
  BY <1>5, Rest
<1>11. \A i \in DOMAIN r : r[i].kind = "admin" => Asked(r[i], page')
  BY <1>2, <1>4, <1>10 DEF Followed, q
<1>12. ASSUME NEW a, Spoke(a), SamePeople,
              \A n \in DOMAIN a : a[n].kind \notin FromAdminKinds
       PROVE  Followed'
  <2>1. IsSeq(a) /\ u = p \o a /\ Free(a, K)
    BY <1>12 DEF Spoke, Free, u, p, K
  <2>2. Single(p, K) => Single(u, K)
    BY <1>5, <2>1, FewJoined
  <2>3. Free(p, K) <=> Free(u, K)
    <3>1. Free(p, K) => Free(u, K)
      BY <1>5, <2>1, FewJoined
    <3>2. Free(u, K) => Free(p, K)
      BY <1>5, <2>1, FewJoined
    <3> QED
      BY <3>1, <3>2
  <2>4. Orderly'
    BY <1>2, <1>7, <1>8, <2>2, <2>3 DEF Followed, Orderly, q, r, p, u, K
  <2>9. KnowsOn
    BY <1>12, SamePeopleKnown
  <2>5. ASSUME NEW i \in DOMAIN u, u[i].kind \in K PROVE Comes(u[i], page', srv')
    <3>1. FromParts(p, a, u, i)
      BY <1>5, <2>1, JoinedEach
    <3>2. i \in DOMAIN p /\ u[i] = p[i]
      BY <2>1, <2>5, <3>1 DEF Free, FromParts
    <3> QED
      BY <1>2, <1>4, <2>5, <2>9, <3>2, Known DEF Followed, p, K
  <2>6. Free(u, K) => ShowsEligible(page', srv')
    BY <1>2, <1>4, <2>3, <2>9, Known DEF Followed, p, K
  <2> QED
    BY <1>4, <1>11, <2>4, <2>5, <2>6 DEF Followed, r, u, K
<1>13. ASSUME m.kind = "admin", NEW a, NEW x, AdminTold(m, a, x)
       PROVE  Followed'
  <2>1. Free(r, ToAdmin)
    BY <1>2, <1>9, <1>13 DEF Followed, Orderly, ToAdmin, q
  <2>2. Free(p, K) /\ Asked(m, page)
    BY <1>2, <1>6, <1>13 DEF Followed, Orderly, Free, ToAdmin, q, p, K
  <2>3. ShowsEligible(page, srv)
    BY <1>2, <2>2 DEF Followed, p, K
  <2>4. IsSeq(a) /\ DOMAIN a = {1} /\ a[1] = x /\ u = p \o a /\ x.kind \in K
    BY <1>13, One DEF AdminTold, Spoke, u, p, K
  <2>5. Comes(x, page, srv')
    BY <1>13, <2>2, <2>3, AdminToldFits
  <2>6. Single(u, K)
    BY <1>5, <2>2, <2>4, FewJoined
  <2>7. ASSUME NEW i \in DOMAIN u, u[i].kind \in K PROVE Comes(u[i], page', srv')
    <3>1. FromParts(p, a, u, i)
      BY <1>5, <2>4, JoinedEach
    <3>2. u[i] = x
      BY <2>2, <2>4, <2>7, <3>1 DEF Free, FromParts
    <3> QED
      BY <1>4, <2>5, <3>2
  <2>8. ~Free(u, K)
    <3> DEFINE n == Len(p) + 1
    <3>1. n \in DOMAIN u /\ u[n] = x
      <4>1. /\ Len(p) \in Nat /\ Len(a) \in Nat /\ DOMAIN a = 1..Len(a) /\ DOMAIN u = 1..(Len(p) + Len(a))
        BY <1>5, <2>4, Joined
      <4>2. \A i \in 1..Len(a) : u[Len(p) + i] = a[i]
        BY <1>5, <2>4, Joined
      <4>3. 1 \in 1..Len(a)
        BY <2>4, <4>1
      <4> QED
        BY <2>4, <4>1, <4>2, <4>3
    <3> QED
      BY <2>4, <3>1 DEF Free
  <2>9. Orderly'
    <3>1. Single(r, ToAdmin)
      BY <2>1 DEF Single, Free
    <3> QED
      BY <2>1, <2>6, <3>1 DEF Orderly, r, u, K
  <2> QED
    BY <1>4, <1>11, <2>7, <2>8, <2>9 DEF Followed, r, u, K
<1> QED
  <2>1. CASE m.kind \in Kinds /\ \E a : WorldTold(m, a)
    BY <1>12, <2>1 DEF WorldTold, SameRights
  <2>2. CASE m.kind = "admin" /\ \E a, x : AdminTold(m, a, x)
    BY <1>13, <2>2
  <2>3. CASE m.kind = "item" /\ \E a : OthersTold(a) /\ SameRights
    BY <1>12, <2>3 DEF OthersTold
  <2> QED
    BY <1>1, <2>1, <2>2, <2>3 DEF Answers

LEMMA BroadcastList ==
    ASSUME BaseInv, ListInv, Broadcast
    PROVE  ListInv'
<1>1. PICK a : OthersTold(a)
  BY DEF Broadcast
<1>2. page' = page /\ IsSeq(srv.inbox) /\ KnowsOn
  BY <1>1, SamePeopleKnown DEF Broadcast, BaseInv, LinksOK, OthersTold
<1> SUFFICES ASSUME page.running, ~page.hasty PROVE Followed'
  BY <1>2 DEF ListInv
<1>3. Followed
  BY DEF ListInv
<1> DEFINE p == srv.inbox
           u == srv'.inbox
           K == FromAdminKinds
<1>4. IsSeq(p) /\ IsSeq(a) /\ u = p \o a /\ Free(a, K)
  BY <1>1, <1>2 DEF OthersTold, Spoke, Free
<1> HIDE DEF p, u, K
<1>5. Single(p, K) => Single(u, K)
  BY <1>4, FewJoined
<1>6. Free(p, K) => Free(u, K)
  BY <1>4, FewJoined
<1>7. Free(u, K) => Free(p, K)
  BY <1>4, FewJoined
<1>8. Orderly'
  BY <1>2, <1>3, <1>5, <1>6 DEF Followed, Orderly, p, u, K
<1>9. ASSUME NEW i \in DOMAIN u, u[i].kind \in K PROVE Comes(u[i], page', srv')
  <2>1. FromParts(p, a, u, i)
    BY <1>4, JoinedEach
  <2>2. i \in DOMAIN p /\ u[i] = p[i]
    BY <1>4, <1>9, <2>1 DEF Free, FromParts
  <2> QED
    BY <1>2, <1>3, <1>9, <2>2, Known DEF Followed, p, K
<1>10. Free(u, K) => ShowsEligible(page', srv')
  BY <1>2, <1>3, <1>7, Known DEF Followed, p, K
<1>11. NotMarking(page') /\ \A i \in DOMAIN page'.out :
          page'.out[i].kind = "admin" => Asked(page'.out[i], page')
  BY <1>2, <1>3 DEF Followed
<1> QED
  BY <1>8, <1>9, <1>10, <1>11 DEF Followed, u, K

LEMMA ListStep ==
    ASSUME BaseInv, ListInv, [Next]_vars
    PROVE  ListInv'
<1>1. CASE Moved
  BY <1>1, MovedList
<1>2. CASE \E m, t : Heard(m, t)
  BY <1>2, HeardList
<1>3. CASE \E m : Handled(m)
  BY <1>3, HandledList
<1>4. CASE Broadcast
  BY <1>4, BroadcastList
<1>5. CASE Elsewhere
  <2>1. /\ page'.out = page.out /\ page'.hasty = page.hasty /\ srv' = srv
        /\ page.running /\ SameMenus(page, page')
    BY <1>5 DEF Elsewhere, Aside
  <2> SUFFICES ASSUME ~page.hasty PROVE Followed'
    BY <2>1 DEF ListInv
  <2>2. Followed
    BY <2>1 DEF ListInv
  <2>3. NotMarking(page) /\ Apart(page, page')
    BY <2>1, <2>2 DEF Followed, SameMenus, Apart, AdminKept, Lists
  <2>4. /\ NotMarking(page') /\ (\A x : Asked(x, page) => Asked(x, page'))
        /\ ShowsEligible(page, srv) => ShowsEligible(page', srv')
        /\ \A x : Comes(x, page, srv) => Comes(x, page', srv')
    BY <2>1, <2>3, SamePeopleKnown, ApartKnown DEF SamePeople
  <2> QED
    BY <2>1, <2>2, <2>4 DEF Followed, Orderly
<1>6. CASE Unplugged
  BY <1>6 DEF Unplugged, Leaves, ListInv
<1>7. CASE Welcomed
  <2>1. page'.out = <<>> /\ srv'.inbox = <<>> /\ page'.mode = "normal" /\ DOMAIN <<>> = {}
    BY <1>7, Short DEF Welcomed, BaseInv, LinksOK
  <2> QED
    BY <2>1 DEF ListInv, Followed, Orderly, Single, Free, NotMarking, ShowsEligible, Listing
<1>8. CASE UNCHANGED vars
  BY <1>8 DEF vars, ListInv, Followed, Orderly
<1>9. CASE Administered
  BY <1>9, Known DEF Administered, ListInv, Followed, Orderly
<1> QED
  BY <1>1, <1>2, <1>3, <1>4, <1>5, <1>6, <1>7, <1>8, <1>9, NextSteps DEF StepKinds

LEMMA InitList ==
    ASSUME Init
    PROVE  ListInv
<1>1. page.out = <<>> /\ srv.inbox = <<>> /\ page.mode = "normal" /\ DOMAIN <<>> = {}
  BY InitBase, Short DEF Started
<1> QED
  BY <1>1 DEF ListInv, Followed, Orderly, Single, Free, NotMarking, ShowsEligible, Listing

\* Whatever answers and changes by others reached the page in the middle of a
\* menu, its fields hold what their declarations allow, the people offered are
\* those listed for this item and this action, and an administrator who awaits
\* each answer sees in a list of users those to whom the action still applies,
\* but for whom another administrator or a registration changed since the list
\* was sent: PageConsistent.
THEOREM PageConsistentHolds == Spec => []PageConsistent
<1>1. Init => BaseInv /\ ListInv
  BY InitBase, InitList
<1>2. BaseInv /\ ListInv /\ [Next]_vars => (BaseInv /\ ListInv)'
  BY BaseStep, ListStep
<1>3. BaseInv => TypeOK
  <2> SUFFICES ASSUME BaseInv PROVE TypeOK
    OBVIOUS
  <2>1. Held(page) /\ MenusHeld(page) /\ IsWorld(page.world) /\ srv.can \subseteq Permissions
    BY DEF BaseInv, PageOK, ServerOK
  <2>2. /\ DOMAIN page.world.wall \subseteq Walls /\ DOMAIN page.world.ambiance \subseteq Ambiances
        /\ \A w \in DOMAIN page.world.wall : page.world.wall[w] \in Objects
        /\ \A a \in DOMAIN page.world.ambiance : page.world.ambiance[a] \in Objects
    BY <2>1 DEF IsWorld, IsMap
  <2>3. page.itm.list \cup DOMAIN page.items \subseteq Items
    BY <2>1 DEF Held, MenusHeld, IsMap
  <2> QED
    BY <2>1, <2>2, <2>3 DEF TypeOK, Held, MenusHeld, Objects
<1>4. BaseInv => TargetsAreForTheAskedItem
  BY DEF BaseInv, PageOK, AskedAbout, TargetsAreForTheAskedItem
<1>5. BaseInv /\ ListInv => ListFollowsServer
  <2> SUFFICES ASSUME ListInv, page.running, ~page.hasty, ~UnderWay,
                      page.mode = "adminUserList", page.adm.pending \in Marks
               PROVE  Matches(page.adm.users, page.adm.pending, srv)
    BY DEF ListFollowsServer, Matches, Marks
  <2>1. Followed /\ Free(srv.inbox, FromAdminKinds)
    BY DEF ListInv, UnderWay, Free, FromAdminKinds
  <2> QED
    BY <2>1 DEF Followed, ShowsEligible, Listing
<1> QED
  BY <1>1, <1>2, <1>3, <1>4, <1>5, PTL DEF Spec, PageConsistent
=============================================================================
