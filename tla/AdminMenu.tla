----------------------------- MODULE AdminMenu -----------------------------
(***************************************************************************)
(* The Users menu: src/client/src/input/adminController.ts.  The page      *)
(* keeps the list it was sent last, one action it is carrying out          *)
(* (`pending`: what Enter on a user does) and one change it expects an     *)
(* answer to (`mutation`): the answers themselves name neither.            *)
(***************************************************************************)
EXTENDS Menus

CONSTANTS Names,  \* account names
          Roles   \* role names

UserActions == {"set_role", "ban", "unban", "delete_account"}
AdminActions == UserActions \cup {"list_users", "manage_roles"}
ASSUME NoneAssumption == None \notin UserActions

NoMutation == [action |-> None, id |-> None]
NoAdmin == [users |-> {}, roles |-> {}, grants |-> {}, pending |-> None, mutation |-> NoMutation,
            user |-> None, role |-> None, actions |-> {}]

Ask(s, op, id, arg) == Send(s, Message("admin", op, id, arg))

OpenAdminMenu(s) ==
    IF s.adminActions = {} THEN s
    ELSE [s EXCEPT !.adm.actions = s.adminActions, !.mode = "adminMenu"]
AdminMenuEnter(s, action) ==
    LET t == [s EXCEPT !.prompt = None]
    IN  CASE action = "manage_roles" -> Ask(t, "roles_list", None, None)
          [] action = "list_users" -> Ask([t EXCEPT !.adm.pending = None], "users_list", None, None)
          [] OTHER -> Ask([t EXCEPT !.adm.pending = action], "users_list", None, action)
AdminMenuEscape(s) == To(s, "normal")

HandleAdminRolesList(s, m) ==
    LET t == [s EXCEPT !.adm.roles = m.arg.roles, !.adm.grants = m.arg.grants]
    IN  IF s.adm.pending = "set_role" /\ s.adm.user # None
        THEN IF m.arg.roles = {}
             THEN [t EXCEPT !.mode = "normal", !.adm.pending = None, !.adm.user = None]
             ELSE To(t, "adminUserRoleSelect")
        ELSE To(t, "adminRoleList")

HandleAdminUsersList(s, m) ==
    LET t == [s EXCEPT !.adm.users = m.arg]
    IN  IF m.arg = {} THEN [t EXCEPT !.mode = "normal", !.adm.pending = None]
        ELSE To(t, "adminUserList")

(* A confirmed ban, unban or deletion takes the user off the list. *)
Unlist(s, mutation) ==
    LET left == s.adm.users \ {mutation.id}
        t == [s EXCEPT !.adm.users = left]
    IN  IF s.mode = "adminUserList" /\ s.adm.pending = mutation.action /\ left = {}
        THEN [t EXCEPT !.mode = "adminMenu", !.adm.pending = None]
        ELSE t
Settle(s, mutation) ==
    IF mutation.action = None THEN s
    ELSE IF mutation.action # "set_role" THEN Unlist(s, mutation)
    ELSE IF s.mode = "adminUserRoleSelect"
    THEN [s EXCEPT !.mode = "adminUserList", !.adm.pending = "set_role"]
    ELSE s
HandleAdminActionResult(s, m) ==
    LET t == [Settle(s, s.adm.mutation) EXCEPT !.adm.mutation = NoMutation]
    IN  IF m.op = "role_update_permissions" THEN s
        ELSE IF ~m.ok THEN [s EXCEPT !.adm.mutation = NoMutation]
        ELSE IF m.op \in {"role_create", "role_delete"} THEN Ask(t, "roles_list", None, None)
        ELSE t

RoleListEnter(s, role) ==
    IF role = None THEN OpenText(s, "adminRoleNameEdit", None, -1)
    ELSE [s EXCEPT !.adm.role = role, !.mode = "adminRolePermissionList"]
RoleListEscape(s) == To(s, "normal")
RolePermissionToggle(s) ==
    LET granted == s.adm.role \in s.adm.grants
        next == IF granted THEN s.adm.grants \ {s.adm.role} ELSE s.adm.grants \cup {s.adm.role}
    IN  IF s.adm.role \notin s.adm.roles THEN To(s, "adminRoleList")
        ELSE Ask([s EXCEPT !.adm.grants = next], "role_update_permissions", s.adm.role,
                 s.adm.role \in next)
BuiltIn == {"admin", "user"}
RoleDeleteEnter(s) ==
    IF s.adm.role \notin s.adm.roles THEN To(s, "adminRoleList")
    ELSE IF s.adm.role \in BuiltIn \/ s.adm.roles = {s.adm.role} THEN s
    ELSE To(s, "adminRoleDeleteReplacement")
RolePermissionListEscape(s) == To(s, "adminRoleList")
ReplacementEnter(s, role) ==
    IF s.adm.roles \ {s.adm.role} = {} THEN To(s, "adminRolePermissionList")
    ELSE To(Ask(s, "role_delete", s.adm.role, role), "adminRoleList")
ReplacementEscape(s) == To(s, "adminRolePermissionList")
RoleNameSubmit(s) ==
    IF ~Valid(s.text) THEN s
    ELSE [Ask(s, "role_create", None, None) EXCEPT !.mode = "adminRoleList", !.text = -1]
RoleNameEscape(s) == [s EXCEPT !.mode = "adminRoleList", !.text = -1]

Expect(s, action, name) == [s EXCEPT !.adm.mutation = [action |-> action, id |-> name]]
(* Fault: deleting asks about the user chosen, but keeps the one before. *)
UserListEnterKeepsUser(s, name) ==
    CASE s.adm.pending = "delete_account" ->
            [To(s, "adminUserDeleteConfirm") EXCEPT !.prompt = name,
                                                    !.adm.user = IF @ = None THEN name ELSE @]
      [] s.adm.pending \in {"ban", "unban"} -> Ask(Expect(s, s.adm.pending, name), s.adm.pending, name, None)
      [] OTHER -> s
UserListEnter(s, name) ==
    LET t == [s EXCEPT !.adm.user = name, !.prompt = name]
    IN  IF s.adm.users = {} THEN [s EXCEPT !.mode = "normal", !.adm.pending = None]
        ELSE CASE s.adm.pending = "set_role" -> Ask(t, "roles_list", None, None)
               [] s.adm.pending \in {"ban", "unban"} ->
                    Ask(Expect(t, s.adm.pending, name), s.adm.pending, name, None)
               [] s.adm.pending = "delete_account" -> To(t, "adminUserDeleteConfirm")
               [] OTHER -> t
UserListEscape(s) ==
    IF s.adm.users = {} THEN [s EXCEPT !.mode = "normal", !.adm.pending = None]
    ELSE [s EXCEPT !.mode = "adminMenu", !.adm.pending = None]
UserRoleEnter(s, role) ==
    IF s.adm.roles = {} THEN [s EXCEPT !.mode = "normal", !.adm.pending = None]
    ELSE Ask(Expect(s, "set_role", s.adm.user), "set_role", s.adm.user, role)
UserRoleEscape(s) ==
    IF s.adm.roles = {} THEN [s EXCEPT !.mode = "normal", !.adm.pending = None]
    ELSE To(s, "adminUserList")
UserDeleteAnswer(s, yes) ==
    IF s.adm.user = None \/ s.adm.pending # "delete_account" \/ ~yes THEN To(s, "adminUserList")
    ELSE Ask(Expect(To(s, "adminUserList"), "delete_account", s.adm.user),
             "delete_account", s.adm.user, None)

(***************************************************************************)
(* The server's side, as its answers show it (server.py is external here;  *)
(* Accounts models it): the accounts are "active", "disabled" or gone.     *)
(***************************************************************************)
Eligible(accounts, action) ==
    {n \in Names : CASE action = "ban" -> accounts[n] = "active"
                     [] action = "unban" -> accounts[n] = "disabled"
                     [] OTHER -> accounts[n] # "gone"}
After(accounts, op, name) ==
    CASE op = "ban" -> [accounts EXCEPT ![name] = "disabled"]
      [] op = "unban" -> [accounts EXCEPT ![name] = "active"]
      [] op = "delete_account" -> [accounts EXCEPT ![name] = "gone"]
      [] OTHER -> accounts
=============================================================================
