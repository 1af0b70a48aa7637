------------------------------ MODULE Accounts ------------------------------
(***************************************************************************)
(* Accounts, roles and permissions, and the copy of an account's           *)
(* permissions that every connection keeps.  The store (AuthService, on    *)
(* SQLite) is written by the handlers of administration packets; each then *)
(* refreshes the connections concerned in a loop over the live roster that *)
(* awaits one delivery per connection, and a ban or a deletion closes them *)
(* in a second loop, over a list.                                          *)
(*                                                                         *)
(* A User is one account id: SQLite never uses it again.  Sessions are     *)
(* left out: a resume succeeds when its token is good and the account      *)
(* active, and a token is a matter of the browser that keeps it.           *)
(***************************************************************************)
EXTENDS Integers, FiniteSets

CONSTANTS
    User,         \* account ids
    Conn,         \* connections of one run of the server
    Role,         \* role names, "admin" and "user" included
    Permission,
    BuiltIn,      \* DEFAULT_ROLE_ORDER
    Defaults,     \* DEFAULT_ROLE_PERMISSIONS
    RoleManage, ChangeRole, BanUnban, DeleteAny,   \* four permission keys
    NoUser        \* client.user_id is None

ASSUME AccountsAssumption ==
    /\ IsFiniteSet(User) /\ IsFiniteSet(Conn)
    /\ {"admin", "user"} \subseteq BuiltIn /\ BuiltIn \subseteq Role
    /\ Defaults \in [BuiltIn -> SUBSET Permission]
    /\ Defaults["admin"] = Permission
    /\ {RoleManage, ChangeRole, BanUnban, DeleteAny} \subseteq Permission
    /\ NoUser \notin User

VARIABLES
    status,   \* of each account: "new", "active", "disabled", "deleted"
    role,     \* of each account
    roles,    \* the rows of table roles
    perm,     \* role_permissions
    pc,       \* where the connection's handler is suspended
    user,     \* client.user_id
    cached,   \* client.permissions
    closed,   \* the connections closed by the server
    task,     \* the loop of an administration handler
    missed    \* history: connections a change passed by

store == <<status, role, roles, perm>>
vars  == <<store, pc, user, cached, closed, task, missed>>

NoTask == [wanted |-> {}, seen |-> {}, size |-> 0, ban |-> FALSE, list |-> {}]

Roster      == {c \in Conn : pc[c] \in {"ready", "syncing", "closing"}}
Clients(us) == {c \in Roster : user[c] \in us}

Exists(u)    == status[u] \in {"active", "disabled"}
ActiveAdmins == {u \in User : status[u] = "active" /\ role[u] = "admin"}
Holders(r)   == {u \in User : Exists(u) /\ role[u] = r}

\* get_user_permissions: an account that is gone has none.
Granted == [u \in User |-> IF Exists(u) THEN perm[role[u]] ELSE {}]

\* What the two loops have still to do: iterating the live dictionary also
\* meets the connections added to it meanwhile.
Left(a)    == {c \in Clients(task[a].wanted) \ task[a].seen : pc[a] = "syncing"}
ToClose(a) ==
    {c \in Conn :
        \/ pc[a] = "closing" /\ c \in task[a].list
        \/ pc[a] = "syncing" /\ task[a].ban /\ c \in Clients(task[a].wanted)}

-----------------------------------------------------------------------------

\* _seed_permissions_and_roles: admin has everything, a built-in role that
\* has nothing gets its defaults.
Seeded(pm) ==
    [r \in Role |->
        IF r \in BuiltIn /\ (r = "admin" \/ pm[r] = {}) THEN Defaults[r] ELSE pm[r]]

Init ==
    /\ \E u \in User :       \* bootstrap_admin
          /\ status = [v \in User |-> IF v = u THEN "active" ELSE "new"]
          /\ role = [v \in User |-> IF v = u THEN "admin" ELSE "user"]
    /\ roles = BuiltIn
    /\ perm = Seeded([r \in Role |-> {}])
    /\ pc = [c \in Conn |-> "out"]
    /\ user = [c \in Conn |-> NoUser]
    /\ cached = [c \in Conn |-> {}]
    /\ closed = {}
    /\ task = [c \in Conn |-> NoTask]
    /\ missed = {}

-----------------------------------------------------------------------------
(* A connection's own packets.                                             *)

\* register: hashes in a worker thread.  Nothing the others do meanwhile
\* matters: "user" cannot be deleted, and the name is checked by the insert.
Register(c, u) ==
    /\ pc[c] = "out" /\ status[u] = "new"
    /\ status' = [status EXCEPT ![u] = "active"]
    /\ pc' = [pc EXCEPT ![c] = "hashing"]
    /\ user' = [user EXCEPT ![c] = u]
    /\ UNCHANGED <<role, roles, perm, cached, closed, task, missed>>

\* login and resume find the account active.  login then verifies the
\* password in a worker thread; both await the delivery of auth_result.
LogIn(c, u) ==
    /\ pc[c] = "out" /\ status[u] = "active"
    /\ pc' = [pc EXCEPT ![c] = "hashing"]
    /\ user' = [user EXCEPT ![c] = u]
    /\ UNCHANGED <<store, cached, closed, task, missed>>

\* A session cannot be created for an account deleted meanwhile.
LogInFails(c) ==
    /\ pc[c] = "hashing" /\ status[user[c]] = "deleted"
    /\ pc' = [pc EXCEPT ![c] = "out"]
    /\ user' = [user EXCEPT ![c] = NoUser]
    /\ missed' = missed \ {c}
    /\ UNCHANGED <<store, cached, closed, task>>

\* Fault: the permissions read at the log-in are not read again.
WelcomeWithDefaults(c) ==
    /\ pc[c] = "hashing"
    /\ pc' = [pc EXCEPT ![c] = "welcomed"]
    /\ cached' = [cached EXCEPT ![c] = Defaults["user"]]
    /\ UNCHANGED <<store, user, closed, task, missed>>

\* _send_authenticated_welcome reads them again before it sends the welcome.
Welcome(c) ==
    /\ pc[c] = "hashing"
    /\ pc' = [pc EXCEPT ![c] = "welcomed"]
    /\ cached' = [cached EXCEPT ![c] = Granted[user[c]]]
    /\ UNCHANGED <<store, user, closed, task, missed>>

\* welcome_ready: _activate_authenticated_client.
Activate(c) ==
    /\ pc[c] = "welcomed"
    /\ pc' = [pc EXCEPT ![c] = "ready"]
    /\ UNCHANGED <<store, user, cached, closed, task, missed>>

\* auth_logout empties the permissions and closes the connection.
LogOut(c) ==
    /\ pc[c] \in {"welcomed", "ready"}
    /\ cached' = [cached EXCEPT ![c] = {}]
    /\ closed' = closed \cup {c}
    /\ UNCHANGED <<store, pc, user, task, missed>>

\* The handler ends between two packets, whoever closed the connection.
Leave(c) ==
    /\ pc[c] \in {"welcomed", "ready"}
    /\ pc' = [pc EXCEPT ![c] = "gone"]
    /\ UNCHANGED <<store, user, cached, closed, task, missed>>

-----------------------------------------------------------------------------
(* Administration packets: the permission is that of the cached copy.      *)

May(a, k) == pc[a] = "ready" /\ k \in cached[a]

\* _sync_permissions_for_user_ids up to its first await: the first matching
\* connection is refreshed in the turn of the change.  A connection that is
\* welcomed and not yet in the roster is passed by.
StartSync(a, us, ban) ==
    /\ \/ /\ Clients(us) = {}
          /\ UNCHANGED <<pc, cached, task>>
       \/ \E c \in Clients(us) :
             /\ cached' = [cached EXCEPT ![c] = Granted'[user[c]]]
             /\ pc' = [pc EXCEPT ![a] = "syncing"]
             /\ task' = [task EXCEPT ![a] =
                   [wanted |-> us, seen |-> {c}, size |-> Cardinality(Roster),
                    ban |-> ban, list |-> {}]]
    /\ missed' = missed \cup
          {c \in Conn : user[c] \in us /\ (pc[c] = "welcomed" \/ (ban /\ pc[c] = "hashing"))}
    /\ UNCHANGED <<user, closed>>

\* The loop over list(self.clients.values()) that closes connections.
StartClosing(a, cs) ==
    /\ pc' = [pc EXCEPT ![a] = IF cs = {} THEN "ready" ELSE "closing"]
    /\ task' = [task EXCEPT ![a] = [NoTask EXCEPT !.list = cs]]

CreateRole(a, r) ==
    /\ May(a, RoleManage)
    /\ r \notin roles
    /\ roles' = roles \cup {r}
    /\ UNCHANGED <<status, role, perm, pc, user, cached, closed, task, missed>>

UpdateRolePermissions(a, r, ps) ==
    /\ May(a, RoleManage)
    /\ r \in roles \ {"admin"}
    /\ perm' = [perm EXCEPT ![r] = ps]
    /\ UNCHANGED <<status, role, roles>>
    /\ StartSync(a, Holders(r), FALSE)

DeleteRole(a, r, other) ==
    /\ May(a, RoleManage)
    /\ r \in roles \ {"admin", "user"} /\ other \in roles \ {r}
    /\ role' = [u \in User |-> IF u \in Holders(r) THEN other ELSE role[u]]
    /\ roles' = roles \ {r}
    /\ perm' = [perm EXCEPT ![r] = {}]
    /\ UNCHANGED status
    /\ StartSync(a, Holders(r), FALSE)

\* Fault: the last active admin may be demoted.
SetUserRoleUnguarded(a, u, r) ==
    /\ May(a, ChangeRole)
    /\ Exists(u) /\ r \in roles
    /\ role' = [role EXCEPT ![u] = r]
    /\ UNCHANGED <<status, roles, perm>>
    /\ StartSync(a, {u}, FALSE)

SetUserRole(a, u, r) ==
    /\ May(a, ChangeRole)
    /\ Exists(u) /\ r \in roles
    /\ role[u] = "admin" /\ r # "admin" => Cardinality(ActiveAdmins) > 1
    /\ role' = [role EXCEPT ![u] = r]
    /\ UNCHANGED <<status, roles, perm>>
    /\ StartSync(a, {u}, FALSE)

Ban(a, u) ==
    /\ May(a, BanUnban)
    /\ Exists(u)
    /\ u \in ActiveAdmins => Cardinality(ActiveAdmins) > 1
    /\ status' = [status EXCEPT ![u] = "disabled"]
    /\ UNCHANGED <<role, roles, perm>>
    /\ StartSync(a, {u}, TRUE)

Unban(a, u) ==
    /\ May(a, BanUnban)
    /\ Exists(u)
    /\ status' = [status EXCEPT ![u] = "active"]
    /\ UNCHANGED <<role, roles, perm>>
    /\ StartSync(a, {u}, FALSE)

\* delete_user, and the list of the connections to close.
DeleteUser(a, u) ==
    /\ May(a, DeleteAny)
    /\ Exists(u)
    /\ u \in ActiveAdmins => Cardinality(ActiveAdmins) > 1
    /\ status' = [status EXCEPT ![u] = "deleted"]
    /\ role' = [role EXCEPT ![u] = "user"]
    /\ StartClosing(a, Clients({u}))
    /\ missed' = missed \cup {c \in Conn : user[c] = u /\ pc[c] \in {"hashing", "welcomed"}}
    /\ UNCHANGED <<roles, perm, user, cached, closed>>

-----------------------------------------------------------------------------
(* The turns of the loops.  The iterator of the roster notices at its next  *)
(* turn that the roster has grown or shrunk, and raises.                    *)

Unmoved(a) == pc[a] = "syncing" /\ Cardinality(Roster) = task[a].size

Refresh(a) ==
    /\ Unmoved(a)
    /\ \E c \in Left(a) :
          /\ cached' = [cached EXCEPT ![c] = Granted[user[c]]]
          /\ task' = [task EXCEPT ![a].seen = @ \cup {c}]
    /\ UNCHANGED <<store, pc, user, closed, missed>>

\* The loop is over; a ban goes on to close the account's connections.
SyncEnds(a) ==
    /\ Unmoved(a)
    /\ Left(a) = {}
    /\ StartClosing(a, ToClose(a))
    /\ UNCHANGED <<store, user, cached, closed, missed>>

\* RuntimeError: the handler ends and its own connection is dropped.
SyncAborts(a) ==
    /\ pc[a] = "syncing" /\ Cardinality(Roster) # task[a].size
    /\ pc' = [pc EXCEPT ![a] = "gone"]
    /\ task' = [task EXCEPT ![a] = NoTask]
    /\ missed' = missed \cup Left(a) \cup ToClose(a)
    /\ UNCHANGED <<store, user, cached, closed>>

Close(a) ==
    /\ pc[a] = "closing"
    /\ \E c \in task[a].list :
          /\ closed' = closed \cup {c}
          /\ StartClosing(a, task[a].list \ {c})
    /\ UNCHANGED <<store, user, cached, missed>>

-----------------------------------------------------------------------------

\* The server stops, cleanly or not, and starts on the same database.
Restart ==
    /\ roles' = roles \cup BuiltIn
    /\ perm' = Seeded(perm)
    /\ pc' = [c \in Conn |-> "out"]
    /\ user' = [c \in Conn |-> NoUser]
    /\ cached' = [c \in Conn |-> {}]
    /\ closed' = {}
    /\ task' = [c \in Conn |-> NoTask]
    /\ missed' = {}
    /\ UNCHANGED <<status, role>>

Connection(c) ==
    \/ \E u \in User : Register(c, u) \/ LogIn(c, u)
    \/ LogInFails(c) \/ Welcome(c) \/ Activate(c) \/ LogOut(c) \/ Leave(c)

Administration(a) ==
    \/ \E r \in Role : CreateRole(a, r)
    \/ \E r \in Role, ps \in SUBSET Permission : UpdateRolePermissions(a, r, ps)
    \/ \E r, other \in Role : DeleteRole(a, r, other)
    \/ \E u \in User, r \in Role : SetUserRole(a, u, r)
    \/ \E u \in User : Ban(a, u) \/ Unban(a, u) \/ DeleteUser(a, u)
    \/ Refresh(a) \/ SyncEnds(a) \/ SyncAborts(a) \/ Close(a)

Next == Restart \/ \E c \in Conn : Connection(c) \/ Administration(c)

Spec == Init /\ [][Next]_vars

-----------------------------------------------------------------------------
(* Properties.                                                             *)

TypeOK ==
    /\ status \in [User -> {"new", "active", "disabled", "deleted"}]
    /\ roles \subseteq Role /\ {"admin", "user"} \subseteq roles
    /\ role \in [User -> roles]
    /\ perm \in [Role -> SUBSET Permission]
    /\ pc \in [Conn -> {"out", "hashing", "welcomed", "ready", "syncing", "closing", "gone"}]
    /\ user \in [Conn -> User \cup {NoUser}]
    /\ cached \in [Conn -> SUBSET Permission]
    /\ closed \subseteq Conn
    /\ task \in [Conn -> [wanted : SUBSET User, seen : SUBSET Conn, size : Nat,
                          ban : BOOLEAN, list : SUBSET Conn]]
    /\ missed \subseteq Conn

\* Somebody can always undo what the administrators did: whatever they demote,
\* ban, delete and take away, of each other and of themselves, an active
\* account keeps every permission, so no combination needs a new bootstrap.
FullAdminRemains == \E u \in User : status[u] = "active" /\ Granted[u] = Permission

\* c's copy is out of date and no handler has still to refresh it.
Stale(c) ==
    /\ Exists(user[c]) /\ cached[c] # Granted[user[c]]
    /\ \A a \in Conn : c \notin Left(a)

\* A connection of the roster disagrees with the store about its permissions,
\* or stays open for an account disabled or deleted, only while a handler
\* still has it to visit; those that a change did pass by, between their
\* log-in and their activation or in a loop that raised, are the only others.
UpToDate ==
    \A c \in Roster \ (missed \cup closed) :
        /\ ~Stale(c)
        /\ status[user[c]] # "active" => \E a \in Conn : c \in ToClose(a)

\* Connections and accounts belong together: no account has a deleted role, and
\* no connection of the roster is forgotten by a change.
RosterConsistent == TypeOK /\ UpToDate

\* src/docs/runtime-flow.md:133, "Role and permission changes apply live to
\* connected users without reconnect."
PermissionsLive == \A c \in Roster \ closed : ~Stale(c)
=============================================================================
