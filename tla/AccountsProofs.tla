--------------------------- MODULE AccountsProofs ---------------------------
(***************************************************************************)
(* Accounts keeps an administrator with every permission, and the loops    *)
(* lose no connection but those counted in missed: for any finite sets of  *)
(* accounts and connections and any roles and permissions.                 *)
(***************************************************************************)
EXTENDS Accounts, FiniteSetTheorems, TLAPS

Task == [wanted : SUBSET User, seen : SUBSET Conn, size : Nat,
         ban : BOOLEAN, list : SUBSET Conn]

\* The administrators can only lose one at a time, and not the last; their
\* role's permissions are locked.
Core == TypeOK /\ ActiveAdmins # {} /\ perm["admin"] = Permission

\* A role may be deleted under an account only if the account is moved: one
\* that is not there yet, or no longer, has the role that never goes.
Names ==
    /\ \A u \in User : ~Exists(u) => role[u] = "user"
    /\ \A c \in Conn : pc[c] \notin {"out", "gone"} => user[c] \in User

AdminInv == Core /\ Names

LEMMA NoTaskType == NoTask \in Task
BY DEF NoTask, Task

LEMMA RosterSize == Cardinality(Roster) \in Nat
<1>1. Roster \subseteq Conn
  BY DEF Roster
<1>2. QED
  BY <1>1, AccountsAssumption, FS_Subset, FS_CardinalityType

\* More than one active administrator: another one than u.
LEMMA AnotherAdmin ==
    ASSUME NEW u, Cardinality(ActiveAdmins) > 1
    PROVE  \E v \in ActiveAdmins : v # u
<1>1. SUFFICES ASSUME \A v \in ActiveAdmins : v = u  PROVE FALSE
  OBVIOUS
<1>2. IsFiniteSet({u}) /\ Cardinality({u}) = 1
  BY FS_Singleton
<1>3. ActiveAdmins \subseteq {u}
  BY <1>1
<1>4. Cardinality(ActiveAdmins) <= 1
  BY <1>2, <1>3, FS_Subset
<1>5. Cardinality(ActiveAdmins) \in Nat
  BY <1>2, <1>3, FS_Subset, FS_CardinalityType
<1>6. QED
  BY <1>4, <1>5

\* Seeding gives the admin role everything and stays within the types.
LEMMA SeedingLocksAdmin ==
    ASSUME NEW pm \in [Role -> SUBSET Permission]
    PROVE  Seeded(pm) \in [Role -> SUBSET Permission] /\ Seeded(pm)["admin"] = Permission
BY AccountsAssumption DEF Seeded

LEMMA GrantedType ==
    ASSUME TypeOK PROVE Granted \in [User -> SUBSET Permission]
BY DEF TypeOK, Granted

LEMMA AdminInit == Init => AdminInv
<1> SUFFICES ASSUME Init PROVE AdminInv
  OBVIOUS
<1>1. PICK u \in User : status = [v \in User |-> IF v = u THEN "active" ELSE "new"]
                     /\ role = [v \in User |-> IF v = u THEN "admin" ELSE "user"]
  BY DEF Init
<1>2. [r \in Role |-> {}] \in [Role -> SUBSET Permission]
  OBVIOUS
<1>3. perm \in [Role -> SUBSET Permission] /\ perm["admin"] = Permission
  BY <1>2, SeedingLocksAdmin DEF Init
<1>4. u \in ActiveAdmins
  BY <1>1 DEF ActiveAdmins
<1>5. task \in [Conn -> Task]
  BY NoTaskType DEF Init
<1>6. TypeOK
  BY <1>1, <1>3, <1>5, AccountsAssumption DEF Init, TypeOK, Task
<1>7. QED
  BY <1>1, <1>3, <1>4, <1>6 DEF AdminInv, Core, Names, Exists, Init

LEMMA SyncTypes ==
    ASSUME TypeOK, NEW a \in Conn, NEW us \in SUBSET User, NEW ban \in BOOLEAN,
           StartSync(a, us, ban), Granted' \in [User -> SUBSET Permission]
    PROVE  /\ pc' \in [Conn -> {"out", "hashing", "welcomed", "ready", "syncing", "closing", "gone"}]
           /\ user' \in [Conn -> User \cup {NoUser}]
           /\ cached' \in [Conn -> SUBSET Permission]
           /\ closed' \subseteq Conn /\ missed' \subseteq Conn
           /\ task' \in [Conn -> Task]
<1>1. missed' \subseteq Conn /\ closed' \subseteq Conn /\ user' \in [Conn -> User \cup {NoUser}]
  BY DEF StartSync, TypeOK
<1>2. CASE Clients(us) = {}
  <2>1. UNCHANGED <<pc, cached, task>>
    BY <1>2 DEF StartSync
  <2>2. QED
    BY <1>1, <2>1 DEF TypeOK, Task
<1>3. CASE Clients(us) # {}
  <2>1. PICK c \in Clients(us) :
             /\ cached' = [cached EXCEPT ![c] = Granted'[user[c]]]
             /\ pc' = [pc EXCEPT ![a] = "syncing"]
             /\ task' = [task EXCEPT ![a] =
                   [wanted |-> us, seen |-> {c}, size |-> Cardinality(Roster),
                    ban |-> ban, list |-> {}]]
    BY <1>3 DEF StartSync
  <2>2. c \in Conn /\ user[c] \in User
    BY DEF Clients, Roster
  <2>3. Granted'[user[c]] \in SUBSET Permission
    BY <2>2
  <2>4. [wanted |-> us, seen |-> {c}, size |-> Cardinality(Roster),
         ban |-> ban, list |-> {}] \in Task
    BY <2>2, RosterSize DEF Task
  <2>5. QED
    BY <1>1, <2>1, <2>2, <2>3, <2>4 DEF TypeOK, Task
<1>4. QED
  BY <1>2, <1>3

LEMMA ClosingTypes ==
    ASSUME TypeOK, NEW a \in Conn, NEW cs \in SUBSET Conn, StartClosing(a, cs)
    PROVE  /\ pc' \in [Conn -> {"out", "hashing", "welcomed", "ready", "syncing", "closing", "gone"}]
           /\ task' \in [Conn -> Task]
<1>1. [NoTask EXCEPT !.list = cs] \in Task
  BY DEF NoTask, Task
<1>2. QED
  BY <1>1 DEF StartClosing, TypeOK, Task

\* An administration packet that writes the store and then starts a loop.
LEMMA StoreTypes ==
    ASSUME TypeOK, NEW a \in Conn, NEW us \in SUBSET User, NEW ban \in BOOLEAN,
           StartSync(a, us, ban),
           status' \in [User -> {"new", "active", "disabled", "deleted"}],
           roles' \subseteq Role, {"admin", "user"} \subseteq roles',
           role' \in [User -> roles'],
           perm' \in [Role -> SUBSET Permission]
    PROVE  TypeOK'
<1>1. Granted' \in [User -> SUBSET Permission]
  BY DEF Granted, Exists
<1>2. /\ pc' \in [Conn -> {"out", "hashing", "welcomed", "ready", "syncing", "closing", "gone"}]
      /\ user' \in [Conn -> User \cup {NoUser}]
      /\ cached' \in [Conn -> SUBSET Permission]
      /\ closed' \subseteq Conn /\ missed' \subseteq Conn
      /\ task' \in [Conn -> Task]
  BY <1>1, SyncTypes
<1>3. QED
  BY <1>2 DEF TypeOK, Task

\* A loop leaves every connection with the account it had; the actor's is not
\* the only handler that goes on.
LEMMA SyncNames ==
    ASSUME AdminInv, NEW a \in Conn, pc[a] = "ready", NEW us, NEW ban, StartSync(a, us, ban)
    PROVE  \A c \in Conn : pc'[c] \notin {"out", "gone"} => user'[c] \in User
BY DEF StartSync, AdminInv, Core, Names, TypeOK

LEMMA ClosingNames ==
    ASSUME AdminInv, NEW a \in Conn, pc[a] \in {"ready", "syncing", "closing"}, NEW cs,
           StartClosing(a, cs), UNCHANGED user
    PROVE  \A c \in Conn : pc'[c] \notin {"out", "gone"} => user'[c] \in User
BY DEF StartClosing, AdminInv, Core, Names, TypeOK

LEMMA AdministrationKeepsAdmin ==
    ASSUME AdminInv, NEW a \in Conn, Administration(a)
    PROVE  Core'
<1> USE DEF AdminInv, Core, Names
<1>1. ASSUME NEW r \in Role, CreateRole(a, r) PROVE Core'
  BY <1>1 DEF CreateRole, TypeOK, ActiveAdmins
<1>2. ASSUME NEW r \in Role, NEW ps \in SUBSET Permission, UpdateRolePermissions(a, r, ps)
      PROVE  Core'
  <2>1. TypeOK'
    BY <1>2, StoreTypes DEF UpdateRolePermissions, TypeOK, Holders
  <2>2. QED
    BY <1>2, <2>1 DEF UpdateRolePermissions, ActiveAdmins, TypeOK
<1>3. ASSUME NEW r \in Role, NEW other \in Role, DeleteRole(a, r, other) PROVE Core'
  <2>1. role' \in [User -> roles'] /\ {"admin", "user"} \subseteq roles' /\ roles' \subseteq Role
    BY <1>3 DEF DeleteRole, TypeOK, Holders, Exists
  <2>2. TypeOK'
    BY <1>3, <2>1, StoreTypes DEF DeleteRole, TypeOK, Holders
  <2>3. ActiveAdmins \subseteq ActiveAdmins'
    BY <1>3 DEF DeleteRole, ActiveAdmins, Holders, TypeOK
  <2>4. QED
    BY <1>3, <2>2, <2>3 DEF DeleteRole, TypeOK
<1>4. ASSUME NEW u \in User, NEW r \in Role, SetUserRole(a, u, r) PROVE Core'
  <2>1. TypeOK'
    BY <1>4, StoreTypes DEF SetUserRole, TypeOK
  <2>2. \A v \in ActiveAdmins : v # u => v \in ActiveAdmins'
    BY <1>4 DEF SetUserRole, ActiveAdmins, TypeOK
  <2>3. CASE u \in ActiveAdmins /\ r # "admin"
    <3>1. Cardinality(ActiveAdmins) > 1
      BY <1>4, <2>3 DEF SetUserRole, ActiveAdmins
    <3>2. QED
      BY <1>4, <2>1, <2>2, <3>1, AnotherAdmin DEF SetUserRole
  <2>4. CASE ~(u \in ActiveAdmins /\ r # "admin")
    <3>1. u \in ActiveAdmins => u \in ActiveAdmins'
      BY <1>4, <2>4 DEF SetUserRole, ActiveAdmins, TypeOK
    <3>2. QED
      BY <1>4, <2>1, <2>2, <3>1 DEF SetUserRole
  <2>5. QED
    BY <2>3, <2>4
<1>5. ASSUME NEW u \in User, Ban(a, u) \/ DeleteUser(a, u) PROVE Core'
  <2>1. TypeOK'
    <3>1. CASE Ban(a, u)
      BY <3>1, StoreTypes DEF Ban, TypeOK
    <3>2. CASE DeleteUser(a, u)
      <4>1. Clients({u}) \in SUBSET Conn
        BY DEF Clients, Roster
      <4>2. /\ pc' \in [Conn -> {"out", "hashing", "welcomed", "ready", "syncing", "closing", "gone"}]
            /\ task' \in [Conn -> Task]
        BY <3>2, <4>1, ClosingTypes DEF DeleteUser
      <4>3. QED
        BY <3>2, <4>2 DEF DeleteUser, TypeOK, Task
    <3>3. QED
      BY <1>5, <3>1, <3>2
  <2>2. \A v \in ActiveAdmins : v # u => v \in ActiveAdmins'
    BY <1>5 DEF Ban, DeleteUser, ActiveAdmins, TypeOK
  <2>3. u \in ActiveAdmins => Cardinality(ActiveAdmins) > 1
    BY <1>5 DEF Ban, DeleteUser
  <2>4. ActiveAdmins' # {}
    BY <2>2, <2>3, AnotherAdmin
  <2>5. QED
    BY <1>5, <2>1, <2>4 DEF Ban, DeleteUser
<1>6. ASSUME NEW u \in User, Unban(a, u) PROVE Core'
  <2>1. TypeOK'
    BY <1>6, StoreTypes DEF Unban, TypeOK
  <2>2. ActiveAdmins \subseteq ActiveAdmins'
    BY <1>6 DEF Unban, ActiveAdmins, TypeOK
  <2>3. QED
    BY <1>6, <2>1, <2>2 DEF Unban
<1>7. CASE Refresh(a)
  <2>1. PICK c \in Left(a) :
          /\ cached' = [cached EXCEPT ![c] = Granted[user[c]]]
          /\ task' = [task EXCEPT ![a].seen = @ \cup {c}]
    BY <1>7 DEF Refresh
  <2>2. c \in Conn /\ user[c] \in User
    BY DEF Left, Clients, Roster, TypeOK
  <2>3. Granted[user[c]] \in SUBSET Permission
    BY <2>2, GrantedType
  <2>4. [task[a] EXCEPT !.seen = @ \cup {c}] \in Task
    BY <2>2 DEF TypeOK, Task
  <2>5. task' \in [Conn -> Task]
    BY <2>1, <2>4 DEF TypeOK, Task
  <2>6. QED
    BY <1>7, <2>1, <2>2, <2>3, <2>5 DEF Refresh, TypeOK, Task, ActiveAdmins, store
<1>8. CASE SyncEnds(a)
  <2>1. ToClose(a) \in SUBSET Conn
    BY DEF ToClose
  <2>2. /\ pc' \in [Conn -> {"out", "hashing", "welcomed", "ready", "syncing", "closing", "gone"}]
        /\ task' \in [Conn -> Task]
    BY <1>8, <2>1, ClosingTypes DEF SyncEnds
  <2>3. QED
    BY <1>8, <2>2 DEF SyncEnds, TypeOK, Task, ActiveAdmins, store
<1>9. CASE SyncAborts(a)
  <2>1. Left(a) \cup ToClose(a) \subseteq Conn
    BY DEF Left, ToClose, Clients, Roster
  <2>2. task' \in [Conn -> Task]
    BY <1>9, NoTaskType DEF SyncAborts, TypeOK, Task
  <2>3. QED
    BY <1>9, <2>1, <2>2 DEF SyncAborts, TypeOK, Task, ActiveAdmins, store
<1>10. CASE Close(a)
  <2>1. PICK c \in task[a].list : closed' = closed \cup {c} /\ StartClosing(a, task[a].list \ {c})
    BY <1>10 DEF Close
  <2>2. task[a].list \in SUBSET Conn
    BY DEF TypeOK
  <2>3. /\ pc' \in [Conn -> {"out", "hashing", "welcomed", "ready", "syncing", "closing", "gone"}]
        /\ task' \in [Conn -> Task]
    BY <2>1, <2>2, ClosingTypes
  <2>4. QED
    BY <1>10, <2>1, <2>2, <2>3 DEF Close, TypeOK, Task, ActiveAdmins, store
<1>11. QED
  BY <1>1, <1>2, <1>3, <1>4, <1>5, <1>6, <1>7, <1>8, <1>9, <1>10 DEF Administration

LEMMA ConnectionKeepsAdmin ==
    ASSUME AdminInv, NEW c \in Conn, Connection(c)
    PROVE  Core'
<1> USE DEF AdminInv, Core, Names
<1>1. ASSUME NEW u \in User, Register(c, u) PROVE Core'
  <2>1. ActiveAdmins \subseteq ActiveAdmins'
    BY <1>1 DEF Register, ActiveAdmins, TypeOK
  <2>2. QED
    BY <1>1, <2>1 DEF Register, TypeOK
<1>2. ASSUME NEW u \in User, LogIn(c, u) PROVE Core'
  BY <1>2 DEF LogIn, TypeOK, ActiveAdmins, store
<1>3. CASE LogInFails(c)
  BY <1>3 DEF LogInFails, TypeOK, ActiveAdmins, store
<1>4. CASE Welcome(c)
  <2>1. user[c] \in User => Granted[user[c]] \in SUBSET Permission
    BY GrantedType
  <2>2. user[c] \in User
    BY <1>4 DEF Welcome
  <2>3. QED
    BY <1>4, <2>1, <2>2 DEF Welcome, TypeOK, ActiveAdmins, store
<1>5. CASE Activate(c) \/ LogOut(c) \/ Leave(c)
  BY <1>5 DEF Activate, LogOut, Leave, TypeOK, ActiveAdmins, store
<1>6. QED
  BY <1>1, <1>2, <1>3, <1>4, <1>5 DEF Connection

LEMMA RestartKeepsAdmin ==
    ASSUME AdminInv, Restart PROVE AdminInv'
<1>1. perm' \in [Role -> SUBSET Permission] /\ perm'["admin"] = Permission
  BY SeedingLocksAdmin DEF AdminInv, Core, TypeOK, Restart
<1>2. task' \in [Conn -> Task]
  BY NoTaskType DEF Restart
<1>3. QED
  BY <1>1, <1>2, AccountsAssumption DEF AdminInv, Core, Names, Exists, TypeOK, Restart, ActiveAdmins, Task

LEMMA NamesNext ==
    ASSUME AdminInv, [Next]_vars PROVE Names'
<1> USE DEF AdminInv, Core, Names
<1>1. ASSUME NEW c \in Conn, Connection(c) PROVE Names'
  <2>1. ASSUME NEW u \in User, Register(c, u) \/ LogIn(c, u) PROVE Names'
    BY <2>1 DEF Register, LogIn, Exists, TypeOK, store
  <2>2. CASE LogInFails(c) \/ Welcome(c) \/ Activate(c) \/ LogOut(c) \/ Leave(c)
    BY <2>2 DEF LogInFails, Welcome, Activate, LogOut, Leave, Exists, TypeOK, store
  <2>3. QED
    BY <1>1, <2>1, <2>2 DEF Connection
<1>2. ASSUME NEW a \in Conn, Administration(a) PROVE Names'
  <2>1. \A c \in Conn : pc'[c] \notin {"out", "gone"} => user'[c] \in User
    <3>1. CASE \/ \E r \in Role, ps \in SUBSET Permission : UpdateRolePermissions(a, r, ps)
               \/ \E r, other \in Role : DeleteRole(a, r, other)
               \/ \E u \in User, r \in Role : SetUserRole(a, u, r)
               \/ \E u \in User : Ban(a, u) \/ Unban(a, u)
      BY <3>1, SyncNames DEF UpdateRolePermissions, DeleteRole, SetUserRole, Ban, Unban, May
    <3>2. CASE (\E u \in User : DeleteUser(a, u)) \/ SyncEnds(a) \/ Close(a)
      BY <3>2, ClosingNames DEF DeleteUser, SyncEnds, Close, May, Unmoved
    <3>3. CASE (\E r \in Role : CreateRole(a, r)) \/ Refresh(a) \/ SyncAborts(a)
      BY <3>3 DEF CreateRole, Refresh, SyncAborts, TypeOK
    <3>4. QED
      BY <1>2, <3>1, <3>2, <3>3 DEF Administration
  <2>2. \A u \in User : ~Exists(u)' => role'[u] = "user"
    <3>1. CASE \E r \in Role : CreateRole(a, r)
      BY <3>1 DEF CreateRole, Exists
    <3>2. CASE \E r \in Role, ps \in SUBSET Permission : UpdateRolePermissions(a, r, ps)
      BY <3>2 DEF UpdateRolePermissions, Exists
    <3>3. CASE \E r, other \in Role : DeleteRole(a, r, other)
      BY <3>3 DEF DeleteRole, Exists, Holders
    <3>4. CASE \E u \in User, r \in Role : SetUserRole(a, u, r)
      BY <3>4 DEF SetUserRole, Exists, TypeOK
    <3>5. CASE \E u \in User : Ban(a, u) \/ Unban(a, u) \/ DeleteUser(a, u)
      BY <3>5 DEF Ban, Unban, DeleteUser, Exists, TypeOK
    <3>6. CASE Refresh(a) \/ SyncEnds(a) \/ SyncAborts(a) \/ Close(a)
      BY <3>6 DEF Refresh, SyncEnds, SyncAborts, Close, store, Exists
    <3>7. QED
      BY <1>2, <3>1, <3>2, <3>3, <3>4, <3>5, <3>6 DEF Administration
  <2>3. QED
    BY <2>1, <2>2 DEF Exists
<1>3. CASE Restart
  BY <1>3 DEF Restart, Exists
<1>4. CASE UNCHANGED vars
  BY <1>4 DEF vars, store, Exists
<1>5. QED
  BY <1>1, <1>2, <1>3, <1>4 DEF Next

LEMMA AdminNext == AdminInv /\ [Next]_vars => AdminInv'
<1> SUFFICES ASSUME AdminInv, [Next]_vars PROVE AdminInv'
  OBVIOUS
<1>1. CASE Restart
  BY <1>1, RestartKeepsAdmin
<1>2. CASE UNCHANGED vars
  BY <1>2 DEF vars, store, AdminInv, Core, Names, TypeOK, ActiveAdmins, Exists
<1>3. CASE \E c \in Conn : Connection(c) \/ Administration(c)
  BY <1>3, NamesNext, ConnectionKeepsAdmin, AdministrationKeepsAdmin DEF AdminInv
<1>4. QED
  BY <1>1, <1>2, <1>3 DEF Next

THEOREM AdminInvariant == Spec => []AdminInv
<1>1. QED
  BY AdminInit, AdminNext, PTL DEF Spec

\* TypeOK, for any finite sets of accounts and connections: no account ever has
\* a role that was deleted.
THEOREM Types == Spec => []TypeOK
<1>1. AdminInv => TypeOK
  BY DEF AdminInv, Core
<1>2. QED
  BY <1>1, AdminInvariant, PTL

\* FullAdminRemains: an active account keeps every permission, whatever the
\* administrators do.
THEOREM AdministratorRemains == Spec => []FullAdminRemains
<1>1. AdminInv => FullAdminRemains
  BY DEF AdminInv, Core, FullAdminRemains, ActiveAdmins, Granted, Exists
<1>2. QED
  BY <1>1, AdminInvariant, PTL

-----------------------------------------------------------------------------
(* Which connections a change reaches.                                     *)

Fresh(c)  == Exists(user[c]) => cached[c] = Granted[user[c]]
Served(c) == Fresh(c) \/ \E a \in Conn : c \in Left(a)
Kept(c)   == status[user[c]] = "active" \/ \E a \in Conn : c \in ToClose(a)

\* Before its activation a connection no change has passed by is fresh; from
\* then on it is, or a loop has it before it.
Followed(c) ==
    /\ user[c] \in User => status[user[c]] # "new"
    /\ pc[c] \in {"hashing", "welcomed"} /\ c \notin missed => status[user[c]] = "active"
    /\ pc[c] = "welcomed" /\ c \notin missed \cup closed => Fresh(c)
    /\ c \in Roster \ (missed \cup closed) => Served(c) /\ Kept(c)

FollowInv == AdminInv /\ \A c \in Conn : Followed(c)

LEMMA FollowInit == Init => \A c \in Conn : Followed(c)
BY AccountsAssumption DEF Init, Followed, Roster

\* A handler's own loop is all its step changes of the loops.
LEMMA OtherLoops ==
    ASSUME NEW a \in Conn, Roster' = Roster, UNCHANGED user,
           \A b \in Conn : b # a => pc'[b] = pc[b] /\ task'[b] = task[b]
    PROVE  \A b \in Conn : b # a => Left(b)' = Left(b) /\ ToClose(b)' = ToClose(b)
<1>1. \A us : Clients(us)' = Clients(us)
  BY DEF Clients
<1>2. QED
  BY <1>1 DEF Left, ToClose

\* A change of the accounts us, and the loop that follows it.
LEMMA SyncFollows ==
    ASSUME FollowInv, NEW a \in Conn, pc[a] = "ready",
           NEW us \in SUBSET User, NEW ban \in BOOLEAN, StartSync(a, us, ban),
           \A u \in User : u \notin us => status'[u] = status[u] /\ Granted'[u] = Granted[u],
           \A u \in us : status'[u] \in {"active", "disabled"} /\ Exists(u),
           ~ban => \A u \in us : status[u] = "active" => status'[u] = "active"
    PROVE  \A c \in Conn : Followed(c)'
<1> USE DEF FollowInv, AdminInv, Core, Names
<1>1. Roster' = Roster /\ UNCHANGED <<user, closed>>
  BY DEF StartSync, Roster, TypeOK
<1>2. \A b \in Conn : b # a => pc'[b] = pc[b] /\ task'[b] = task[b]
  BY DEF StartSync, TypeOK
<1>3. \A b \in Conn : b # a => Left(b)' = Left(b) /\ ToClose(b)' = ToClose(b)
  BY <1>1, <1>2, OtherLoops
<1>4. Left(a) = {} /\ ToClose(a) = {}
  BY DEF Left, ToClose
<1>5. missed' = missed \cup {c \in Conn : user[c] \in us /\ (pc[c] = "welcomed" \/ (ban /\ pc[c] = "hashing"))}
  BY DEF StartSync
<1>6. \A c \in Conn : pc'[c] \in {"hashing", "welcomed"} => pc'[c] = pc[c]
  BY DEF StartSync, TypeOK
<1>7. \A c \in Conn : user[c] \notin us => cached'[c] = cached[c]
  BY DEF StartSync, Clients, TypeOK
<1>8. \A u \in User : u \notin us => (Exists(u)' <=> Exists(u)) /\ Granted'[u] = Granted[u]
  BY DEF Exists
<1> SUFFICES ASSUME NEW c \in Conn PROVE Followed(c)'
  OBVIOUS
<1>10. user'[c] \in User => status'[user'[c]] # "new"
  <2>1. CASE user[c] \in us
    BY <1>1, <2>1 DEF Followed
  <2>2. CASE user[c] \notin us
    BY <1>1, <2>2 DEF Followed
  <2>3. QED
    BY <2>1, <2>2
<1>11. pc'[c] \in {"hashing", "welcomed"} /\ c \notin missed' => status'[user'[c]] = "active"
  <2>1. CASE user[c] \in us
    BY <1>1, <1>5, <1>6, <2>1 DEF Followed
  <2>2. CASE user[c] \notin us
    BY <1>1, <1>5, <1>6, <2>2 DEF Followed
  <2>3. QED
    BY <2>1, <2>2
<1>12. pc'[c] = "welcomed" /\ c \notin missed' \cup closed' => Fresh(c)'
  <2>1. SUFFICES ASSUME pc'[c] = "welcomed", c \notin missed' \cup closed' PROVE Fresh(c)'
    OBVIOUS
  <2>2. pc[c] = "welcomed" /\ user[c] \in User \ us /\ c \notin missed \cup closed
    BY <1>1, <1>5, <1>6, <2>1
  <2>3. Fresh(c)
    BY <2>2 DEF Followed
  <2>4. QED
    BY <1>1, <1>7, <1>8, <2>2, <2>3 DEF Fresh, Exists
<1>13. c \in Roster' \ (missed' \cup closed') => Served(c)' /\ Kept(c)'
  <2>1. SUFFICES ASSUME c \in Roster' \ (missed' \cup closed') PROVE Served(c)' /\ Kept(c)'
    OBVIOUS
  <2>2. c \in Roster \ (missed \cup closed) /\ user[c] \in User
    BY <1>1, <1>5, <2>1 DEF Roster
  <2>3. Served(c) /\ Kept(c)
    BY <2>2 DEF Followed
  <2>4. CASE user[c] \in us
    <3>1. c \in Clients(us)
      BY <2>2, <2>4 DEF Clients
    <3>2. PICK d \in Clients(us) :
             /\ cached' = [cached EXCEPT ![d] = Granted'[user[d]]]
             /\ pc' = [pc EXCEPT ![a] = "syncing"]
             /\ task' = [task EXCEPT ![a] =
                   [wanted |-> us, seen |-> {d}, size |-> Cardinality(Roster),
                    ban |-> ban, list |-> {}]]
      BY <3>1 DEF StartSync
    <3>3. /\ pc'[a] = "syncing" /\ task'[a].wanted = us
          /\ task'[a].seen = {d} /\ task'[a].ban = ban
      BY <3>2 DEF TypeOK
    <3>4. c \in Clients(us)'
      BY <1>1, <3>1 DEF Clients
    <3>5. Served(c)'
      <4>1. CASE c = d
        <5>1. cached'[c] = Granted'[user'[c]]
          BY <1>1, <3>2, <4>1 DEF TypeOK
        <5>2. QED
          BY <5>1 DEF Served, Fresh
      <4>2. CASE c # d
        <5>1. c \in Left(a)'
          BY <3>3, <3>4, <4>2 DEF Left, Clients
        <5>2. QED
          BY <5>1 DEF Served
      <4>3. QED
        BY <4>1, <4>2
    <3>6. Kept(c)'
      <4>1. CASE ban
        <5>1. c \in ToClose(a)'
          BY <3>3, <3>4, <4>1 DEF ToClose, Clients
        <5>2. QED
          BY <5>1 DEF Kept
      <4>2. CASE ~ban
        BY <1>1, <1>3, <1>4, <2>3, <2>4, <4>2 DEF Kept
      <4>3. QED
        BY <4>1, <4>2
    <3>7. QED
      BY <3>5, <3>6
  <2>5. CASE user[c] \notin us
    <3>1. Fresh(c) => Fresh(c)'
      BY <1>1, <1>7, <1>8, <2>2, <2>5 DEF Fresh, Exists
    <3>2. (\E b \in Conn : c \in Left(b)) => \E b \in Conn : c \in Left(b)'
      BY <1>3, <1>4
    <3>3. Kept(c)'
      BY <1>1, <1>3, <1>4, <2>2, <2>3, <2>5 DEF Kept
    <3>4. QED
      BY <2>3, <3>1, <3>2, <3>3 DEF Served
  <2>6. QED
    BY <2>4, <2>5
<1>14. QED
  BY <1>10, <1>11, <1>12, <1>13 DEF Followed

LEMMA ChangeFollows ==
    ASSUME FollowInv, NEW a \in Conn,
           \/ \E r \in Role, ps \in SUBSET Permission : UpdateRolePermissions(a, r, ps)
           \/ \E r, other \in Role : DeleteRole(a, r, other)
           \/ \E u \in User, r \in Role : SetUserRole(a, u, r)
           \/ \E u \in User : Ban(a, u) \/ Unban(a, u)
    PROVE  \A c \in Conn : Followed(c)'
<1> USE DEF FollowInv, AdminInv, Core
<1>1. ASSUME NEW r \in Role, NEW ps \in SUBSET Permission, UpdateRolePermissions(a, r, ps)
      PROVE  \A c \in Conn : Followed(c)'
  <2>1. pc[a] = "ready" /\ StartSync(a, Holders(r), FALSE) /\ Holders(r) \in SUBSET User
    BY <1>1 DEF UpdateRolePermissions, May, Holders
  <2>2. \A u \in User : u \notin Holders(r) => status'[u] = status[u] /\ Granted'[u] = Granted[u]
    BY <1>1 DEF UpdateRolePermissions, Granted, Holders, Exists, TypeOK
  <2>3. \A u \in Holders(r) : status'[u] = status[u] /\ Exists(u)
    BY <1>1 DEF UpdateRolePermissions, Holders
  <2>4. QED
    BY <2>1, <2>2, <2>3, SyncFollows DEF Exists
<1>2. ASSUME NEW r \in Role, NEW other \in Role, DeleteRole(a, r, other)
      PROVE  \A c \in Conn : Followed(c)'
  <2>1. pc[a] = "ready" /\ StartSync(a, Holders(r), FALSE) /\ Holders(r) \in SUBSET User
    BY <1>2 DEF DeleteRole, May, Holders
  <2>2. \A u \in User : u \notin Holders(r) => status'[u] = status[u] /\ Granted'[u] = Granted[u]
    BY <1>2 DEF DeleteRole, Granted, Holders, Exists, TypeOK
  <2>3. \A u \in Holders(r) : status'[u] = status[u] /\ Exists(u)
    BY <1>2 DEF DeleteRole, Holders
  <2>4. QED
    BY <2>1, <2>2, <2>3, SyncFollows DEF Exists
<1>3. ASSUME NEW u \in User, NEW r \in Role, SetUserRole(a, u, r)
      PROVE  \A c \in Conn : Followed(c)'
  <2>1. pc[a] = "ready" /\ StartSync(a, {u}, FALSE) /\ Exists(u) /\ UNCHANGED status
    BY <1>3 DEF SetUserRole, May
  <2>2. \A v \in User : v \notin {u} => Granted'[v] = Granted[v]
    BY <1>3 DEF SetUserRole, Granted, Exists, TypeOK
  <2>3. /\ {u} \in SUBSET User /\ \A v \in {u} : Exists(v) /\ status'[v] \in {"active", "disabled"}
        /\ \A v \in {u} : status[v] = "active" => status'[v] = "active"
        /\ \A v \in User : v \notin {u} => status'[v] = status[v]
    BY <2>1 DEF Exists
  <2>4. QED
    BY <2>1, <2>2, <2>3, SyncFollows
<1>4. ASSUME NEW u \in User, Ban(a, u) \/ Unban(a, u)
      PROVE  \A c \in Conn : Followed(c)'
  <2>1. pc[a] = "ready" /\ Exists(u)
    BY <1>4 DEF Ban, Unban, May
  <2>2. \A v \in User : v \notin {u} => status'[v] = status[v] /\ Granted'[v] = Granted[v]
    BY <1>4 DEF Ban, Unban, Granted, Exists, TypeOK
  <2>3. CASE Ban(a, u)
    <3>1. status'[u] = "disabled" /\ StartSync(a, {u}, TRUE)
      BY <2>3 DEF Ban, TypeOK
    <3>2. {u} \in SUBSET User /\ \A v \in {u} : Exists(v) /\ status'[v] \in {"active", "disabled"}
      BY <2>1, <3>1
    <3>3. QED
      BY <2>1, <2>2, <3>1, <3>2, SyncFollows
  <2>4. CASE Unban(a, u)
    <3>1. status'[u] = "active" /\ StartSync(a, {u}, FALSE)
      BY <2>4 DEF Unban, TypeOK
    <3>2. /\ {u} \in SUBSET User /\ \A v \in {u} : Exists(v) /\ status'[v] \in {"active", "disabled"}
          /\ \A v \in {u} : status[v] = "active" => status'[v] = "active"
      BY <2>1, <3>1
    <3>3. QED
      BY <2>1, <2>2, <3>1, <3>2, SyncFollows
  <2>5. QED
    BY <1>4, <2>3, <2>4
<1>5. QED
  BY <1>1, <1>2, <1>3, <1>4

\* A handler that goes from one loop to closing the connections cs, or to
\* none: nothing is lost if cs holds all that its loop still had to close.
LEMMA ClosingFollows ==
    ASSUME FollowInv, NEW a \in Conn, pc[a] \in {"ready", "syncing", "closing"},
           NEW cs \in SUBSET Conn, StartClosing(a, cs), UNCHANGED user
    PROVE  /\ Roster' = Roster
           /\ \A b \in Conn : b # a => Left(b)' = Left(b) /\ ToClose(b)' = ToClose(b)
           /\ ToClose(a)' = cs
           /\ \A c \in Conn : pc'[c] \in {"hashing", "welcomed"} <=> pc[c] \in {"hashing", "welcomed"}
           /\ \A c \in Conn : pc'[c] = "welcomed" <=> pc[c] = "welcomed"
<1> USE DEF FollowInv, AdminInv, Core
<1>1. Roster' = Roster
  BY DEF StartClosing, Roster, TypeOK
<1>2. \A b \in Conn : b # a => pc'[b] = pc[b] /\ task'[b] = task[b]
  BY DEF StartClosing, TypeOK
<1>3. pc'[a] = (IF cs = {} THEN "ready" ELSE "closing") /\ task'[a].list = cs
  BY DEF StartClosing, TypeOK, NoTask
<1>4. ToClose(a)' = cs
  BY <1>3 DEF ToClose
<1>5. QED
  BY <1>1, <1>2, <1>3, <1>4, OtherLoops

LEMMA DeletionFollows ==
    ASSUME FollowInv, NEW a \in Conn, NEW u \in User, DeleteUser(a, u)
    PROVE  \A c \in Conn : Followed(c)'
<1> USE DEF FollowInv, AdminInv, Core, Names
<1>1. /\ StartClosing(a, Clients({u})) /\ UNCHANGED <<user, closed, cached>> /\ pc[a] = "ready"
      /\ Clients({u}) \in SUBSET Conn
      /\ missed' = missed \cup {c \in Conn : user[c] = u /\ pc[c] \in {"hashing", "welcomed"}}
  BY DEF DeleteUser, May, Clients, Roster
<1>2. /\ Roster' = Roster
      /\ \A b \in Conn : b # a => Left(b)' = Left(b) /\ ToClose(b)' = ToClose(b)
      /\ ToClose(a)' = Clients({u})
      /\ \A c \in Conn : pc'[c] \in {"hashing", "welcomed"} <=> pc[c] \in {"hashing", "welcomed"}
      /\ \A c \in Conn : pc'[c] = "welcomed" <=> pc[c] = "welcomed"
  BY <1>1, ClosingFollows
<1>3. Left(a) = {} /\ ToClose(a) = {}
  BY <1>1 DEF Left, ToClose
<1>4. /\ status'[u] = "deleted"
      /\ \A v \in User : v # u => /\ status'[v] = status[v] /\ Granted'[v] = Granted[v]
                                 /\ (Exists(v)' <=> Exists(v))
  BY DEF DeleteUser, Granted, Exists, TypeOK
<1> SUFFICES ASSUME NEW c \in Conn PROVE Followed(c)'
  OBVIOUS
<1>5. Followed(c)
  OBVIOUS
<1>6. CASE user[c] = u
  <2>1. c \in Roster => c \in ToClose(a)'
    BY <1>2, <1>6 DEF Clients
  <2>2. Fresh(c)'
    BY <1>1, <1>4, <1>6 DEF Fresh, Exists
  <2>3. QED
    BY <1>1, <1>2, <1>4, <1>6, <2>1, <2>2 DEF Followed, Served, Kept
<1>7. CASE user[c] # u
  <2>1. user[c] \in User => (Fresh(c)' <=> Fresh(c)) /\ status'[user[c]] = status[user[c]]
    BY <1>1, <1>4, <1>7 DEF Fresh, Exists
  <2>2. (\E b \in Conn : c \in Left(b)) => \E b \in Conn : c \in Left(b)'
    BY <1>2, <1>3
  <2>3. (\E b \in Conn : c \in ToClose(b)) => \E b \in Conn : c \in ToClose(b)'
    BY <1>2, <1>3
  <2>4. pc[c] \in {"hashing", "welcomed"} \/ c \in Roster => user[c] \in User
    BY DEF Roster
  <2>5. c \in missed' <=> c \in missed
    BY <1>1, <1>7
  <2>6. Served(c) /\ user[c] \in User => Served(c)'
    BY <2>1, <2>2 DEF Served
  <2>7. Kept(c) /\ user[c] \in User => Kept(c)'
    BY <1>1, <2>1, <2>3 DEF Kept
  <2>8. QED
    BY <1>1, <1>2, <1>5, <2>1, <2>4, <2>5, <2>6, <2>7 DEF Followed
<1>8. QED
  BY <1>6, <1>7

LEMMA LoopFollows ==
    ASSUME FollowInv, NEW a \in Conn, Refresh(a) \/ SyncEnds(a) \/ SyncAborts(a) \/ Close(a)
    PROVE  \A c \in Conn : Followed(c)'
<1> USE DEF FollowInv, AdminInv, Core, Names
<1>1. UNCHANGED <<store, user>>
  BY DEF Refresh, SyncEnds, SyncAborts, Close
<1>2. UNCHANGED <<status, Granted>> /\ \A u \in User : Exists(u)' <=> Exists(u)
  BY <1>1 DEF store, Granted, Exists
<1> SUFFICES ASSUME NEW c \in Conn PROVE Followed(c)'
  OBVIOUS
<1>3. Followed(c) /\ (c \in Roster => user[c] \in User)
  BY DEF Roster
<1>4. CASE Refresh(a)
  <2>1. PICK d \in Left(a) :
          /\ cached' = [cached EXCEPT ![d] = Granted[user[d]]]
          /\ task' = [task EXCEPT ![a].seen = @ \cup {d}]
    BY <1>4 DEF Refresh
  <2>2. UNCHANGED <<pc, closed, missed>> /\ Roster' = Roster
    BY <1>4 DEF Refresh, Roster
  <2>3. d \in Conn /\ d \in Roster
    BY DEF Left, Clients, Roster
  <2>4. \A b \in Conn : b # a => Left(b)' = Left(b) /\ ToClose(b)' = ToClose(b)
    BY <1>1, <2>1, <2>2, OtherLoops DEF TypeOK
  <2>5. /\ task'[a].seen = task[a].seen \cup {d} /\ task'[a].wanted = task[a].wanted
        /\ task'[a].ban = task[a].ban /\ task'[a].list = task[a].list
    BY <2>1 DEF TypeOK
  <2>6. \A us : Clients(us)' = Clients(us)
    BY <1>1, <2>2 DEF Clients
  <2>7. ToClose(a)' = ToClose(a) /\ Left(a)' = Left(a) \ {d}
    BY <2>2, <2>5, <2>6 DEF ToClose, Left
  <2>8. c # d => (Fresh(c)' <=> Fresh(c)) \/ user[c] \notin User
    BY <1>1, <1>2, <2>1, <2>3 DEF Fresh, TypeOK
  <2>9. c = d => cached'[c] = Granted'[user'[c]]
    BY <1>1, <1>2, <2>1, <2>3 DEF TypeOK
  <2>10. Served(c) /\ user[c] \in User => Served(c)'
    <3>1. CASE c = d
      BY <2>9, <3>1 DEF Served, Fresh
    <3>2. CASE c # d
      BY <2>4, <2>7, <2>8, <3>2 DEF Served
    <3>3. QED
      BY <3>1, <3>2
  <2>11. Kept(c) => Kept(c)'
    BY <1>1, <1>2, <2>4, <2>7 DEF Kept
  <2>12. pc[c] = "welcomed" => c # d /\ user[c] \in User
    BY <2>3 DEF Roster
  <2>13. QED
    BY <1>1, <1>2, <1>3, <2>2, <2>8, <2>10, <2>11, <2>12 DEF Followed
<1>5. CASE SyncAborts(a)
  <2>1. /\ pc' = [pc EXCEPT ![a] = "gone"] /\ task' = [task EXCEPT ![a] = NoTask]
        /\ UNCHANGED <<cached, closed>> /\ missed' = missed \cup Left(a) \cup ToClose(a)
    BY <1>5 DEF SyncAborts
  <2>2. Roster' = Roster \ {a}
    BY <2>1 DEF Roster, TypeOK
  <2>3. \A us : Clients(us)' = Clients(us) \ {a}
    BY <1>1, <2>2 DEF Clients
  <2>4. \A b \in Conn : b # a => pc'[b] = pc[b] /\ task'[b] = task[b]
    BY <2>1 DEF TypeOK
  <2>5. \A b \in Conn : b # a => Left(b) \ {a} \subseteq Left(b)' /\ ToClose(b) \ {a} \subseteq ToClose(b)'
    BY <2>3, <2>4 DEF Left, ToClose
  <2>6. CASE c = a
    BY <1>1, <1>2, <1>3, <2>1, <2>2, <2>6 DEF Followed, TypeOK
  <2>7. CASE c # a
    <3>2. c \notin missed' /\ Served(c) /\ user[c] \in User => Served(c)'
      <4>1. c \notin missed' => c \notin Left(a)
        BY <2>1
      <4>2. Fresh(c) /\ user[c] \in User => Fresh(c)'
        BY <1>1, <1>2, <2>1 DEF Fresh
      <4>3. QED
        BY <2>5, <2>7, <4>1, <4>2 DEF Served
    <3>3. c \notin missed' /\ Kept(c) => Kept(c)'
      <4>1. c \notin missed' => c \notin ToClose(a)
        BY <2>1
      <4>2. \A b \in Conn : c \in ToClose(b) /\ b # a => c \in ToClose(b)'
        BY <2>5, <2>7
      <4>3. status'[user'[c]] = status[user[c]]
        BY <1>1, <1>2
      <4>4. QED
        BY <4>1, <4>2, <4>3 DEF Kept
    <3>4. Fresh(c) /\ user[c] \in User => Fresh(c)'
      BY <1>1, <1>2, <2>1 DEF Fresh
    <3>5. pc'[c] = pc[c]
      BY <2>4, <2>7
    <3>6. QED
      BY <1>1, <1>2, <1>3, <2>1, <2>2, <3>2, <3>3, <3>4, <3>5 DEF Followed
  <2>8. QED
    BY <2>6, <2>7
<1>6. CASE SyncEnds(a)
  <2>1. /\ StartClosing(a, ToClose(a)) /\ pc[a] = "syncing" /\ Left(a) = {}
        /\ UNCHANGED <<cached, closed, missed>> /\ ToClose(a) \in SUBSET Conn
    BY <1>6 DEF SyncEnds, Unmoved, ToClose
  <2>2. /\ Roster' = Roster
        /\ \A b \in Conn : b # a => Left(b)' = Left(b) /\ ToClose(b)' = ToClose(b)
        /\ ToClose(a)' = ToClose(a)
        /\ pc'[c] \in {"hashing", "welcomed"} <=> pc[c] \in {"hashing", "welcomed"}
        /\ pc'[c] = "welcomed" <=> pc[c] = "welcomed"
    BY <1>1, <2>1, ClosingFollows
  <2>3. Fresh(c) /\ user[c] \in User => Fresh(c)'
    BY <1>1, <1>2, <2>1 DEF Fresh
  <2>4. Served(c) /\ user[c] \in User => Served(c)'
    BY <2>1, <2>2, <2>3 DEF Served
  <2>5. Kept(c) => Kept(c)'
    BY <1>1, <1>2, <2>2 DEF Kept
  <2>6. QED
    BY <1>1, <1>2, <1>3, <2>1, <2>2, <2>3, <2>4, <2>5 DEF Followed
<1>7. CASE Close(a)
  <2>1. PICK d \in task[a].list : closed' = closed \cup {d} /\ StartClosing(a, task[a].list \ {d})
    BY <1>7 DEF Close
  <2>2. /\ pc[a] = "closing" /\ UNCHANGED <<cached, missed>>
        /\ task[a].list \ {d} \in SUBSET Conn /\ task[a].list \in SUBSET Conn
    BY <1>7 DEF Close, TypeOK
  <2>3. /\ Roster' = Roster
        /\ \A b \in Conn : b # a => Left(b)' = Left(b) /\ ToClose(b)' = ToClose(b)
        /\ ToClose(a)' = task[a].list \ {d}
        /\ pc'[c] \in {"hashing", "welcomed"} <=> pc[c] \in {"hashing", "welcomed"}
        /\ pc'[c] = "welcomed" <=> pc[c] = "welcomed"
    BY <1>1, <2>1, <2>2, ClosingFollows
  <2>4. Left(a) = {} /\ ToClose(a) = task[a].list
    BY <2>2 DEF Left, ToClose
  <2>5. Fresh(c) /\ user[c] \in User => Fresh(c)'
    BY <1>1, <1>2, <2>2 DEF Fresh
  <2>6. Served(c) /\ user[c] \in User => Served(c)'
    BY <2>3, <2>4, <2>5 DEF Served
  <2>7. c \notin closed' /\ Kept(c) => Kept(c)'
    <3>1. c \notin closed' => c # d
      BY <2>1
    <3>2. QED
      BY <1>1, <1>2, <2>3, <2>4, <3>1 DEF Kept
  <2>8. closed \subseteq closed'
    BY <2>1
  <2>9. QED
    BY <1>1, <1>2, <1>3, <2>2, <2>3, <2>5, <2>6, <2>7, <2>8 DEF Followed
<1>8. QED
  BY <1>4, <1>5, <1>6, <1>7

\* A step of one connection that touches no loop: the others keep theirs.
LEMMA ConnectionFollows ==
    ASSUME FollowInv, NEW c \in Conn, Connection(c)
    PROVE  \A d \in Conn : Followed(d)'
<1> USE DEF FollowInv, AdminInv, Core, Names
<1>1. /\ UNCHANGED task
      /\ \A d \in Conn : d # c => pc'[d] = pc[d] /\ user'[d] = user[d] /\ cached'[d] = cached[d]
      /\ \A d \in Conn : d # c => (d \in missed' <=> d \in missed) /\ (d \in closed' <=> d \in closed)
  BY DEF Connection, Register, LogIn, LogInFails, Welcome, Activate, LogOut, Leave, TypeOK
<1>2. pc[c] \notin {"syncing", "closing"} /\ pc'[c] \notin {"syncing", "closing"}
  BY DEF Connection, Register, LogIn, LogInFails, Welcome, Activate, LogOut, Leave, TypeOK
<1>3. \A u \in User : status[u] # "new" => /\ status'[u] = status[u] /\ Granted'[u] = Granted[u]
                                         /\ (Exists(u)' <=> Exists(u))
  BY DEF Connection, Register, LogIn, LogInFails, Welcome, Activate, LogOut, Leave, TypeOK,
         store, Granted, Exists
<1>4. ASSUME NEW d \in Conn, d # c PROVE Followed(d)'
  <2>1. Followed(d) /\ (d \in Roster' <=> d \in Roster)
    BY <1>1, <1>4 DEF Roster
  <2>2. \A us : d \in Clients(us)' <=> d \in Clients(us)
    BY <1>1, <1>4, <2>1 DEF Clients
  <2>3. \A b \in Conn : (d \in Left(b)' <=> d \in Left(b)) /\ (d \in ToClose(b)' <=> d \in ToClose(b))
    <3>1. SUFFICES ASSUME NEW b \in Conn
                   PROVE  (d \in Left(b)' <=> d \in Left(b)) /\ (d \in ToClose(b)' <=> d \in ToClose(b))
      OBVIOUS
    <3>2. CASE b = c
      BY <1>2, <3>2 DEF Left, ToClose
    <3>3. CASE b # c
      BY <1>1, <2>2, <3>3 DEF Left, ToClose
    <3>4. QED
      BY <3>2, <3>3
  <2>4. d \in Roster \/ pc[d] \in {"hashing", "welcomed"} => user[d] \in User
    BY DEF Roster
  <2>5. user[d] \in User => (Fresh(d)' <=> Fresh(d)) /\ status'[user'[d]] = status[user[d]]
    BY <1>1, <1>3, <1>4, <2>1 DEF Followed, Fresh
  <2>6. user[d] \in User => (Served(d)' <=> Served(d)) /\ (Kept(d)' <=> Kept(d))
    BY <2>3, <2>5 DEF Served, Kept
  <2>7. QED
    BY <1>1, <1>4, <2>1, <2>4, <2>5, <2>6 DEF Followed
<1>5. Followed(c)'
  <2>1. ASSUME NEW u \in User, Register(c, u) \/ LogIn(c, u) PROVE Followed(c)'
    BY <2>1 DEF Register, LogIn, Followed, Roster, TypeOK, store
  <2>2. CASE LogInFails(c)
    BY <2>2, AccountsAssumption DEF LogInFails, Followed, Roster, TypeOK, store
  <2>3. CASE Welcome(c)
    <3>1. UNCHANGED <<status, Granted, user, closed, missed>> /\ pc'[c] = "welcomed" /\ pc[c] = "hashing"
      BY <2>3 DEF Welcome, store, Granted, Exists, TypeOK
    <3>2. cached'[c] = Granted'[user'[c]]
      BY <2>3, <3>1 DEF Welcome, TypeOK
    <3>3. QED
      BY <3>1, <3>2 DEF Followed, Fresh, Roster
  <2>4. CASE Activate(c) \/ LogOut(c) \/ Leave(c)
    <3>1. UNCHANGED <<status, Granted, user, missed>> /\ (Exists(user[c])' <=> Exists(user[c]))
      BY <2>4 DEF Activate, LogOut, Leave, store, Granted, Exists
    <3>2. CASE Activate(c)
      <4>1. pc[c] = "welcomed" /\ pc'[c] = "ready" /\ UNCHANGED <<cached, closed>>
        BY <3>2 DEF Activate, TypeOK
      <4>2. Fresh(c) => Fresh(c)'
        BY <3>1, <4>1 DEF Fresh
      <4>3. QED
        BY <3>1, <4>1, <4>2 DEF Followed, Served, Kept, Roster
    <3>3. CASE LogOut(c) \/ Leave(c)
      BY <3>1, <3>3 DEF LogOut, Leave, Followed, Roster, TypeOK
    <3>4. QED
      BY <2>4, <3>2, <3>3
  <2>5. QED
    BY <2>1, <2>2, <2>3, <2>4 DEF Connection
<1>6. QED
  BY <1>4, <1>5

LEMMA FollowNext == FollowInv /\ [Next]_vars => FollowInv'
<1> SUFFICES ASSUME FollowInv, [Next]_vars PROVE \A c \in Conn : Followed(c)'
  BY AdminNext DEF FollowInv
<1>1. CASE Restart
  BY <1>1, AccountsAssumption DEF Restart, Followed, Roster
<1>2. CASE \E c \in Conn : Connection(c)
  BY <1>2, ConnectionFollows
<1>3. ASSUME NEW a \in Conn, Administration(a) PROVE \A c \in Conn : Followed(c)'
  <2>1. CASE \E r \in Role : CreateRole(a, r)
    <3>1. UNCHANGED <<status, role, perm, pc, user, cached, closed, task, missed>>
      BY <2>1 DEF CreateRole
    <3>2. QED
      BY <3>1 DEF FollowInv, Followed, Served, Kept, Fresh, Left, ToClose, Clients, Roster, Granted, Exists
  <2>2. CASE \E u \in User : DeleteUser(a, u)
    BY <2>2, DeletionFollows
  <2>3. CASE Refresh(a) \/ SyncEnds(a) \/ SyncAborts(a) \/ Close(a)
    BY <2>3, LoopFollows
  <2>4. QED
    BY <1>3, <2>1, <2>2, <2>3, ChangeFollows DEF Administration
<1>4. CASE UNCHANGED vars
  BY <1>4 DEF vars, store, FollowInv, Followed, Served, Kept, Fresh, Left, ToClose, Clients, Roster,
     Granted, Exists
<1>5. QED
  BY <1>1, <1>2, <1>3, <1>4 DEF Next

\* UpToDate, for any number of administrators at work at once and any number
\* of connections: a loop over the roster loses nobody but those that were
\* between log-in and activation, and those of a loop that raised.
THEOREM NobodyForgotten == Spec => []UpToDate
<1>1. Init => FollowInv
  BY AdminInit, FollowInit DEF FollowInv
<1>2. FollowInv => UpToDate
  <2>1. SUFFICES ASSUME FollowInv, NEW c \in Roster \ (missed \cup closed)
                 PROVE  ~Stale(c) /\ (status[user[c]] # "active" => \E a \in Conn : c \in ToClose(a))
    BY DEF UpToDate
  <2>2. Served(c) /\ Kept(c)
    BY <2>1 DEF FollowInv, Followed, Roster
  <2>3. QED
    BY <2>2 DEF Served, Kept, Stale, Fresh
<1>3. QED
  BY <1>1, <1>2, FollowNext, PTL DEF Spec

\* Connections and accounts belong together, for any finite sets of both.
THEOREM RosterIsConsistent == Spec => []RosterConsistent
BY Types, NobodyForgotten, PTL DEF RosterConsistent
=============================================================================
