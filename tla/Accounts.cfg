SPECIFICATION Spec
CONSTANTS
    u1 = u1
    u2 = u2
    c1 = c1
    c2 = c2
    c3 = c3
    manage = manage
    chat = chat
    User <- TwoUsers
    Conn <- TwoConns
    Role <- ThreeRoles
    Permission <- TwoPermissions
    BuiltIn <- SeededRoles
    Defaults <- SeededDefaults
    RoleManage = manage
    ChangeRole = manage
    BanUnban = manage
    DeleteAny = manage
    NoUser = NoUser
SYMMETRY Symmetry2
INVARIANTS
    FullAdminRemains
    RosterConsistent
