SPECIFICATION MCSpec
CONSTANTS
  None = None
  MaxLevel = 1
  LastPreset = 1
  MaxUnderWay = 2
  Names = {ann, bob}
  Roles = {"admin", "user", "guide"}
  Users = {u1}
  Walls = {w1, w2}
  Ambiances = {a1, a2}
  Items = {i1, i2}
  Peers = {p1}
  MaxOutside = 1
  Casts = {"commands", "walls", "ambiances", "admin", "items"}
INVARIANTS
    EscapeLeadsOut
    PreviewsSettle
    PageConsistent
PROPERTIES
    SendsAreMeant
