\* Two calls at a time on methods of every shape, three in all.
CONSTANTS
  c1 = c1  c2 = c2  p1 = p1
  Calls = {c1, c2}
  Asked = {"CreateOrder", "GetOrder", "AssignPerformer", "SetUserPermissions", "DisableUser", "EnableUser", "RedeemTelegramLink"}
  Performers = {p1}
  TTL = 1
  MaxTime = 1
  MaxCalls = 3
  MaxFaults = 1
SYMMETRY Symmetry
SPECIFICATION Spec
INVARIANTS RightsHeld TeamChecked CodesTell InvalidHasACause AllCounted
