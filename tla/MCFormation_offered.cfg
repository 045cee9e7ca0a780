SPECIFICATION FormationSpec
CONSTANTS
  p1 = p1
  p2 = p2
  p3 = p3
  NoWallet = NoWallet
  Protocols = {p1, p2, p3}
  MaxMembers = 2
  Thresholds <- MCThresholds
  Tab <- MCTab
  Named <- MCNamed
  ScriptRoles = {"Responder"}
PROPERTIES
  Offered
CHECK_DEADLOCK FALSE
