SPECIFICATION Spec
CONSTANTS
  dash = dash
  underscore = underscore
  office = office
  addr1 = addr1
  addr2 = addr2
  Routers = {dash, underscore, office}
  Single = Single
  EnvName <- MCEnvName
  Addresses = {addr1, addr2}
  None = None
  Unset = Unset
  Bad = Bad
  Environments <- MCEnvironments
INVARIANTS DocumentedSettings UpOrNothing
CHECK_DEADLOCK FALSE
