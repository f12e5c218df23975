SPECIFICATION AllSpec
CONSTANTS
  Parts = {"debugger"}
  Simulators <- MCSimulators
  Library <- MCLibrary
  Home = "home"
  Codes <- MCCodes
  MaxInsn = 2
  Users <- Elsewhere
PROPERTY ContinuesThere
CHECK_DEADLOCK FALSE
