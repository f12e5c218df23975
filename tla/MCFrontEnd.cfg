SPECIFICATION AllSpec
CONSTANTS
  Parts = {"options", "process", "debugger"}
  Simulators <- MCSimulators
  Library <- MCLibrary
  Home = "home"
  Codes <- MCCodes
  MaxInsn = 2
  Users <- MCUsers
INVARIANTS OptionsExact ProcessEnds
PROPERTIES Terminates DebuggerExact
CHECK_DEADLOCK FALSE
