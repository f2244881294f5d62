INIT Init
NEXT Next
CONSTANTS
  Absent = Absent
  Malformed = Malformed
  Default <- MCDefault
  Words <- MCWords
  MaxOptions = 4
  SupportedBaud = {57600, 115200, 460800, 921600}
  Addresses = {"0.0.0.0", "10.0.0.1"}
INVARIANTS
  TypeOK
  LaunchIsWhatWasAsked
  AcceptedLaunchesStart
  TerminalIsRestored
CHECK_DEADLOCK FALSE
