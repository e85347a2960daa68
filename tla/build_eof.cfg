\* The build as shipped, no signal: the terminal input ends.
CONSTANTS
  Main = Main
  Pollers = {p1}
  NoThread = NoThread
  StartPoller = FALSE
  SignalAt <- AtPrompt
  MaxSignals = 0
  TransportFaults = FALSE
SPECIFICATION Spec
PROPERTY EOFTerminates
CHECK_DEADLOCK FALSE
