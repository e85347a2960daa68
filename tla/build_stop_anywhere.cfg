\* The build as shipped, a signal at any point of the menu thread.
CONSTANTS
  Main = Main
  Pollers = {p1}
  NoThread = NoThread
  StartPoller = FALSE
  SignalAt <- Anywhere
  MaxSignals = 1
  TransportFaults = FALSE
SPECIFICATION Spec
PROPERTY StopTerminates
CHECK_DEADLOCK FALSE
