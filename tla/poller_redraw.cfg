\* run_notifications_thread called after login, no signal.
CONSTANTS
  Main = Main
  Pollers = {p1}
  NoThread = NoThread
  StartPoller = TRUE
  SignalAt <- AtPrompt
  MaxSignals = 0
  TransportFaults = FALSE
SPECIFICATION Spec
PROPERTY RedrawOnlyWhenUpdateable
CHECK_DEADLOCK FALSE
