\* run_notifications_thread called after login; the user leaves with /e.
CONSTANTS
  Main = Main
  Pollers = {p1}
  NoThread = NoThread
  StartPoller = TRUE
  SignalAt <- AtPrompt
  MaxSignals = 0
  TransportFaults = FALSE
SPECIFICATION Spec
INVARIANT PollerGoneAtReturn
CHECK_DEADLOCK FALSE
