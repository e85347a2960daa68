\* run_notifications_thread called after login: Ctrl-C at the prompt,
\* one poller thread.
CONSTANTS
  Main = Main
  Pollers = {p1}
  NoThread = NoThread
  StartPoller = TRUE
  SignalAt <- AtPrompt
  MaxSignals = 1
  TransportFaults = FALSE
SPECIFICATION Spec
PROPERTY StopReachesRunningPoller
