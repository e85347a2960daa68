\* run_notifications_thread called after login; the stop signal is taken
\* by the poller thread while it sleeps between polls (SIGABRT raised
\* there, or SIGTERM delivered to it), and the user types nothing more.
CONSTANTS
  Main = Main
  Pollers = {p1}
  NoThread = NoThread
  StartPoller = TRUE
  SignalAt <- PollerAsleep
  MaxSignals = 1
  TransportFaults = FALSE
SPECIFICATION Spec
INVARIANT TypeOK
PROPERTY StopTerminates
