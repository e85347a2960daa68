\* run_notifications_thread called after login: /l logs out and the
\* poller keeps calling psd_recv_notifications.
CONSTANTS
  Main = Main
  Pollers = {p1}
  NoThread = NoThread
  StartPoller = TRUE
  SignalAt <- AtPrompt
  MaxSignals = 1
  TransportFaults = FALSE
SPECIFICATION Spec
PROPERTY SessionCallsWhileLogged
