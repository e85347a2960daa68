\* Shipped build: Ctrl-C or end of input at menu_main's prompt returns
\* from graphic_client_run without psd_logout.
CONSTANTS
  Main = Main
  Pollers = {p1}
  NoThread = NoThread
  StartPoller = FALSE
  SignalAt <- AtPrompt
  MaxSignals = 1
  TransportFaults = FALSE
SPECIFICATION Spec
INVARIANT LoggedOutAtExit
