\* The build as shipped (run_notifications_thread not called): Ctrl-C at
\* the prompt ends the client.
CONSTANTS
  Main = Main
  Pollers = {p1}
  NoThread = NoThread
  StartPoller = FALSE
  SignalAt <- AtPrompt
  MaxSignals = 1
  TransportFaults = FALSE
SPECIFICATION Spec
INVARIANT TypeOK CredentialsRead
PROPERTY StopTerminates SessionCallsWhileLogged NewChatAllOrNothing
