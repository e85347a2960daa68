\* Shipped build: after a leave_chat the server accepted, menu_chat
\* stays in its loop and sends the next line to the chat it left.
CONSTANTS
  Main = Main
  Pollers = {p1}
  NoThread = NoThread
  StartPoller = FALSE
  SignalAt <- AtPrompt
  MaxSignals = 1
  TransportFaults = FALSE
SPECIFICATION Spec
INVARIANT ChatCallsWhileMember
