\* Shipped build: menu_chat clears has_attach after send_message whatever
\* its result, so a failed send drops the file the user attached with /t.
CONSTANTS
  Main = Main
  Pollers = {p1}
  NoThread = NoThread
  StartPoller = FALSE
  SignalAt <- AtPrompt
  MaxSignals = 1
  TransportFaults = FALSE
SPECIFICATION Spec
PROPERTY AttachmentKeptOnFailedSend
