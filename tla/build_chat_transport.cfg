\* Shipped build with transport failures: a reply lost after the server
\* applied psd_create_chat, psd_add_member_to_chat or psd_quit_from_chat.
CONSTANTS
  Main = Main
  Pollers = {p1}
  NoThread = NoThread
  StartPoller = FALSE
  SignalAt <- AtPrompt
  MaxSignals = 0
  TransportFaults = TRUE
SPECIFICATION Spec
PROPERTY NewChatAllOrNothing
