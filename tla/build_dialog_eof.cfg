\* End of input or Ctrl-C at a dialog prompt of the shipped build: the
\* dialogs that ignore scan_input_string's result call psd_* anyway.
CONSTANTS
  Main = Main
  Pollers = {p1}
  NoThread = NoThread
  StartPoller = FALSE
  SignalAt <- AtPrompt
  MaxSignals = 1
  TransportFaults = FALSE
SPECIFICATION Spec
INVARIANT TypedArgumentsRead
