-------------------------- MODULE MCClientGraphic --------------------------
(* Instantiates ClientGraphic for TLC.                                     *)
EXTENDS ClientGraphic

\* SIGINT pressed while the menu thread waits for a line, at a menu's
\* prompt or a dialog's, which is where a person at the terminal presses it.
AtPrompt == {"read"} \cup DOMAIN DialogReads \cup DOMAIN WaitUser

\* SIGABRT raised on the poller thread while it sleeps between polls.
PollerAsleep == {"sleep"}

\* A signal at any point of any live thread (SIGTERM from another process,
\* SIGABRT raised by either thread).
Anywhere == (MainPCs \cup PollerPCs) \ {"returned", "unstarted", "done"}
=============================================================================
