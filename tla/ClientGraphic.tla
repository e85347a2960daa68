--------------------------- MODULE ClientGraphic ---------------------------
(***************************************************************************)
(* The console client of PSD-IMS (src/src/client/client_graphic_v2.c):     *)
(* the interactive menu thread, the notification poller thread and the     *)
(* stop_client signal handler, with the three mutexes of client_graphic    *)
(* and the stdin stream that ends every menu.                              *)
(*                                                                         *)
(* Each mutex-protected macro (get_/set_continue_*, set_screen_updateable, *)
(* screen_update) is two steps, lock and unlock, so that a signal may      *)
(* arrive while the interrupted thread holds the mutex.  The handler runs  *)
(* on the stack of the thread it interrupts: while hpc[t] # "none" the     *)
(* thread's own code does not run.  RPC calls into psd_ims_client change   *)
(* nothing here except the login state.                                    *)
(***************************************************************************)
EXTENDS Naturals, Sequences, SequencesExt

CONSTANTS
  Main,         \* the thread that runs graphic_client_run
  Pollers,      \* thread slots for notifications_fetch threads
  NoThread,     \* notifications_tid = -1
  StartPoller,  \* TRUE when run_notifications_thread is called after login
  SignalAt,     \* program points at which SIGINT/SIGTERM may arrive
  MaxSignals,   \* signals delivered in one behaviour
  TransportFaults \* TRUE: a call can fail in transport, before or after the
                  \* server applied it

ASSUME /\ Main \notin Pollers
       /\ NoThread \notin Pollers \cup {Main}
       /\ StartPoller \in BOOLEAN
       /\ MaxSignals \in Nat
       /\ TransportFaults \in BOOLEAN

Threads == {Main} \cup Pollers
Mutexes == {"continue_fetching", "continue_graphic", "screen_update"}

\* The dialogs the menus call (login, user_register, create_new_chat,
\* send_friend_request, add_member_to_chat, attach_file): each
\* scan_input_string and the point it leads to when it returns a line.
DialogReads == [regName |-> "regPass", regPass |-> "regInfo",
                regInfo |-> "regCall", logName |-> "logPass",
                logPass |-> "logCall", newMember |-> "newDesc",
                newDesc |-> "newCall", frName |-> "frCall",
                addName |-> "addCall", attInfo |-> "getCont"]

\* Fault model for CheckedReads: login's password read is not checked.
CheckedReadsNoPass ==
  {"regName", "regPass", "regInfo", "logName"}

\* The reads followed by `if (ret < 0) return -1;`: those of
\* user_register and login.  The others ignore the result.
CheckedReads ==
  {"regName", "regPass", "regInfo", "logName", "logPass"}

\* wait_user (FLUSH_INPUT up to a newline or EOF) and where the code goes
\* on: back to the menu's loop; from retrieve_user_data's failure to the
\* wait_user of login; from login's last wait_user into menu_main.
WaitUser == [wait |-> "getCont", fetchWait |-> "logWait", logWait |-> "main"]

\* The psd_* calls of the dialogs, retrieve_user_data ("fetch") and the
\* fopen of attach_file ("attach"): each returns success or failure.
CallPCs == {"regCall", "logCall", "fetch", "newCall", "newAdd", "newQuit",
            "frCall", "addCall", "leaveCall", "accCall", "sendCall", "attach"}

\* The calls that need the session psd_login opened.
SessionCalls == {"fetch", "newCall", "newAdd", "newQuit", "frCall",
                 "addCall", "leaveCall", "accCall", "sendCall"}

\* The calls whose arguments are buffers the dialog read from stdin.
\* The calls menu_chat makes for its chat_id.
ChatCalls == {"addCall", "leaveCall", "sendCall"}
TypedCalls == {"regCall", "logCall", "newCall", "newAdd", "frCall",
               "addCall"}

\* Program points of the menu thread; "returned": graphic_client_run has
\* returned and the process exits.
MainPCs == {"setUpdTrue", "setUpdTrueRel", "draw", "drawRel", "read",
            "setUpdFalse", "setUpdFalseRel", "dispatch", "getCont",
            "getContRel", "returned"}
           \cup DOMAIN DialogReads \cup DOMAIN WaitUser \cup CallPCs
PollerPCs == {"unstarted", "start", "sleep", "drawLock", "drawRel",
              "flagLock", "flagCheck", "done"}
HandlerPCs == {"none", "cfLock", "cfSet", "join", "cgLock", "cgSet"}

\* The input line classes the menus tell apart: "zero", "one", "two" are
\* one-character numeric lines, Cmds the two-character commands /e, /l,
\* /r, /n, /f, /a, /d, /t, "text" any other line, "empty" the empty line.
Cmds == {"e", "l", "r", "n", "f", "a", "d", "t"}
Lines == {"empty", "zero", "one", "two", "text"} \cup Cmds
\* input_buffer[0] after reading a line.
FirstChar(l) == CASE l = "zero" -> "0" [] l = "one" -> "1" [] l = "two" -> "2"
                  [] l \in Cmds -> "/" [] OTHER -> "x"
Chars == {"0", "1", "2", "/", "x"}
\* The length scan_input_string returns for a line of each class.
LineLen(l) == CASE l = "empty" -> 0 [] l \in {"zero", "one", "two"} -> 1
                [] OTHER -> 2

Menus == {"login", "main", "chat", "freq"}
\* A menu_* activation: its local `exit`, and whether its local `cont` has
\* been assigned (it is TRUE whenever it has, inside the loop).
Frame(m, c) == [m |-> m, exit |-> FALSE, contSet |-> c]
Frames == [m : Menus, exit : BOOLEAN, contSet : BOOLEAN]

VARIABLES
  pc,                 \* program point of each thread
  hpc,                \* program point of a stop_client frame on a thread
  owner,              \* holder of each pthread mutex
  continue_fetching,
  continue_graphic,
  screen_updateable,
  notifications_tid,
  stack,              \* the menu_* calls active on the menu thread
  line,               \* what the last get_user_input returned
  buf0,               \* graphic->input_buffer[0]
  stdin,              \* "open", "eof" (end of input) or "closed" (fclose)
  logged,             \* between psd_login and psd_logout
  signals,            \* signals delivered so far
  argsOk,             \* every scan_input_string of the current dialog
                      \* returned a line: its buffers are initialised
  newChat,            \* on the server, the chat create_new_chat is making:
                      \* "none", "me" (the user only), "both" (the user
                      \* and the member), "member" (the member only)
  inChat,             \* on the server, the user is a member of the chat
                      \* whose id menu_chat was entered with
  hasAttach           \* menu_chat's chat_data->has_attach

vars == <<pc, hpc, owner, continue_fetching, continue_graphic,
          screen_updateable, notifications_tid, stack, line, buf0, stdin,
          logged, signals, argsOk, newChat, inChat, hasAttach>>

TypeOK ==
  /\ DOMAIN pc = Threads
  /\ pc[Main] \in MainPCs /\ \A p \in Pollers : pc[p] \in PollerPCs
  /\ hpc \in [Threads -> HandlerPCs]
  /\ owner \in [Mutexes -> Threads \cup {NoThread}]
  /\ {continue_fetching, continue_graphic, screen_updateable} \subseteq BOOLEAN
  /\ notifications_tid \in Pollers \cup {NoThread}
  /\ stack \in Seq(Frames) /\ Len(stack) <= 3
  /\ line \in Lines \cup {"EOF"}
  /\ buf0 \in Chars
  /\ stdin \in {"open", "eof", "closed"}
  /\ logged \in BOOLEAN
  /\ signals \in 0..MaxSignals
  /\ argsOk \in BOOLEAN
  /\ newChat \in {"none", "me", "both", "member"}
  /\ inChat \in BOOLEAN /\ hasAttach \in BOOLEAN

-----------------------------------------------------------------------------
(* graphic_client_run: the flags as initialised, the handlers installed,  *)
(* menu_login entered.  input_buffer is not initialised: its first byte   *)
(* is whatever the stack held.                                            *)
Init ==
  /\ pc = [t \in Threads |-> IF t = Main THEN "setUpdTrue" ELSE "unstarted"]
  /\ hpc = [t \in Threads |-> "none"]
  /\ owner = [m \in Mutexes |-> NoThread]
  /\ continue_graphic = TRUE
  /\ continue_fetching = FALSE
  /\ screen_updateable = FALSE
  /\ notifications_tid = NoThread
  /\ stack = << Frame("login", TRUE) >>
  /\ line = "empty"
  /\ buf0 \in Chars
  /\ stdin = "open"
  /\ logged = FALSE
  /\ signals = 0
  /\ argsOk = TRUE
  /\ newChat = "none"
  /\ inChat = FALSE /\ hasAttach = FALSE

\* A thread runs its own code when no handler frame is on top of it; once
\* graphic_client_run has returned the process is gone.
Runs(t) == hpc[t] = "none" /\ pc[Main] # "returned"

Goto(t, from, to) == pc[t] = from /\ pc' = [pc EXCEPT ![t] = to]

Lock(t, m) == owner[m] = NoThread /\ owner' = [owner EXCEPT ![m] = t]
Unlock(t, m) == owner[m] = t /\ owner' = [owner EXCEPT ![m] = NoThread]

Top == Last(stack)
SetTop(f) == stack' = [stack EXCEPT ![Len(stack)] = f]

\* A menu function returns: its caller resets the screen callback with
\* set_screen_update (lock, write, unlock) and goes on to the
\* get_continue_graphic of its own loop; menu_login returning ends
\* graphic_client_run.  psd_logout runs when menu_main's loop ends.
LeaveMenu(logout) ==
  /\ stack' = Front(stack)
  /\ logged' = (logged /\ ~logout)
  /\ IF Len(stack) = 1
       THEN pc' = [pc EXCEPT ![Main] = "returned"]
       ELSE /\ owner["screen_update"] = NoThread
            /\ pc' = [pc EXCEPT ![Main] = "getCont"]

\* `continue` in a do-while jumps to the test of the local `cont`, which
\* menu_friend_req never initialises: reading it may give either value.
ContinueLoop ==
  \/ /\ pc' = [pc EXCEPT ![Main] = "setUpdTrue"]
     /\ UNCHANGED <<stack, logged>>
  \/ /\ ~Top.contSet
     /\ LeaveMenu(FALSE)

ToGetCont == pc' = [pc EXCEPT ![Main] = "getCont"]

-----------------------------------------------------------------------------
(* The menu thread.                                                        *)

\* set_screen_updateable(graphic, TRUE / FALSE): lock ...
SetUpdateableLock ==
  /\ Runs(Main)
  /\ pc[Main] \in {"setUpdTrue", "setUpdFalse"}
  /\ Lock(Main, "screen_update")
  /\ pc' = [pc EXCEPT ![Main] = IF pc[Main] = "setUpdTrue"
                                 THEN "setUpdTrueRel" ELSE "setUpdFalseRel"]
  /\ UNCHANGED <<hpc, continue_fetching, continue_graphic, screen_updateable,
                 notifications_tid, stack, line, buf0, stdin, logged, signals, argsOk, newChat, inChat, hasAttach>>

\* ... write and unlock.
SetUpdateableUnlock ==
  /\ Runs(Main)
  /\ pc[Main] \in {"setUpdTrueRel", "setUpdFalseRel"}
  /\ Unlock(Main, "screen_update")
  /\ screen_updateable' = (pc[Main] = "setUpdTrueRel")
  /\ pc' = [pc EXCEPT ![Main] = IF pc[Main] = "setUpdTrueRel"
                                 THEN "draw" ELSE "dispatch"]
  /\ UNCHANGED <<hpc, continue_fetching, continue_graphic, notifications_tid,
                 stack, line, buf0, stdin, logged, signals, argsOk, newChat, inChat, hasAttach>>

\* screen_update(graphic): the current screen is drawn under the mutex.
ScreenUpdateLock ==
  /\ Runs(Main)
  /\ Goto(Main, "draw", "drawRel")
  /\ Lock(Main, "screen_update")
  /\ UNCHANGED <<hpc, continue_fetching, continue_graphic, screen_updateable,
                 notifications_tid, stack, line, buf0, stdin, logged, signals, argsOk, newChat, inChat, hasAttach>>

ScreenUpdateUnlock ==
  /\ Runs(Main)
  /\ Goto(Main, "drawRel", "read")
  /\ Unlock(Main, "screen_update")
  /\ UNCHANGED <<hpc, continue_fetching, continue_graphic, screen_updateable,
                 notifications_tid, stack, line, buf0, stdin, logged, signals, argsOk, newChat, inChat, hasAttach>>

\* get_user_input / scan_input_string: the user types a line ...
GetUserInput(l) ==
  /\ Runs(Main)
  /\ stdin = "open"
  /\ Goto(Main, "read", "setUpdFalse")
  /\ line' = l
  /\ buf0' = FirstChar(l)
  /\ UNCHANGED <<hpc, owner, continue_fetching, continue_graphic,
                 screen_updateable, notifications_tid, stack, stdin, logged,
                 signals, argsOk, newChat, inChat, hasAttach>>

\* ... or getchar returns EOF: -1, input_buffer left as it was.
GetUserInputEOF ==
  /\ Runs(Main)
  /\ stdin # "open"
  /\ Goto(Main, "read", "setUpdFalse")
  /\ line' = "EOF"
  /\ UNCHANGED <<hpc, owner, continue_fetching, continue_graphic,
                 screen_updateable, notifications_tid, stack, buf0, stdin,
                 logged, signals, argsOk, newChat, inChat, hasAttach>>

\* run_notifications_thread: pthread_create, or a failure that is printed.
StartNotifications(p) ==
  \/ /\ p \in Pollers /\ pc[p] = "unstarted"
     /\ pc' = [pc EXCEPT ![Main] = "setUpdTrue", ![p] = "start"]
     /\ notifications_tid' = p
  \/ /\ p = NoThread
     /\ \A q \in Pollers : pc[q] # "unstarted"
     /\ pc' = [pc EXCEPT ![Main] = "setUpdTrue"]
     /\ UNCHANGED notifications_tid

\* A dialog is called: its buffers are fresh.
Enter(d) == pc' = [pc EXCEPT ![Main] = d] /\ argsOk' = TRUE

\* menu_login: the switch on input_buffer[0], whatever get_user_input
\* returned.  '0' exits; '1' calls user_register, '2' calls login.
MenuLogin ==
  /\ Runs(Main) /\ pc[Main] = "dispatch" /\ Top.m = "login"
  /\ \/ /\ buf0 = "0"
        /\ SetTop([Top EXCEPT !.exit = TRUE])
        /\ ToGetCont /\ UNCHANGED argsOk
     \/ buf0 = "1" /\ Enter("regName") /\ UNCHANGED stack
     \/ buf0 = "2" /\ Enter("logName") /\ UNCHANGED stack
     \/ /\ buf0 \notin {"0", "1", "2"}
        /\ ToGetCont /\ UNCHANGED <<stack, argsOk>>
  /\ UNCHANGED <<hpc, owner, continue_fetching, continue_graphic,
                 screen_updateable, notifications_tid, line, buf0, stdin,
                 logged, signals, newChat, inChat, hasAttach>>

\* menu_main: -1 returns at once (no psd_logout); an empty line continues;
\* /e and /l end the loop and set *global_exit; /n calls create_new_chat,
\* /f send_friend_request; /r and an existing chat id open a sub-menu;
\* other commands, other lines and a chat id that psd_chat_exists does not
\* know go on to the loop's test.
MenuMain ==
  /\ Runs(Main) /\ pc[Main] = "dispatch" /\ Top.m = "main"
  /\ \/ line = "EOF" /\ LeaveMenu(FALSE) /\ UNCHANGED argsOk
     \/ line = "empty" /\ ContinueLoop /\ UNCHANGED argsOk
     \/ /\ line \in {"e", "l"}
        /\ stack' = [stack EXCEPT ![Len(stack)].exit = TRUE,
                                  ![1].exit = (line = "e")]
        /\ ToGetCont /\ UNCHANGED <<logged, argsOk>>
     \/ line = "n" /\ Enter("newMember") /\ UNCHANGED <<stack, logged>>
     \/ line = "f" /\ Enter("frName") /\ UNCHANGED <<stack, logged>>
     \/ /\ line = "r"
        /\ stack' = Append(stack, Frame("freq", FALSE))
        /\ pc' = [pc EXCEPT ![Main] = "setUpdTrue"] /\ UNCHANGED <<logged, argsOk>>
     \/ /\ line \in {"zero", "one", "two"}
        /\ stack' = Append(stack, Frame("chat", TRUE))
        /\ pc' = [pc EXCEPT ![Main] = "setUpdTrue"] /\ UNCHANGED <<logged, argsOk>>
     \/ /\ line \in {"zero", "one", "two", "text", "a", "d", "t"}
        /\ ToGetCont /\ UNCHANGED <<stack, logged, argsOk>>
  /\ newChat' = IF line = "n" THEN "none" ELSE newChat
  /\ LET entered == Len(stack') > Len(stack) /\ Last(stack').m = "chat"
     IN  /\ inChat' = (entered \/ inChat)
         /\ hasAttach' = (~entered /\ hasAttach)
  /\ UNCHANGED <<hpc, owner, continue_fetching, continue_graphic,
                 screen_updateable, notifications_tid, line, buf0, stdin,
                 signals>>

\* Fault model for MenuSub: a sub-menu handles a numeric line the way
\* menu_main does, opening a chat menu inside itself.
MenuSubNests ==
  /\ Runs(Main) /\ pc[Main] = "dispatch" /\ Top.m \in {"chat", "freq"}
  /\ line \in {"zero", "one", "two"}
  /\ stack' = Append(stack, Frame("chat", TRUE))
  /\ pc' = [pc EXCEPT ![Main] = "setUpdTrue"]
  /\ UNCHANGED <<hpc, owner, continue_fetching, continue_graphic,
                 screen_updateable, notifications_tid, line, buf0, stdin,
                 logged, signals, argsOk, newChat, inChat>>
  /\ hasAttach' = FALSE

\* What a command line of menu_chat (m = "chat") or menu_friend_req does:
\* /a add_member_to_chat, /d delete_member_from_chat (wait_user only),
\* /l leave_chat, /t attach_file, a line that is no command send_message;
\* in menu_friend_req /a and /d accept or decline.  Other lines go on to
\* the loop's test.
SubCommand(m, l) ==
  IF m = "chat"
    THEN CASE l = "a" -> "addName" [] l = "d" -> "wait"
           [] l = "l" -> "leaveCall" [] l = "t" -> "attach"
           [] l \in Cmds -> "getCont" [] OTHER -> "sendCall"
    ELSE IF l \in {"a", "d"} THEN "accCall" ELSE "getCont"

\* menu_chat and menu_friend_req: -1 returns; a line shorter than the menu's
\* minimum continues; /e ends the loop; other lines run their command.
MenuSub ==
  /\ Runs(Main) /\ pc[Main] = "dispatch" /\ Top.m \in {"chat", "freq"}
  /\ LET short == IF Top.m = "chat" THEN LineLen(line) < 1
                                    ELSE LineLen(line) < 2
     IN \/ line = "EOF" /\ LeaveMenu(FALSE)
        \/ line # "EOF" /\ short /\ ContinueLoop
        \/ /\ line = "e"
           /\ SetTop([Top EXCEPT !.exit = TRUE])
           /\ ToGetCont /\ UNCHANGED logged
        \/ /\ line \notin {"EOF", "e"} /\ ~short
           /\ pc' = [pc EXCEPT ![Main] = SubCommand(Top.m, line)]
           /\ UNCHANGED <<stack, logged>>
  /\ argsOk' = TRUE
  /\ hasAttach' = (hasAttach /\ ~(Top.m = "chat" /\ line = "r"))
  /\ UNCHANGED <<hpc, owner, continue_fetching, continue_graphic,
                 screen_updateable, notifications_tid, line, buf0, stdin,
                 signals, newChat, inChat>>

-----------------------------------------------------------------------------
(* The dialogs.                                                            *)

\* login returned 0: configure_signal_handling, the poller (when the
\* commented-out run_notifications_thread call is in), menu_main.
EnterMain ==
  /\ stack' = Append(stack, Frame("main", TRUE))
  /\ IF StartPoller
       THEN \E p \in Pollers \cup {NoThread} : StartNotifications(p)
       ELSE /\ pc' = [pc EXCEPT ![Main] = "setUpdTrue"]
            /\ UNCHANGED notifications_tid

\* wait_user returns, on a newline or at EOF alike.
WaitReturns ==
  /\ pc[Main] \in DOMAIN WaitUser
  /\ IF WaitUser[pc[Main]] = "main"
       THEN EnterMain
       ELSE /\ pc' = [pc EXCEPT ![Main] = WaitUser[pc[Main]]]
            /\ UNCHANGED <<stack, notifications_tid>>

\* The user types a line at a dialog's prompt or at "Press ENTER".
DialogInput ==
  /\ Runs(Main) /\ stdin = "open"
  /\ \/ /\ pc[Main] \in DOMAIN DialogReads
        /\ pc' = [pc EXCEPT ![Main] = DialogReads[pc[Main]]]
        /\ UNCHANGED <<stack, notifications_tid>>
     \/ WaitReturns
  /\ UNCHANGED <<hpc, owner, continue_fetching, continue_graphic,
                 screen_updateable, line, buf0, stdin, logged, signals,
                 argsOk, newChat, inChat>>
  /\ hasAttach' = (hasAttach \/ pc[Main] = "attInfo")

\* getchar returns EOF in a dialog: user_register and login return -1;
\* create_new_chat, send_friend_request, add_member_to_chat and
\* attach_file go on with the buffer as it was; wait_user returns.
DialogInputEOF ==
  /\ Runs(Main) /\ stdin # "open"
  /\ \/ /\ pc[Main] \in DOMAIN DialogReads
        /\ pc' = [pc EXCEPT ![Main] = IF pc[Main] \in CheckedReads
                                       THEN "getCont"
                                       ELSE DialogReads[pc[Main]]]
        /\ argsOk' = FALSE
        /\ UNCHANGED <<stack, notifications_tid>>
     \/ WaitReturns /\ UNCHANGED argsOk
  /\ UNCHANGED <<hpc, owner, continue_fetching, continue_graphic,
                 screen_updateable, line, buf0, stdin, logged, signals, newChat, inChat>>
  /\ hasAttach' = (hasAttach \/ pc[Main] = "attInfo")

\* Fault model for Return: login returns 0 whatever psd_login returned.
ReturnLoginUnchecked(c, ok) ==
  CASE c = "logCall" -> "fetch"
    [] c = "fetch" -> IF ok THEN "logWait" ELSE "fetchWait"
    [] c = "attach" -> IF ok THEN "attInfo" ELSE "getCont"
    [] c = "newCall" -> IF ok THEN "newAdd" ELSE "wait"
    [] c = "newAdd" -> IF ok THEN "getCont" ELSE "newQuit"
    [] c \in {"regCall", "frCall", "accCall", "newQuit"} -> "wait"
    [] OTHER -> IF ok THEN "getCont" ELSE "wait"

\* Fault model for Return: create_new_chat gives up on a member it could
\* not add without leaving the chat it created.
ReturnNoQuit(c, ok) ==
  CASE c = "logCall" -> IF ok THEN "fetch" ELSE "wait"
    [] c = "fetch" -> IF ok THEN "logWait" ELSE "fetchWait"
    [] c = "attach" -> IF ok THEN "attInfo" ELSE "getCont"
    [] c = "newCall" -> IF ok THEN "newAdd" ELSE "wait"
    [] c = "newAdd" -> IF ok THEN "getCont" ELSE "wait"
    [] c \in {"regCall", "frCall", "accCall", "newQuit"} -> "wait"
    [] OTHER -> IF ok THEN "getCont" ELSE "wait"

\* Where the code goes when call c returns success (ok) or failure.
\* psd_login's success leads to retrieve_user_data, whose first failure
\* makes it wait_user and return, after which login prints "Done" and
\* waits again.  create_new_chat calls psd_create_chat, then
\* psd_add_member_to_chat, and when that fails psd_quit_from_chat, whose
\* result it ignores.  add_member_to_chat, leave_chat and send_message
\* wait only on failure; an fopen that succeeds leads to the file-info
\* prompt.
Return(c, ok) ==
  CASE c = "logCall" -> IF ok THEN "fetch" ELSE "wait"
    [] c = "fetch" -> IF ok THEN "logWait" ELSE "fetchWait"
    [] c = "attach" -> IF ok THEN "attInfo" ELSE "getCont"
    [] c = "newCall" -> IF ok THEN "newAdd" ELSE "wait"
    [] c = "newAdd" -> IF ok THEN "getCont" ELSE "newQuit"
    [] c \in {"regCall", "frCall", "accCall", "newQuit"} -> "wait"
    [] OTHER -> IF ok THEN "getCont" ELSE "wait"

\* The chat create_new_chat is making, once the server has applied call c
\* (ims.h: psdims__create_chat with no member, psdims__add_member,
\* psdims__quit_from_chat; a chat nobody is in is gone).
Applied(c, chat) ==
  CASE c = "newCall" -> "me"
    [] c = "newAdd" -> IF chat = "me" THEN "both" ELSE chat
    [] c = "newQuit" -> IF chat = "both" THEN "member" ELSE "none"
    [] OTHER -> chat

\* A call returns success (ok) or failure.  A success was applied by the
\* server; a failure is a refusal that changed nothing (spec §7) unless
\* the transport failed, before or after the server applied the call.
\* Leaving a chat one is in is refused only by a transport failure.  Only
\* psd_login changes the session.
CallReturns ==
  /\ Runs(Main) /\ pc[Main] \in CallPCs
  /\ \E ok, applied \in BOOLEAN :
       /\ ok => applied
       /\ ~TransportFaults => (applied = ok /\ (pc[Main] = "newQuit" => ok))
       /\ pc[Main] \in ChatCalls /\ ~inChat => ~applied
       /\ pc' = [pc EXCEPT ![Main] = Return(pc[Main], ok)]
       /\ logged' = (logged \/ (pc[Main] = "logCall" /\ ok))
       /\ newChat' = IF applied THEN Applied(pc[Main], newChat) ELSE newChat
       /\ inChat' = (inChat /\ ~(applied /\ pc[Main] = "leaveCall"))
       /\ hasAttach' = (hasAttach /\ pc[Main] # "sendCall")
  /\ UNCHANGED <<hpc, owner, continue_fetching, continue_graphic,
                 screen_updateable, notifications_tid, stack, line, buf0,
                 stdin, signals, argsOk>>

\* Fault model for GetContinueUnlock: the loop tests only its own `exit`
\* and never the continue_graphic flag that stop_client clears.
GetContinueUnlockNoFlag ==
  /\ Runs(Main) /\ pc[Main] = "getContRel"
  /\ Unlock(Main, "continue_graphic")
  /\ IF ~Top.exit
       THEN /\ pc' = [pc EXCEPT ![Main] = "setUpdTrue"]
            /\ SetTop([Top EXCEPT !.contSet = TRUE])
            /\ UNCHANGED logged
       ELSE LeaveMenu(Top.m = "main")
  /\ UNCHANGED <<hpc, continue_fetching, continue_graphic, screen_updateable,
                 notifications_tid, line, buf0, stdin, signals, argsOk, newChat, inChat, hasAttach>>

\* get_continue_graphic(graphic, cont): lock ...
GetContinueLock ==
  /\ Runs(Main)
  /\ Goto(Main, "getCont", "getContRel")
  /\ Lock(Main, "continue_graphic")
  /\ UNCHANGED <<hpc, continue_fetching, continue_graphic, screen_updateable,
                 notifications_tid, stack, line, buf0, stdin, logged, signals, argsOk, newChat, inChat, hasAttach>>

\* ... read, unlock; cont = cont && !exit decides the do-while.
GetContinueUnlock ==
  /\ Runs(Main) /\ pc[Main] = "getContRel"
  /\ Unlock(Main, "continue_graphic")
  /\ LET cont == continue_graphic /\ ~Top.exit
     IN IF cont
          THEN /\ pc' = [pc EXCEPT ![Main] = "setUpdTrue"]
               /\ SetTop([Top EXCEPT !.contSet = TRUE])
               /\ UNCHANGED logged
          ELSE LeaveMenu(Top.m = "main")
  /\ UNCHANGED <<hpc, continue_fetching, continue_graphic, screen_updateable,
                 notifications_tid, line, buf0, stdin, signals, argsOk, newChat, inChat, hasAttach>>

-----------------------------------------------------------------------------
(* notifications_fetch, the poller thread.                                 *)

\* graphic->continue_fetching = TRUE, written without the mutex.
PollerStart(p) ==
  /\ Runs(p)
  /\ Goto(p, "start", "sleep")
  /\ continue_fetching' = TRUE
  /\ UNCHANGED <<hpc, owner, continue_graphic, screen_updateable,
                 notifications_tid, stack, line, buf0, stdin, logged, signals, argsOk, newChat, inChat, hasAttach>>

\* Fault model for PollerRecv: continue_fetching = TRUE moved inside the
\* loop, so every cycle re-arms the flag.
PollerRecvRearms(p) ==
  /\ Runs(p)
  /\ Goto(p, "sleep", "drawLock")
  /\ continue_fetching' = TRUE
  /\ UNCHANGED <<hpc, owner, continue_graphic, screen_updateable,
                 notifications_tid, stack, line, buf0, stdin, logged, signals, argsOk, newChat, inChat, hasAttach>>

\* sleep(1); psd_recv_notifications(graphic->client).
PollerRecv(p) ==
  /\ Runs(p)
  /\ Goto(p, "sleep", "drawLock")
  /\ UNCHANGED <<hpc, owner, continue_fetching, continue_graphic,
                 screen_updateable, notifications_tid, stack, line, buf0,
                 stdin, logged, signals, argsOk, newChat, inChat, hasAttach>>

\* screen_update(graphic): redraw whatever screen the menu thread set.
PollerScreenLock(p) ==
  /\ Runs(p)
  /\ Goto(p, "drawLock", "drawRel")
  /\ Lock(p, "screen_update")
  /\ UNCHANGED <<hpc, continue_fetching, continue_graphic, screen_updateable,
                 notifications_tid, stack, line, buf0, stdin, logged, signals, argsOk, newChat, inChat, hasAttach>>

PollerScreenUnlock(p) ==
  /\ Runs(p)
  /\ Goto(p, "drawRel", "flagLock")
  /\ Unlock(p, "screen_update")
  /\ UNCHANGED <<hpc, continue_fetching, continue_graphic, screen_updateable,
                 notifications_tid, stack, line, buf0, stdin, logged, signals, argsOk, newChat, inChat, hasAttach>>

PollerFlagLock(p) ==
  /\ Runs(p)
  /\ Goto(p, "flagLock", "flagCheck")
  /\ Lock(p, "continue_fetching")
  /\ UNCHANGED <<hpc, continue_fetching, continue_graphic, screen_updateable,
                 notifications_tid, stack, line, buf0, stdin, logged, signals, argsOk, newChat, inChat, hasAttach>>

\* if (!graphic->continue_fetching) { unlock; break; } unlock.
PollerFlagCheck(p) ==
  /\ Runs(p) /\ pc[p] = "flagCheck"
  /\ Unlock(p, "continue_fetching")
  /\ pc' = [pc EXCEPT ![p] = IF continue_fetching THEN "sleep" ELSE "done"]
  /\ UNCHANGED <<hpc, continue_fetching, continue_graphic, screen_updateable,
                 notifications_tid, stack, line, buf0, stdin, logged, signals, argsOk, newChat, inChat, hasAttach>>

-----------------------------------------------------------------------------
(* stop_client, the handler of SIGINT, SIGTERM and SIGABRT installed by    *)
(* configure_signal_handling.  It runs on whichever thread the signal is   *)
(* delivered to; the signal is blocked on that thread while it runs.       *)

Signal(t) ==
  /\ signals < MaxSignals
  /\ pc[Main] # "returned"
  /\ hpc[t] = "none"
  /\ pc[t] \in SignalAt
  /\ hpc' = [hpc EXCEPT ![t] = "cfLock"]
  /\ signals' = signals + 1
  /\ UNCHANGED <<pc, owner, continue_fetching, continue_graphic,
                 screen_updateable, notifications_tid, stack, line, buf0,
                 stdin, logged, argsOk, newChat, inChat, hasAttach>>

HGoto(t, from, to) == hpc[t] = from /\ hpc' = [hpc EXCEPT ![t] = to]

\* set_continue_fetching(graphic_global, FALSE): lock ...
StopFetchingLock(t) ==
  /\ pc[Main] # "returned"
  /\ HGoto(t, "cfLock", "cfSet")
  /\ Lock(t, "continue_fetching")
  /\ UNCHANGED <<pc, continue_fetching, continue_graphic, screen_updateable,
                 notifications_tid, stack, line, buf0, stdin, logged, signals, argsOk, newChat, inChat, hasAttach>>

\* ... write, unlock.
StopFetchingSet(t) ==
  /\ pc[Main] # "returned"
  /\ HGoto(t, "cfSet", "join")
  /\ Unlock(t, "continue_fetching")
  /\ continue_fetching' = FALSE
  /\ UNCHANGED <<pc, continue_graphic, screen_updateable, notifications_tid,
                 stack, line, buf0, stdin, logged, signals, argsOk, newChat, inChat, hasAttach>>

\* if (notifications_tid != -1) pthread_join(notifications_tid): blocks
\* until that thread has exited; joining oneself fails with EDEADLK and
\* the result is ignored.
StopJoin(t) ==
  /\ pc[Main] # "returned"
  /\ HGoto(t, "join", "cgLock")
  /\ notifications_tid \notin {NoThread, t} => pc[notifications_tid] = "done"
  /\ UNCHANGED <<pc, owner, continue_fetching, continue_graphic,
                 screen_updateable, notifications_tid, stack, line, buf0,
                 stdin, logged, signals, argsOk, newChat, inChat, hasAttach>>

\* set_continue_graphic(graphic_global, FALSE): lock ...
StopGraphicLock(t) ==
  /\ pc[Main] # "returned"
  /\ HGoto(t, "cgLock", "cgSet")
  /\ Lock(t, "continue_graphic")
  /\ UNCHANGED <<pc, continue_fetching, continue_graphic, screen_updateable,
                 notifications_tid, stack, line, buf0, stdin, logged, signals, argsOk, newChat, inChat, hasAttach>>

\* The menu thread is blocked in getchar on the open stream (a prompt of
\* get_user_input, scan_input_string or wait_user), holding stdin's FILE
\* lock until a line or end of file arrives.
MainHoldsStdin ==
  /\ hpc[Main] = "none" /\ stdin = "open"
  /\ pc[Main] \in {"read"} \cup DOMAIN DialogReads \cup DOMAIN WaitUser

\* ... write, unlock; fclose(stdin), which takes stdin's FILE lock and so
\* waits, on any thread but the menu thread, for that thread's getchar to
\* return; the handler returns.
StopGraphicSet(t) ==
  /\ pc[Main] # "returned"
  /\ t # Main => ~MainHoldsStdin
  /\ HGoto(t, "cgSet", "none")
  /\ Unlock(t, "continue_graphic")
  /\ continue_graphic' = FALSE
  /\ stdin' = "closed"
  /\ UNCHANGED <<pc, continue_fetching, screen_updateable, notifications_tid,
                 stack, line, buf0, logged, signals, argsOk, newChat, inChat, hasAttach>>

\* The input ends (end of file on the terminal or the pipe).
StdinEOF ==
  /\ pc[Main] # "returned"
  /\ stdin = "open"
  /\ stdin' = "eof"
  /\ UNCHANGED <<pc, hpc, owner, continue_fetching, continue_graphic,
                 screen_updateable, notifications_tid, stack, line, buf0,
                 logged, signals, argsOk, newChat, inChat, hasAttach>>

\* graphic_client_run has returned: the process ends.
Terminated == pc[Main] = "returned"

-----------------------------------------------------------------------------
MainStep ==
  \/ SetUpdateableLock \/ SetUpdateableUnlock
  \/ ScreenUpdateLock \/ ScreenUpdateUnlock
  \/ GetUserInputEOF
  \/ MenuLogin \/ MenuMain \/ MenuSub
  \/ DialogInputEOF \/ CallReturns
  \/ GetContinueLock \/ GetContinueUnlock

PollerStep(p) ==
  \/ PollerStart(p) \/ PollerRecv(p)
  \/ PollerScreenLock(p) \/ PollerScreenUnlock(p)
  \/ PollerFlagLock(p) \/ PollerFlagCheck(p)

HandlerStep(t) ==
  \/ StopFetchingLock(t) \/ StopFetchingSet(t) \/ StopJoin(t)
  \/ StopGraphicLock(t) \/ StopGraphicSet(t)

\* What the user and the operating system do: type a line, end the
\* input, deliver a signal.
Environment ==
  \/ \E l \in Lines : GetUserInput(l)
  \/ DialogInput
  \/ StdinEOF
  \/ \E t \in Threads : Signal(t)

Next ==
  \/ MainStep
  \/ \E p \in Pollers : PollerStep(p)
  \/ \E t \in Threads : HandlerStep(t)
  \/ Environment
  \/ Terminated /\ UNCHANGED vars

\* The scheduler runs every runnable thread and hands a released mutex to
\* a thread that keeps asking for it (strong fairness: a mutex is free only
\* intermittently).  The user and the signals get no fairness.
Fairness ==
  /\ SF_vars(MainStep)
  /\ \A p \in Pollers : SF_vars(PollerStep(p))
  /\ \A t \in Threads : SF_vars(HandlerStep(t))

Spec == Init /\ [][Next]_vars /\ Fairness

-----------------------------------------------------------------------------
(* Properties.                                                             *)

\* Once stop_client has been entered on some thread, graphic_client_run
\* eventually returns: the handler clears both flags and closes stdin, and
\* every menu loop then sees -1 or continue_graphic = FALSE and unwinds.
StopTerminates == (signals > 0) ~> Terminated

\* When the input ends without a signal, the client still leaves: menu_main,
\* menu_chat and menu_friend_req return on -1 from get_user_input, and
\* menu_login must not keep asking for input that will never come.
EOFTerminates == (stdin = "eof") ~> Terminated

\* The poller redraws the screen only while the menu thread has marked it
\* updateable, i.e. while it waits at its prompt and not while it prints
\* the prompts and results of a command (screen_updateable and
\* get_screen_updateable exist for this).
RedrawOnlyWhenUpdateable ==
  [][\A p \in Pollers :
       (pc[p] = "drawLock" /\ pc'[p] = "drawRel") => screen_updateable]_vars

\* Once continue_fetching has been cleared, a poller that is past its start
\* leaves its loop (or the process ends): stop_client's pthread_join can
\* only return if this holds.
StopReachesRunningPoller ==
  \A p \in Pollers :
    (~continue_fetching /\ pc[p] \notin {"unstarted", "start", "done"})
      ~> (pc[p] = "done" \/ Terminated)

\* When graphic_client_run returns, no poller is still running: the
\* poller reads `graphic`, a local of graphic_client_run, so it must have
\* been stopped and joined first.
PollerGoneAtReturn ==
  Terminated => \A p \in Pollers : pc[p] \in {"unstarted", "done"}

\* user_register and login call psd_user_register and psd_login only with
\* buffers that scan_input_string filled: after a stop_client or at the
\* end of input, every read of theirs that returns -1 makes them return
\* before the call.
CredentialsRead ==
  pc[Main] \in {"regCall", "logCall"} => argsOk

\* Every dialog passes psd_* only buffers it read (spec: the client sends
\* what the user typed): create_new_chat, send_friend_request and
\* add_member_to_chat ignore scan_input_string's -1.
TypedArgumentsRead ==
  pc[Main] \in TypedCalls => argsOk

\* A psd_* call that needs the session (retrieve_user_data, the dialogs
\* of menu_main, menu_chat and menu_friend_req, the poller's
\* psd_recv_notifications) is made only between a successful psd_login
\* and psd_logout: menu_main is entered only when login returned 0, and
\* psd_logout runs only as menu_main ends.
SessionCallsWhileLogged ==
  [][/\ pc[Main] \in SessionCalls /\ pc'[Main] # pc[Main] => logged
     /\ \A p \in Pollers : pc[p] = "sleep" /\ pc'[p] = "drawLock" => logged
    ]_vars

\* create_new_chat is all or nothing on the server: when it returns 0
\* the new chat holds the user and the member; when it returns -1 the
\* user is in no chat it created, psd_quit_from_chat having undone a
\* psd_create_chat whose member could not be added.
NewChatAllOrNothing ==
  [][pc[Main] \in {"newCall", "newAdd", "newQuit"}
       /\ pc'[Main] \in {"getCont", "wait"}
       => newChat' = IF pc'[Main] = "getCont" THEN "both" ELSE "none"]_vars

\* When graphic_client_run returns the user has logged out: every way out
\* of menu_main, a stop and the end of input included, calls psd_logout.
LoggedOutAtExit == Terminated => ~logged

\* menu_chat calls psd_send_message, psd_add_member_to_chat and
\* psd_quit_from_chat only for a chat the user is a member of: once the
\* server has accepted a leave_chat, the menu does not go on sending to
\* the chat it left.
ChatCallsWhileMember == pc[Main] \in ChatCalls => inChat

\* menu_chat keeps a file attached with /t until the user removes it with /r
\* or a message carrying it has been sent: a send_message that failed (the
\* menu then waits for the user) does not drop the attachment chosen.
AttachmentKeptOnFailedSend ==
  [][pc[Main] = "sendCall" /\ pc'[Main] = "wait" => hasAttach' = hasAttach]_vars

=============================================================================
