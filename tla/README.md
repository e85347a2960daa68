# TLA+ models of PSD-IMS

PSD-IMS is a console instant-messaging client. A gSOAP server provides
users, friends, chats and messages. This directory holds TLA+ models of the
client code in `src/`, together with the TLC configurations that check
them.

## The system and what is in the repository

| Part | Source | State in the repository |
|---|---|---|
| Console UI: menus, prompts, signal handling, notifications poller | `src/src/client/client_graphic_v2.c` | complete |
| Line input (`scan_input_string`, `FLUSH_INPUT`) | `client_graphic_v2.c:47-65` | complete |
| RPC wrappers (`net_*`) | `src/src/client/network.c`, `network.h` | complete |
| RPC interface (gSOAP declarations) | `src/src/rpc/ims.h` | header only; stubs are generated |
| Client core: `psd_ims_client` struct with timestamps and four list mutexes | `src/src/client/psd_ims_client.h` | header only, `psd_ims_client.c` missing |
| Chat registry (`cha_*`) | `src/src/client/chats.h` | header only, `chats.c` missing |
| Friend list (`fri_*`) | `friends.h` / `friends.c` | missing; `src/src/test/test_client_friend_list.c` carries its own copy of the list code |

How the parts interact:

- **Startup.** `graphic_client_run` initialises `struct client_graphic`: three flags, three mutexes and the poller's thread id. It installs `stop_client` for SIGINT, SIGTERM and SIGABRT, then enters `menu_login`.
- **Menus.** Each menu loops through these steps:
  1. mark the screen updateable and draw it, both under `screen_update_mutex`;
  2. read a line with `get_user_input`;
  3. mark the screen not updateable and dispatch the command;
  4. read `continue_graphic` under its mutex.

  Sub-menus are nested C calls: `menu_login` → `menu_main` → `menu_chat` / `menu_friend_req`.
- **Poller.** `run_notifications_thread` starts the poller `notifications_fetch`. The poller sleeps, pulls notifications, redraws the screen and checks `continue_fetching`. The call to `run_notifications_thread` (line 682) is commented out, so the shipped build never starts it.
- **Stopping.** `stop_client` runs on whichever thread received the signal. It clears `continue_fetching`, joins the poller, clears `continue_graphic` and closes stdin. On any thread but the menu thread, `fclose(stdin)` waits for stdin's FILE lock, which the menu thread holds while it is blocked in `getchar` (`MainHoldsStdin`).

## Modules

| Module | Models | Kind |
|---|---|---|
| `ClientGraphic` | the menu thread, the poller, `stop_client`, the three mutexes | from the code |
| `MCClientGraphic` | model values and the sets of program counters where a signal may arrive | MC |
| `ScanInput` | `scan_input_string`/`FLUSH_INPUT` as recursive operators over stdin's bytes, with a reference line reader | from the code |
| `MCScanInput` | the input sets: short lines, any lines, lines with 0xFF | MC |
| `Network` | the `network` object's heap fields and the result of every `net_*` call | from the code |
| `MCNetwork` | the set of calls checked in the passing run | MC |
| `FriendList` | the circular sentinel list of `test_client_friend_list.c` | from the code |
| `FriendDirectory` | the abstract ordered friend directory (spec §4.1) | abstract, spec-modelled |
| `MCFriendList` | four addresses as model values | MC |
| `ChatRegistry` | the chat registry of `chats.h` as a function from present chat ids to `chat_info` (unread, pending, messages) and the `cha_*` operations the poller and `refreshChat` use | spec-modelled over the `chats.h` types |
| `ImsServer` | the server's state the client reads: chats, messages, friends, friend requests, and the notification window between two timestamps | spec-modelled (`ims.h`) |
| `SyncAtomic` | the abstract client mirror: a notification batch and a chat refresh each applied in one step | abstract |
| `SyncEngine` | the client's poller and menu thread talking to the server in separate fetch and apply steps, with transport failures | spec-modelled (`psd_ims_client.h`, spec §4.3, §5) |
| `MCSyncEngine` | two chats and one user as model values | MC |
| `SyncChatList` | `SyncEngine` with `psd_recv_chats` (`get_chats` since `chats_timestamp`) as a further menu-thread operation | spec-modelled (`psd_ims_client.h`, `ims.h`) |
| `MCSyncChatList` | the constants of `MCSyncEngine` for `SyncChatList` | MC |
| `ChatRoster` | one chat's admin and growable member array (`chat_member`, `chat_member_list`) with the `friend_info` pointers the members hold, and the friend directory's allocations | from `chats.h` contracts, spec-modelled bodies |
| `RosterSpec` | the name-level membership of spec §4.2: an admin, a set of roster names, a set of friend names | abstract |
| `MCChatRoster` | three names and two `friend_info` addresses as model values | MC |

### ClientGraphic

The module has four groups of variables:

- **Per-thread program counters.** `pc[t]` stands for the thread's position in its own code. `hpc[t]` is the position of a `stop_client` frame pushed on thread `t` by a signal.
- **Mutexes.** `owner[m]` is the thread holding mutex `m`.
- **Shared fields.** The three flags of `struct client_graphic`, plus `notifications_tid`.
- **The menu thread's call stack.** `stack` holds one frame per active menu, with its `exit` and `cont` locals.
- **Session and dialog state.** `logged` is TRUE between a successful `psd_login` and `psd_logout`. `argsOk` records whether every `scan_input_string` of the current dialog returned a line. `newChat` is the server's view of the chat `create_new_chat` is making: none, the user only, the user and the member, or the member only. `inChat` is the user's membership, on the server, of the chat whose menu is open: set when `menu_main` opens a chat menu, cleared when the server accepts `leave_chat`; a chat call cannot be applied while it is FALSE. `hasAttach` is `chat_data->has_attach`: set when the `/t` dialog completes, cleared by `/r`, after every `send_message` and when a chat menu is opened.

A mutex macro such as `get_continue_graphic` becomes two actions: the lock, then the read-or-write together with the unlock. Because of this split, a signal can arrive while a mutex is held.

Other modelling choices:

- **Input.** At a menu prompt the user types one of a few abstract lines (empty, a digit, text, or one of the commands `/e /l /r /n /f /a /d /t`), or the input ends. At a dialog prompt only whether the read returns a line or -1 matters.
- **Dialogs.** `login`, `retrieve_user_data`, `user_register`, `create_new_chat`, `send_friend_request`, `add_member_to_chat`, `delete_member_from_chat`, `leave_chat`, `accept_friend_req`/`decline_friend_req`, `send_message`, `attach_file` and `wait_user` are program points of the menu thread. Each read, each `psd_*` call and each `wait_user` is a step, in the code's order. `DialogReads` says where each read leads, `CheckedReads` which reads are followed by `if (ret < 0) return -1`, and `Return` where each call leads on success and on failure. A read at end of input returns -1; the unchecked ones go on anyway.
- **Calls.** A `psd_*` call returns success or failure. With `TransportFaults = FALSE` a failure is a server refusal that changed nothing (spec §7), and leaving a chat one is in is never refused. With `TransportFaults = TRUE` the server may have applied a call whose reply was lost. Only `psd_login` changes `logged`, and only the chat calls of `create_new_chat` change `newChat`.
- **`menu_friend_req`.** It reads the uninitialised `cont` when it takes `continue`; the model treats that read as a nondeterministic choice.
- **`input_buffer`.** Its first byte is arbitrary at start.

`StartPoller` selects one of two builds:

- **FALSE:** the shipped build, with line 682 commented out.
- **TRUE:** the design, with `run_notifications_thread` called after login. A failed `pthread_create` is modelled by the `NoThread` branch.

`SignalAt` is the set of program counters at which a signal may be delivered.

Fairness is `SF` on each thread's own steps. The scheduler runs every runnable thread. A mutex is free only intermittently, so a thread that keeps asking for it needs strong fairness to get it. The user's typing, the end of input and the signals get no fairness. The user may stop typing forever, so every liveness property must hold without more input. A `psd_*` call of a dialog is one of the menu thread's steps, so it is assumed to return. That is an assumption about the server and the transport: gSOAP's default timeouts are zero, meaning wait forever.

### ScanInput

Stdin is modelled as a sequence of bytes drawn from `"a"`, `"ff"` (the byte 0xFF) and `"nl"`. Past the end of the input, `getchar` returns EOF.

The conversion of `getchar`'s int into `char aux_char` is modelled by what it does:

- **Signed char** (`CharSigned`): EOF and 0xFF both become -1.
- **Unsigned char:** EOF becomes 255.

Each call is compared with `ReadLine`, the reader the menus are written against: a whole line is consumed, the first `max_chars-1` bytes are kept, and -1 is returned at the end of the input.

### Network

Pointers are abstracted to `"null"` or `"heap"`. `lost` counts blocks to which no pointer refers any more, and `held` the result blocks (`user_info`, lists) the caller holds. The `net_free_*` releasers have empty bodies: the caller lets go of the block and it is lost. `last` records the last call: whether the requested operation happened (`done`) and what the function returned (`ok`).

Every call's inputs are enumerated with `\E`:

- the outcome of each `malloc`;
- the SOAP transport status;
- the server's out-parameter: `ERRCODE` for register, a timestamp for the friend-request calls (`ims.h:167-176`).

### FriendList and FriendDirectory

- **Memory.** Nodes are model values in `Addrs`. `next`, `prev` and `info` are functions over the addresses, and `alloc` is the set of allocated addresses.
- **`AddFriend`.** It reproduces the `if (list->prev = list)` assignment.
- **`Unlink`.** It is `_delete_node`'s relinking.
- **`ListNodes`.** It walks the forward chain from the sentinel. Its fuel is `Cardinality(Addrs)`, so a corrupted chain cannot make it recurse forever.
- **Refinement.** The refinement mapping takes the forward walk as the abstract `friends` sequence. `FriendDirectory` (spec §4.1) is the abstract specification: add at the front, remove any entry, destroy an empty directory.

### ChatRegistry, ImsServer, SyncAtomic and SyncEngine

`psd_ims_client.c` and `chats.c` are not in the repository, so the merge of
notifications into the client's lists and `refreshChat` are modelled from
spec §4.3 and §5 over the types and prototypes of `psd_ims_client.h`,
`chats.h` and `ims.h`.

- **Server.** `ImsServer` keeps a clock `now` (bounded by `MaxTs`) and, per
  chat, whether it exists, and its message timestamps. Each server step
  (a chat created or deleted, a message, a friend request, a friend
  removed) ticks the clock and appends to `log`. `Window(since, upto)` is
  `psdims__notifications`: the ids of what changed in `(since, upto]`,
  and `last_timestamp = upto`.
- **Client.** `reg` is the chat registry, `friends` and `received` the
  friend and friend-request lists, `cursor` is `last_notif_timestamp`.
- **Poller** (`psd_recv_notifications`). `PollerFetch` is the RPC. It
  returns the window up to the server's current clock, or fails. Two
  further steps apply the result: `PollerApplyFriends` under
  `friends_mutex`, then `PollerApplyChats` under `chats_mutex`, which
  applies deleted chats, new chats and chats with messages in that order
  and then advances the cursor.
- **Menu thread.** `OpenChat` fetches a chat's messages newer than
  `cha_get_last_message_date` (`psd_recv_pending_messages`), and
  `RefreshApply` appends them, raising `unread` and clearing `pending`.
  `ReadChat` clears `unread`. `ResolveSend`/`ResolveApply` accept or
  decline a received friend request.
- **Refinement.** `SyncAtomic` applies a whole notification window, or a
  whole refresh, in one step. `SyncEngine` implements it under the
  identity mapping of the shared variables (`SA == INSTANCE SyncAtomic`);
  the intermediate states of the two-step actions are the abstract
  stutters or the friend-list half of a merge.
- **Chat list.** `SyncChatList` extends `SyncEngine` with
  `psd_recv_chats`: `FetchChats` is `get_chats` since `chatsTs`
  (`client->chats_timestamp`), which returns the live chats created after
  it (`ChatsSince`), and `ApplyChats` adds each one to the registry and
  advances `chatsTs`. It is a separate module so that the `sync_engine`
  run keeps its own question; only a supplementary configuration uses it.
- **Fairness.** Weak fairness on the poller's steps: the poller loops
  forever while the client runs, and nothing but a transport failure
  (bounded by `MaxFailures`) stops a step it can take. The menu thread and
  the server get none.

### ChatRoster and RosterSpec

`chats.h` lays a chat's membership out as an admin `chat_member` kept
outside the roster, and a roster array `members` with `n_members` and its
capacity `list_lenght`. Each `chat_member` holds its own name and a
`friend_info` pointer into the friend directory. `chats.c` and `friends.c`
are missing, so each operation follows the comment on its prototype and
spec §4.2:

- `members` is the array's used prefix, `list_lenght` its capacity, and
  `GrownLenght` is the doubling `cha_memberlst_add` performs on a full
  array (spec §9).
- `AddMember` (`cha_add_member`) refuses a name already in the roster or
  the admin's; `DelMember` removes the first occurrence
  (`cha_memberlst_del`).
- `ChangeAdmin` (`cha_change_admin`) appends the outgoing admin and then
  takes the named member out as the new admin; `PromoteToAdmin`
  (`cha_info_promote_to_admin`) drops the outgoing admin.
- `alloc` and `fname` are the friend directory's `friend_info` blocks
  and the name stored in each. `AddFriend` may get a freed address back
  from malloc; `DelFriend` frees the block and does not touch chats.
- A malloc or realloc failure makes a call return -1 with nothing
  changed: a stutter, left out.

`RosterSpec` is the same chat at the level of names. The refinement maps
`adminName` to `admin.name`, `roster` to the names in the array, and
`friends` to the names of the allocated `friend_info` blocks.
`MemberName` is what `cha_GET_MEMBER_NAME` (`chats.h:93`) reads: the name
in the `friend_info` the member points to, not the member's own name.

## Runs

| Run | Expect | What it shows |
|---|---|---|
| `build_stop_prompt` | pass | Shipped build: Ctrl-C at a menu or dialog prompt always ends `graphic_client_run` (`StopTerminates`). `login` and `user_register` call the server only with buffers they read (`CredentialsRead`). Every call that needs the session is made while logged in (`SessionCallsWhileLogged`). With a reliable transport, `create_new_chat` is all or nothing on the server (`NewChatAllOrNothing`). |
| `build_stop_anywhere` | violation | A signal while the menu holds `continue_graphic_mutex` deadlocks the handler on itself. |
| `poller_stop_flag` | pass | With the poller, a cleared `continue_fetching` always ends a poller that is past its start. |
| `poller_stop_prompt` | violation | The poller's unlocked `continue_fetching = TRUE` overwrites an early stop and `pthread_join` hangs. |
| `friendlist_test` | pass | The test program's sequence keeps all nodes on the list, keeps the chain closed and implements `FriendDirectory`. |
| `friendlist_remove` | violation | Deleting through a stale `prev` drops a different friend. |
| `scan_short_lines` | pass | Signed char, lines that fit: every call returns the typed line, and -1 at the end. |
| `net_results` | pass | Every `net_*` call interleaved with every other, up to five calls, keeps the allocation state of `struct network` and of the returned lists well typed. Whether a call reports its outcome is not a separate property here: in `Network` the reported result of `net_new`, `net_free`, `net_login`, `net_recv_*` and `net_send_message` is, by construction, the conjunction of its allocation and transport outcomes. The calls that get it wrong are checked by `net_friend_request`. |
| `net_friend_request` | violation | The friend-request result is inverted. |
| `sync_engine` | pass | The client's stored messages are always a prefix of the server's, the split poller and refresh implement `SyncAtomic`, and the cursor eventually stays at the server's clock. |
| `sync_refresh` | violation | A notification merged between `refreshChat`'s fetch and its apply is wiped by `pending = 0`. |
| `roster_ops` | pass | Any sequence of member adds and deletes, admin changes, promotions, chat creation and deletion and friend changes keeps the admin out of the roster and each name in it once, and implements `RosterSpec`. |

More configurations check single questions and are kept beside these:

| Config | Expect | What it shows |
|---|---|---|
| `build_eof` | violation | End of input at the login menu: `menu_login` loops forever. |
| `poller_redraw` | violation | The poller redraws while the menu has set `screen_updateable` to FALSE. |
| `poller_exit` | violation | A normal exit returns with the poller still running on the returned frame. |
| `friendlist_links` | violation | After two adds, a `prev` link is wrong. |
| `scan_long_line` | violation | A line filling the buffer leaves its newline behind as an empty next command. |
| `scan_ff_byte` | violation | Signed char: 0xFF is taken for EOF. |
| `scan_unsigned_eof` | violation | Unsigned char: EOF is never seen. |
| `net_register_error` | violation | A server-refused registration is reported as success. |
| `net_login_crash` | violation | A successful login copies the password through NULL. |
| `net_login_leak` | violation | A failed malloc in `net_login` loses `user_info`. |
| `net_list_leak` | violation | `net_free_notification_list` is empty: the polled list is lost. |
| `sync_mirror` | violation | A chat created and deleted between two polls stays in the registry as a placeholder, because deletions are applied before creations. |
| `build_dialog_eof` | violation | After Ctrl-C or end of input at their prompt, `create_new_chat`, `send_friend_request` and `add_member_to_chat` call `psd_*` with uninitialised buffers (`TypedArgumentsRead`). |
| `build_logout` | violation | Ctrl-C or end of input at `menu_main`'s prompt returns without `psd_logout` (`LoggedOutAtExit`). |
| `poller_logout` | violation | With the poller, `/l` logs out and the poller keeps calling `psd_recv_notifications` (`SessionCallsWhileLogged`). |
| `build_chat_transport` | violation | A reply lost after the server created the chat, added the member or removed the user leaves an orphan chat, or the member alone (`NewChatAllOrNothing`). |
| `poller_stop_abort` | violation | With the poller, a stop signal taken by the poller thread while it sleeps waits in `fclose(stdin)` for the menu thread's `getchar`: the client does not stop until the user types (`StopTerminates`). |
| `sync_chat_list` | violation | With `psd_recv_chats`, a chat the chat list added is then deleted and re-added by the poller as an empty placeholder, and an in-flight refresh appends to it a message the server never had there (`StoreIsServerPrefix`). |
| `sync_friends` | violation | A friend request declined and sent again is removed from `received` by the decline's apply (`FriendsMatchServer`). |
| `build_leave_chat` | violation | After a successful `/l`, `menu_chat` stays in its loop and the next line is sent to the chat the user left (`ChatCallsWhileMember`). |
| `build_attach_send` | violation | `has_attach` is cleared after `send_message` whatever it returned: a failed send drops the attachment (`AttachmentKeptOnFailedSend`). |
| `roster_names` | violation | `cha_GET_MEMBER_NAME` dereferences NULL for a chat whose admin is no friend, and reads a freed or reused `friend_info` after `psd_del_friend`. |

Every property of a passing run has a mutant in `PROJECT.json`. A mutant is a variant of one modelled definition with a plausible bug, and TLC finds the property violated under it.

## Bounds

- **ClientGraphic.** One poller and at most one signal. Signals are delivered either at a menu or dialog prompt (`AtPrompt`: the menu read, every dialog read and every `wait_user`) at any program counter (`Anywhere`), or at the poller's sleep (`PollerAsleep`). The stack holds at most three frames, which is the nesting depth of the code. One signal is enough: `stop_client` closes stdin, so every later read sees EOF, whatever further signals arrive.
- **ScanInput.** `MaxChars = 4` and inputs of up to five bytes. A line can therefore be shorter than, equal to, or longer than the buffer. `MaxCalls = 3`.
- **Network.** At most five calls: enough for new, login, a call, free and new again. The server timestamps are `{1, 2}`.
- **SyncEngine.** Two chats, one user, `MaxTs = 4` server events and at most one transport failure: enough for a chat to be created, messaged and deleted between two polls, and for a message to arrive between a refresh's fetch and its apply.
- **ChatRoster.** Three names, two `friend_info` addresses and `InitLenght = 1`: the roster holds up to two members, so the array grows from 1 to 2 on an add and to 4 on an admin change with a full array, and a freed address is handed out again.
- **FriendList.** A sentinel and three nodes, so deleting the first, middle or last node are all reached. There are two names.

## Not modelled

- **Screen output** (`menu_header_show` and the `screen_*_show` callbacks): pure I/O.
- **`psd_*` and `cha_*` bodies.** `psd_ims_client.c`, `chats.c` and `friends.c` are not in the repository; only their headers are. The notification merge and `refreshChat` are modelled from the spec in `SyncEngine`. Not yet modelled: member timestamps, chats created with initial members, `refreshFriends`, `psd_recv_all_messages`, sent friend requests, and the poller started with signals arriving anywhere.
- **gSOAP generated stubs.** Each `soap_call_*` is reduced to a transport status and an out-parameter.
- **Persistence.** `save_state` is empty.
- **Attachments.** `attach_file`'s `fopen` and file-info read are modelled. `menu_chat`'s attachment record (`has_attach`, `attach_path`, `file_info`) is not. So the uninitialised `file_info` that `send_message` receives after an EOF at the file-info prompt is not checked.
- **What the dialogs' calls do on the server**, apart from `create_new_chat`'s chat. Examples: a friend request, a member added by `add_member_to_chat`, a chat left by `leave_chat`.
