# A verification development of UltraVNC (CallVncviewer)

This directory holds TLA+ modules that model the parts of the repository whose
correctness depends on the order in which threads, messages and updates meet,
the TLC configurations that check them on small instances, and TLAPS proofs of
what matters most for every instance. Paths such as `vncclient.cpp:4909` are
those of `src/winvnc/winvnc/` unless a directory is given.

Contents: 1 the system · 2 the modules and the code · 3 the runs ·
4 deviations · 5 what is proved · 6 what is not modelled · 7 the plan.

## 1. The system

The repository is an UltraVNC server (`winvnc`), viewer (`vncviewer`) and
repeater (`repeater`), with the C# programs that embed the viewer in a call
centre application (`VncMiddleware`, `RemoteViewer`) and the libraries they use
(`rdr`, `rfb`, `common`, vendored compressors).

| part | state it keeps | operations | interacts by |
|---|---|---|---|
| region and update trackers (`rfbRegion_win32`, `rfbUpdateTracker`) | regions changed / cached / copied, one displacement | add_changed, add_cached, add_copied, flush_update, get_update, clear | owned by the desktop thread and by each client |
| desktop thread (`vncdesktopthread`, `vncdesktop`, `vncbuffer`) | main, back and cache buffers, region cache, capture mode | check regions, compute moved windows, post updates, react to display changes | posts to all clients' trackers under the update lock |
| clients of the server (`vncclient`) | requested region, tracker, protocol enable, clipboard and cursor flags | a message thread reading the viewer, an update thread sending | condition variables, the update lock |
| server (`vncserver`) | lists of authorised and unauthorised clients, id table, the desktop | add, authenticate, kill, remove, wait until empty | called by every thread |
| thread library (`omnithread/nt`) | wait queue of a condition variable | wait, timed wait, signal, broadcast | used by all of winvnc |
| encoders, socket (`vncencode*`, `vsocket`) | compression streams, output buffer | encode a rectangle, buffer, flush | called by the update thread |
| file transfer (`vncviewer/FileTransfer`, `vncclient`) | at the viewer the list, the pending command, the controls; at both sides the file being sent and received | list, offer, accept, delta packets, end of file, abort | messages inside the connection; dialog, reading thread, multimedia timer, message thread |
| clipboard (`common/Clipboard`, both programs) | checksum of the last text, limits, what is to be provided or notified | caps, provide, notify, request | clipboard chain, posted messages, update thread |
| text chat | - | open, close, text | messages inside the connection |
| viewer (`vncviewer`) | framebuffer, cache buffer, pending format change, outstanding request | read updates, send requests, input | TCP stream to the server |
| repeater (`repeater`) | tables of waiting servers and viewers | add, find, remove, pair, relay | threads that share the tables without locks |
| embedding programs (`VncMiddleware`, `RemoteViewer`) | the viewer's process object, `Connected` | start, close, relink timer, closing of the form | process exit events, timer, calls queued for the form's thread |

How they meet. A connection is accepted and put on the unauthorised list
(`AddClient`); its message thread, `vncClientThread`, negotiates, checks the
limits on viewers and moves it to the authorised list (`Authenticated`), which
starts the desktop when there is none. From there three threads work on the
client: the message thread turns the viewer's requests into `m_incr_rgn`, the
desktop thread posts what changed to the client's `m_update_tracker` under the
update lock, and `vncClientUpdateThread`, created on demand, waits on `m_signal`
until both meet, flushes the tracker into a tracker of its own and sends it.

What is hard, and what makes each part correct:

* *Trackers.* Copies of windows are merged, continued, invalidated by later
  changes and held back. Correct: applied to the viewer's picture, in the order
  "copies, then pixels", a tracker gives the server's picture.
* *One client's threads.* The request comes in without the lock; the wait loop's
  condition, its place on the condition variable and its time limit interact;
  formats change outside of the lock under a protocol of enable and disable.
  Correct: no request is lost, no update uses formats that are being changed,
  the client is taken down after its threads.
* *The server's lists.* Authorisation, removal, the deletion of the desktop and the
  shutdown let go of `m_clientsLock` between their parts. Correct: lists and map
  agree, whoever is served has a desktop, nothing outlives the server.
* *The condition variable.* A hand-made list of waiting threads with semaphores.
  Correct: it is a condition variable, timeouts included.
* *File transfer.* Blocks that the receiver already has are left out by checksums
  that belong to one file; the user's abort, a refused file and a broken connection
  meet messages under way. Correct: files arrive whole or not at all, the stream
  stays in step, the dialog comes back.
* *Clipboard.* Each side's own writes announce themselves as changes. Correct: what is
  copied arrives, what has arrived is not sent back.
* *Viewer process.* A timer, the form and an exit event change two fields without a
  lock. Correct: one viewer at most, there when the server is, gone when it is not.
* *Repeater, caches*: section 7.

## 2. The modules and the code

| module | models | state | actions |
|---|---|---|---|
| `UpdateTracker` | `rfbUpdateTracker`, the region operations it uses | none: records `changed, cached, copied, delta, copyOn` and functions on them | - |
| `CopyOrder` | `get_rects`, `get_update(UpdateInfo &)`, the copies of `SendUpdate`, `ReadCopyRect` | none: the rectangles of a region, their order, the rows of each | - |
| `ScreenUpdates` | the picture of one viewer: desktop thread, client, viewer | back buffer, the two trackers, `m_incr_rgn`, `clipregion`, pending new size, the viewer's picture | `Draw`, `DrawCached`, `MoveWindow`, `SwitchHook`, `Resize` (desktop thread); `MarkFullRefresh`, `AddRequest`, `SetEncodings` (message thread); `UpdateSent`, `UpdateHeld`, `NewSizeSent` (update thread) |
| `Condition` | what a condition variable promises (abstract) | queue, outcome of each wait | `Wait`, `Signal`, `Broadcast`, `GiveUp`, `Return` |
| `OmniCondition` | `omnithread/nt.cpp`, `omni_condition` | the doubly linked list, semaphores, mutex | one for each critical section and each kernel wait |
| `ClientUpdate` | the message, desktop and update threads of one client | lock owner, each thread's place, flags, regions as "empty or not", `m_signal` | one for each stretch of code between two points where another thread can come in |
| `ServerClients` | `vncserver.cpp`'s lists, `InitAuthenticate`, the desktop's life, shutdown | id map, both lists, arrival order, each client's place, desktop, locks | one for each critical section of `m_clientsLock`, and each step without it |
| `FileTransfer` | `vncviewer/FileTransfer.cpp` and the case `rfbFileTransfer` of `vncclient.cpp` | the dialog (`pending`, `buttons`, `list`, ...), the viewer's upload, download and timer, the server's source and target, the two channels, every receiver's temporary and final files | one for each message either side reads (`TestPermission`, `ServeOffer`, `ServePacket`, ...), each callback of the timer (`Tick`, `SendFileChunk`, ...), the zipping thread, each command of the user, the loss of the connection |
| `Clipboard` | `common/Clipboard.cpp` and the cut text handlers of both programs | both clipboards and who owns them, `m_crc`, limits, what is to be sent, the two channels | one for each handler; the check of the owner and the load are two steps, and so are the load for a request and its answer |
| `RemoteViewer` | `RemoteView.cs`, `RemoteViewer.cs`, `Form1.cs` | the processes, `_MyProcess`, `Connected`, the queue of the form's thread, each thread's place | one for each use of `_MyProcess` in `StartProcess`, `KillProcess` and `CloseProcess`, the timer's tick and its outcome, the exit event |
| `ListLemmas` | nothing of the code: least numbers, removing from a sequence, counting in it | - | - |
| `ScreenUpdatesProofs`, `ClientUpdateProofs`, `ServerClientsProofs`, `OmniConditionProofs`, `FileTransferProofs`, `RemoteViewerProofs`, `ClipboardProofs` | - | - | theorems of section 5 |
| `MCScreenUpdates`, `MCOmniCondition`, `MCServerClients`, `MCFileTransfer`, `MCClipboard` | - | - | instances for TLC |

Composition: `ScreenUpdates` and `CopyOrder` EXTEND `UpdateTracker`, and
`MCScreenUpdates` states what the one takes from the other; `OmniCondition` refines
`Condition` (property `KeepsPromise`, refinement mapping `queue <- OnList`,
`outcome <- Outcome`); `ClientUpdate` uses the list of `OmniCondition` reduced to
its single user and the regions of `ScreenUpdates` reduced to empty or not.
`PROJECT.json` maps every definition to the lines it stands for.

Abstractions that matter:

* A region is a set of pixels. `ScreenUpdates` moves the copied ones at once; that
  the rectangles and rows in which they travel give the same is `MovedAsOne`. The
  comparison of areas by which `add_copied` decides which copy to keep is the
  code's: by bounding rectangles.
* `viewer` in `ScreenUpdates` is the picture once everything sent was read. The
  connection is TCP: in order and without loss as long as it lasts.
* In `ScreenUpdates` the steps of the desktop and update threads are atomic
  because both hold the update lock; `NotifyUpdate` does not, so its two
  effects are two actions. In `ClientUpdate` the update thread's turn is cut where
  the message thread, which has no lock, can tell the difference.
* In `FileTransfer` a file is a sequence of blocks; a block is a model value, and the
  checksum of a block tells it from every other. The server holds the update lock
  over each message, so each is one step; it looks at its permission (`enabled`, which also
  stands for the viewer's right to the keyboard and mouse) at each, and what it leaves unread
  when it refuses is what the code leaves. The viewer's three threads share the dialog's
  fields without a lock, and each of their callbacks is cut where it sleeps.
* In `Clipboard` what is copied has a text and perhaps something in a format over
  the limits (`rich`). A clipboard is open for one program at a time, so loading and
  restoring are one step each. `Restore` may or may not keep HTML and pictures, which
  the code frees after the clipboard has taken them.
* In `RemoteViewer` a method that throws ends there: the timer swallows the exception
  and the form shows it. `KillProcess` may throw for a process that is terminating.
  `disturbed` is a history variable: a tick acted on, or the viewer exited during, a
  start that was under way, or the start itself failed.
* Names ending in a bug (`UpdateHeldDropping`, `KillSilently`, ...) under the comment
  "Faulty variant" are not part of any specification. Each is the code with one
  plausible mistake and shows that a property notices it.

## 3. The runs

| run | instance | what it shows |
|---|---|---|
| `screen_held` | two pixels, windows of one pixel moved both ways, updates held, sizes changed, capture restarted | merged, kept, continued and dropped copies together with pixels bring the viewer to the screen (`AnswerIsCurrent`), also when the update thread's own tracker carries updates over several turns, and across new sizes and restarts; every wrong pixel is pending (`NoStalePixel`); a copy moves what the server moved (`CopySourcesCurrent`), never from outside (`CopySourceOnScreen`); the inductive invariant of the proofs, which contains the types |
| `screen_cache_only` | two pixels, cache rectangles, no windows; beside it, a display of 5 by 3 pixels, all regions and displacements up to two pixels each way | cached regions alone lose nothing (`AnswerIsCurrent`); moving a region rectangle by rectangle and row by row, in the order of the code, is moving it at once (`MovedAsOne`) |
| `omni_condition` | three threads, `wait` and `timedwait` | the list read forwards and backwards agrees (`ListIntact`), semaphores stay in step (`SemaphoreInStep`), and all of it implements `Condition` (`KeepsPromise`) |
| `omni_limit` | three threads that are alike and wait with `wait(limit)` alone | its timeouts tear the list (section 4); however torn, following its links comes to an end, so that a broadcast does not run for ever with the critical section held (`BroadcastEnds`) |
| `client_update` | another viewer connected, all events, two changes of format or size | updates stop while formats change (`NoUpdateWhileDisabled`); nested disables balance (`ProtocolBalanced`) |
| `client_answers` | single viewer, size, formats and loss of the connection, fair threads | no request is lost (`RequestKept`), is answered after the first wait loop (`AnsweredLater`), and a lost client is taken down (`TakenDown`) |
| `server_clients` | two clients, one viewer allowed, two settings, the listening socket closed and opened again, a shutdown at any moment, fair threads | the lists agree with each client's thread (`ListsConsistent`); who is served has a desktop (`ServedHasDesktop`), nobody means none (`NobodyNoDesktop`); the shutdown leaves nobody who would still signal it (`QuitSignalUnused`) and comes to its end (`ShutdownEnds`) |
| `server_listener` | two clients and two viewers allowed, fair threads | **violated**: finding 1 |
| `file_transfer` | two lists of up to two files, one way after the other or back again, over the parts of earlier transfers; aborts, files that cannot be created, a permission that is withdrawn between any two messages, commands, a lost connection | a file appears only when complete (`FileIntact`); nothing but an offer or a block that is refused is left unread (`StreamInSync`); whoever is told of the end of a file, and may have it, has it (`EndOfFileCompletes`); what was received of an interrupted file is kept (`PartialKept`); as long as the permission stands, commands end (`CommandEnds`), the controls come back (`ControlsReturn`), a list is worked off (`ListTransferred`) |
| `remote_viewer` | three processes, two changes of the link, one viewer that exits by itself, a start that fails | one viewer at most (`OneViewer`); with the server up for good there is a viewer for good (`Relinked`), with the server silent there is none (`Unlinked`); none outlives the form (`NoViewerLeft`) |
| `clipboard` | one copy at the viewer, two at the server, text and picture, one command, starting with the clipboard on or off | what was received is not sent back (`NoPingPong`); what is copied arrives (`ViewerCopyArrives`, `ServerCopyArrives`), file sessions and limits included |
| `clipboard_again` | the same without commands | **violated**: finding 2 |

Bounds, and why they are enough to meet the interesting cases:

* *Pixels.* Two pixels in a row are enough for a copy that overlaps its source, comes
  from outside, is merged with or replaced by another, or collides with a
  change; the second tracker and the history variables square the states, so that
  more are left to the proofs, which cover all displays, colours and moves. The two
  colours are symmetric.
* *Displays for `CopyOrder`.* Five columns let two rectangles of a band be two
  apart, so that one can land on the source of the other; three rows make bands
  that touch and bands that do not.
* `MaxTokens = 2`: a semaphore that the code believes to be binary may be
  released twice, which `SemaphoreInStep` would see. `BroadcastEnds` is about the links
  alone, so `omni_limit` has one token; three threads make a list with a first, a
  middle and a last thread to tear it at, and they are alike (`Alike`).
* `MaxChanges = 2`: one change by the message thread and one by the desktop
  thread, on top of each other. The count bounds how often changes begin, in the
  guards of `DisableProtocol`, `ResizeDisable` and `FormatDisable`.
* Clients: two meet at the limit of one viewer, replace one another, and one leaves
  while the other arrives. Id 0 is never given out, so `MaxClients = 3` gives both an id.
  `Wishes` leaves out the viewers that always share, which skip the checks. The safety
  properties are proved for any number of clients.
* `Settings`: of the four priorities of `ConnectPriority()`, "incoming replaces
  oldest" and "reject" exercise all branches of `InitAuthenticate`; `server_listener`
  needs one.
* *Files.* Two blocks and one, with blocks that agree and blocks that differ, over
  leftovers longer than the file: a delta can skip, write, and has to cut off. Two
  lists (`MaxLists`) let the second meet what the first left. `Ahead = 0` and
  `Patient = TRUE` say that the user starts something when nothing is under way; it
  may still be aborted at any moment. `MaxDeletes = 2`: the feedback counts. `Faults`
  has the files that cannot be created and the permission that is withdrawn; what the
  others, and a permission that is granted again, break is in section 4.
* *Processes.* Three (`MaxProcesses`): one to be replaced, its replacement, and the
  one that a late exit event asks for. One start waits for the form's thread
  (`MaxQueue = 1`) while another runs. The proofs cover all bounds.
* *Copies.* Two copies at the server are what it takes for a newer one to meet an
  offer that has not been sent; one command opens and closes a file session, toggles,
  sends or requests.

No `CONSTRAINT` is used. Deadlock is not checked: a client, a viewer, a session, the
form or the server may stop for good, by leaving, closing or shutting down.

Fairness. Strong fairness of each thread's next step in `ClientUpdate` and
`ServerClients`: a step may need a lock that others take again and again, and
Windows' mutexes and critical sections give it in the end, because nobody keeps
them (the desktop thread sleeps between two turns, `vncdesktopthread.cpp:900`).
Whether the viewer asks, the display changes, a connection breaks or is made is
never fair, with one exception: a handshake ends, because the server gives up on it after
30 seconds. The desktop thread of `ServerClients` need not end while the server runs;
once the shutdown is ordered (`fShutdownOrdered`) it leaves its loop
(`vncdesktopthread.cpp:869`) and kills the clients (1266), which is weakly fair.
`OmniCondition` is checked for safety alone. In `FileTransfer`, `Clipboard` and
`RemoteViewer` it is weak: each thread runs its message or timer loop and takes one
step after the other, nobody else disables it for good, and a TCP connection
delivers or breaks. Users are never fair: they need not copy, command, quit or
close. A change of the server's clipboard is sent in a turn of the update thread,
which wakes it (`TriggerUpdateThread`), and after a file session it is woken by the
viewer's next request.

## 4. Deviations met while modelling

Shown by runs (`findings` in `PROJECT.json` quotes the comments):

1. `server_listener`: closing the listening socket (`SockConnect(FALSE)`,
   `vncserver.cpp:1736`) kills the authorised clients, then the unauthorised ones, and waits
   until both lists are empty. A client that is authorised between the two kills, or comes
   in by the socket, which is deleted after the waits only, is killed by neither, and
   the menu's thread waits until that viewer leaves by itself.
   The shutdown goes through the same steps and does end (`ShutdownEnds` in
   `server_clients`): `fShutdownOrdered` is set before it begins. From then on nothing is
   sent, so that a client that is being authorised fails at its `ServerInit` message, and
   the desktop's thread kills those that are served on its way out
   (`vncdesktopthread.cpp:869`, 1266).
2. `clipboard_again`: the server does not change its checksum when it takes a text
   from the viewer (`vncdesktop.cpp:2041`). It copies c, the viewer copies a, it
   copies c again: nothing is sent.

Stated in the modules and refuted by TLC, but not among the runs. Each is
reproduced by a configuration with the constants given:

| property | constants | where |
|---|---|---|
| `ScreenUpdates!CopySourcesCurrent` | `Events = {"cache"}`, rest as `ScreenHeld.cfg` | `add_copied` (`rfbUpdateTracker.cpp:112`) removes from a new copy the pixels whose source is in `changed`, not those in `cached`, against its comment "be careful not to copy stuff that still needs to be updated" (121) |
| `ClientUpdate!Answered` | `Others = FALSE`, `Events = {}`, `MaxChanges = 0`, `FairSpec` | a request noted without the lock (`vncclient.cpp:4909`) between the update thread's look at `m_incr_rgn` and its place on `m_signal` wakes nobody, and the first wait loop has no limit |
| `ClientUpdate!DeadAtCleanUp` | `Others = TRUE`, `Events = {"hangup"}` | between the join of the update thread and `RemoveClient` (`vncclient.cpp:4522`) the desktop thread creates a new one |
| `FileTransfer!ListTransferred` | `Patient = FALSE`, one upload, `MaxLists = 2` | the last callback of a list sleeps a second and then kills the timer (`FileTransfer.cpp:855`), also that of the next list |
| `FileTransfer!StreamInSync` | `Faults = {"write"}`, or `Ahead = 1` | blocks for a reception that has ended are not read (`vncclient.cpp:5984`), nor is a second request while a folder is zipped (6753), against "have to read whole packet to keep protocol in sync" |
| `inSync` of `FileTransfer` | as `FileTransfer.cfg` | the permission is computed for every message; withdrawn in the middle of an upload, the name of the next file (`vncclient.cpp:3746`) or the data of the next block (3995) is not read and taken for messages, although the drives, directories and commands were changed to read theirs (4093, 4147). `StreamInSync` says that nothing else is left unread |
| `FileTransfer!FileIntact` | `Faults = {"withdraw", "grant"}` | a block that the receiver already has is an empty packet; refused, nothing stays unread, and if the permission is granted again before the end of the file the file is cut off where the block was left out (`vncclient.cpp:3995`) |
| `FileTransfer!CommandEnds` | `Faults = {"open"}` or `{"media"}` | a source that vanished leaves the reception running and the next request for permission is taken for an abort (`vncclient.cpp:4012`); a directory that cannot be read is answered without an end (`FileTransfer.cpp:1462`) |
| `RemoteViewer!ConnectStatus` | as `RemoteViewer.cfg` | the viewer exits just before `Connected = true` (`RemoteViewer.cs:77`): it stays set, and nothing starts a viewer again |
| a process that could not be started (`StartFails`) is let go of | as `RemoteViewer.cfg` | `Start()` throws (`RemoteViewer.cs:70`) and `_MyProcess` stays: `HasExited` of a process that was never started throws (86), so each later start fails before it makes a process, and `OnClosing` throws too. TLC: from then on `_MyProcess` does not change and the form stays open |
| `ScreenUpdates!RestartLosesNothing` | `Events = {"switch"}`, rest as `ScreenHeld.cfg` | a restart of the capture clears the trackers and keeps the back buffer (`vncdesktopthread.cpp:356`, against the comment at `vncbuffer.cpp:1038`) |
| `OmniCondition!BroadcastReachesAll` | `Kinds = {"wait", "waitTimeout"}` | `wait(limit)` that times out leaves its thread on the list (`omnithread/nt.cpp:186`); its next wait links it to itself, and a broadcast does not reach the threads behind it. Two threads waiting on `m_sync_sig` with their limit of 5 seconds (`vncclient.cpp:416`) are enough |
| `ClientUpdate!HeldIsSent` | `Others = TRUE`, `Events = {}`, `FairSpec` | what was flushed into the thread's own tracker is not in the wait condition (`vncclient.cpp:470`) |
| `ClientUpdate!ThreadStays` | `Others = FALSE`, `Events = {}` | `cl_connected` is not initialised by the constructor (`vncclient.cpp:444`) |
| `ClientUpdate!OneUpdateThread` | `Events = {"cursor"}` | two threads create the update thread at once (`vncclient.cpp:4934`) |
| `ClientUpdate!SyncPossible` | `Events = {"format"}`, `MaxChanges = 1` | the signal is awaited with the update lock held twice: a wait of five seconds (`vncdesktopthread.cpp:572`) |
| `ClientUpdate!RequestKept` | `Events = {"ext"}` | on an input desktop other than "Default" nothing is sent and the request forgotten (`vncclient.cpp:5191`) |
| `ServerClients!ExclusiveAccess` | as `ServerClients.cfg` | two clients pass the unlocked check (`vncclient.cpp:1172`) |
| `~crashed` of `ServerClients` | as `ServerClients.cfg` | `GetClient(getOldestViewer())` is NULL (`vncclient.cpp:1138`) |

Also reachable there: a client attached to a desktop whose thread has ended
(`vncserver.cpp:679`), and clients deleted under their threads
(`vncserver.cpp:1089`). The passing properties say where they make an exception
for these (`freed`, `crashed`), and no property assumes that they do not occur.

## 5. What is proved

`ScreenUpdatesProofs`: for every set of pixels, every
set of colours, windows, displacements and changed regions, and every choice
of events but one: the assumption `NoCache`, `"cache" \notin Events`, because with
cache rectangles `CopySourcesCurrent` is false (section 4).

* `PostedCorrect`. `Accounts(S, was, now, t)` says that every pixel in which the
  pictures `was` and `now` differ is in tracker `t`, and that the copies of `t` make
  their pixels of `now` from `was`. If `u` accounts for `was` to `mid` and `t` for
  `mid` to `now`, then `Posted(t, u)`, the tracker `u` after `t` was handed on to it,
  accounts for `was` to `now` and stays on the display, in all cases of
  `add_copied`: copying off, the old copy kept, the new one taken, one continued
  by the other.
* `InductiveHolds`: `Spec => []Inductive`. Neither `NoStalePixel` nor
  `CopySourcesCurrent` is inductive: a pixel may be correct now by accident and be
  copied from later. The strengthening introduces the picture `flushed` at the last
  full flush and says that the update thread's tracker accounts for
  viewer-to-`flushed` and the client's tracker for `flushed`-to-screen; flushing
  composes the two by `PostedCorrect`. Further parts: what is held back is for the
  whole screen (`clip = Screen`), and a new size not yet announced means the viewer
  is not in step (`newSize => ~synced`).
* From it follow `TypeCorrect`, `NoStalePixelHolds`, `CopySourcesCurrentHolds`,
  `CopySourceOnScreenHolds`, and the action property `AnswerIsCurrentHolds`.

The proof that a step preserves `Inductive` is one lemma per action
(`DrawStep`, `MoveWindowStep`, ..., `NewSizeSentStep`), put together in
`InductiveNext`. The named assumptions `ScreenAssumption`, `MovesAssumption`,
`RegionAssumption` and `EventsAssumption` only give the constants their types.

`RemoteViewerProofs`: for any number of processes, changes of the link and queued
starts (`BoundsAssumption` only says that the bounds are natural numbers).

* `AtMostOneViewer`: `Spec => []OneViewer`. Two facts carry it: from the time
  `StartProcess` has killed every viewer to the time it starts its own nothing runs,
  whatever the timer's `CloseProcess` does to `_MyProcess` meanwhile; and the process
  it then starts is the last that was made, which was never started before. Both are
  parts of `Inductive`. The lemmas follow the actors: the processes
  (`ProcessesInductive`), `CloseProcess` on either thread (`CloseInductive`), the
  timer (`TimerInductive`), the form (`FormInductive`).
* `NoViewerLeftHolds`: `Spec => []NoViewerLeft`. As long as no start was disturbed,
  `_MyProcess` is the viewer that runs, if one runs (`KnownInductive`); closing the form
  takes it down through that field.
* `RemoteViewerTypes`: `Spec => []TypeOK`, from the same invariant.

`ClientUpdateProofs`: for every choice of `Others`, of the events and of the bounds.

* `InductiveHolds` with `Inductive == TypeOK /\ NoUpdateWhileDisabled /\
  ProtocolBalanced /\ LockHeld`. What was missing is who holds the update lock where
  (`LockHeld`): the update thread looks at `m_enable` and takes the update under one
  hold of the lock, and `DisableProtocol` returns only after it has held the lock
  itself, which is why nobody sends between the two.
* `ClientTypes`, `NoUpdateWhileDisabledHolds`, `ProtocolBalancedHolds` follow.
* `RequestKeptHolds`: `ASSUME Plain PROVE Spec => []RequestKept`, where `Plain` says
  `"ext"` and `"cursor"` are not among the events. Neither can be left out: TLC refutes
  `RequestKept` with `{"ext", "size"}` (section 4) and with `{"cursor"}`, where the desktop thread
  makes a second update thread whose `clipregion` is empty. The inductive
  `RequestInductive` says what the update thread has seen when it is about to take or
  to clear the request.

`ServerClientsProofs`: for any set of clients, of ids (0 among them, which is nobody's), any limit and any settings.

* `InductiveHolds`: to the properties it adds `PlacesAgree` (which list a client is
  on follows from where its thread is), `LockHolder` (who is between the two halves of
  `RemoveClient` holds `m_desktopLock`, and nobody is authorised while the desktop is
  deleted) and `SeenLeave` (what the shutdown has seen leave stays gone).
* `ServerTypes`, `ListsConsistentHolds`, `ServedHasDesktopHolds`,
  `NobodyNoDesktopHolds` and `QuitSignalUnusedHolds` follow. The exceptions the
  properties make (`freed`) are the deviations of section 4.

`OmniConditionProofs`: for every finite set of threads, under the assumption
`TimedOrEndless`, `"waitTimeout" \notin Kinds`: nobody calls `wait(milliseconds)`.
That is so of `m_clientquitsig` and `m_returnsig`; it is not of `m_signal` and
`m_sync_sig`, for which the list can be torn (section 4) and only `BroadcastEnds` is
checked.

* `InductiveHolds`. The list is what following `next` from the head gives (`OnList`),
  a sequence chosen by its properties rather than built by recursion; `Linked` says
  that it is without repetition, that `prev` reverses `next` and that exactly its
  members are marked; `TokenOrPlace` says that a waiting thread is on the list or has
  its token, never both. Taking a thread out of the middle is `RemoveFirst` of the
  sequence, with the lemmas of `ListLemmas`.
* `ListIntactHolds`, `SemaphoreInStepHolds` and `BroadcastReachesAllHolds` follow; the last
  says that a broadcast leaves no blocked thread without a token; no run repeats it.
* `PromiseKept`: `TimedOrEndless /\ Spec => KeepsPromise`, the refinement of
  `Condition`. Each action is shown to be a step of `Condition` under the mapping
  (`QueuesUp`, `WakesFirst`, `WakesAll`, `GivesUp`, `ReturnsOutcome`) or to leave `queue` and
  `outcome` alone (`NoticesOnly`).

`ClipboardProofs`: for any texts and pictures, any number of copies and commands
(`CopiesAssumption` gives the constants their types).

* `InductiveHolds`. `NoPingPong` counts what was sent against what the users did. It is inductive
  with `sent + Owed <= Paid`: `Owed` counts what is still to be sent without anyone
  asking again, that is a copy from its announcement to its passing on, an offer, a request and
  its answer. Each action moves one unit along or gives it up; `Restore` makes none,
  because a clipboard that is the program's own is not drawn.
* `NoPingPongHolds`, and `ClipboardTypes`: the messages on each channel are those its
  reader handles.

`ListLemmas` proves what these use of sequences. Induction over a number is replaced
there by the least-number principle: a non-empty set of natural numbers has a least
element (`LeastNatural`), from `NaturalsInduction`'s well-founded order on `Nat`.

`FileTransferProofs`: for any files with any contents, selections, bounds and parts left of
earlier transfers (`FilesAssumption` gives the constants their types; beyond that it says
that what is sent up and what is requested are different files, because the ends have
disks of their own and the model tells the files on them apart by their names, and that an
empty packet is not a block). All theorems assume

* `OneAtATime`, `Ahead = 0`: the user starts nothing while messages are under way. The dialog
  does not enforce it; without it a request meets the feedback or the data of another
  (section 4);
* `NotGrantedAgain`, `"grant" \notin Faults`: a permission that is withdrawn stays withdrawn.
  The server's user may grant it again, which damages a file if a block was refused in
  between (section 4). Withdrawn it may be at any moment.

What they show:

* `InductiveHolds`, with every other fault. `FileIntact` is a fact about files, but what makes
  it true is in the queues: the packets that wait for a receiver are the blocks that
  follow those it has, in order, each of them the block itself or `Same` where its
  temporary file already has it, and the end of the file follows the last of them
  (`Brings`, for both directions in `UploadGrows` and `DownloadGrows`). A delta was
  computed against checksums of that temporary file (`Spared`), so nobody may write it
  in between. That holds because a transfer is in one of eleven phases
  (`Phase`: `Resting`, `Offering`, `Accepting`, `Uploading`, `Requesting`, `Zipping`,
  `Announcing`, `Opening`, `Receiving`, `Unanswered`, `Cut`), which say what each queue can hold, who is at
  work, and what a failed or aborted transfer has left under way for the next one to
  meet. `Resting` also counts: as many deletions as `deletes` says are still to be
  done or to be told (`Known`), so that the count does not go below zero.
* `FileTransferTypes`, `FileIntactHolds` and the action property `PartialKeptHolds` follow.
* `EndOfFileCompletesHolds` assumes also `WritesSucceed`, `"write" \notin Faults`: with
  failing writes TLC refutes it. The lemma it rests on is that `InStep` is an
  invariant: a receiver is at work as long as anything for it is under way (`Busy`), the viewer
  (`ViewerInStep`) always, the server (`ServerInStep`) as long as the permission stands.
  Part of it is `enabled => inSync`, that is `StreamInSync`, which is not listed as a result:
  the two assumptions it needs leave out ways of losing step that the code has.

TLC confirms `Inductive` on the instance of `file_transfer` (with `MaxDeletes = 1`) with every
fault but `"grant"`, and `InStep` without failing writes (no run repeats it; both are invariants of
`FileTransfer` that can be put into `FileTransfer.cfg`).

The proof follows the threads: the viewer's reader, the timer, the server, the user; each
action has a lemma that says which phase it ends in. Failing opens, creates and reads of
the disk, the abort and the withdrawn permission at any moment and the loss of the connection are all
in it.

Only model-checked: `CopyOrder`, everything with cache rectangles,
`wait(milliseconds)`, and all liveness (`AnsweredLater`, `TakenDown`, `ShutdownEnds`,
`Relinked`, `Unlinked`, `ViewerCopyArrives`, `ServerCopyArrives`, `CommandEnds`,
`ControlsReturn`, `ListTransferred`). Liveness under fairness, `ENABLED` and what a
recursive definition computes are out of the prover's reach; no module that is
proved about uses a RECURSIVE operator.

## 6. What is not modelled, and why

* Encoders, translation of pixels, scaling, compression: sequential functions on
  pixels; the update protocol needs only that they bring pixels across.
* How the screen is captured: hooks, mirror driver, desktop duplication and
  polling differ in what they report when; the model lets any region be found
  changed, cached or moved at any time.
* Settings, menu, service, dialogs, input, HTTP, virtual displays, plugins,
  recording: calls to Windows, or tools of their own. They reach the core through
  calls that are actions of `ServerClients` and `ClientUpdate`.
* Authentication: success and failure are choices of `ServerClients`.
* File transfer of RC18 and older, the compression of blocks and the zipping of
  folders, impersonation, the lists of the dialog; a second client with a
  clipboard of its own (`excludeClient` is never passed, so one viewer's text reaches
  the others only by way of a change that the server does not recognise as its own,
  that is, never); `clipPeek`, which no program here sends; the failure to
  open a clipboard, after which the change is dropped without a retry
  (`vncdesktopsink.cpp:440`).
* The ini file and the window messages of the embedding program: `SetScale` and
  `SetViewOnly` ask `IsWindow` of a process handle (`RemoteViewer.cs:123`) and never
  send anything.
* The repeater. Its tables are shared without a lock by two listeners, one thread
  for each waiting and each relayed connection and a clean-up thread, and are kept
  apart by sleeps of a second alone. What it should promise (a socket is read by one
  thread, a viewer is joined to the server of its code) holds only if no two of these
  threads meet within that second; a module would have to assume it. The hazards
  list names the places.
* The messages that ride along with an update (cursor, palette), the blacklist of hosts, notifications and automatic reconnection.
* The Java viewer (an older implementation of the same protocol), the repeater's
  web server and all vendored libraries.

## 7. The plan

Done: trackers and the viewer's picture with proofs, and the order of its copies;
condition variables, one client's threads, the server's lists, file transfer on both
sides, the two clipboards and the embedding program with proofs. Left, the most important first:

1. `CacheSync`: the server's cache buffer and the viewer's, in step over cache
   rectangles, full refreshes and changes of format.
2. The viewer's pipeline: requests, change of pixel format, reconnection, end of
   the threads.
3. `Repeater`, under the assumption that its sleeps suffice (section 6).

Theorems planned: an abstract `ScreenMirror` (a viewer's picture that is brought up to
date at once) implemented by `ScreenUpdates`.
