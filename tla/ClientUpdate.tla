---------------------------- MODULE ClientUpdate ----------------------------
(***************************************************************************)
(* The three threads that serve one viewer of winvnc and how they meet:    *)
(*                                                                         *)
(*   message: vncClientThread::run reads what the viewer sends;            *)
(*   desktop: vncDesktopThread scans the display and posts what changed;   *)
(*   update:  vncClientUpdateThread sends updates.                         *)
(*                                                                         *)
(* They share the desktop's update lock, the client's regions and flags,   *)
(* and the condition variable m_signal, on which the update thread waits.  *)
(* The message thread handles a request WITHOUT the lock, so its steps     *)
(* come between any two of the others.                                     *)
(*                                                                         *)
(* A region is TRUE when it is not empty: requests, updates and the screen *)
(* are taken whole (ScreenUpdates.tla has the pixels).  m_signal is the    *)
(* list of OmniCondition.tla with its single user; a wait on m_sync_sig    *)
(* (limit 5 s) may end whenever the lock is free: signalled, late or by a  *)
(* token left over from an earlier wait.                                   *)
(***************************************************************************)
EXTENDS Integers

CONSTANTS
    Others,      \* is another viewer connected?
    Events,      \* what happens besides requests, a subset of AllEvents
    MaxChanges,  \* bound: changes of format and of size
    MaxTokens    \* bound: further tokens of a semaphore are not counted

\* "pixels":  the viewer changes its pixel format or its encodings;
\* "size":    the display changes its size;
\* "format":  the display changes its pixel format;
\* "cursor":  UpdateCursorShape outside of the update lock;
\* "idle":    the request the server makes up for a silent viewer;
\* "ext":     the viewer asks for ExtDesktopSize;
\* "hangup":  the connection is lost.
AllEvents == {"pixels", "size", "format", "cursor", "idle", "ext", "hangup"}

ASSUME OthersAssumption == Others \in BOOLEAN
ASSUME EventsAssumption == Events \subseteq AllEvents
ASSUME BoundsAssumption == MaxChanges \in Nat /\ MaxTokens \in Nat \ {0}

VARIABLES
    owner,             \* who holds the update lock
    message, desktop, update,  \* where each thread is
    thread,            \* m_updatethread # NULL
    orphan,            \* history: m_updatethread was overwritten
    active, enable,    \* m_active, m_enable of the update thread
    firstRun,          \* first_run of the update thread
    firstLoop,         \* it is in the loop it entered with first_run set
    disabled,          \* m_disable_protocol
    connected,         \* cl_connected
    incr, clip,        \* m_incr_rgn, clipregion
    pending, held,     \* m_update_tracker, the thread's own `update'
    newSize,           \* m_NewSWUpdateWaiting
    ext,               \* m_use_ExtDesktopSize && m_firstExtDesktop
    extFull,           \* m_firstExtDesktopIncremental
    listed, looped, tokens,  \* m_signal: the update thread is on its list,
                       \* is linked to itself; the count of its semaphore
    ready,             \* initialCapture_done
    scanned,           \* initialupdate of the desktop thread
    dirty,             \* the display shows what was not scanned yet
    changes,           \* how many changes of format and size there were
    asked              \* history: the viewer waits for an update

thr == <<thread, orphan, active, enable, firstRun, firstLoop>>
sig == <<listed, looped, tokens>>
rgn == <<incr, clip, pending, held>>
siz == <<newSize, ext, extFull>>
dsp == <<ready, scanned, dirty, changes>>
vars == <<owner, message, desktop, update, thr, disabled, connected, rgn, siz,
          sig, dsp, asked>>

MessagePlaces ==
    {"setup", "setupSync", "post", "start", "loop", "request", "kick",
     "disableSync", "changing", "enableSync", "kill", "join", "remove", "cleanup", "killAgain",
     "joinAgain", "gone"}
DesktopPlaces ==
    {"idle", "sizeDisable", "sizeEnable", "formatDisable", "formatEnable", "create"}
UpdatePlaces ==
    {"done", "top", "enter", "check", "sleep", "blocked", "woken", "expired",
     "take", "clear", "send"}

FlagsOK ==
    /\ thread \in BOOLEAN /\ orphan \in BOOLEAN /\ active \in BOOLEAN
    /\ enable \in BOOLEAN /\ firstRun \in BOOLEAN /\ firstLoop \in BOOLEAN
    /\ connected \in BOOLEAN
    /\ incr \in BOOLEAN /\ clip \in BOOLEAN /\ pending \in BOOLEAN /\ held \in BOOLEAN
    /\ newSize \in BOOLEAN /\ ext \in BOOLEAN /\ extFull \in BOOLEAN
    /\ listed \in BOOLEAN /\ looped \in BOOLEAN
    /\ ready \in BOOLEAN /\ scanned \in BOOLEAN /\ dirty \in BOOLEAN
    /\ asked \in BOOLEAN

TypeOK ==
    /\ FlagsOK
    /\ owner \in {"none", "desktop", "update"}
    /\ message \in MessagePlaces /\ desktop \in DesktopPlaces /\ update \in UpdatePlaces
    /\ disabled \in 0 .. 2
    /\ tokens \in 0 .. MaxTokens
    /\ changes \in 0 .. MaxChanges

\* The client is authorised, so that the desktop thread knows it; its message
\* thread is about to end the initial setup.
Init ==
    /\ owner = "none"
    /\ message = "setup" /\ desktop = "idle" /\ update = "done"
    /\ thread = FALSE /\ orphan = FALSE /\ active = FALSE /\ enable = FALSE
    /\ firstRun = FALSE /\ firstLoop = FALSE
    /\ disabled = 1
    /\ connected \in BOOLEAN  \* the constructor leaves cl_connected uninitialised
    /\ incr = FALSE /\ clip = FALSE /\ pending = FALSE /\ held = FALSE
    /\ newSize = FALSE /\ ext = ("ext" \in Events) /\ extFull = TRUE
    /\ listed = FALSE /\ looped = FALSE /\ tokens = 0
    /\ ready = FALSE
    /\ scanned = Others
    /\ dirty \in IF Others THEN BOOLEAN ELSE {TRUE}
    /\ changes = 0
    /\ asked = FALSE

-----------------------------------------------------------------------------
(* m_signal and the life of the update thread. *)

\* omni_condition::signal.  A thread that is linked to itself stays the head
\* of the list; one that left its wait by a timeout is still on it.
Signal ==
    /\ tokens' = IF listed /\ tokens < MaxTokens THEN tokens + 1 ELSE tokens
    /\ listed' = (listed /\ looped)
    /\ UNCHANGED looped

\* omni_condition::wait up to the unlocking of the mutex.
Enqueue ==
    /\ looped' = listed
    /\ listed' = TRUE
    /\ UNCHANGED tokens

\* Faulty variant: a new thread may send at once.
CreateEnabled ==
    /\ thread' = TRUE
    /\ orphan' = (orphan \/ thread)
    /\ active' = TRUE
    /\ enable' = TRUE
    /\ firstRun' = TRUE /\ firstLoop' = FALSE
    /\ clip' = FALSE /\ held' = FALSE
    /\ listed' = FALSE /\ looped' = FALSE /\ tokens' = 0
    /\ update' = "top"
    /\ connected' = (connected \/ Others)

\* vncClientUpdateThread::Init; m_updatethread may have been set meanwhile.
CreateUpdateThread ==
    /\ thread' = TRUE
    /\ orphan' = (orphan \/ thread)
    /\ active' = TRUE
    /\ enable' = (disabled = 0)
    /\ firstRun' = TRUE /\ firstLoop' = FALSE
    /\ clip' = FALSE /\ held' = FALSE
    /\ listed' = FALSE /\ looped' = FALSE /\ tokens' = 0
    /\ update' = "top"
    /\ connected' = (connected \/ Others)

\* vncClientUpdateThread::Trigger
Trigger ==
    /\ thread
    /\ IF disabled = 0 THEN Signal ELSE UNCHANGED sig
    /\ UNCHANGED <<thr, update, connected, clip, held>>

\* vncClient::TriggerUpdateThread
TriggerUpdateThread == Trigger \/ (~thread /\ CreateUpdateThread)

\* vncClientUpdateThread::EnableUpdates up to its wait on m_sync_sig.
EnableUpdates(on) == enable' = on /\ Signal

\* vncClient::DisableProtocol and EnableProtocol.
Disable ==
    /\ disabled' = disabled + 1
    /\ IF disabled = 0 /\ thread THEN EnableUpdates(FALSE)
       ELSE UNCHANGED <<enable, sig>>

\* Faulty variant: the count is left as it is.
EnableKeepingCount ==
    /\ disabled' = disabled
    /\ IF disabled = 1 /\ thread THEN EnableUpdates(TRUE)
       ELSE UNCHANGED <<enable, sig>>

Enable ==
    /\ disabled' = disabled - 1
    /\ IF disabled = 1 /\ thread THEN EnableUpdates(TRUE)
       ELSE UNCHANGED <<enable, sig>>

\* What neither of the two touches.
ProtocolOnly == UNCHANGED <<thread, orphan, active, firstRun, firstLoop, update>>

-----------------------------------------------------------------------------
(* The message thread. *)

Goto(place) == message' = place

\* EnableProtocol after the initial setup.
EndSetup ==
    /\ message = "setup" /\ owner = "none"
    /\ Enable /\ ProtocolOnly
    /\ Goto("setupSync")
    /\ UNCHANGED <<owner, desktop, connected, rgn, siz, dsp, asked>>

\* The wait on m_sync_sig ends and the lock is released.
SyncedMessage ==
    /\ owner = "none"
    /\ \/ message = "setupSync" /\ Goto("post")
       \/ message = "disableSync" /\ Goto("changing")
       \/ message = "enableSync" /\ Goto("loop")
    /\ UNCHANGED <<owner, desktop, update, thr, disabled, connected, rgn, siz, sig,
                   dsp, asked>>

\* The first update of the full screen.
PostFullScreen ==
    /\ message = "post" /\ owner = "none"
    /\ pending' = TRUE
    /\ TriggerUpdateThread
    /\ Goto("start")
    /\ UNCHANGED <<owner, desktop, disabled, incr, siz, dsp, asked>>

StartLoop ==
    /\ message = "start"
    /\ connected' = TRUE
    /\ Goto("loop")
    /\ UNCHANGED <<owner, desktop, update, thr, disabled, rgn, siz, sig, dsp, asked>>

\* vncClient::NotifyUpdate: the whole screen is posted for a full request and
\* for the first incremental one...
Posts(full) ==
    /\ newSize' = (newSize \/ (full /\ ext))
    /\ extFull' = (extFull /\ full)
    /\ IF full \/ extFull
       THEN pending' = TRUE /\ TriggerUpdateThread
       ELSE UNCHANGED <<pending, clip, held, sig, thr, update, connected>>
    /\ UNCHANGED ext

Request(full) ==
    /\ message = "loop" /\ connected
    /\ asked' = TRUE
    /\ Posts(full)
    /\ Goto("request")
    /\ UNCHANGED <<owner, desktop, disabled, incr, dsp>>

\* ...then the request is noted...
NoteRequest ==
    /\ message = "request"
    /\ incr' = TRUE
    /\ Goto("kick")
    /\ UNCHANGED <<owner, desktop, update, thr, disabled, connected, clip, pending,
                   held, siz, sig, dsp, asked>>

\* ...and the update thread is kicked.
Kick ==
    /\ message = "kick"
    /\ TriggerUpdateThread
    /\ Goto("loop")
    /\ UNCHANGED <<owner, desktop, disabled, incr, pending, siz, dsp, asked>>

\* SetPixelFormat and SetEncodings: "changing" lies between the two calls.
DisableProtocol ==
    /\ "pixels" \in Events /\ changes < MaxChanges
    /\ message = "loop" /\ connected /\ owner = "none"
    /\ Disable /\ ProtocolOnly
    /\ changes' = changes + 1
    /\ Goto("disableSync")
    /\ UNCHANGED <<owner, desktop, connected, rgn, siz, ready, scanned, dirty, asked>>

EnableProtocol ==
    /\ message = "changing" /\ owner = "none"
    /\ Enable /\ ProtocolOnly
    /\ Goto("enableSync")
    /\ UNCHANGED <<owner, desktop, connected, rgn, siz, dsp, asked>>

HangUp ==
    /\ "hangup" \in Events
    /\ message = "loop" /\ connected
    /\ connected' = FALSE
    /\ Goto("kill")
    /\ UNCHANGED <<owner, desktop, update, thr, disabled, rgn, siz, sig, dsp, asked>>

\* Faulty variant: the update thread is not woken up.
KillSilently ==
    /\ message \in {"kill", "killAgain"} /\ owner = "none"
    /\ active' = FALSE
    /\ Goto(IF message = "kill" THEN "join" ELSE "joinAgain")
    /\ UNCHANGED <<owner, desktop, update, thread, orphan, enable, firstRun, firstLoop,
                   disabled, connected, rgn, siz, sig, dsp, asked>>

\* vncClientUpdateThread::Kill, at the end of run() and again in ~vncClient.
Kill ==
    /\ message \in {"kill", "killAgain"} /\ owner = "none"
    /\ active' = FALSE
    /\ Signal
    /\ Goto(IF message = "kill" THEN "join" ELSE "joinAgain")
    /\ UNCHANGED <<owner, desktop, update, thread, orphan, enable, firstRun, firstLoop,
                   disabled, connected, rgn, siz, dsp, asked>>

\* join deletes the update thread, whose destructor clears m_updatethread.
Join ==
    /\ message \in {"join", "joinAgain"} /\ update = "done"
    /\ thread' = FALSE
    /\ Goto(IF message = "join" THEN "remove" ELSE "gone")
    /\ UNCHANGED <<owner, desktop, update, orphan, active, enable, firstRun, firstLoop,
                   disabled, connected, rgn, siz, sig, dsp, asked>>

\* vncServer::RemoveClient needs the lock on the clients, which the desktop
\* thread holds while it goes through them.
RemoveClient ==
    /\ message = "remove" /\ desktop = "idle"
    /\ Goto("cleanup")
    /\ UNCHANGED <<owner, desktop, update, thr, disabled, connected, rgn, siz, sig,
                   dsp, asked>>

\* ~vncClient up to its own Kill: the socket and the buffers are deleted.
CleanUp ==
    /\ message = "cleanup"
    /\ connected' = FALSE
    /\ Goto(IF thread THEN "killAgain" ELSE "gone")
    /\ UNCHANGED <<owner, desktop, update, thr, disabled, rgn, siz, sig, dsp, asked>>

-----------------------------------------------------------------------------
(* The desktop thread. *)

\* The client is on the server's list of authorised clients.
Known == message \notin {"cleanup", "killAgain", "joinAgain", "gone"}

DesktopGoto(place) == desktop' = place

\* vncClient::UpdateWanted.  `sendingUpdate' is set only while the update thread
\* holds the update lock, which is free here, so it is never found set.
UpdateWanted == incr /\ ~pending

\* One scan of the display under the update lock; what it finds is posted to
\* every client.
Scan ==
    /\ desktop = "idle" /\ Known /\ owner = "none"
    /\ UpdateWanted \/ Others \/ ~scanned
    /\ ready' = TRUE /\ scanned' = TRUE /\ dirty' = FALSE
    /\ IF dirty THEN pending' = TRUE /\ TriggerUpdateThread
       ELSE UNCHANGED <<pending, clip, held, sig, thr, update, connected>>
    /\ UNCHANGED <<owner, message, desktop, disabled, incr, siz, changes, asked>>

\* UpdateWanted of a client that did not ask for anything in 300 turns: a
\* request for a small rectangle, `incremental' is not initialised.
RequestForSilentViewer(full) ==
    /\ "idle" \in Events
    /\ desktop = "idle" /\ Known /\ owner = "none"
    /\ thread /\ ~incr
    /\ newSize' = (newSize \/ (full /\ ext))
    /\ extFull' = (extFull /\ full)
    /\ pending' = (pending \/ full \/ extFull)
    /\ incr' = TRUE
    /\ Trigger
    /\ UNCHANGED <<owner, message, desktop, disabled, ext, dsp, asked>>

\* handle_display_change with a new size: the trackers are cleared, then
\* vncClient::SetNewSWSize, whose waits let go of the update lock.
ClearTracker == pending' = FALSE /\ UNCHANGED <<incr, clip, held>>

ResizeDisable ==
    /\ "size" \in Events /\ changes < MaxChanges
    /\ desktop = "idle" /\ Known /\ owner = "none"
    /\ ClearTracker
    /\ Disable /\ ProtocolOnly
    /\ owner' = IF disabled = 0 /\ thread THEN "none" ELSE "desktop"
    /\ changes' = changes + 1
    /\ dirty' = TRUE
    /\ DesktopGoto("sizeDisable")
    /\ UNCHANGED <<message, connected, siz, ready, scanned, asked>>

ResizeEnable ==
    /\ desktop = "sizeDisable" /\ owner \in {"none", "desktop"}
    /\ newSize' = TRUE
    /\ Enable /\ ProtocolOnly
    /\ owner' = IF disabled = 1 /\ thread THEN "none" ELSE "desktop"
    /\ DesktopGoto("sizeEnable")
    /\ UNCHANGED <<message, connected, rgn, ext, extFull, dsp, asked>>

ResizeEnd ==
    /\ desktop = "sizeEnable" /\ owner \in {"none", "desktop"}
    /\ owner' = "none"
    /\ DesktopGoto("idle")
    /\ UNCHANGED <<message, update, thr, disabled, connected, rgn, siz, sig, dsp, asked>>

\* handle_display_change with a new pixel format: UpdateLocalFormat(true) locks
\* the update lock, which its caller holds, once more; its waits let go of it
\* only once.
FormatDisable ==
    /\ "format" \in Events /\ changes < MaxChanges
    /\ desktop = "idle" /\ Known /\ owner = "none"
    /\ ClearTracker
    /\ Disable /\ ProtocolOnly
    /\ owner' = "desktop"
    /\ changes' = changes + 1
    /\ dirty' = TRUE
    /\ DesktopGoto("formatDisable")
    /\ UNCHANGED <<message, connected, siz, ready, scanned, asked>>

FormatEnable ==
    /\ desktop = "formatDisable"
    /\ Enable /\ ProtocolOnly
    /\ DesktopGoto("formatEnable")
    /\ UNCHANGED <<owner, message, connected, rgn, siz, dsp, asked>>

FormatEnd ==
    /\ desktop = "formatEnable"
    /\ owner' = "none"
    /\ DesktopGoto("idle")
    /\ UNCHANGED <<message, update, thr, disabled, connected, rgn, siz, sig, dsp, asked>>

\* vncClient::UpdateCursorShape without the update lock: TriggerUpdateThread
\* finds no update thread...
CursorShape ==
    /\ "cursor" \in Events
    /\ desktop = "idle" /\ Known /\ ~thread
    /\ DesktopGoto("create")
    /\ UNCHANGED <<owner, message, update, thr, disabled, connected, rgn, siz, sig,
                   dsp, asked>>

\* ...and creates one, whether or not there is one by now.
CursorCreates ==
    /\ desktop = "create" /\ owner = "none"
    /\ CreateUpdateThread
    /\ DesktopGoto("idle")
    /\ UNCHANGED <<owner, message, disabled, incr, pending, siz, dsp, asked>>

\* Something on the display changes.
Change ==
    /\ ~dirty
    /\ dirty' = TRUE
    /\ UNCHANGED <<owner, message, desktop, update, thr, disabled, connected, rgn, siz,
                   sig, ready, scanned, changes, asked>>

-----------------------------------------------------------------------------
(* The update thread: vncClientUpdateThread::run_undetached. *)

UpdateGoto(place) == update' = place

\* The region that could not be answered is put back, without the lock.
Top ==
    /\ update = "top"
    /\ incr' = (incr \/ (connected /\ clip))
    /\ UpdateGoto(IF connected THEN "enter" ELSE "done")
    /\ UNCHANGED <<owner, message, desktop, thr, disabled, connected, clip, pending,
                   held, siz, sig, dsp, asked>>

Enter ==
    /\ update = "enter" /\ owner = "none"
    /\ owner' = "update"
    /\ firstLoop' = firstRun
    /\ UpdateGoto("check")
    /\ UNCHANGED <<message, desktop, thread, orphan, active, enable, firstRun, disabled,
                   connected, rgn, siz, sig, dsp, asked>>

\* Faulty variant: nobody looks at m_enable.
BlocksUnlessWanted == ~(incr /\ pending) /\ ~(newSize /\ ~firstLoop)

\* "We block as long as updates are disabled, or the client isn't interested":
\* the first loop does not look at the new size.
Blocks == ~enable \/ (~(incr /\ pending) /\ ~(newSize /\ ~firstLoop))

Check ==
    /\ update = "check"
    /\ UpdateGoto(IF ~active THEN "done" ELSE IF Blocks THEN "sleep" ELSE "take")
    /\ owner' = IF active THEN owner ELSE "none"
    /\ UNCHANGED <<message, desktop, thr, disabled, connected, rgn, siz, sig, dsp, asked>>

\* m_signal->wait(): the mutex is unlocked only after the thread is on the list.
Sleep ==
    /\ update = "sleep"
    /\ IF firstLoop \/ connected THEN Enqueue /\ UpdateGoto("blocked")
       ELSE UNCHANGED sig /\ UpdateGoto("done")
    /\ owner' = "none"
    /\ UNCHANGED <<message, desktop, thr, disabled, connected, rgn, siz, dsp, asked>>

WakeUp ==
    /\ update = "blocked" /\ tokens > 0
    /\ tokens' = tokens - 1
    /\ UpdateGoto("woken")
    /\ UNCHANGED <<owner, message, desktop, thr, disabled, connected, rgn, siz, listed,
                   looped, dsp, asked>>

Relock ==
    /\ update = "woken" /\ owner = "none"
    /\ owner' = "update"
    /\ firstRun' = FALSE
    /\ UpdateGoto("check")
    /\ UNCHANGED <<message, desktop, thread, orphan, active, enable, firstLoop, disabled,
                   connected, rgn, siz, sig, dsp, asked>>

\* Faulty variant: the wait takes the thread off the list, as timedwait does.
TimeOutUnlinked ==
    /\ update = "blocked" /\ tokens = 0 /\ ~firstLoop
    /\ listed' = FALSE
    /\ UpdateGoto("expired")
    /\ UNCHANGED <<owner, message, desktop, thr, disabled, connected, rgn, siz, looped,
                   tokens, dsp, asked>>

\* Four seconds without a signal; only the second loop waits with a limit.
TimeOut ==
    /\ update = "blocked" /\ tokens = 0 /\ ~firstLoop
    /\ UpdateGoto("expired")
    /\ UNCHANGED <<owner, message, desktop, thr, disabled, connected, rgn, siz, sig,
                   dsp, asked>>

\* "do forcefull update after 4 seconds": the thread kicks itself and waits on,
\* it does not look at the regions again.
KickItself ==
    /\ update = "expired" /\ owner = "none"
    /\ owner' = "update"
    /\ IF disabled = 0 THEN Signal ELSE UNCHANGED sig
    /\ UpdateGoto("sleep")
    /\ UNCHANGED <<message, desktop, thr, disabled, connected, rgn, siz, dsp, asked>>

\* clipregion = m_incr_rgn ...
Take ==
    /\ update = "take"
    /\ clip' = incr
    /\ UpdateGoto("clear")
    /\ UNCHANGED <<owner, message, desktop, thr, disabled, connected, incr, pending,
                   held, siz, sig, dsp, asked>>

\* ...and m_incr_rgn.clear(): a request may have come in between.
Clear ==
    /\ update = "clear"
    /\ incr' = FALSE
    /\ UpdateGoto("send")
    /\ UNCHANGED <<owner, message, desktop, thr, disabled, connected, clip, pending,
                   held, siz, sig, dsp, asked>>

\* flush_update, then SendUpdate if the first capture is done.
Flushed == held \/ (pending /\ clip)

Turn ==
    /\ update = "send"
    /\ pending' = (pending /\ ~clip)
    /\ owner' = "none"
    /\ UpdateGoto("top")
    /\ UNCHANGED <<message, desktop, thr, disabled, connected, incr, extFull, sig, dsp>>

\* Faulty variant: the region is cleared although nothing was sent.
SendNothingClearing ==
    /\ Turn
    /\ ~ready \/ (~Flushed /\ ~newSize)
    /\ held' = Flushed /\ clip' = FALSE
    /\ UNCHANGED <<newSize, ext, asked>>

\* Nothing is sent: the flushed update and the region stay with the thread.
SendNothing ==
    /\ Turn
    /\ ~ready \/ (~Flushed /\ ~newSize)
    /\ held' = Flushed
    /\ UNCHANGED <<clip, newSize, ext, asked>>

\* The viewer has its answer, unless a request came in after Clear.
Answer == asked' = (asked /\ (incr \/ message = "request"))

SendUpdate ==
    /\ Turn
    /\ ready /\ Flushed /\ ~newSize
    /\ held' = FALSE /\ clip' = FALSE
    /\ Answer
    /\ UNCHANGED <<newSize, ext>>

\* The new size is sent instead of the update.
SendNewSize ==
    /\ Turn
    /\ ready /\ newSize
    /\ newSize' = FALSE /\ held' = FALSE /\ clip' = FALSE
    /\ ext' = FALSE
    /\ Answer

\* A viewer that asked for ExtDesktopSize gets it only if the input desktop is
\* "Default".
SendNoSize ==
    /\ Turn
    /\ ready /\ newSize /\ ext
    /\ newSize' = FALSE /\ held' = FALSE /\ clip' = FALSE
    /\ UNCHANGED <<ext, asked>>

-----------------------------------------------------------------------------
UpdateThread ==
    \/ Top \/ Enter \/ Check \/ Sleep \/ WakeUp \/ Relock \/ TimeOut \/ KickItself
    \/ Take \/ Clear \/ SendNothing \/ SendUpdate \/ SendNewSize \/ SendNoSize

\* What the message thread does once it has begun.
MessageThread ==
    \/ EndSetup \/ SyncedMessage \/ PostFullScreen \/ StartLoop \/ NoteRequest \/ Kick
    \/ EnableProtocol \/ Kill \/ Join \/ RemoveClient \/ CleanUp

DesktopThread ==
    \/ Scan \/ ResizeEnable \/ ResizeEnd \/ FormatEnable \/ FormatEnd \/ CursorCreates

Next ==
    \/ UpdateThread \/ MessageThread \/ DesktopThread
    \/ \E full \in BOOLEAN : Request(full) \/ RequestForSilentViewer(full)
    \/ DisableProtocol \/ HangUp
    \/ ResizeDisable \/ FormatDisable \/ CursorShape \/ Change

Spec == Init /\ [][Next]_vars

\* Every thread runs, and gets the update lock in the end: nobody keeps it (the
\* desktop thread sleeps between two turns, the others wait).  Whether the
\* viewer asks, the display changes or the line breaks is up to them.
Fairness ==
    /\ SF_vars(UpdateThread)
    /\ SF_vars(Enter) /\ SF_vars(Relock) /\ SF_vars(KickItself)
    /\ SF_vars(MessageThread)
    /\ SF_vars(DesktopThread)

FairSpec == Spec /\ Fairness

-----------------------------------------------------------------------------
\* "Prevent updates while the pixel format is changed": between the return of
\* DisableProtocol and the call of EnableProtocol the update thread does not
\* use the client's formats, although the message thread holds no lock then.
NoUpdateWhileDisabled ==
    message = "changing" \/ desktop = "sizeDisable"
        => update \notin {"take", "clear", "send"}

\* The message thread and the desktop thread may disable updates on top of
\* each other; the count is that of those who have, and the update thread is
\* enabled exactly when nobody has.
ProtocolBalanced ==
    LET by(b) == IF b THEN 1 ELSE 0
    IN  /\ disabled = by(message \in {"setup", "disableSync", "changing"})
                      + by(desktop \in {"sizeDisable", "formatDisable"})
        /\ thread => (enable <=> disabled = 0)

\* What makes the three above inductive: the update thread holds the lock from
\* Enter to the end of its turn, and is known to the client while it lives; the
\* desktop thread holds it only while it changes the size or the format, and does
\* not let go of it for the format.
LockHeld ==
    /\ owner = "update" <=> update \in {"check", "sleep", "take", "clear", "send"}
    /\ owner = "desktop" => desktop \notin {"idle", "create"}
    /\ desktop \in {"formatDisable", "formatEnable"} => owner = "desktop"
    /\ update # "done" => thread

Inductive == TypeOK /\ NoUpdateWhileDisabled /\ ProtocolBalanced /\ LockHeld

Serving == message \notin {"kill", "join", "remove", "cleanup", "killAgain",
                           "joinAgain", "gone"}

\* A request is answered or still known: m_incr_rgn or clipregion has it.  A
\* request that came between Take and Clear is lost when clipregion was empty,
\* but then a new size is on its way to the viewer, and that is an answer.
RequestKept ==
    asked /\ Serving => incr \/ clip \/ newSize \/ message = "request"

\* What makes it inductive: a thread that is about to take the request has seen
\* one, or a new size; the thread, and with it clipregion, stays from the first
\* update that was posted to the end of the connection.
RequestInductive ==
    /\ RequestKept
    /\ update = "take" => incr \/ newSize
    /\ update = "clear" => clip \/ newSize
    /\ IF message \in {"setup", "setupSync", "post"} THEN ~asked ELSE Serving => thread
    /\ ~ext
    /\ desktop # "create"

\* "Make sure we never can get locked by the initail m_initial_update) wait
\* loop": a viewer that waits while there is something to show is answered.
Waits == asked /\ (pending \/ dirty \/ held)
Sends == update = "send" /\ ready /\ (Flushed \/ newSize)
Answered == Waits /\ update # "done" ~> Sends \/ ~Waits \/ ~connected

\* The same for a thread that has left its first wait loop, which has no limit.
AnsweredLater ==
    Waits /\ ~firstRun /\ ~firstLoop /\ update # "done"
        ~> Sends \/ ~Waits \/ ~connected

\* "do forcefull update after 4 seconds": what was flushed but could not be sent
\* is sent once it can be.
HeldIsSent == held /\ ready /\ asked ~> ~held \/ ~connected

\* "The update thread never dissappears": not while the viewer is served.
ThreadStays == message = "loop" /\ connected => update # "done"

\* A client that lost its viewer is taken down completely.
TakenDown == message = "kill" ~> message = "gone" /\ ~thread

\* "We now know the thread is dead, so we can clean up".
DeadAtCleanUp == message = "cleanup" => ~thread

\* TriggerUpdateThread is "the only thread allowed to create it": there is one
\* update thread, the one m_updatethread points to.
OneUpdateThread == ~orphan

\* "Issue the synchronisation signal, to tell other threads where we have got
\* to": while a thread waits for that signal, the update thread can get the
\* lock it needs to give it.
SyncPossible == desktop \in {"formatDisable", "formatEnable"} /\ thread => owner = "none"
=============================================================================
