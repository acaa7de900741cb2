------------------------- MODULE ClientUpdateProofs -------------------------
(***************************************************************************)
(* The update lock, DisableProtocol and EnableProtocol keep the update     *)
(* thread away from what the others change, and a request is not lost,     *)
(* with or without other viewers, for any number of changes and for any    *)
(* bound on the tokens: `Inductive' and `RequestInductive' of ClientUpdate *)
(* are inductive.                                                          *)
(***************************************************************************)
EXTENDS ClientUpdate, TLAPS


USE BoundsAssumption

\* The update thread is enabled when nobody has disabled it.
EnableInStep == thread => (enable <=> disabled = 0)

\* What a signal may do to m_signal.
LEMMA SignalKeeps ==
    ASSUME TypeOK, Signal
    PROVE  /\ listed' \in BOOLEAN /\ looped' \in BOOLEAN
           /\ tokens' \in 0 .. MaxTokens
BY DEF TypeOK, FlagsOK, Signal

\* What making or signalling an update thread leaves: a thread that is enabled
\* when nobody has disabled it, and what belongs to it with the right types.
ThreadReady ==
    /\ thread \in BOOLEAN /\ thread /\ orphan \in BOOLEAN /\ active \in BOOLEAN
    /\ enable \in BOOLEAN /\ firstRun \in BOOLEAN /\ firstLoop \in BOOLEAN
    /\ clip \in BOOLEAN /\ held \in BOOLEAN /\ connected \in BOOLEAN
    /\ listed \in BOOLEAN /\ looped \in BOOLEAN /\ tokens \in 0 .. MaxTokens

\* A new update thread may send at once only when nobody has disabled it.
LEMMA CreateKeeps ==
    ASSUME TypeOK, CreateUpdateThread
    PROVE  ThreadReady' /\ (enable' <=> disabled = 0) /\ update' = "top"
<1>1. /\ thread' \in BOOLEAN /\ thread' /\ orphan' \in BOOLEAN /\ active' \in BOOLEAN
      /\ enable' \in BOOLEAN /\ firstRun' \in BOOLEAN /\ firstLoop' \in BOOLEAN
      /\ clip' \in BOOLEAN /\ held' \in BOOLEAN /\ connected' \in BOOLEAN
      /\ listed' \in BOOLEAN /\ looped' \in BOOLEAN
      /\ enable' <=> disabled = 0
  BY Zenon DEF CreateUpdateThread
<1>2. QED
  BY <1>1 DEF CreateUpdateThread, ThreadReady

\* TriggerUpdateThread signals the thread, or makes one where there is none.
LEMMA TriggerKeeps ==
    ASSUME TypeOK, EnableInStep, TriggerUpdateThread
    PROVE  /\ ThreadReady' /\ (enable' <=> disabled = 0)
           /\ update' = IF thread THEN update ELSE "top"
<1>1. CASE Trigger
  <2>1. /\ listed' \in BOOLEAN /\ looped' \in BOOLEAN /\ tokens' \in 0 .. MaxTokens
    BY <1>1, SignalKeeps DEF Trigger, sig, TypeOK, FlagsOK
  <2>2. QED
    BY <1>1, <2>1 DEF Trigger, TypeOK, FlagsOK, EnableInStep, ThreadReady, thr
<1>2. CASE ~thread /\ CreateUpdateThread
  BY <1>2, CreateKeeps
<1>3. QED
  BY <1>1, <1>2 DEF TriggerUpdateThread

\* DisableProtocol and EnableProtocol keep the count and m_enable in step.
LEMMA EnableKeeps ==
    ASSUME TypeOK, EnableInStep, disabled > 0, Enable
    PROVE  /\ disabled' = disabled - 1
           /\ thread => (enable' <=> disabled' = 0)
           /\ enable' \in BOOLEAN /\ listed' \in BOOLEAN /\ looped' \in BOOLEAN
           /\ tokens' \in 0 .. MaxTokens
<1>1. disabled' = disabled - 1 /\ disabled \in Nat
  BY DEF Enable, TypeOK
<1>2. CASE disabled = 1 /\ thread
  <2>1. Signal /\ enable' /\ enable' \in BOOLEAN
    BY <1>2 DEF Enable, EnableUpdates
  <2>2. QED
    BY <1>1, <1>2, <2>1, SignalKeeps
<1>3. CASE ~(disabled = 1 /\ thread)
  <2>1. UNCHANGED <<enable, sig>>
    BY <1>3 DEF Enable
  <2>2. QED
    BY <1>1, <1>3, <2>1 DEF sig, TypeOK, FlagsOK, EnableInStep
<1>4. QED
  BY <1>2, <1>3

LEMMA DisableKeeps ==
    ASSUME TypeOK, EnableInStep, Disable
    PROVE  /\ disabled' = disabled + 1
           /\ thread => ~enable'
           /\ enable' \in BOOLEAN /\ listed' \in BOOLEAN /\ looped' \in BOOLEAN
           /\ tokens' \in 0 .. MaxTokens
<1>1. disabled' = disabled + 1 /\ disabled \in Nat
  BY DEF Disable, TypeOK
<1>2. CASE disabled = 0 /\ thread
  <2>1. Signal /\ ~enable' /\ enable' \in BOOLEAN
    BY <1>2, Zenon DEF Disable, EnableUpdates
  <2>2. QED
    BY <1>1, <1>2, <2>1, SignalKeeps
<1>3. CASE ~(disabled = 0 /\ thread)
  <2>1. UNCHANGED <<enable, sig>>
    BY <1>3 DEF Disable
  <2>2. QED
    BY <1>1, <1>3, <2>1 DEF sig, TypeOK, FlagsOK, EnableInStep
<1>4. QED
  BY <1>2, <1>3

-----------------------------------------------------------------------------
LEMMA InductiveInit == Init => Inductive
<1> SUFFICES ASSUME Init PROVE Inductive
  OBVIOUS
<1>1. ext \in BOOLEAN /\ scanned \in BOOLEAN
  BY OthersAssumption DEF Init
<1>2. dirty \in BOOLEAN
  <2>1. CASE Others
    BY <2>1 DEF Init
  <2>2. CASE ~Others
    BY <2>2 DEF Init
  <2>3. QED
    BY <2>1, <2>2
<1>3. /\ thread \in BOOLEAN /\ orphan \in BOOLEAN /\ active \in BOOLEAN
      /\ enable \in BOOLEAN /\ firstRun \in BOOLEAN /\ firstLoop \in BOOLEAN
      /\ incr \in BOOLEAN /\ clip \in BOOLEAN /\ pending \in BOOLEAN /\ held \in BOOLEAN
      /\ newSize \in BOOLEAN /\ listed \in BOOLEAN /\ looped \in BOOLEAN
      /\ ready \in BOOLEAN /\ asked \in BOOLEAN
  BY Zenon DEF Init
<1>4. TypeOK
  BY <1>1, <1>2, <1>3 DEF Init, TypeOK, FlagsOK, MessagePlaces, DesktopPlaces, UpdatePlaces
<1>5. NoUpdateWhileDisabled
  BY DEF Init, NoUpdateWhileDisabled
<1>6. ProtocolBalanced
  BY DEF Init, ProtocolBalanced
<1>7. LockHeld
  BY DEF Init, LockHeld
<1>8. QED
  BY <1>4, <1>5, <1>6, <1>7 DEF Inductive

\* The update thread takes and gives back the lock; it goes on to send only when
\* it was not disabled.
LEMMA UpdateThreadInductive ==
    ASSUME Inductive, UpdateThread
    PROVE  Inductive'
<1> USE DEF Inductive, TypeOK, FlagsOK, NoUpdateWhileDisabled, ProtocolBalanced, LockHeld,
            UpdatePlaces, UpdateGoto, thr, sig, rgn, siz, dsp
<1>1. CASE Top
  <2>1. incr' \in BOOLEAN
    BY <1>1, Zenon DEF Top
  <2>2. QED
    BY <1>1, <2>1 DEF Top
<1>2. CASE Enter
  BY <1>2 DEF Enter
<1>3. CASE Check
  BY <1>3 DEF Check, Blocks
<1>4. CASE Sleep
  <2>1. CASE firstLoop \/ connected
    <3>1. listed' \in BOOLEAN /\ looped' \in BOOLEAN /\ tokens' = tokens
      BY <1>4, <2>1, Zenon DEF Sleep, Enqueue
    <3>2. QED
      BY <1>4, <2>1, <3>1 DEF Sleep
  <2>2. CASE ~(firstLoop \/ connected)
    BY <1>4, <2>2 DEF Sleep
  <2>3. QED
    BY <2>1, <2>2
<1>5. CASE WakeUp \/ TimeOut
  BY <1>5 DEF WakeUp, TimeOut
<1>6. CASE Relock
  <2>1. firstRun' \in BOOLEAN
    BY <1>6, Zenon DEF Relock
  <2>2. QED
    BY <1>6, <2>1 DEF Relock
<1>7. CASE KickItself
  <2>1. listed' \in BOOLEAN /\ looped' \in BOOLEAN /\ tokens' \in 0 .. MaxTokens
    BY <1>7, SignalKeeps DEF KickItself
  <2>2. QED
    BY <1>7, <2>1 DEF KickItself
<1>8. CASE Take
  BY <1>8 DEF Take
<1>9. CASE Clear
  <2>1. incr' \in BOOLEAN
    BY <1>9, Zenon DEF Clear
  <2>2. QED
    BY <1>9, <2>1 DEF Clear
<1>10. CASE SendNothing \/ SendUpdate \/ SendNewSize \/ SendNoSize
  <2>1. /\ Turn
        /\ pending' \in BOOLEAN /\ held' \in BOOLEAN /\ clip' \in BOOLEAN
        /\ newSize' \in BOOLEAN /\ ext' \in BOOLEAN /\ asked' \in BOOLEAN
    BY <1>10, Zenon
       DEF SendNothing, SendUpdate, SendNewSize, SendNoSize, Turn, Flushed, Answer
  <2>2. QED
    BY <2>1 DEF Turn
<1>11. QED
  BY <1>1, <1>2, <1>3, <1>4, <1>5, <1>6, <1>7, <1>8, <1>9, <1>10 DEF UpdateThread

\* The message thread disables and enables updates, starts the update thread and
\* ends it.
LEMMA MessageThreadInductive ==
    ASSUME Inductive,
           \/ MessageThread \/ DisableProtocol \/ HangUp
           \/ \E full \in BOOLEAN : Request(full)
    PROVE  Inductive'
<1> USE DEF Inductive, TypeOK, FlagsOK, NoUpdateWhileDisabled, ProtocolBalanced, LockHeld,
            MessagePlaces, UpdatePlaces, Goto, thr, sig, rgn, siz, dsp
<1>1. TypeOK /\ EnableInStep
  BY DEF EnableInStep
<1>2. CASE EndSetup \/ EnableProtocol
  <2>1. Enable /\ ProtocolOnly /\ owner = "none" /\ message \in {"setup", "changing"}
    BY <1>2 DEF EndSetup, EnableProtocol
  <2>2. disabled > 0
    BY <2>1
  <2>3. /\ disabled' = disabled - 1
        /\ thread => (enable' <=> disabled' = 0)
        /\ enable' \in BOOLEAN /\ listed' \in BOOLEAN /\ looped' \in BOOLEAN
        /\ tokens' \in 0 .. MaxTokens
    BY <1>1, <2>1, <2>2, EnableKeeps
  <2>4. QED
    BY <1>2, <2>1, <2>3 DEF EndSetup, EnableProtocol, ProtocolOnly
<1>3. CASE DisableProtocol
  <2>1. /\ disabled' = disabled + 1
        /\ thread => ~enable'
        /\ enable' \in BOOLEAN /\ listed' \in BOOLEAN /\ looped' \in BOOLEAN
        /\ tokens' \in 0 .. MaxTokens
    BY <1>1, <1>3, DisableKeeps DEF DisableProtocol
  <2>2. QED
    BY <1>3, <2>1 DEF DisableProtocol, ProtocolOnly
<1>4. CASE PostFullScreen \/ Kick
  <2>1. TriggerUpdateThread /\ message \in {"post", "kick"}
    BY <1>4 DEF PostFullScreen, Kick
  <2>2. pending' \in BOOLEAN
    BY <1>4 DEF PostFullScreen, Kick
  <2>3. /\ ThreadReady' /\ (enable' <=> disabled = 0)
        /\ update' = IF thread THEN update ELSE "top"
    BY <1>1, <2>1, TriggerKeeps
  <2>4. QED
    BY <1>4, <2>2, <2>3 DEF PostFullScreen, Kick, ThreadReady
<1>5. ASSUME NEW full \in BOOLEAN, Request(full) PROVE Inductive'
  <2>1. newSize' \in BOOLEAN /\ extFull' \in BOOLEAN
    BY <1>5, Zenon DEF Request, Posts
  <2>2. CASE full \/ extFull
    <3>1. TriggerUpdateThread /\ pending' \in BOOLEAN
      BY <1>5, <2>2 DEF Request, Posts
    <3>2. /\ ThreadReady' /\ (enable' <=> disabled = 0)
          /\ update' = IF thread THEN update ELSE "top"
      BY <1>1, <3>1, TriggerKeeps
    <3>3. QED
      BY <1>5, <2>1, <3>1, <3>2 DEF Request, Posts, ThreadReady
  <2>3. CASE ~(full \/ extFull)
    BY <1>5, <2>1, <2>3 DEF Request, Posts
  <2>4. QED
    BY <2>2, <2>3
<1>6. CASE SyncedMessage
  BY <1>6 DEF SyncedMessage
<1>7. CASE StartLoop \/ NoteRequest \/ RemoveClient
  <2>1. connected' \in BOOLEAN /\ incr' \in BOOLEAN
    BY <1>7 DEF StartLoop, NoteRequest, RemoveClient
  <2>2. QED
    BY <1>7, <2>1 DEF StartLoop, NoteRequest, RemoveClient
<1>8. CASE HangUp \/ CleanUp
  <2>1. connected' \in BOOLEAN
    BY <1>8, Zenon DEF HangUp, CleanUp
  <2>2. QED
    BY <1>8, <2>1 DEF HangUp, CleanUp
<1>9. CASE Kill
  <2>1. active' \in BOOLEAN
    BY <1>9, Zenon DEF Kill
  <2>2. listed' \in BOOLEAN /\ looped' \in BOOLEAN /\ tokens' \in 0 .. MaxTokens
    BY <1>9, SignalKeeps DEF Kill
  <2>3. QED
    BY <1>9, <2>1, <2>2 DEF Kill
<1>10. CASE Join
  <2>1. thread' \in BOOLEAN /\ ~thread'
    BY <1>10, Zenon DEF Join
  <2>2. QED
    BY <1>10, <2>1 DEF Join
<1>11. QED
  BY <1>2, <1>3, <1>4, <1>5, <1>6, <1>7, <1>8, <1>9, <1>10 DEF MessageThread

\* The desktop thread holds the lock from the end of a wait to the end of the
\* change.
LEMMA DesktopThreadInductive ==
    ASSUME Inductive,
           \/ DesktopThread \/ ResizeDisable \/ FormatDisable \/ CursorShape \/ Change
           \/ \E full \in BOOLEAN : RequestForSilentViewer(full)
    PROVE  Inductive'
<1> USE DEF Inductive, TypeOK, FlagsOK, NoUpdateWhileDisabled, ProtocolBalanced, LockHeld,
            DesktopPlaces, UpdatePlaces, DesktopGoto, thr, sig, rgn, siz, dsp
<1>1. TypeOK /\ EnableInStep
  BY DEF EnableInStep
<1>2. CASE Scan
  <2>1. /\ ready' \in BOOLEAN /\ scanned' \in BOOLEAN /\ dirty' \in BOOLEAN
    BY <1>2, Zenon DEF Scan
  <2>2. CASE dirty
    <3>1. TriggerUpdateThread /\ pending' \in BOOLEAN
      BY <1>2, <2>2 DEF Scan
    <3>2. /\ ThreadReady' /\ (enable' <=> disabled = 0)
          /\ update' = IF thread THEN update ELSE "top"
      BY <1>1, <3>1, TriggerKeeps
    <3>3. QED
      BY <1>2, <2>1, <3>1, <3>2 DEF Scan, ThreadReady
  <2>3. CASE ~dirty
    BY <1>2, <2>1, <2>3 DEF Scan
  <2>4. QED
    BY <2>2, <2>3
<1>3. ASSUME NEW full \in BOOLEAN, RequestForSilentViewer(full) PROVE Inductive'
  <2>1. newSize' \in BOOLEAN /\ extFull' \in BOOLEAN /\ pending' \in BOOLEAN
    BY <1>3, Zenon DEF RequestForSilentViewer
  <2>2. TriggerUpdateThread /\ thread
    BY <1>3 DEF RequestForSilentViewer, TriggerUpdateThread
  <2>3. ThreadReady' /\ (enable' <=> disabled = 0) /\ update' = update
    BY <1>1, <2>2, TriggerKeeps
  <2>4. QED
    BY <1>3, <2>1, <2>2, <2>3 DEF RequestForSilentViewer, ThreadReady
<1>4. CASE ResizeDisable \/ FormatDisable
  <2>1. Disable /\ ProtocolOnly /\ ClearTracker /\ owner = "none" /\ desktop = "idle"
    BY <1>4 DEF ResizeDisable, FormatDisable
  <2>2. pending' \in BOOLEAN
    BY <2>1, Zenon DEF ClearTracker
  <2>3. /\ disabled' = disabled + 1
        /\ thread => ~enable'
        /\ enable' \in BOOLEAN /\ listed' \in BOOLEAN /\ looped' \in BOOLEAN
        /\ tokens' \in 0 .. MaxTokens
    BY <1>1, <2>1, DisableKeeps
  <2>4. CASE ResizeDisable
    BY <2>1, <2>2, <2>3, <2>4 DEF ResizeDisable, ClearTracker, ProtocolOnly
  <2>5. CASE FormatDisable
    BY <2>1, <2>2, <2>3, <2>5 DEF FormatDisable, ClearTracker, ProtocolOnly
  <2>6. QED
    BY <1>4, <2>4, <2>5
<1>5. CASE ResizeEnable \/ FormatEnable
  <2>1. Enable /\ ProtocolOnly /\ desktop \in {"sizeDisable", "formatDisable"}
    BY <1>5 DEF ResizeEnable, FormatEnable
  <2>2. disabled > 0
    BY <2>1
  <2>3. /\ disabled' = disabled - 1
        /\ thread => (enable' <=> disabled' = 0)
        /\ enable' \in BOOLEAN /\ listed' \in BOOLEAN /\ looped' \in BOOLEAN
        /\ tokens' \in 0 .. MaxTokens
    BY <1>1, <2>1, <2>2, EnableKeeps
  <2>4. CASE ResizeEnable
    BY <2>1, <2>3, <2>4 DEF ResizeEnable, ProtocolOnly
  <2>5. CASE FormatEnable
    BY <2>1, <2>3, <2>5 DEF FormatEnable, ProtocolOnly
  <2>6. QED
    BY <1>5, <2>4, <2>5
<1>6. CASE ResizeEnd \/ FormatEnd \/ CursorShape
  BY <1>6 DEF ResizeEnd, FormatEnd, CursorShape
<1>7. CASE CursorCreates
  <2>1. ThreadReady' /\ (enable' <=> disabled = 0) /\ update' = "top"
    BY <1>1, <1>7, CreateKeeps DEF CursorCreates
  <2>2. QED
    BY <1>7, <2>1 DEF CursorCreates, ThreadReady
<1>8. CASE Change
  BY <1>8 DEF Change
<1>9. QED
  BY <1>2, <1>3, <1>4, <1>5, <1>6, <1>7, <1>8 DEF DesktopThread

LEMMA InductiveNext == Inductive /\ [Next]_vars => Inductive'
<1> SUFFICES ASSUME Inductive, [Next]_vars PROVE Inductive'
  OBVIOUS
<1>1. CASE UNCHANGED vars
  BY <1>1 DEF Inductive, TypeOK, FlagsOK, NoUpdateWhileDisabled, ProtocolBalanced,
              LockHeld, vars, thr, sig, rgn, siz, dsp
<1>2. QED
  BY <1>1, UpdateThreadInductive, MessageThreadInductive, DesktopThreadInductive DEF Next

-----------------------------------------------------------------------------
(* Requests.  With "ext" SendNoSize drops one; with "cursor" a second update *)
(* thread may take the place of the one that has it (OneUpdateThread).       *)
Plain == "ext" \notin Events /\ "cursor" \notin Events

\* The update thread moves a request from m_incr_rgn to clipregion and back.
LEMMA UpdateThreadKeepsRequest ==
    ASSUME Inductive, RequestInductive, UpdateThread
    PROVE  RequestInductive'
<1> USE DEF RequestInductive, RequestKept, Serving, UpdateGoto, thr, sig, rgn, siz, dsp
<1>1. CASE Top
  <2>1. incr => incr'
    BY <1>1, Zenon DEF Top
  <2>2. QED
    BY <1>1, <2>1 DEF Top
<1>2. CASE Enter \/ WakeUp \/ Relock \/ TimeOut \/ KickItself
  BY <1>2 DEF Enter, WakeUp, Relock, TimeOut, KickItself
<1>3. CASE Check
  BY <1>3 DEF Check, Blocks
<1>4. CASE Sleep
  BY <1>4 DEF Sleep
<1>5. CASE Take
  BY <1>5 DEF Take
<1>6. CASE Clear
  BY <1>6 DEF Clear
<1>7. CASE SendNothing
  BY <1>7 DEF SendNothing, Turn
<1>8. CASE SendUpdate \/ SendNewSize
  <2>1. Turn /\ asked' => asked /\ (incr \/ message = "request")
    BY <1>8, Zenon DEF SendUpdate, SendNewSize, Answer
  <2>2. Turn /\ ~ext'
    BY <1>8 DEF SendUpdate, SendNewSize
  <2>3. QED
    BY <2>1, <2>2 DEF Turn
<1>9. CASE SendNoSize
  BY <1>9 DEF SendNoSize
<1>10. QED
  BY <1>1, <1>2, <1>3, <1>4, <1>5, <1>6, <1>7, <1>8, <1>9 DEF UpdateThread

\* A signalled thread keeps its clipregion; a new one is made only in the setup.
LEMMA TriggerKeepsRequest ==
    ASSUME TriggerUpdateThread
    PROVE  /\ thread => UNCHANGED <<thread, clip, update>>
           /\ ~thread => update' = "top"
           /\ thread'
BY DEF TriggerUpdateThread, Trigger, CreateUpdateThread, thr

\* A request counts as known from the moment it was read.
LEMMA MessageThreadKeepsRequest ==
    ASSUME Inductive, RequestInductive,
           \/ MessageThread \/ DisableProtocol \/ HangUp
           \/ \E full \in BOOLEAN : Request(full)
    PROVE  RequestInductive'
<1> USE DEF RequestInductive, RequestKept, Serving, Goto, thr, sig, rgn, siz, dsp
<1>1. CASE EndSetup \/ EnableProtocol \/ DisableProtocol
  BY <1>1 DEF EndSetup, EnableProtocol, DisableProtocol, ProtocolOnly
<1>2. CASE SyncedMessage \/ StartLoop
  BY <1>2 DEF SyncedMessage, StartLoop
<1>3. CASE PostFullScreen
  BY <1>3, TriggerKeepsRequest DEF PostFullScreen
<1>4. CASE Kick
  BY <1>4, TriggerKeepsRequest DEF Kick
<1>5. CASE NoteRequest
  BY <1>5 DEF NoteRequest
<1>6. ASSUME NEW full \in BOOLEAN, Request(full) PROVE RequestInductive'
  <2>1. newSize => newSize'
    BY <1>6, Zenon DEF Request, Posts
  <2>2. UNCHANGED <<thread, clip, update>>
    BY <1>6, TriggerKeepsRequest DEF Request, Posts
  <2>3. QED
    BY <1>6, <2>1, <2>2 DEF Request, Posts
<1>7. CASE HangUp \/ Kill \/ Join \/ RemoveClient \/ CleanUp
  BY <1>7 DEF HangUp, Kill, Join, RemoveClient, CleanUp
<1>8. QED
  BY <1>1, <1>2, <1>3, <1>4, <1>5, <1>6, <1>7 DEF MessageThread

\* What the desktop thread clears is what was posted, never a request.
LEMMA DesktopThreadKeepsRequest ==
    ASSUME Plain, Inductive, RequestInductive,
           \/ DesktopThread \/ ResizeDisable \/ FormatDisable \/ CursorShape \/ Change
           \/ \E full \in BOOLEAN : RequestForSilentViewer(full)
    PROVE  RequestInductive'
<1> USE DEF RequestInductive, RequestKept, Serving, DesktopGoto, thr, sig, rgn, siz, dsp
<1>1. CASE Scan
  BY <1>1, TriggerKeepsRequest DEF Scan
<1>2. ASSUME NEW full \in BOOLEAN, RequestForSilentViewer(full)
      PROVE  RequestInductive'
  <2>1. newSize => newSize'
    BY <1>2, Zenon DEF RequestForSilentViewer
  <2>2. QED
    BY <1>2, <2>1 DEF RequestForSilentViewer, Trigger
<1>3. CASE ResizeDisable \/ FormatDisable
  BY <1>3 DEF ResizeDisable, FormatDisable, ClearTracker, ProtocolOnly
<1>4. CASE ResizeEnable \/ FormatEnable
  BY <1>4 DEF ResizeEnable, FormatEnable, ProtocolOnly
<1>5. CASE ResizeEnd \/ FormatEnd
  BY <1>5 DEF ResizeEnd, FormatEnd
<1>6. CASE CursorShape \/ CursorCreates
  BY <1>6 DEF CursorShape, CursorCreates, Plain
<1>7. CASE Change
  BY <1>7 DEF Change
<1>8. QED
  BY <1>1, <1>2, <1>3, <1>4, <1>5, <1>6, <1>7 DEF DesktopThread

-----------------------------------------------------------------------------
\* The threads stay where the lock lets them be, for every choice of events.
THEOREM InductiveHolds == Spec => []Inductive
BY InductiveInit, InductiveNext, PTL DEF Spec

\* Every variable keeps its type; updates are never disabled more than twice.
THEOREM ClientTypes == Spec => []TypeOK
<1>1. Inductive => TypeOK
  BY DEF Inductive
<1>2. QED
  BY <1>1, InductiveHolds, PTL

\* Between DisableProtocol and EnableProtocol the update thread is not sending.
THEOREM NoUpdateWhileDisabledHolds == Spec => []NoUpdateWhileDisabled
<1>1. Inductive => NoUpdateWhileDisabled
  BY DEF Inductive
<1>2. QED
  BY <1>1, InductiveHolds, PTL

\* The count of DisableProtocol is that of the threads that called it, and
\* m_enable follows it.
THEOREM ProtocolBalancedHolds == Spec => []ProtocolBalanced
<1>1. Inductive => ProtocolBalanced
  BY DEF Inductive
<1>2. QED
  BY <1>1, InductiveHolds, PTL

\* A request is answered or still known as long as the viewer is served.
THEOREM RequestKeptHolds ==
    ASSUME Plain
    PROVE  Spec => []RequestKept
<1>1. Init => RequestInductive
  BY DEF Init, Plain, RequestInductive, RequestKept
<1>2. Inductive /\ RequestInductive /\ [Next]_vars => RequestInductive'
  <2> SUFFICES ASSUME Inductive, RequestInductive, [Next]_vars PROVE RequestInductive'
    OBVIOUS
  <2>1. CASE UNCHANGED vars
    BY <2>1 DEF RequestInductive, RequestKept, Serving, vars, thr, rgn, siz
  <2>2. QED
    BY <2>1, UpdateThreadKeepsRequest, MessageThreadKeepsRequest,
       DesktopThreadKeepsRequest DEF Next
<1>3. RequestInductive => RequestKept
  BY DEF RequestInductive
<1>4. QED
  BY <1>1, <1>2, <1>3, InductiveHolds, PTL DEF Spec
=============================================================================
