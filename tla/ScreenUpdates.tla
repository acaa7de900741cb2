--------------------------- MODULE ScreenUpdates ---------------------------
(***************************************************************************)
(* How the picture of one viewer follows the screen of the server          *)
(* (winvnc: vncdesktopthread.cpp, vncserver.cpp, vncclient.cpp).           *)
(*                                                                         *)
(* The desktop thread keeps the back buffer up to date and posts what it   *)
(* did to the update tracker of every client (add_changed, add_cached,     *)
(* add_copied).  The client's message thread turns the viewer's requests   *)
(* into m_incr_rgn.  The client's update thread flushes the tracker into   *)
(* a tracker of its own, `update', which survives the iterations that      *)
(* cannot send, and sends it: copies first, pixels afterwards.  The steps  *)
(* of the desktop thread and of the update thread hold the desktop's       *)
(* update lock, so each is one action.                                     *)
(*                                                                         *)
(* Abstracted: the rectangles a region is cut into and their order, the   *)
(* encodings, scaling, cursor and clipboard.  `viewer' is the picture the  *)
(* viewer shows once it has read everything sent to it: the connection is  *)
(* a reliable stream.  `flushed' and `synced' are history variables.       *)
(***************************************************************************)
EXTENDS UpdateTracker

CONSTANTS
    Screen,      \* the pixels of the display (m_Cliprect)
    Pixel,       \* what a pixel can show
    Moves,       \* the displacements of moved windows
    Patches,     \* the regions found changed at once
    Windows,     \* the regions a window can move to
    Events       \* what else happens, a subset of AllEvents

\* "cache":  the viewer asks for cache rectangles;
\* "switch": the capture mechanism is restarted on the same screen;
\* "resize": the screen changes its size;
\* "hold":   an update cannot be sent yet, the formats of the encoder and of
\*           the buffer differ or the first capture is not done.
AllEvents == {"cache", "switch", "resize", "hold"}

ASSUME ScreenAssumption == Screen \subseteq Point
ASSUME MovesAssumption == Moves \subseteq Point
ASSUME RegionAssumption == /\ Patches \subseteq SUBSET Screen
                           /\ Windows \subseteq SUBSET Screen
ASSUME EventsAssumption == Events \subseteq AllEvents

VARIABLES
    screen,      \* the server's back buffer, what the encoders read
    tracker,     \* m_update_tracker of the client
    incr,        \* m_incr_rgn: what the viewer waits for
    clip,        \* clipregion of the update thread
    update,      \* the update thread's own tracker
    newSize,     \* m_NewSWUpdateWaiting
    viewer,      \* the viewer's picture
    flushed,     \* history: the screen at the last full flush
    synced,      \* history: FALSE from a change of the screen size to the
                 \* first flush of the full refresh the viewer then asks for
    dropped      \* history: TRUE from a restart of the capture to the next
                 \* flush of a full refresh

vars == <<screen, tracker, incr, clip, update, newSize, viewer, flushed, synced,
          dropped>>

Picture == [Screen -> Pixel]

TypeOK ==
    /\ screen \in Picture
    /\ tracker \in Tracker
    /\ incr \in {{}, Screen}
    /\ clip \in {{}, Screen}
    /\ update \in Tracker
    /\ newSize \in BOOLEAN
    /\ viewer \in Picture
    /\ flushed \in Picture
    /\ synced \in BOOLEAN
    /\ dropped \in BOOLEAN

-----------------------------------------------------------------------------
\* The picture after the pixels of dest are moved there by d.
Moved(pic, dest, d) ==
    [p \in Screen |-> IF p \in dest THEN pic[Minus(p, d)] ELSE pic[p]]

\* The viewer reads an update: CopyRects move what it shows, everything else
\* brings the pixels the server's buffer holds now.
Shown(pic, now, info) ==
    [p \in Screen |->
        IF p \in info.changed \cup info.cached THEN now[p]
        ELSE IF p \in info.copied THEN pic[Minus(p, info.delta)]
        ELSE pic[p]]

Init ==
    /\ screen \in Picture
    /\ viewer \in Picture
    /\ tracker = NewTracker(FALSE)
    /\ update = NewTracker(TRUE)
    /\ incr = {}
    /\ clip = {}
    /\ newSize = FALSE
    /\ flushed = viewer
    /\ synced = FALSE
    /\ dropped = FALSE

-----------------------------------------------------------------------------
(* The desktop thread. *)

\* CheckRegion found different pixels in R, copied them to the back buffer
\* and ServerUpdateTracker::add_changed posted R to the client.
Draw(R, pic) ==
    /\ screen' = [p \in Screen |-> IF p \in R THEN pic[p] ELSE screen[p]]
    /\ tracker' = AddChanged(tracker, R)
    /\ UNCHANGED <<incr, clip, update, newSize, viewer, flushed, synced,
                   dropped>>

\* CheckRegion found that R shows again what it showed before.
DrawCached(R, pic) ==
    /\ "cache" \in Events
    /\ screen' = [p \in Screen |-> IF p \in R THEN pic[p] ELSE screen[p]]
    /\ tracker' = AddCached(tracker, R)
    /\ UNCHANGED <<incr, clip, update, newSize, viewer, flushed, synced,
                   dropped>>

\* A window moved by d: its pixels are moved in the back buffer
\* (vncBuffer::CopyRect) and the move is posted through the desktop thread's
\* clipped tracker; pixels that come from outside the display are scanned.
MoveWindow(dest, d, pic) ==
    LET kept  == OnDisplay(Screen, dest, d)
        local == ClippedAddCopied(NewTracker(TRUE), Screen, dest, d)
        moved == Moved(screen, kept, d)
    IN  /\ screen' = [p \in Screen |-> IF p \in dest \ kept THEN pic[p]
                                       ELSE moved[p]]
        /\ tracker' = Posted(local, tracker)
        /\ UNCHANGED <<incr, clip, update, newSize, viewer, flushed, synced,
                   dropped>>

\* handle_display_change without a new size (hooks or driver switched, logon
\* desktop): the queued updates are removed, the back buffer stays.
SwitchHook ==
    /\ "switch" \in Events
    /\ tracker' = Cleared(tracker)
    /\ dropped' = TRUE
    /\ UNCHANGED <<screen, incr, clip, update, newSize, viewer, flushed, synced>>

\* handle_display_change with a new size: new buffers, queued updates removed,
\* vncClient::SetNewSWSize.
Resize(pic) ==
    /\ "resize" \in Events
    /\ screen' = pic
    /\ tracker' = Cleared(tracker)
    /\ newSize' = TRUE
    /\ synced' = FALSE
    /\ UNCHANGED <<incr, clip, update, viewer, flushed, dropped>>

-----------------------------------------------------------------------------
(* The client's message thread.  vncClient::NotifyUpdate does not hold the
   update lock, so its two effects are two actions.  The viewer always asks
   for all of its framebuffer (ClientConnection.cpp,
   Internal_SendIncrementalFramebufferUpdateRequest and
   Internal_SendFullFramebufferUpdateRequest). *)

\* A request that is not incremental marks the screen changed...
MarkFullRefresh ==
    /\ tracker' = AddChanged(tracker, Screen)
    /\ UNCHANGED <<screen, incr, clip, update, newSize, viewer, flushed, synced,
                   dropped>>

\* ...and every request adds its region to m_incr_rgn.
AddRequest ==
    /\ incr' = Screen
    /\ UNCHANGED <<screen, tracker, clip, update, newSize, viewer, flushed, synced,
                   dropped>>

\* SetEncodings: copyrect is switched off and, if it is in the list, on again.
SetEncodings(copyrect) ==
    /\ tracker' = [tracker EXCEPT !.copyOn = copyrect]
    /\ UNCHANGED <<screen, incr, clip, update, newSize, viewer, flushed, synced,
                   dropped>>

-----------------------------------------------------------------------------
(* The client's update thread, one turn of its loop.  It is awake because
   something is to be sent or because the pointer moved, so that it may also
   run when nothing was asked for. *)

Wanted == incr \cup clip
Due    == Flushed(tracker, update, Wanted)

\* What is flushed is (at least) a full refresh.
Refreshed == Wanted = Screen /\ Screen \subseteq tracker.changed

Flush ==
    /\ tracker' = Kept(tracker, Wanted)
    /\ flushed' = IF Wanted = Screen THEN screen ELSE flushed
    /\ synced' = (synced \/ (Refreshed /\ ~newSize))
    /\ dropped' = (dropped /\ ~Refreshed)
    /\ incr' = {}

\* SendUpdate sends what is due, or the pointer alone when nothing is.
UpdateSent ==
    /\ ~newSize
    /\ Flush
    /\ viewer' = Shown(viewer, screen, UpdateInfo(Due))
    /\ update' = Cleared(Due)
    /\ clip' = {}
    /\ UNCHANGED <<screen, newSize>>

\* SendUpdate finds nothing to send, or is not called: the update and the
\* region it is for are kept for the next turn.
\* Faulty variant: the update is thrown away as if it had been sent.
UpdateHeldDropping ==
    /\ \/ IsEmpty(Due) /\ ~newSize
       \/ "hold" \in Events
    /\ Flush
    /\ update' = Cleared(Due)
    /\ clip' = Wanted
    /\ UNCHANGED <<screen, newSize, viewer>>

UpdateHeld ==
    /\ \/ IsEmpty(Due) /\ ~newSize
       \/ "hold" \in Events
    /\ Flush
    /\ update' = Due
    /\ clip' = Wanted
    /\ UNCHANGED <<screen, newSize, viewer>>

\* SendUpdate announces the new size and drops the update: the viewer makes a
\* new framebuffer and will ask for all of it.
\* Faulty variant: the update that was gathered before the new size is kept.
NewSizeSentKeeping(pic) ==
    /\ newSize
    /\ Flush
    /\ update' = Due
    /\ clip' = {}
    /\ newSize' = FALSE
    /\ viewer' = pic
    /\ UNCHANGED screen

NewSizeSent(pic) ==
    /\ newSize
    /\ Flush
    /\ update' = Cleared(Due)
    /\ clip' = {}
    /\ newSize' = FALSE
    /\ viewer' = pic
    /\ UNCHANGED screen

-----------------------------------------------------------------------------
Next ==
    \/ \E R \in Patches : \E pic \in [R -> Pixel] : Draw(R, pic)
    \/ \E R \in Patches : \E pic \in [R -> Pixel] : DrawCached(R, pic)
    \/ \E dest \in Windows, d \in Moves :
          \E pic \in [dest \ OnDisplay(Screen, dest, d) -> Pixel] :
              MoveWindow(dest, d, pic)
    \/ SwitchHook
    \/ \E pic \in Picture : Resize(pic)
    \/ MarkFullRefresh
    \/ AddRequest
    \/ \E copyrect \in BOOLEAN : SetEncodings(copyrect)
    \/ UpdateSent
    \/ UpdateHeld
    \/ \E pic \in Picture : NewSizeSent(pic)

Spec == Init /\ [][Next]_vars

-----------------------------------------------------------------------------
\* The viewer has, or is about to be sent, a full refresh of this framebuffer
\* since the capture was last started.
Settled == synced /\ ~dropped

WrongPixelsPending ==
    \A p \in Screen :
        viewer[p] # screen[p] =>
            \/ p \in tracker.changed \cup tracker.cached \cup tracker.copied
            \/ p \in update.changed \cup update.cached \cup update.copied

\* Every pixel a viewer shows wrongly is still going to be sent to it: it is in
\* the client's tracker or in the update thread's, whatever copies were merged,
\* held back or turned into pixels on the way.  A restart of the capture throws
\* pixels away: there it holds again from the next full refresh on.
NoStalePixel == Settled => WrongPixelsPending

\* "This is used on SW switch if backbuffer is not cleared the checker marks the
\* rects as already send" (vncBuffer::BlackBack): a restart loses no pixel.
RestartLosesNothing == synced => WrongPixelsPending

\* "be careful not to copy stuff that still needs to be updated": a copy the
\* server is about to send moves, in the viewer, the pixels the server moved.
CopySourcesCurrent == Settled => Accounts(Screen, viewer, flushed, update)

\* An update that answers a request brings the viewer's whole picture to the
\* state of the screen, a full refresh included that answers a change of the
\* size or a restart of the capture, whatever was held back before it.
AnswerIsCurrent ==
    [][Wanted = Screen /\ Settled' /\ UpdateSent => viewer' = screen']_vars

\* The viewer is never told to move pixels from outside its framebuffer.
CopySourceOnScreen ==
    \A t \in {tracker, update} :
        \A p \in t.copied : p \in Screen /\ Minus(p, t.delta) \in Screen

\* The inductive invariant of ScreenUpdatesProofs, without cache rectangles:
\* what the viewer lacks is split between the two trackers, in the order it
\* happened.
Inductive ==
    /\ TypeOK
    /\ OnScreen(Screen, tracker)
    /\ OnScreen(Screen, update)
    /\ Settled => /\ Accounts(Screen, flushed, screen, tracker)
                  /\ Accounts(Screen, viewer, flushed, update)
    /\ ~IsEmpty(update) => clip = Screen
    /\ newSize => ~synced
=============================================================================
