------------------------------ MODULE Clipboard ------------------------------
(***************************************************************************)
(* The two clipboards of a session and the extended clipboard protocol     *)
(* that keeps them in step (common/Clipboard.cpp, the cut text handlers of *)
(* winvnc and of vncviewer).                                               *)
(*                                                                         *)
(* Threads: at the viewer the window's (clipboard chain, menu, posted      *)
(* messages) and the one that reads the server; at the server the desktop  *)
(* sink (clipboard chain), the client's message thread and its update      *)
(* thread.  A clipboard is open for one of them at a time: Load and        *)
(* Restore are one step each.                                              *)
(*                                                                         *)
(* What is on a clipboard is its text and what it holds in formats over    *)
(* the limits, "rich"; m_crc is over the text alone, and the checksum of   *)
(* no text is its initial value.  A DIB is always over the limit, RTF and  *)
(* HTML are when they are long or switched off.  Failures to open a        *)
(* clipboard, several viewers and clipPeek, which this viewer never sends, *)
(* are left out.                                                           *)
(***************************************************************************)
EXTENDS Naturals, Sequences, FiniteSets

CONSTANTS
    None,         \* no text, nothing rich
    ViewerCopies, ServerCopies,  \* what the users there may copy
    MaxCopies,    \* bound on the copies, for each side
    MaxCommands   \* bound on the commands of the viewer's user

Sides == {"viewer", "server"}
Texts == {c.text : c \in ViewerCopies \cup ServerCopies} \cup {None}
Riches == {c.rich : c \in ViewerCopies \cup ServerCopies} \cup {None}
Contents == [text : Texts, rich : Riches]
Nothing == [text |-> None, rich |-> None]

ASSUME CopiesAssumption ==
    /\ \A c \in ViewerCopies \cup ServerCopies : c = [text |-> c.text, rich |-> c.rich]
    /\ Nothing \notin ViewerCopies \cup ServerCopies
    /\ MaxCopies \in [Sides -> Nat] /\ MaxCommands \in Nat

VARIABLES
    clip,      \* what is on the clipboard of each side
    own,       \* GetClipboardOwner() is the program's own window
    draw,      \* WM_DRAWCLIPBOARD waits for the thread of the clipboard chain
    updating,  \* that thread has found a change that it has to pass on
    crc,       \* m_crc
    auto,      \* the limit for text is not 0: the other side takes it unasked
    notify,    \* the server knows of a viewer with clipNotify
    ex,        \* the viewer's m_bSupportsEx
    lastText,  \* the viewer's m_strLastCutText
    capsPost,  \* WM_UPDATEREMOTECLIPBOARDCAPS is posted
    enabled,   \* the viewer's clipboard is not disabled, nor is it view only
    files,     \* the viewer's file transfer window is open
    session,   \* the server's m_fFileSessionOpen
    offer,     \* what m_bNeedToProvide is set for, or Nothing
    tell,      \* m_bNeedToNotify
    loaded,    \* what the message thread has loaded to answer a request
    toV, toS,  \* messages under way
    copies, commands,  \* (bounds) copies of each side, commands
    seen,      \* (history) the texts that were on the clipboard of each side
    sent       \* (history) how many contents were sent

clipboards == <<clip, own, draw, seen>>
settings == <<auto, notify, ex, enabled, files, session>>
pending == <<offer, tell, loaded>>
channels == <<toV, toS>>
bounds == <<copies, commands>>
vars == <<clipboards, updating, crc, lastText, capsPost, settings, pending, channels, bounds, sent>>

Caps(on) == [kind |-> "caps", on |-> on]
Content(kind, c) == [kind |-> kind, what |-> c]
Plain(kind) == [kind |-> kind]

\* No Notify reaches the server, and no Request the viewer.
ToViewer == [kind : {"caps"}, on : BOOLEAN] \cup [kind : {"provide"}, what : Contents]
               \cup [kind : {"notify"}]
ToServer == [kind : {"caps"}, on : BOOLEAN] \cup [kind : {"provide", "text"}, what : Contents]
               \cup [kind : {"request", "filesOn", "filesOff"}]

TypeOK ==
    /\ clip \in [Sides -> Contents]
    /\ own \in [Sides -> BOOLEAN] /\ draw \in [Sides -> BOOLEAN]
    /\ updating \in [Sides -> BOOLEAN]
    /\ crc \in [Sides -> Texts] /\ lastText \in Texts
    /\ auto \in [Sides -> BOOLEAN]
    /\ notify \in BOOLEAN /\ ex \in BOOLEAN /\ capsPost \in BOOLEAN
    /\ enabled \in BOOLEAN /\ files \in BOOLEAN /\ session \in BOOLEAN /\ tell \in BOOLEAN
    /\ offer \in Contents /\ loaded \in Contents
    /\ toV \in Seq(ToViewer) /\ toS \in Seq(ToServer)

\* Both programs run; the server's NotifyExtendedClipboardSupport is under way.
Init ==
    /\ clip = [s \in Sides |-> Nothing]
    /\ own = [s \in Sides |-> FALSE] /\ draw = [s \in Sides |-> FALSE]
    /\ updating = [s \in Sides |-> FALSE]
    /\ crc = [s \in Sides |-> None] /\ lastText = None
    /\ auto = [s \in Sides |-> TRUE] /\ notify = FALSE /\ ex = FALSE
    /\ capsPost = FALSE /\ enabled \in BOOLEAN
    /\ files = FALSE /\ session = FALSE
    /\ offer = Nothing /\ tell = FALSE /\ loaded = Nothing
    /\ toV = <<Caps(TRUE)>> /\ toS = <<>>
    /\ seen = [s \in Sides |-> {}] /\ copies = [s \in Sides |-> 0] /\ commands = 0
    /\ sent = 0

-----------------------------------------------------------------------------
(* Operations of both sides. *)

\* Another program, for the user.
Copy(s, c) ==
    /\ copies[s] < MaxCopies[s]
    /\ clip' = [clip EXCEPT ![s] = c]
    /\ own' = [own EXCEPT ![s] = FALSE] /\ draw' = [draw EXCEPT ![s] = TRUE]
    /\ seen' = [seen EXCEPT ![s] = @ \cup ({c.text} \ {None})]
    /\ copies' = [copies EXCEPT ![s] = copies[s] + 1]
    /\ UNCHANGED <<updating, crc, lastText, capsPost, settings, pending, channels, commands, sent>>

\* ClipboardData::Restore.  HTML and a DIB are freed after the clipboard has taken
\* them: whether they stay readable is open.
Restore(s, c) ==
    /\ \E kept \in {c, [c EXCEPT !.rich = None]} : clip' = [clip EXCEPT ![s] = kept]
    /\ own' = [own EXCEPT ![s] = TRUE] /\ draw' = [draw EXCEPT ![s] = TRUE]
    /\ seen' = [seen EXCEPT ![s] = @ \cup ({c.text} \ {None})]

\* What of c Clipboard::UpdateClipTextEx puts into the message: what is within
\* the limits, or everything when the user asked for it.
Offered(s, c, asked) ==
    [text |-> IF auto[s] \/ asked THEN c.text ELSE None,
     rich |-> IF asked THEN c.rich ELSE None]

\* It returns early for a text that has the checksum of the last one.
Changed(s, c, asked) == asked \/ c.text # crc[s]

-----------------------------------------------------------------------------
(* The viewer. *)

\* ProcessLocalClipboardChange.
ViewerDraw ==
    /\ draw["viewer"] /\ ~updating["viewer"]
    /\ draw' = [draw EXCEPT !["viewer"] = FALSE]
    /\ updating' = [updating EXCEPT !["viewer"] = ~files /\ ~own["viewer"] /\ enabled]
    /\ UNCHANGED <<clip, own, seen, crc, lastText, capsPost, settings, pending, channels, bounds, sent>>

\* UpdateRemoteClipboard, after what the caller wrote; m_remoteCaps of a server
\* lacks clipNotify.
UpdateRemoteClipboard(written, asked) ==
    LET c == clip["viewer"]
        message == Offered("viewer", c, asked)
    IN  \/ /\ ex /\ c # Nothing /\ Changed("viewer", c, asked)
           /\ crc' = [crc EXCEPT !["viewer"] = c.text]
           /\ lastText' = None
           /\ IF message = Nothing
              THEN toS' = written /\ UNCHANGED sent
              ELSE toS' = Append(written, Content("provide", message)) /\ sent' = sent + 1
        \/ /\ ex /\ (c = Nothing \/ ~Changed("viewer", c, asked))
           /\ toS' = written /\ UNCHANGED <<crc, lastText, sent>>
        \/ /\ ~ex /\ c.text \notin {None, lastText} /\ ~files
           /\ lastText' = c.text
           /\ toS' = Append(written, Content("text", [c EXCEPT !.rich = None]))
           /\ sent' = sent + 1 /\ UNCHANGED crc
        \/ /\ ~ex /\ (c.text \in {None, lastText} \/ files)
           /\ toS' = written /\ UNCHANGED <<crc, lastText, sent>>

\* The owner was checked before m_clipMutex was taken.
ViewerUpdate ==
    /\ updating["viewer"]
    /\ updating' = [updating EXCEPT !["viewer"] = FALSE]
    /\ UpdateRemoteClipboard(toS, FALSE)
    /\ UNCHANGED <<clipboards, capsPost, settings, pending, toV, bounds>>

\* UpdateRemoteClipboardCaps: with the clipboard disabled the limits are 0 and
\* clipNotify is left out.
CapsWritten(on) == IF ex THEN Append(toS, Caps(on)) ELSE toS

PostedCaps ==
    /\ capsPost /\ ~updating["viewer"]
    /\ capsPost' = FALSE
    /\ toS' = CapsWritten(enabled)
    /\ UNCHANGED <<clipboards, updating, crc, lastText, settings, pending, toV, bounds, sent>>

Command ==
    /\ commands < MaxCommands /\ ~updating["viewer"]
    /\ commands' = commands + 1
    /\ UNCHANGED copies

\* ID_ENABLE_CLIPBOARD, ID_VIEWONLYTOGGLE or the options.
Toggle ==
    /\ Command
    /\ enabled' = ~enabled
    /\ IF enabled
       THEN toS' = CapsWritten(FALSE) /\ UNCHANGED <<crc, lastText, sent>>
       ELSE UpdateRemoteClipboard(CapsWritten(TRUE), FALSE)
    /\ UNCHANGED <<clipboards, updating, capsPost, auto, notify, ex, files, session, pending, toV>>

\* ID_CLIPBOARD_SEND.
SendClipboard ==
    /\ Command
    /\ UpdateRemoteClipboard(toS, TRUE)
    /\ UNCHANGED <<clipboards, updating, capsPost, settings, pending, toV>>

\* Faulty variant: clipNotify where clipRequest is meant.
NotifyRemoteClipboard ==
    /\ Command /\ ex
    /\ toS' = Append(toS, Plain("notify"))
    /\ UNCHANGED <<clipboards, updating, crc, lastText, capsPost, settings, pending, toV, sent>>

\* ID_CLIPBOARD_RECV: RequestRemoteClipboard, for all formats.
RequestRemoteClipboard ==
    /\ Command /\ ex
    /\ toS' = Append(toS, Plain("request"))
    /\ UNCHANGED <<clipboards, updating, crc, lastText, capsPost, settings, pending, toV, sent>>

\* The file transfer window is opened or closed.
FileTransfer ==
    /\ IF files THEN ~updating["viewer"] /\ UNCHANGED bounds ELSE Command
    /\ files' = ~files
    /\ toS' = Append(toS, Plain(IF files THEN "filesOff" ELSE "filesOn"))
    /\ UNCHANGED <<clipboards, updating, crc, lastText, capsPost, auto, notify, ex, enabled,
                   session, pending, toV, sent>>

\* ReadServerCutText, on the thread that reads the server.
ReadCaps ==
    /\ Head(toV).kind = "caps"
    /\ ex' = TRUE /\ capsPost' = TRUE
    /\ auto' = [auto EXCEPT !["viewer"] = Head(toV).on]
    /\ UNCHANGED <<clipboards, crc, notify, enabled>>

ReadProvide ==
    /\ Head(toV).kind = "provide"
    /\ IF enabled
       THEN /\ Restore("viewer", Head(toV).what)
            /\ crc' = [crc EXCEPT !["viewer"] = Head(toV).what.text]
       ELSE UNCHANGED <<clipboards, crc>>
    /\ ex' = TRUE
    /\ UNCHANGED <<capsPost, auto, notify, enabled>>

\* Only m_notifiedRemoteFormats, which nobody reads.
ReadNotify ==
    /\ Head(toV).kind = "notify"
    /\ ex' = TRUE
    /\ UNCHANGED <<clipboards, crc, capsPost, auto, notify, enabled>>

ReadServerCutText ==
    /\ toV # <<>>
    /\ toV' = Tail(toV)
    /\ ReadCaps \/ ReadProvide \/ ReadNotify
    /\ UNCHANGED <<updating, lastText, files, session, pending, toS, bounds, sent>>

-----------------------------------------------------------------------------
(* The server. *)

\* Faulty variant: what the server itself has put there is passed on, too.
DrawAnything ==
    /\ draw["server"] /\ ~updating["server"]
    /\ draw' = [draw EXCEPT !["server"] = FALSE]
    /\ updating' = [updating EXCEPT !["server"] = ~session]
    /\ UNCHANGED <<clip, own, seen, crc, lastText, capsPost, settings, pending, channels, bounds, sent>>

\* WM_DRAWCLIPBOARD of the desktop sink.
ServerDraw ==
    /\ draw["server"] /\ ~updating["server"]
    /\ draw' = [draw EXCEPT !["server"] = FALSE]
    /\ updating' = [updating EXCEPT !["server"] = ~own["server"] /\ ~session]
    /\ UNCHANGED <<clip, own, seen, crc, lastText, capsPost, settings, pending, channels, bounds, sent>>

\* Clipboard::UpdateClipTextEx of the client, under the update lock.
UpdateClipTextEx(c, asked) ==
    IF c # Nothing /\ Changed("server", c, asked)
    THEN /\ offer' = Offered("server", c, asked)
         /\ tell' = (notify /\ ~asked /\ Offered("server", c, asked) # c)
         /\ crc' = [crc EXCEPT !["server"] = c.text]
    ELSE UNCHANGED <<offer, tell, crc>>

\* vncServer::UpdateClipTextEx, called by the sink; the owner was checked before.
ServerUpdate ==
    /\ updating["server"]
    /\ updating' = [updating EXCEPT !["server"] = FALSE]
    /\ UpdateClipTextEx(clip["server"], FALSE)
    /\ UNCHANGED <<clipboards, lastText, capsPost, settings, loaded, channels, bounds, sent>>

\* Faulty variant: what cannot be sent during a file session is thrown away.
SendOrDrop ==
    /\ offer # Nothing \/ tell
    /\ offer' = Nothing /\ tell' = FALSE
    /\ IF session
       THEN UNCHANGED <<toV, sent>>
       ELSE LET provided == IF offer # Nothing THEN Append(toV, Content("provide", offer)) ELSE toV
            IN  /\ toV' = IF tell THEN Append(provided, Plain("notify")) ELSE provided
                /\ sent' = IF offer # Nothing THEN sent + 1 ELSE sent
    /\ UNCHANGED <<clipboards, updating, crc, lastText, capsPost, settings, loaded, toS, bounds>>

\* "SEND THE CLIPBOARD" of the update thread.
SendClip ==
    /\ ~session
    /\ offer # Nothing \/ tell
    /\ offer' = Nothing /\ tell' = FALSE
    /\ LET provided == IF offer # Nothing THEN Append(toV, Content("provide", offer)) ELSE toV
       IN  toV' = IF tell THEN Append(provided, Plain("notify")) ELSE provided
    /\ sent' = IF offer # Nothing THEN sent + 1 ELSE sent
    /\ UNCHANGED <<clipboards, updating, crc, lastText, capsPost, settings, loaded, toS, bounds>>

\* rfbClientCutText and rfbFileTransfer of the client's message thread.
HandleCaps ==
    /\ Head(toS).kind = "caps"
    /\ auto' = [auto EXCEPT !["server"] = Head(toS).on]
    /\ notify' = Head(toS).on
    /\ UNCHANGED <<clipboards, session, tell, loaded>>

\* Faulty variant: a server that has announced the extension takes no plain text.
HandleProvideOnly ==
    /\ Head(toS).kind \in {"provide", "text"}
    /\ IF Head(toS).kind = "text"
       THEN UNCHANGED clipboards
       ELSE Restore("server", Head(toS).what)
    /\ UNCHANGED <<auto, notify, tell, session, loaded>>

\* UpdateLocalClipTextEx and UpdateLocalClipText; m_crc is left as it is.
HandleProvide ==
    /\ Head(toS).kind \in {"provide", "text"}
    /\ Restore("server", Head(toS).what)
    /\ UNCHANGED <<auto, notify, tell, session, loaded>>

HandleRequest ==
    /\ Head(toS).kind = "request"
    /\ loaded' = clip["server"]
    /\ UNCHANGED <<clipboards, auto, notify, tell, session>>

HandleSession ==
    /\ Head(toS).kind \in {"filesOn", "filesOff"}
    /\ session' = (Head(toS).kind = "filesOn")
    /\ UNCHANGED <<clipboards, auto, notify, tell, loaded>>

HandleClientMessage ==
    /\ toS # <<>> /\ loaded = Nothing
    /\ toS' = Tail(toS)
    /\ HandleCaps \/ HandleProvide \/ HandleRequest \/ HandleSession
    /\ UNCHANGED <<updating, crc, lastText, capsPost, ex, enabled, files, offer, toV, bounds, sent>>

\* The answer to a request; the clipboard was loaded before the update lock.
AnswerRequest ==
    /\ loaded # Nothing
    /\ UpdateClipTextEx(loaded, TRUE)
    /\ loaded' = Nothing
    /\ UNCHANGED <<clipboards, updating, lastText, capsPost, settings, channels, bounds, sent>>

-----------------------------------------------------------------------------
ViewerStep == ViewerDraw \/ ViewerUpdate \/ PostedCaps
SinkStep == ServerDraw \/ ServerUpdate
MessageStep == HandleClientMessage \/ AnswerRequest

Next ==
    \/ \E c \in ViewerCopies : Copy("viewer", c)
    \/ \E c \in ServerCopies : Copy("server", c)
    \/ Toggle \/ SendClipboard \/ RequestRemoteClipboard \/ FileTransfer
    \/ ViewerStep \/ ReadServerCutText
    \/ SinkStep \/ MessageStep \/ SendClip

Spec == Init /\ [][Next]_vars

\* The threads run; users copy and command, or not.
Fairness ==
    /\ WF_vars(ViewerStep) /\ WF_vars(ReadServerCutText)
    /\ WF_vars(SinkStep) /\ WF_vars(MessageStep) /\ WF_vars(SendClip)

FairSpec == Spec /\ Fairness

-----------------------------------------------------------------------------
\* What was received is not sent back and forth: every content that is sent is
\* paid for by a copy or a command of a user ("We changed it - ignore!").
NoPingPong == sent <= copies["viewer"] + copies["server"] + commands

\* Why: a copy of a user can be sent from the time it is drawn to the time it is passed
\* on, a request of the user from the time it is sent to the time it is answered, and
\* what a program puts on its own clipboard is not drawn.
One(b) == IF b THEN 1 ELSE 0
Drawing(s) == One(draw[s] /\ ~own[s]) + One(updating[s])
Requests == Cardinality({i \in DOMAIN toS : toS[i].kind = "request"})
Owed == Drawing("viewer") + Drawing("server") + One(offer # Nothing) + One(loaded # Nothing)
          + Requests
Paid == copies["viewer"] + copies["server"] + commands

Inductive ==
    /\ TypeOK
    /\ sent \in Nat /\ copies \in [Sides -> Nat] /\ commands \in Nat
    /\ sent + Owed <= Paid

\* A copy of the user is about to be passed on.
Passing(s, t) == updating[s] /\ ~own[s] /\ clip[s].text = t

\* What the viewer's user copies gets to the server's clipboard, unless something
\* else comes onto the viewer's before.
ViewerCopyArrives ==
    \A t \in {c.text : c \in ViewerCopies} \ {None} :
        Passing("viewer", t) ~> t \in seen["server"] \/ clip["viewer"].text # t

\* "Post this update to all the connected clients": a text that the server's user
\* copies, and that was not the last to be offered, gets to the viewer's
\* clipboard, unless something else comes onto the server's before or the viewer
\* does not take it, and but for a request that is just being answered.  A file
\* session only delays it.
ServerCopyArrives ==
    <>[]~session =>
        \A t \in {c.text : c \in ServerCopies} \ {None} :
            Passing("server", t) /\ crc["server"] # t /\ loaded = Nothing
                ~> t \in seen["viewer"] \/ clip["server"].text # t \/ ~enabled \/ ~auto["server"]

\* "returns true if something changed" (Clipboard::UpdateClipTextEx): a copy at the
\* server while nothing is under way, and which the viewer takes, brings the
\* viewer's clipboard into step.
Calm ==
    /\ toV = <<>> /\ toS = <<>> /\ offer = Nothing /\ loaded = Nothing
    /\ ex /\ ~capsPost /\ ~draw["viewer"] /\ ~updating["viewer"]
    /\ enabled /\ auto["server"] /\ ~session

CalmCopyArrives ==
    \A t \in Texts \ {None} :
        Calm /\ Passing("server", t) ~> clip["viewer"].text = t \/ clip["server"].text # t
=============================================================================
