----------------------------- MODULE FileTransfer -----------------------------
(***************************************************************************)
(* File transfer between the viewer (vncviewer/FileTransfer.cpp) and the   *)
(* server (winvnc/vncclient.cpp, case rfbFileTransfer): lists of files     *)
(* offered and requested, delta transfer against what an earlier transfer  *)
(* left, the user's abort, and the loss of the connection.                 *)
(*                                                                         *)
(* Threads of the viewer: the dialog's (the user), the one that reads from *)
(* the server, and the multimedia timer's that sends the blocks.  Of the   *)
(* server: the client's message thread, which holds the update lock over   *)
(* every file transfer message, and the one that zips and opens a          *)
(* requested file.  Only the protocol of FT_PROTO_VERSION_2 and 3 is       *)
(* modelled; a zipped directory is a file like the others.                 *)
(***************************************************************************)
EXTENDS Integers, Sequences, FiniteSets

CONSTANTS
    Content,     \* the blocks of each file, at the side it is sent from
    Uploads,     \* the selections of files a user may send
    Downloads,   \* and those a user may request
    Leftovers,   \* the temporary files earlier transfers may have left
    NoFile,      \* no such file, or the null handle
    Zero,        \* a block that was never written
    Faults,      \* what may fail, and what the server's user may do meanwhile
    Permitted,   \* whether file transfers are permitted when the viewer connects
    MaxDeletes,  \* files deleted by one command
    MaxLists,    \* bound: lists the user sends or requests
    Ahead,       \* bound: messages under way when the user starts something
    Patient      \* nor does the user start it while a callback or a thread works

Files == DOMAIN Content
Blocks == UNION {{Content[f][i] : i \in 1 .. Len(Content[f])} : f \in Files}
Stored == Seq(Blocks \cup {Zero})
Same == "same"  \* an empty packet: the block is already there

\* A file cannot be opened, created or written, a drive has no medium; the permission
\* to transfer files is withdrawn or granted.
AllFaults == {"open", "create", "write", "media", "withdraw", "grant"}

\* The files of one side, which are sent to the other: names do not meet.
Sent(selections) == UNION {{l[i] : i \in DOMAIN l} : l \in selections}

ASSUME FilesAssumption ==
    /\ \A f \in Files : Content[f] \in Seq(Blocks)
    /\ \A l \in Uploads \cup Downloads : l \in Seq(Files) /\ l # <<>>
    /\ Sent(Uploads) \cap Sent(Downloads) = {}
    /\ Leftovers \subseteq [Files -> Stored \cup {NoFile}]
    /\ NoFile \notin Files \cup Stored /\ Same \notin Blocks
    /\ Faults \subseteq AllFaults
    /\ Permitted \subseteq BOOLEAN /\ Patient \in BOOLEAN /\ Ahead \in Nat
    /\ MaxDeletes \in Nat \ {0} /\ MaxLists \in Nat

VARIABLES
    pending,    \* m_fFileCommandPending
    buttons,    \* the dialog's controls are enabled
    remoteDir,  \* a remote directory is shown (IDC_CURR_REMOTE)
    allowed,    \* m_fFTAllowed
    abort,      \* m_fAbort, m_fUserAbortedFileTransfer
    aborted,    \* m_fAborted: the server was told
    deletes,    \* m_nDeleteCount
    list,       \* m_FilesList from m_iFile on: the first is being transferred
    vSend,      \* the viewer's upload
    vRecv,      \* the viewer's download
    timerOn,    \* m_mmRes
    tick,       \* where the timer's callback is
    enabled,    \* FileTransferEnabled() && fUserOk, computed for every message
    sSend,      \* the server's source file and the checksums to spare blocks
    sRecv,      \* the file the server receives, if it could be created
    zip,        \* the file ThreadHandleCompressFolder works for
    toS, toV,   \* the connection
    link,       \* "up", "down"
    inSync,     \* all that was sent was read as what it is
    lists,      \* how many lists were begun, for the bound
    temp,       \* each receiver's temporary file
    final       \* and the file under its own name

ui      == <<pending, buttons, remoteDir, allowed, abort, aborted, deletes>>
sending == <<vSend, timerOn, tick>>
viewer  == <<ui, list, vRecv, sending>>
server  == <<enabled, sSend, sRecv, zip>>
disk    == <<temp, final>>
vars == <<viewer, server, toS, toV, link, inSync, lists, disk>>

Packets == [type : {"packet"}, arg : Blocks \cup {Same}]
ToServer == [type : {"abort", "drives", "dir"}, arg : {NoFile}] \cup Packets
               \cup [type : {"command"}, arg : {"create", "delete"}]
               \cup [type : {"offer", "eof", "request"}, arg : Files]
               \cup [type : {"sums"}, arg : Stored] \cup [type : {"header"}, arg : BOOLEAN]
ToViewer == [type : {"access", "directory", "accept"}, arg : BOOLEAN] \cup Packets
               \cup [type : {"drives"}, arg : {NoFile}]
               \cup [type : {"return"}, arg : [what : {"create", "delete"}, ok : BOOLEAN]]
               \cup [type : {"header"}, arg : [file : Files, ok : BOOLEAN]]
               \cup [type : {"sums"}, arg : Stored] \cup [type : {"eof"}, arg : Files]

TypeOK ==
    /\ pending \in BOOLEAN /\ buttons \in BOOLEAN /\ remoteDir \in BOOLEAN
    /\ allowed \in BOOLEAN /\ abort \in BOOLEAN /\ aborted \in BOOLEAN
    /\ timerOn \in BOOLEAN /\ enabled \in BOOLEAN /\ inSync \in BOOLEAN
    /\ deletes \in 0 .. MaxDeletes
    /\ list \in Seq(Files)
    /\ vSend \in [running : BOOLEAN, eof : BOOLEAN, file : Files \cup {NoFile},
                  pos : Nat, sums : Stored, at : Nat]
    /\ vRecv \in [running : BOOLEAN, error : BOOLEAN, file : Files \cup {NoFile}, pos : Nat]
    /\ tick \in {"idle", "sending", "ending"}
    /\ sSend \in [file : Files \cup {NoFile}, sums : Stored, at : Nat]
    /\ sRecv \in [running : BOOLEAN, file : Files \cup {NoFile}, pos : Nat]
    /\ zip \in Files \cup {NoFile}
    /\ toS \in Seq(ToServer) /\ toV \in Seq(ToViewer)
    /\ link \in {"up", "down"} /\ lists \in 0 .. MaxLists
    /\ temp \in [Files -> Stored \cup {NoFile}] /\ final \in [Files -> Stored \cup {NoFile}]

NotSending == [running |-> FALSE, eof |-> FALSE, file |-> NoFile, pos |-> 0,
               sums |-> <<>>, at |-> 0]
NotReceiving == [running |-> FALSE, error |-> FALSE, file |-> NoFile, pos |-> 0]
NoSource == [file |-> NoFile, sums |-> <<>>, at |-> 0]
NoTarget == [running |-> FALSE, file |-> NoFile, pos |-> 0]

Init ==
    /\ pending = FALSE /\ buttons = TRUE /\ remoteDir = FALSE /\ allowed = FALSE
    /\ abort = FALSE /\ aborted = FALSE /\ deletes = 0 /\ list = <<>>
    /\ vSend = NotSending /\ vRecv = NotReceiving
    /\ timerOn = FALSE /\ tick = "idle"
    /\ enabled \in Permitted
    /\ sSend = NoSource /\ sRecv = NoTarget /\ zip = NoFile
    /\ toS = <<>> /\ toV = <<>> /\ link = "up" /\ inSync = TRUE /\ lists = 0
    /\ temp \in Leftovers
    /\ final = [f \in Files |-> NoFile]

\* A new connection has a new FileTransfer object.
NewViewer ==
    /\ pending' = FALSE /\ buttons' = TRUE /\ remoteDir' = FALSE /\ allowed' = FALSE
    /\ abort' = FALSE /\ aborted' = FALSE /\ deletes' = 0 /\ list' = <<>>
    /\ vSend' = NotSending /\ vRecv' = NotReceiving
    /\ timerOn' = FALSE /\ tick' = "idle"

-----------------------------------------------------------------------------
(* Messages and files. *)

Msg(type, arg) == [type |-> type, arg |-> arg]
Is(queue, type) == queue # <<>> /\ Head(queue).type = type
Arg(queue) == Head(queue).arg
After(files, k) == SubSeq(files, k + 1, Len(files))
Fails(fault) == IF fault \in Faults THEN BOOLEAN ELSE {FALSE}

Sized(blocks, n) == [i \in 1 .. n |-> IF i <= Len(blocks) THEN blocks[i] ELSE Zero]
Longer(n, m) == IF n > m THEN n ELSE m
Written(blocks, pos, block) ==
    [Sized(blocks, Longer(Len(blocks), pos + 1)) EXCEPT ![pos + 1] = block]

\* OPEN_ALWAYS
Opened(f) == [temp EXCEPT ![f] = IF @ = NoFile THEN <<>> ELSE @]

\* The next block of a sender s: nothing but a note if the checksum agrees.
Packet(s, pos) ==
    LET block == Content[s.file][pos + 1]
    IN  IF s.at < Len(s.sums) /\ s.sums[s.at + 1] = block THEN Same ELSE block
Compared(s) == IF s.at < Len(s.sums) THEN s.at + 1 ELSE s.at

\* A packet arrives at a file.
Stores(recv, packet) ==
    temp' = IF packet = Same THEN temp
            ELSE [temp EXCEPT ![recv.file] = Written(@, recv.pos, packet)]

\* Faulty variants: the end of the file is not set; data already received is
\* deleted on every error, as it was before delta transfers.
FinishWithoutEnd(recv, error, discard) ==
    /\ temp' = [temp EXCEPT ![recv.file] = IF error /\ ~discard THEN @ ELSE NoFile]
    /\ final' = IF error THEN final ELSE [final EXCEPT ![recv.file] = temp[recv.file]]
FinishDeleting(recv, error, discard) ==
    /\ temp' = [temp EXCEPT ![recv.file] = NoFile]
    /\ final' = IF error THEN final
                ELSE [final EXCEPT ![recv.file] = Sized(temp[recv.file], recv.pos)]

\* FinishReception: the file gets its name if nothing failed; an interrupted one
\* is kept for a later transfer, unless the user aborted it.
Finish(recv, error, discard) ==
    LET blocks == Sized(temp[recv.file], recv.pos)
    IN  /\ temp' = [temp EXCEPT ![recv.file] = IF error /\ ~discard THEN blocks ELSE NoFile]
        /\ final' = IF error THEN final ELSE [final EXCEPT ![recv.file] = blocks]

-----------------------------------------------------------------------------
(* The viewer sends a list of files. *)

\* How many of the next files cannot be opened; without a remote directory
\* OfferLocalFile refuses them all.
Skipped(files) ==
    IF ~remoteDir THEN {Len(files)}
    ELSE IF "open" \in Faults THEN 0 .. Len(files) ELSE {0}

\* FinishFileSending comes first on the timer's thread.
Idle(thread) == [vSend EXCEPT !.running = @ /\ thread # "timer"]

\* Faulty variant: the checksums of the file before are kept.
OfferLocalFileStale(files, queue, thread) ==
    /\ list' = files
    /\ toS' = Append(queue, Msg("offer", Head(files)))
    /\ vSend' = [Idle(thread) EXCEPT !.file = Head(files)]

OfferLocalFile(files, queue, thread) ==
    /\ list' = files
    /\ toS' = Append(queue, Msg("offer", Head(files)))
    /\ vSend' = [Idle(thread) EXCEPT !.file = Head(files), !.sums = <<>>, !.at = 0]

\* Faulty variant: the remote list is not asked for after an abort.
UploadEndsQuietly(queue, thread) ==
    /\ list' = <<>>
    /\ toS' = IF remoteDir /\ ~abort THEN Append(queue, Msg("dir", NoFile)) ELSE queue
    /\ vSend' = Idle(thread)
    /\ pending' = (thread = "timer" /\ remoteDir /\ pending)
    /\ timerOn' = (timerOn /\ thread = "timer")
    /\ tick' = IF thread = "timer" THEN "ending" ELSE tick

\* The list is done: the remote directory is read again, which enables the
\* controls.  The timer's callback then sleeps for a second.
UploadEnds(queue, thread) ==
    /\ list' = <<>>
    /\ toS' = IF remoteDir THEN Append(queue, Msg("dir", NoFile)) ELSE queue
    /\ vSend' = Idle(thread)
    /\ pending' = (thread = "timer" /\ remoteDir /\ pending)
    /\ timerOn' = (timerOn /\ thread = "timer")
    /\ tick' = IF thread = "timer" THEN "ending" ELSE tick

\* OfferLocalFile, and OfferNextFile as long as files cannot be opened.
OfferFrom(files, queue, thread) ==
    \E k \in Skipped(files) :
        IF k < Len(files) /\ (abort => thread = "dialog")
        THEN /\ OfferLocalFile(After(files, k), queue, thread)
             /\ pending' = (pending \/ thread = "dialog")
             /\ timerOn' = (timerOn \/ k > 0 \/ thread = "reader")
             /\ tick' = IF thread = "timer" THEN "idle" ELSE tick
        ELSE UploadEnds(queue, thread)

\* The timer's callback begins; it does nothing unless an upload is running.
Tick ==
    /\ inSync /\ timerOn /\ vSend.running /\ tick = "idle"
    /\ tick' = "sending"
    /\ UNCHANGED <<ui, list, vSend, timerOn, vRecv, server, toS, toV, link, lists, inSync, disk>>

\* Faulty variant: an aborted upload goes on to the end of its file.
SendFileChunkOn ==
    /\ inSync /\ tick = "sending" /\ ~vSend.eof
    /\ IF vSend.pos = Len(Content[vSend.file])
       THEN /\ vSend' = [vSend EXCEPT !.eof = TRUE]
            /\ UNCHANGED <<list, toS>>
       ELSE /\ vSend' = [vSend EXCEPT !.pos = @ + 1, !.at = Compared(vSend)]
            /\ toS' = Append(toS, Msg("packet", Packet(vSend, vSend.pos)))
                      \o IF abort /\ ~aborted THEN <<Msg("abort", NoFile)>> ELSE <<>>
            /\ UNCHANGED list
    /\ aborted' = abort
    /\ UNCHANGED <<pending, buttons, remoteDir, allowed, abort, deletes, timerOn, tick, vRecv,
                   server, toV, link, lists, inSync, disk>>

\* One turn of the loop: the end of the file is noticed, or a block is sent and
\* then the user's abort.
SendFileChunk ==
    /\ inSync /\ tick = "sending" /\ ~vSend.eof
    /\ LET sent == Append(toS, Msg("packet", Packet(vSend, vSend.pos)))
       IN  IF vSend.pos = Len(Content[vSend.file])
           THEN /\ vSend' = [vSend EXCEPT !.eof = TRUE]
                /\ UNCHANGED <<pending, list, timerOn, tick, toS>>
           ELSE IF abort
           THEN OfferFrom(After(list, 1), Append(sent, Msg("abort", NoFile)), "timer")
           ELSE /\ vSend' = [vSend EXCEPT !.pos = @ + 1, !.at = Compared(vSend)]
                /\ toS' = sent
                /\ UNCHANGED <<pending, list, timerOn, tick>>
    /\ UNCHANGED <<buttons, remoteDir, allowed, abort, aborted, deletes, vRecv,
                   server, toV, link, lists, inSync, disk>>

SendEndOfFile ==
    /\ inSync /\ tick = "sending" /\ vSend.eof
    /\ OfferFrom(After(list, 1), Append(toS, Msg("eof", vSend.file)), "timer")
    /\ UNCHANGED <<buttons, remoteDir, allowed, abort, aborted, deletes, vRecv,
                   server, toV, link, lists, inSync, disk>>

\* After the second of sleep, the end of OfferNextFile.
UploadUnlocks ==
    /\ inSync /\ tick = "ending"
    /\ pending' = FALSE /\ timerOn' = FALSE /\ tick' = "idle"
    /\ UNCHANGED <<buttons, remoteDir, allowed, abort, aborted, deletes, list, vSend, vRecv,
                   server, toS, toV, link, lists, inSync, disk>>

-----------------------------------------------------------------------------
(* The viewer's thread that reads from the server. *)

Reads(type) == inSync /\ link = "up" /\ Is(toV, type) /\ toV' = Tail(toV)

TestPermission ==
    /\ Reads("access")
    /\ allowed' = Arg(toV)
    /\ buttons' = (buttons /\ Arg(toV))
    /\ toS' = IF Arg(toV) THEN Append(toS, Msg("drives", NoFile)) ELSE toS
    /\ UNCHANGED <<pending, remoteDir, abort, aborted, deletes, list, sending, vRecv,
                   server, link, lists, inSync, disk>>

ListRemoteDrives ==
    /\ Reads("drives")
    /\ remoteDir' = FALSE
    /\ pending' = FALSE
    /\ UNCHANGED <<buttons, allowed, abort, aborted, deletes, list, sending, vRecv,
                   server, toS, link, lists, inSync, disk>>

\* A directory up to its end; of one that cannot be read there is no end.
ReceiveDirectory ==
    /\ Reads("directory")
    /\ IF Arg(toV)
       THEN remoteDir' = TRUE /\ buttons' = TRUE /\ pending' = FALSE
       ELSE UNCHANGED <<remoteDir, buttons, pending>>
    /\ UNCHANGED <<allowed, abort, aborted, deletes, list, sending, vRecv,
                   server, toS, link, lists, inSync, disk>>

\* Faulty variant: every feedback counts as a deletion.
CommandFeedbackCounting ==
    /\ Reads("return")
    /\ LET refresh == Arg(toV).ok /\ (Arg(toV).what = "create" \/ deletes = 1)
       IN  toS' = IF refresh /\ remoteDir THEN Append(toS, Msg("dir", NoFile)) ELSE toS
    /\ deletes' = IF Arg(toV).ok THEN deletes - 1 ELSE deletes
    /\ pending' = FALSE
    /\ UNCHANGED <<buttons, remoteDir, allowed, abort, aborted, list, sending, vRecv,
                   server, link, lists, inSync, disk>>

\* Faulty variant: a failed command stays pending.
CommandFeedbackKeeping ==
    /\ Reads("return")
    /\ LET refresh == Arg(toV).ok /\ (Arg(toV).what = "create" \/ deletes = 1)
       IN  toS' = IF refresh /\ remoteDir THEN Append(toS, Msg("dir", NoFile)) ELSE toS
    /\ deletes' = IF Arg(toV).ok /\ Arg(toV).what = "delete" THEN deletes - 1 ELSE deletes
    /\ pending' = (pending /\ ~Arg(toV).ok)
    /\ UNCHANGED <<buttons, remoteDir, allowed, abort, aborted, list, sending, vRecv,
                   server, link, lists, inSync, disk>>

\* The feedback to a command; "create" stands for renaming too.
CommandFeedback ==
    /\ Reads("return")
    /\ LET refresh == Arg(toV).ok /\ (Arg(toV).what = "create" \/ deletes = 1)
       IN  toS' = IF refresh /\ remoteDir THEN Append(toS, Msg("dir", NoFile)) ELSE toS
    /\ deletes' = IF Arg(toV).ok /\ Arg(toV).what = "delete" THEN deletes - 1 ELSE deletes
    /\ pending' = FALSE
    /\ UNCHANGED <<buttons, remoteDir, allowed, abort, aborted, list, sending, vRecv,
                   server, link, lists, inSync, disk>>

\* The upload's side.
ReceiveChecksums ==
    /\ Reads("sums")
    /\ vSend' = [vSend EXCEPT !.sums = Arg(toV)]
    /\ UNCHANGED <<ui, list, timerOn, tick, vRecv, server, toS, link, lists, inSync, disk>>

\* The server has created the file, or not.
SendFile ==
    /\ Reads("accept")
    /\ \E vanished \in Fails("open") :
          IF Arg(toV) /\ ~vanished
          THEN /\ vSend' = [vSend EXCEPT !.running = TRUE, !.eof = FALSE, !.pos = 0]
               /\ timerOn' = TRUE
               /\ UNCHANGED <<pending, list, tick, toS>>
          ELSE OfferFrom(After(list, 1), toS, "reader")
    /\ UNCHANGED <<buttons, remoteDir, allowed, abort, aborted, deletes, vRecv,
                   server, link, lists, inSync, disk>>

\* Faulty variant: after an abort the controls do not come back.
RequestNextFileOnly(queue) ==
    IF Len(list) > 1 /\ ~abort
    THEN /\ list' = After(list, 1)
         /\ toS' = IF remoteDir THEN Append(queue, Msg("request", list[2])) ELSE queue
         /\ UNCHANGED <<pending, buttons>>
    ELSE toS' = queue /\ list' = list /\ UNCHANGED <<pending, buttons>>

\* After each file: the next one is requested, if a remote directory is still
\* shown; or the controls come back.
RequestNextFile(queue) ==
    IF Len(list) > 1 /\ ~abort
    THEN /\ list' = After(list, 1)
         /\ toS' = IF remoteDir THEN Append(queue, Msg("request", list[2])) ELSE queue
         /\ UNCHANGED <<pending, buttons>>
    ELSE toS' = queue /\ list' = <<>> /\ buttons' = TRUE /\ pending' = FALSE

\* The server has opened the file, or not; the temporary file may exist.
ReceiveFile ==
    /\ Reads("header")
    /\ \E uncreated \in Fails("create") :
          LET f   == Arg(toV).file
              old == temp[f]
          IN  IF Arg(toV).ok /\ ~uncreated
              THEN /\ temp' = Opened(f)
                   /\ toS' = toS \o (IF old = NoFile THEN <<>> ELSE <<Msg("sums", old)>>)
                                 \o <<Msg("header", TRUE)>>
                   /\ vRecv' = [running |-> TRUE, error |-> FALSE, file |-> f, pos |-> 0]
                   /\ UNCHANGED <<pending, buttons, list>>
              ELSE /\ vRecv' = [vRecv EXCEPT !.error = TRUE]
                   /\ RequestNextFile(IF Arg(toV).ok THEN Append(toS, Msg("header", FALSE))
                                      ELSE toS)
                   /\ UNCHANGED temp
    /\ UNCHANGED <<remoteDir, allowed, abort, aborted, deletes, sending,
                   server, link, lists, inSync, final>>

\* A block whose file is still open; the user's abort is sent once.
StoreChunk(failed) ==
    /\ IF failed THEN UNCHANGED temp ELSE Stores(vRecv, Arg(toV))
    /\ vRecv' = [vRecv EXCEPT !.pos = IF failed THEN @ ELSE @ + 1, !.error = @ \/ failed]
    /\ aborted' = (aborted \/ abort)
    /\ toS' = IF abort /\ ~aborted THEN Append(toS, Msg("abort", NoFile)) ELSE toS
    /\ UNCHANGED <<pending, buttons, list, final, inSync>>

\* After a write has failed the next block ends the reception and is lost; the
\* data of later ones is not even read.
ReceiveFileChunk ==
    /\ Reads("packet")
    /\ IF ~vRecv.running
       THEN /\ inSync' = (Arg(toV) = Same)
            /\ UNCHANGED <<pending, buttons, aborted, list, vRecv, toS, disk>>
       ELSE IF vRecv.error
       THEN /\ Finish(vRecv, TRUE, abort)
            /\ vRecv' = [vRecv EXCEPT !.running = FALSE]
            /\ aborted' = (aborted \/ abort)
            /\ RequestNextFile(IF abort /\ ~aborted THEN Append(toS, Msg("abort", NoFile))
                               ELSE toS)
            /\ UNCHANGED inSync
       ELSE \E failed \in Fails("write") : StoreChunk(failed)
    /\ UNCHANGED <<remoteDir, allowed, abort, deletes, sending, server, link, lists>>

FinishFileReception ==
    /\ Reads("eof")
    /\ IF vRecv.running
       THEN /\ Finish(vRecv, vRecv.error, abort)
            /\ vRecv' = [vRecv EXCEPT !.running = FALSE]
            /\ RequestNextFile(toS)
       ELSE UNCHANGED <<disk, vRecv, pending, buttons, list, toS>>
    /\ UNCHANGED <<remoteDir, allowed, abort, aborted, deletes, sending,
                   server, link, lists, inSync>>

-----------------------------------------------------------------------------
(* The server. *)

Serves(type) == inSync /\ Is(toS, type) /\ toS' = Tail(toS)
Answers(messages) == toV' = IF link = "up" THEN toV \o messages ELSE toV

\* Faulty variant: what is already there is not overwritten but continued.
AcceptOfferAppending(f) ==
    sRecv' = [running |-> TRUE, file |-> f, pos |-> Len(Opened(f)[f])]

AcceptOffer(f) == sRecv' = [running |-> TRUE, file |-> f, pos |-> 0]

\* A reception that is still running has lost its file when the next one cannot be
\* created.
ServeOffer ==
    /\ Serves("offer") /\ enabled
    /\ \E uncreated \in Fails("create") :
          LET f == Arg(toS) IN
          IF uncreated
          THEN /\ Answers(<<Msg("accept", FALSE)>>)
               /\ sRecv' = [sRecv EXCEPT !.file = NoFile]
               /\ UNCHANGED temp
          ELSE /\ temp' = Opened(f)
               /\ AcceptOffer(f)
               /\ Answers((IF temp[f] = NoFile THEN <<>> ELSE <<Msg("sums", temp[f])>>)
                          \o <<Msg("accept", TRUE)>>)
    /\ UNCHANGED <<viewer, enabled, sSend, zip, link, lists, inSync, final>>

\* A failed write, or uncompress, ends the reception: the data of the blocks that
\* follow is not read.
ServePacket ==
    /\ Serves("packet") /\ enabled
    /\ IF ~sRecv.running
       THEN inSync' = (Arg(toS) = Same) /\ UNCHANGED <<sRecv, disk>>
       ELSE \E failed \in Fails("write") :
            /\ IF failed
               THEN Finish(sRecv, TRUE, FALSE)
               ELSE Stores(sRecv, Arg(toS)) /\ UNCHANGED final
            /\ sRecv' = IF failed THEN [sRecv EXCEPT !.running = FALSE]
                        ELSE [sRecv EXCEPT !.pos = @ + 1]
            /\ UNCHANGED inSync
    /\ UNCHANGED <<viewer, enabled, sSend, zip, toV, link, lists>>

ServeEndOfFile ==
    /\ Serves("eof") /\ enabled
    /\ IF sRecv.running THEN Finish(sRecv, FALSE, FALSE) ELSE UNCHANGED disk
    /\ sRecv' = [sRecv EXCEPT !.running = FALSE]
    /\ UNCHANGED <<viewer, enabled, sSend, zip, toV, link, lists, inSync>>

\* An abort, or the request for permission, which is the same message: an upload
\* of the viewer is the only thing that tells them apart.
ServeAbort ==
    /\ Serves("abort")
    /\ IF sRecv.running
       THEN Finish(sRecv, TRUE, TRUE) /\ UNCHANGED toV
       ELSE Answers(<<Msg("access", enabled)>>) /\ UNCHANGED disk
    /\ sRecv' = [sRecv EXCEPT !.running = FALSE]
    /\ UNCHANGED <<viewer, enabled, sSend, zip, link, lists, inSync>>

\* filetransferrequestPart1: while a thread works for the last request the name
\* is not read.
ServeRequest ==
    /\ Serves("request")
    /\ IF zip # NoFile
       THEN inSync' = FALSE /\ UNCHANGED <<zip, sSend>>
       ELSE /\ enabled
            /\ zip' = Arg(toS)
            /\ sSend' = [sSend EXCEPT !.file = Arg(toS)]
            /\ UNCHANGED inSync
    /\ UNCHANGED <<viewer, enabled, sRecv, toV, link, lists, disk>>

\* Faulty variant: the checksums of the file before are kept.
CompressFolderStale ==
    /\ inSync /\ zip # NoFile
    /\ \E unopened \in Fails("open") :
          Answers(<<Msg("header", [file |-> zip, ok |-> ~unopened])>>)
    /\ zip' = NoFile
    /\ UNCHANGED <<viewer, enabled, sSend, sRecv, toS, link, lists, inSync, disk>>

\* CompressFolder and filetransferrequestPart2, under the update lock.
CompressFolder ==
    /\ inSync /\ zip # NoFile
    /\ \E unopened \in Fails("open") :
          Answers(<<Msg("header", [file |-> zip, ok |-> ~unopened])>>)
    /\ sSend' = [sSend EXCEPT !.sums = <<>>, !.at = 0]
    /\ zip' = NoFile
    /\ UNCHANGED <<viewer, enabled, sRecv, toS, link, lists, inSync, disk>>

ServeChecksums ==
    /\ Serves("sums")
    /\ sSend' = [sSend EXCEPT !.sums = Arg(toS)]
    /\ UNCHANGED <<viewer, enabled, sRecv, zip, toV, link, lists, inSync, disk>>

\* SendFileChunk sends the whole file before another message is read.
ServeHeader ==
    /\ Serves("header")
    /\ LET n      == Len(Content[sSend.file])
           at(i)  == [sSend EXCEPT !.at = @ + i - 1]
           blocks == [i \in 1 .. n |-> Msg("packet", Packet(at(i), i - 1))]
       IN  IF Arg(toS)
           THEN /\ Answers(Append(blocks, Msg("eof", sSend.file)))
                /\ sSend' = [sSend EXCEPT !.at =
                                Longer(@, IF n < Len(sSend.sums) THEN n ELSE Len(sSend.sums))]
           ELSE UNCHANGED <<toV, sSend>>
    /\ UNCHANGED <<viewer, enabled, sRecv, zip, link, lists, inSync, disk>>

ServeDrives ==
    /\ Serves("drives") /\ enabled
    /\ Answers(<<Msg("drives", NoFile)>>)
    /\ UNCHANGED <<viewer, server, link, lists, inSync, disk>>

ServeDirectory ==
    /\ Serves("dir") /\ enabled
    /\ \E unreadable \in Fails("media") : Answers(<<Msg("directory", ~unreadable)>>)
    /\ UNCHANGED <<viewer, server, link, lists, inSync, disk>>

ServeCommand ==
    /\ Serves("command") /\ enabled
    /\ \E ok \in BOOLEAN : Answers(<<Msg("return", [what |-> Arg(toS), ok |-> ok])>>)
    /\ UNCHANGED <<viewer, server, link, lists, inSync, disk>>

\* Without permission nothing is done and nothing answered.  The name of an offered
\* file and the data of a block are not even read; the rest is (vncclient.cpp, "moved
\* jdp 8/5/08 -- have to read whole packet to keep protocol in sync").
ServeRefused ==
    /\ ~enabled
    /\ \/ /\ Serves("offer") /\ inSync' = FALSE
          /\ UNCHANGED sSend
       \/ /\ Serves("packet") /\ inSync' = (Arg(toS) = Same)
          /\ UNCHANGED sSend
       \/ /\ Serves("request") /\ zip = NoFile
          /\ sSend' = [sSend EXCEPT !.file = Arg(toS)]
          /\ UNCHANGED inSync
       \/ /\ Serves("eof") \/ Serves("drives") \/ Serves("dir") \/ Serves("command")
          /\ UNCHANGED <<inSync, sSend>>
    /\ UNCHANGED <<viewer, enabled, sRecv, zip, toV, link, lists, disk>>

\* The connection is lost and all that came before is read: the server forgets
\* the client.  A block cut in two ends a reception like a failed one.
ServerLosesClient ==
    /\ link = "down" /\ toS = <<>> /\ zip = NoFile
    /\ \/ UNCHANGED disk
       \/ sRecv.running /\ Finish(sRecv, TRUE, FALSE)
    /\ sSend' = NoSource /\ sRecv' = NoTarget
    /\ link' = "up"
    /\ UNCHANGED <<viewer, enabled, zip, toS, toV, inSync, lists>>

-----------------------------------------------------------------------------
(* The user. *)

Free ==
    /\ inSync /\ link = "up" /\ buttons
    /\ Len(toS) + Len(toV) <= Ahead
    /\ Patient => tick = "idle" /\ zip = NoFile

\* The dialog opens, and a second later asks for permission.
OpenDialog ==
    /\ Free /\ list = <<>>
    /\ pending' = TRUE /\ remoteDir' = FALSE
    /\ toS' = Append(toS, Msg("abort", NoFile))
    /\ UNCHANGED <<buttons, allowed, abort, aborted, deletes, list, sending, vRecv,
                   server, toV, link, lists, inSync, disk>>

Upload ==
    /\ Free /\ ~pending /\ remoteDir /\ allowed
    /\ lists < MaxLists /\ lists' = lists + 1
    /\ abort' = FALSE /\ aborted' = FALSE /\ buttons' = FALSE
    /\ \E files \in Uploads : OfferFrom(files, toS, "dialog")
    /\ UNCHANGED <<remoteDir, allowed, deletes, vRecv, server, toV, link, inSync, disk>>

Download ==
    /\ Free /\ ~pending /\ remoteDir /\ allowed
    /\ lists < MaxLists /\ lists' = lists + 1
    /\ pending' = TRUE /\ abort' = FALSE /\ aborted' = FALSE /\ buttons' = FALSE
    /\ \E files \in Downloads :
          /\ list' = files
          /\ toS' = Append(toS, Msg("request", Head(files)))
    /\ UNCHANGED <<remoteDir, allowed, deletes, sending, vRecv, server, toV, link, inSync, disk>>

\* The button is shown while a file of a list is being transferred.
Abort ==
    /\ inSync /\ list # <<>> /\ ~abort
    /\ abort' = TRUE
    /\ UNCHANGED <<pending, buttons, remoteDir, allowed, aborted, deletes, list, sending, vRecv,
                   server, toS, toV, link, lists, inSync, disk>>

\* The list of drives does not look whether something is pending.
BrowseRemote ==
    /\ Free /\ allowed
    /\ pending' \in {TRUE, pending} /\ (pending => pending' = pending)
    /\ remoteDir' = TRUE
    /\ toS' = Append(toS, Msg("dir", NoFile))
    /\ UNCHANGED <<buttons, allowed, abort, aborted, deletes, list, sending, vRecv,
                   server, toV, link, lists, inSync, disk>>

RemoteCommand ==
    /\ Free /\ ~pending /\ remoteDir
    /\ pending' = TRUE
    /\ \/ toS' = Append(toS, Msg("command", "create")) /\ UNCHANGED deletes
       \/ \E n \in 1 .. MaxDeletes :
             /\ deletes' = n
             /\ toS' = toS \o [i \in 1 .. n |-> Msg("command", "delete")]
    /\ UNCHANGED <<buttons, remoteDir, allowed, abort, aborted, list, sending, vRecv,
                   server, toV, link, lists, inSync, disk>>

\* The connection breaks, or the user stops it; some of what was sent still
\* arrives.
Disconnect ==
    /\ inSync /\ link = "up"
    /\ link' = "down" /\ toV' = <<>>
    /\ \E k \in 0 .. Len(toS) : toS' = SubSeq(toS, 1, k)
    /\ NewViewer
    /\ UNCHANGED <<server, inSync, lists, disk>>

\* The server's user changes what the clients may do: file transfers
\* (EnableFileTransfer), or the client's keyboard and pointer.
ChangePermission ==
    /\ inSync
    /\ IF enabled THEN "withdraw" \in Faults ELSE "grant" \in Faults
    /\ enabled' = ~enabled
    /\ UNCHANGED <<viewer, sSend, sRecv, zip, toS, toV, link, inSync, lists, disk>>

-----------------------------------------------------------------------------
Reading ==
    \/ TestPermission \/ ListRemoteDrives \/ ReceiveDirectory \/ CommandFeedback
    \/ ReceiveChecksums \/ SendFile \/ ReceiveFile \/ ReceiveFileChunk \/ FinishFileReception
Serving ==
    \/ ServeOffer \/ ServePacket \/ ServeEndOfFile \/ ServeAbort \/ ServeRequest
    \/ ServeChecksums \/ ServeHeader \/ ServeDrives \/ ServeDirectory \/ ServeCommand
    \/ ServeRefused \/ ServerLosesClient
Sending == Tick \/ SendFileChunk \/ SendEndOfFile \/ UploadUnlocks
User ==
    \/ OpenDialog \/ Upload \/ Download \/ Abort \/ BrowseRemote \/ RemoteCommand
    \/ Disconnect \/ ChangePermission

Next == Reading \/ Serving \/ CompressFolder \/ Sending \/ User
Spec == Init /\ [][Next]_vars

\* Threads that can go on do; the user need not do anything.
FairSpec ==
    /\ Spec
    /\ WF_vars(Reading) /\ WF_vars(Serving) /\ WF_vars(CompressFolder) /\ WF_vars(Sending)

-----------------------------------------------------------------------------
(* Properties. *)

\* A file appears under its own name only when it is complete: no delta packet
\* taken for a block it does not stand for, no end left over from an older file,
\* no part of an interrupted transfer (get_real_filename, replaceFile, MoveFileEx).
FileIntact == \A f \in Files : final[f] \in {NoFile, Content[f]}

\* Every message is read up to its end, and what a block carries is never taken for
\* the next message (vncclient.cpp, "have to read whole packet to keep protocol in
\* sync"), as long as the permission stands: only an offer or a block that is refused
\* may leave something unread.
StreamInSync == enabled => inSync

\* A receiver that is told of the end of a file has it all: nothing it was sent
\* before went to another file or was dropped on the way.  A server that may no
\* longer receive does not listen.
EndOfFileCompletes ==
    [][\A queue \in {"toS", "toV"} :
          LET q == IF queue = "toS" THEN toS ELSE toV
              r == IF queue = "toS" THEN toS' ELSE toV'
          IN  Is(q, "eof") /\ r = Tail(q) /\ link' = link /\ (queue = "toS" => enabled)
                 => final'[Arg(q)] = Content[Arg(q)]]_vars

\* What was received of an interrupted transfer is there for the next one: a
\* temporary file disappears only as the finished file or by the user's abort.
PartialKept ==
    [][\A f \in Files :
          temp[f] # NoFile /\ temp'[f] = NoFile
             => \/ final'[f] = Content[f]
                \/ Is(toS, "abort") \/ abort]_vars

\* What the user has started ends, and the dialog can be used again, unless the
\* server's user withdraws the permission.
CommandEnds == pending ~> (~pending \/ ~enabled)
ControlsReturn == ~buttons ~> (buttons \/ ~enabled)

\* The first file of a list triggers the transfer of the whole list.
ListTransferred == list # <<>> ~> (list = <<>> \/ ~enabled)

-----------------------------------------------------------------------------
(* Why: what the queue of a receiver holds brings it the file, block by block, and    *)
(* one transfer is under way at a time, in one of a few phases.                       *)

\* The n-th block of the file f is in packet, or already in t.
Right(f, n, t, packet) ==
    /\ n <= Len(Content[f])
    /\ \/ packet = Content[f][n]
       \/ packet = Same /\ n <= Len(t) /\ t[n] = Content[f][n]

\* The file f, of which pos blocks have come in, into t, and the rest is in queue or
\* is yet to be sent.
Brings(f, pos, t, queue) ==
    /\ t \in Stored /\ pos <= Len(t) /\ pos <= Len(Content[f])
    /\ \A j \in 1 .. pos : t[j] = Content[f][j]
    /\ \A i \in 1 .. Len(queue) :
          /\ queue[i].type \in {"packet", "eof"} => \A j \in 1 .. i - 1 : queue[j].type = "packet"
          /\ queue[i].type = "packet" => Right(f, pos + i, t, queue[i].arg)
          /\ queue[i].type = "eof" => queue[i].arg = f /\ pos + i = Len(Content[f]) + 1

\* The server has a file to receive, and may.
Fed == sRecv.running /\ sRecv.file # NoFile /\ enabled

UploadGrows ==
    /\ sRecv.running /\ sRecv.file # NoFile =>
          sRecv.file \in Sent(Uploads) /\ temp[sRecv.file] \in Stored
    /\ Fed => Brings(sRecv.file, sRecv.pos, temp[sRecv.file], toS)
DownloadGrows ==
    vRecv.running =>
        /\ vRecv.file \in Sent(Downloads) /\ temp[vRecv.file] \in Stored
        /\ ~vRecv.error => Brings(vRecv.file, vRecv.pos, temp[vRecv.file], toV)

\* The checksums that spare blocks from pos on are those of t.
Spared(sums, at, pos, t) ==
    /\ at < Len(sums) => at = pos
    /\ \A j \in pos + 1 .. Len(sums) : j <= Len(t) /\ t[j] = sums[j]

Asked(types) == {m \in ToServer : m.type \in types}
Told(types) == {m \in ToViewer : m.type \in types}
Refused == Msg("header", FALSE)
Ends(queue, before, last) ==
    /\ queue # <<>> /\ queue[Len(queue)] = last
    /\ SubSeq(queue, 1, Len(queue) - 1) \in Seq(before)

\* As many deletions as deletes counts are still to be done or to be told.
Deletion == Msg("command", "delete")
Deletions == {m \in ToViewer : m.type = "return" /\ m.arg.what = "delete"}
Known(asked, told, n) ==
    Cardinality({i \in DOMAIN asked : asked[i] \in {Deletion}})
       + Cardinality({i \in DOMAIN told : told[i] \in Deletions}) <= n

\* Nothing is transferred; what a failed transfer has left under way may still come.
Resting ==
    /\ toS \in Seq(Asked({"abort", "drives", "dir", "command", "packet", "eof"}) \cup {Refused})
    /\ toV \in Seq(Told({"access", "drives", "directory", "return", "packet", "eof"}))
    /\ Known(toS, toV, deletes)
    /\ ~vSend.running /\ ~vRecv.running /\ zip = NoFile

InUpload ==
    /\ ~buttons /\ ~vRecv.running /\ zip = NoFile
    /\ list \in Seq(Sent(Uploads)) /\ vSend.file \in Sent(Uploads)

Offering ==
    /\ InUpload /\ ~vSend.running /\ vSend.sums = <<>> /\ vSend.at = 0
    /\ Ends(toS, Asked({"packet", "eof"}), Msg("offer", vSend.file)) /\ toV = <<>>

Accepting ==
    /\ InUpload /\ ~vSend.running /\ vSend.at = 0
    /\ toS = <<>>
    /\ \/ toV = <<Msg("accept", FALSE)>>
       \/ /\ sRecv.running /\ sRecv.file = vSend.file /\ sRecv.pos = 0
          /\ \/ vSend.sums \in {<<>>, temp[vSend.file]} /\ toV = <<Msg("accept", TRUE)>>
             \/ vSend.sums = <<>>
                   /\ toV = <<Msg("sums", temp[vSend.file]), Msg("accept", TRUE)>>

Uploading ==
    /\ InUpload /\ vSend.running
    /\ toS \in Seq(Asked({"packet"})) /\ toV = <<>>
    /\ vSend.pos <= Len(Content[vSend.file])
    /\ vSend.eof => vSend.pos = Len(Content[vSend.file])
    /\ sRecv.running /\ enabled =>
          /\ sRecv.file = vSend.file /\ sRecv.pos + Len(toS) = vSend.pos
          /\ Spared(vSend.sums, vSend.at, vSend.pos, temp[vSend.file])

InDownload == ~buttons /\ ~vSend.running /\ list \in Seq(Sent(Downloads))
Stray == Told({"packet", "eof"})

Requesting ==
    /\ InDownload /\ ~vRecv.running /\ zip = NoFile
    /\ \E f \in Sent(Downloads) : Ends(toS, {Refused}, Msg("request", f))
    /\ toV \in Seq(Stray)

Zipping ==
    /\ InDownload /\ ~vRecv.running /\ zip \in Sent(Downloads) /\ sSend.file = zip
    /\ toS = <<>> /\ toV \in Seq(Stray)

Announcing ==
    /\ InDownload /\ ~vRecv.running /\ zip = NoFile
    /\ sSend.file \in Sent(Downloads) /\ sSend.sums = <<>> /\ sSend.at = 0
    /\ toS = <<>>
    /\ \E ok \in BOOLEAN : Ends(toV, Stray, Msg("header", [file |-> sSend.file, ok |-> ok]))

Opening ==
    /\ InDownload /\ vRecv.running /\ ~vRecv.error /\ vRecv.pos = 0 /\ zip = NoFile
    /\ sSend.file = vRecv.file /\ sSend.at = 0
    /\ \/ sSend.sums \in {<<>>, temp[vRecv.file]} /\ toS = <<Msg("header", TRUE)>>
       \/ sSend.sums = <<>>
             /\ toS = <<Msg("sums", temp[vRecv.file]), Msg("header", TRUE)>>
    /\ toV = <<>>

Receiving ==
    /\ InDownload /\ vRecv.running /\ zip = NoFile
    /\ toS \in Seq(Asked({"abort", "drives"}))
    /\ toV \in Seq(Told({"packet", "eof", "access", "drives"}))
    /\ ~abort => toS = <<>> /\ toV \in Seq(Stray)

\* The request was refused.
Unanswered ==
    /\ InDownload /\ ~vRecv.running /\ zip = NoFile
    /\ toS = <<>> /\ toV \in Seq(Stray)

\* The connection is lost: the server reads what is left.
Unread(file) == {m \in ToServer : /\ m.type \notin {"offer", "request"}
                                  /\ m.type = "header" /\ m.arg => file \in Files}
Cut ==
    /\ link = "down" /\ toV = <<>> /\ ~vSend.running /\ ~vRecv.running
    /\ zip # NoFile => toS = <<>> /\ zip \in Sent(Downloads)
    /\ \/ toS \in Seq(Unread(sSend.file))
       \/ \E f \in Sent(Uploads) : Ends(toS, Unread(sSend.file), Msg("offer", f))
       \/ \E f \in Sent(Downloads) : Ends(toS, Unread(sSend.file), Msg("request", f))

Phase ==
    \/ Cut
    \/ /\ link = "up"
       /\ \/ Resting \/ Offering \/ Accepting \/ Uploading
          \/ Requesting \/ Zipping \/ Announcing \/ Opening \/ Receiving \/ Unanswered

Inductive ==
    /\ TypeOK /\ FileIntact /\ UploadGrows /\ DownloadGrows
    /\ tick = "sending" => vSend.running
    /\ inSync => Phase

\* Where no write fails, a receiver works as long as there is something for it, the
\* server's as long as it may.
Busy(queue, recv) ==
    \A i \in 1 .. Len(queue) :
        queue[i].type \in {"packet", "eof"} => recv.running /\ recv.file # NoFile
ViewerInStep == inSync => Busy(toV, vRecv) /\ (vRecv.running => ~vRecv.error)
ServerInStep ==
    enabled => /\ inSync /\ Busy(toS, sRecv)
               /\ vSend.running => sRecv.running /\ sRecv.file # NoFile
InStep == ViewerInStep /\ ServerInStep
=============================================================================
