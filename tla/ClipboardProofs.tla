--------------------------- MODULE ClipboardProofs ---------------------------
(***************************************************************************)
(* Proofs about Clipboard: what is sent is paid for by a copy or a command  *)
(* of a user, however many there are and however the threads of the two     *)
(* programs interleave.                                                     *)
(***************************************************************************)
EXTENDS Clipboard, ListLemmas

USE CopiesAssumption

Asking == {m \in ToServer : m.kind = "request"}

-----------------------------------------------------------------------------
(* Data. *)

LEMMA ContentsFacts ==
    /\ Nothing \in Contents
    /\ ViewerCopies \cup ServerCopies \subseteq Contents
    /\ \A c \in Contents : c.text \in Texts /\ c.rich \in Riches
    /\ \A c \in Contents : [c EXCEPT !.rich = None] \in Contents
    /\ \A s \in Sides, c \in Contents, asked \in BOOLEAN : Offered(s, c, asked) \in Contents
<1>1. None \in Texts /\ None \in Riches
  BY DEF Texts, Riches
<1>2. ASSUME NEW c \in ViewerCopies \cup ServerCopies PROVE c \in Contents
  <2>1. c.text \in Texts /\ c.rich \in Riches /\ c = [text |-> c.text, rich |-> c.rich]
    BY DEF Texts, Riches
  <2>2. QED
    BY <2>1 DEF Contents
<1>3. ASSUME NEW c \in Contents
      PROVE  c.text \in Texts /\ c.rich \in Riches /\ [c EXCEPT !.rich = None] \in Contents
  BY <1>1 DEF Contents
<1>4. ASSUME NEW s \in Sides, NEW c \in Contents, NEW asked \in BOOLEAN
      PROVE  Offered(s, c, asked) \in Contents
  BY <1>1, <1>3 DEF Offered, Contents
<1>5. QED
  BY <1>1, <1>2, <1>3, <1>4 DEF Nothing, Contents

LEMMA MessageFacts ==
    /\ \A on \in BOOLEAN : Caps(on) \in ToViewer /\ Caps(on) \in ToServer \ Asking
    /\ \A c \in Contents : /\ Content("provide", c) \in ToViewer
                           /\ Content("provide", c) \in ToServer \ Asking
                           /\ Content("text", c) \in ToServer \ Asking
    /\ Plain("notify") \in ToViewer
    /\ Plain("request") \in Asking /\ Plain("request") \in ToServer
    /\ Plain("filesOn") \in ToServer \ Asking /\ Plain("filesOff") \in ToServer \ Asking
BY DEF Caps, Content, Plain, ToViewer, ToServer, Asking

LEMMA ReadFacts ==
    /\ \A m \in ToViewer : /\ m.kind = "caps" => m.on \in BOOLEAN
                           /\ m.kind = "provide" => m.what \in Contents
    /\ \A m \in ToServer : /\ m.kind = "caps" => m.on \in BOOLEAN
                           /\ m.kind \in {"provide", "text"} => m.what \in Contents
                           /\ m \in Asking <=> m.kind = "request"
BY DEF ToViewer, ToServer, Asking

\* The requests under way.
Answerable(q) == Cardinality({i \in DOMAIN q : q[i].kind = "request"})

LEMMA RequestsCounted ==
    ASSUME NEW q \in Seq(ToServer)
    PROVE  Answerable(q) = Count(q, Asking) /\ Answerable(q) \in Nat
<1>1. {i \in DOMAIN q : q[i].kind = "request"} = {i \in DOMAIN q : q[i] \in Asking}
  <2>1. \A i \in DOMAIN q : q[i] \in ToServer
    BY ElementOfSeq, LenProperties
  <2>2. QED
    BY <2>1, ReadFacts
<1>2. Answerable(q) = Count(q, Asking)
  BY <1>1 DEF Answerable, Count
<1>3. Count(q, Asking) \in Nat
  BY CountType
<1>4. QED
  BY <1>2, <1>3

LEMMA RequestsAre == Requests = Answerable(toS) /\ Requests' = Answerable(toS')
BY DEF Requests, Answerable

LEMMA RequestsAppend ==
    ASSUME NEW q \in Seq(ToServer), NEW m \in ToServer
    PROVE  /\ Append(q, m) \in Seq(ToServer)
           /\ m.kind # "request" => Answerable(Append(q, m)) = Answerable(q)
           /\ m.kind = "request" => Answerable(Append(q, m)) = Answerable(q) + 1
<1>1. Append(q, m) \in Seq(ToServer)
  BY AppendProperties
<1>2. Count(Append(q, m), Asking) = IF m \in Asking THEN Count(q, Asking) + 1 ELSE Count(q, Asking)
  BY CountAppend
<1>3. m \in Asking <=> m.kind = "request"
  BY ReadFacts
<1>4. QED
  BY <1>1, <1>2, <1>3, RequestsCounted

LEMMA RequestsTail ==
    ASSUME NEW q \in Seq(ToServer), q # <<>>
    PROVE  /\ Head(q) \in ToServer /\ Tail(q) \in Seq(ToServer)
           /\ Answerable(Tail(q)) <= Answerable(q)
           /\ Head(q).kind = "request" => Answerable(Tail(q)) + 1 <= Answerable(q)
<1>1. Head(q) \in ToServer /\ Tail(q) \in Seq(ToServer)
  BY HeadTailProperties
<1>2. Count(Tail(q), Asking) + (IF Head(q) \in Asking THEN 1 ELSE 0) <= Count(q, Asking)
  BY CountTail
<1>3. Head(q) \in Asking <=> Head(q).kind = "request"
  BY <1>1, ReadFacts
<1>4. /\ Answerable(q) = Count(q, Asking) /\ Answerable(q) \in Nat
      /\ Answerable(Tail(q)) = Count(Tail(q), Asking) /\ Answerable(Tail(q)) \in Nat
  BY <1>1, RequestsCounted
<1>5. QED
  BY <1>1, <1>2, <1>3, <1>4

LEMMA OneIs == \A b \in BOOLEAN : One(b) \in {0, 1} /\ (b => One(b) = 1) /\ (~b => One(b) = 0)
BY DEF One

LEMMA InductiveInit == Init => Inductive
<1> SUFFICES ASSUME Init PROVE Inductive
  OBVIOUS
<1>1. TypeOK
  <2>1. None \in Texts /\ toV \in Seq(ToViewer) /\ toS \in Seq(ToServer)
    <3>1. Caps(TRUE) \in ToViewer
      BY MessageFacts
    <3>2. toV \in Seq(ToViewer)
      <4>1. \A m \in ToViewer : <<m>> \in Seq(ToViewer)
        OBVIOUS
      <4>2. toV = <<Caps(TRUE)>>
        BY DEF Init
      <4>3. QED
        BY <3>1, <4>1, <4>2, Zenon
    <3>3. toS \in Seq(ToServer)
      BY EmptySeq DEF Init
    <3>4. None \in Texts
      BY DEF Texts
    <3>5. QED
      BY <3>2, <3>3, <3>4
  <2>2. /\ own \in [Sides -> BOOLEAN] /\ draw \in [Sides -> BOOLEAN]
        /\ updating \in [Sides -> BOOLEAN] /\ auto \in [Sides -> BOOLEAN]
    BY Zenon DEF Init
  <2>3. /\ notify \in BOOLEAN /\ ex \in BOOLEAN /\ capsPost \in BOOLEAN
        /\ enabled \in BOOLEAN /\ files \in BOOLEAN /\ session \in BOOLEAN
        /\ tell \in BOOLEAN
    BY Zenon DEF Init
  <2>4. /\ clip \in [Sides -> Contents] /\ crc \in [Sides -> Texts] /\ lastText \in Texts
        /\ offer \in Contents /\ loaded \in Contents
    BY <2>1, ContentsFacts DEF Init
  <2>5. QED
    BY <2>1, <2>2, <2>3, <2>4 DEF TypeOK
<1>2. sent \in Nat /\ copies \in [Sides -> Nat] /\ commands \in Nat
  BY DEF Init
<1>3. Drawing("viewer") = 0 /\ Drawing("server") = 0
  BY DEF Init, Drawing, One, Sides
<1>4. Requests = 0
  BY FS_EmptySet, EmptySeq DEF Init, Requests
<1>5. One(offer # Nothing) = 0 /\ One(loaded # Nothing) = 0
  BY DEF Init, One
<1>6. QED
  BY <1>1, <1>2, <1>3, <1>4, <1>5 DEF Inductive, Init, Owed, Paid, Sides

\* What the parts of Owed are.
LEMMA PartsAre ==
    ASSUME TypeOK
    PROVE  /\ \A s \in Sides : Drawing(s) \in Nat
           /\ One(offer # Nothing) \in {0, 1} /\ One(loaded # Nothing) \in {0, 1}
           /\ Requests \in Nat
<1>1. \A s \in Sides : Drawing(s) \in Nat
  BY DEF Drawing, One
<1>2. One(offer # Nothing) \in {0, 1} /\ One(loaded # Nothing) \in {0, 1}
  BY DEF One
<1>3. Requests \in Nat
  BY RequestsAre, RequestsCounted DEF TypeOK
<1>4. QED
  BY <1>1, <1>2, <1>3

LEMMA PartsBecome ==
    ASSUME TypeOK'
    PROVE  /\ \A s \in Sides : Drawing(s)' \in Nat
           /\ One(offer # Nothing)' \in {0, 1} /\ One(loaded # Nothing)' \in {0, 1}
           /\ Requests' \in Nat
<1>1. \A s \in Sides : Drawing(s)' \in Nat
  BY DEF Drawing, One
<1>2. One(offer # Nothing)' \in {0, 1} /\ One(loaded # Nothing)' \in {0, 1}
  BY DEF One
<1>3. Requests' \in Nat
  BY RequestsAre, RequestsCounted DEF TypeOK
<1>4. QED
  BY <1>1, <1>2, <1>3

\* A step keeps the balance if it is paid for.
LEMMA StepPaid ==
    ASSUME Inductive, TypeOK',
           sent' \in Nat, copies' = copies, commands' \in Nat,
           sent' + Owed' + commands <= sent + Owed + commands'
    PROVE  Inductive'
<1>1. Owed \in Nat /\ Owed' \in Nat
  <2>1. /\ Drawing("viewer") \in Nat /\ Drawing("server") \in Nat
        /\ One(offer # Nothing) \in Nat /\ One(loaded # Nothing) \in Nat /\ Requests \in Nat
    BY PartsAre DEF Inductive, Sides
  <2>2. /\ Drawing("viewer")' \in Nat /\ Drawing("server")' \in Nat
        /\ One(offer # Nothing)' \in Nat /\ One(loaded # Nothing)' \in Nat /\ Requests' \in Nat
    BY PartsBecome DEF Sides
  <2>3. QED
    BY <2>1, <2>2 DEF Owed
<1>2. copies["viewer"] \in Nat /\ copies["server"] \in Nat /\ commands \in Nat /\ sent \in Nat
  BY DEF Inductive, Sides
<1>3. sent + Owed <= copies["viewer"] + copies["server"] + commands
  BY DEF Inductive, Paid
<1>4. sent' + Owed' <= Paid'
  BY <1>1, <1>2, <1>3 DEF Paid
<1>5. QED
  BY <1>2, <1>4 DEF Inductive

\* A step that changes nothing but what follows.
LEMMA OwedChanges ==
    ASSUME TypeOK, TypeOK',
           Drawing("viewer")' <= Drawing("viewer"), Drawing("server")' <= Drawing("server"),
           UNCHANGED <<offer, loaded>>,
           Requests' <= Requests
    PROVE  Owed' <= Owed /\ Owed \in Nat /\ Owed' \in Nat
<1>1. /\ Drawing("viewer") \in Nat /\ Drawing("server") \in Nat
      /\ One(offer # Nothing) \in Nat /\ One(loaded # Nothing) \in Nat /\ Requests \in Nat
  BY PartsAre DEF Sides
<1>2. /\ Drawing("viewer")' \in Nat /\ Drawing("server")' \in Nat
      /\ One(offer # Nothing)' \in Nat /\ One(loaded # Nothing)' \in Nat /\ Requests' \in Nat
  BY PartsBecome DEF Sides
<1>3. One(offer # Nothing)' = One(offer # Nothing) /\ One(loaded # Nothing)' = One(loaded # Nothing)
  OBVIOUS
<1>4. QED
  BY <1>1, <1>2, <1>3 DEF Owed

\* UpdateRemoteClipboard sends one content at most, and no request.
LEMMA UpdateSends ==
    ASSUME TypeOK, NEW written \in Seq(ToServer), NEW asked \in BOOLEAN,
           UpdateRemoteClipboard(written, asked)
    PROVE  /\ toS' \in Seq(ToServer) /\ Answerable(toS') = Answerable(written)
           /\ sent' \in {sent, sent + 1}
           /\ crc' \in [Sides -> Texts] /\ lastText' \in Texts
<1> DEFINE c == clip["viewer"]
           message == Offered("viewer", c, asked)
<1>1. /\ c \in Contents /\ c.text \in Texts /\ None \in Texts
      /\ [c EXCEPT !.rich = None] \in Contents
      /\ message \in Contents
  BY ContentsFacts DEF TypeOK, Sides, Texts
<1>2. \/ toS' = written
      \/ toS' = Append(written, Content("provide", message))
      \/ toS' = Append(written, Content("text", [c EXCEPT !.rich = None]))
  BY DEF UpdateRemoteClipboard
<1>3. /\ sent' \in {sent, sent + 1}
      /\ crc' = crc \/ crc' = [crc EXCEPT !["viewer"] = c.text]
      /\ lastText' \in {lastText, None, c.text}
  BY DEF UpdateRemoteClipboard
<1> HIDE DEF c, message
<1>4. /\ Content("provide", message) \in ToServer
      /\ Content("provide", message).kind # "request"
      /\ Content("text", [c EXCEPT !.rich = None]) \in ToServer
      /\ Content("text", [c EXCEPT !.rich = None]).kind # "request"
  BY <1>1, MessageFacts DEF Content
<1>5. toS' \in Seq(ToServer) /\ Answerable(toS') = Answerable(written)
  BY <1>2, <1>4, RequestsAppend
<1>6. crc' \in [Sides -> Texts] /\ lastText' \in Texts
  BY <1>1, <1>3 DEF TypeOK
<1>7. QED
  BY <1>3, <1>5, <1>6

\* What a program puts on its clipboard is its own.
LEMMA RestoreChanges ==
    ASSUME TypeOK, NEW s \in Sides, NEW c \in Contents, Restore(s, c)
    PROVE  /\ clip' \in [Sides -> Contents]
           /\ own' \in [Sides -> BOOLEAN] /\ draw' \in [Sides -> BOOLEAN]
           /\ own'[s] /\ \A u \in Sides \ {s} : own'[u] = own[u] /\ draw'[u] = draw[u]
<1>1. own' = [own EXCEPT ![s] = TRUE] /\ draw' = [draw EXCEPT ![s] = TRUE]
  BY DEF Restore
<1>2. own' \in [Sides -> BOOLEAN] /\ draw' \in [Sides -> BOOLEAN]
  BY <1>1, Zenon DEF TypeOK
<1>3. PICK kept \in {c, [c EXCEPT !.rich = None]} : clip' = [clip EXCEPT ![s] = kept]
  BY DEF Restore
<1>4. kept \in Contents
  BY <1>3, ContentsFacts
<1>5. clip' \in [Sides -> Contents]
  BY <1>3, <1>4 DEF TypeOK
<1>6. QED
  BY <1>1, <1>2, <1>5 DEF TypeOK

-----------------------------------------------------------------------------
(* The steps of the users. *)

LEMMA CopyInductive ==
    ASSUME Inductive, NEW s \in Sides, NEW c \in ViewerCopies \cup ServerCopies, Copy(s, c)
    PROVE  Inductive'
<1>1. TypeOK
  BY DEF Inductive
<1>2. /\ clip' = [clip EXCEPT ![s] = c] /\ copies' = [copies EXCEPT ![s] = copies[s] + 1]
      /\ own' = [own EXCEPT ![s] = FALSE] /\ draw' = [draw EXCEPT ![s] = TRUE]
      /\ UNCHANGED <<updating, crc, lastText, capsPost, auto, notify, ex, enabled, files,
                     session, offer, tell, loaded, toV, toS, commands, sent>>
  BY DEF Copy, settings, pending, channels
<1>3. own' \in [Sides -> BOOLEAN] /\ draw' \in [Sides -> BOOLEAN]
  BY <1>1, <1>2, Zenon DEF TypeOK
<1>4. TypeOK'
  BY <1>1, <1>2, <1>3, ContentsFacts DEF TypeOK
<1>5. \A u \in Sides : Drawing(u)' \in Nat /\ Drawing(u)' <= Drawing(u) + (IF u = s THEN 1 ELSE 0)
  BY <1>1, <1>2, <1>3 DEF TypeOK, Drawing, One
<1>6. /\ One(offer # Nothing)' = One(offer # Nothing)
      /\ One(loaded # Nothing)' = One(loaded # Nothing) /\ Requests' = Requests
  BY <1>2, RequestsAre
<1>7. /\ copies' \in [Sides -> Nat] /\ Paid' = Paid + 1 /\ commands' \in Nat
      /\ sent' \in Nat
  BY <1>2 DEF Inductive, Paid, Sides
<1>8. Owed' <= Owed + 1 /\ Owed \in Nat /\ Owed' \in Nat
  BY <1>1, <1>5, <1>6, PartsAre DEF Owed, Sides
<1>9. sent' + Owed' <= Paid'
  BY <1>2, <1>7, <1>8 DEF Inductive, Paid, Sides
<1>10. QED
  BY <1>4, <1>7, <1>9 DEF Inductive

LEMMA ToggleInductive ==
    ASSUME Inductive, Toggle \/ SendClipboard
    PROVE  Inductive'
<1>1. TypeOK /\ sent \in Nat /\ commands \in Nat
  BY DEF Inductive
<1>2. /\ commands' = commands + 1 /\ copies' = copies
      /\ UNCHANGED <<clip, own, draw, seen, updating, capsPost, auto, notify, ex, files,
                     session, offer, tell, loaded, toV>>
  BY DEF Toggle, SendClipboard, Command, clipboards, settings, pending
<1>3. enabled' \in BOOLEAN
  <2>1. CASE Toggle
    BY <2>1, Zenon DEF Toggle
  <2>2. CASE SendClipboard
    BY <1>1, <2>2 DEF SendClipboard, settings, TypeOK
  <2>3. QED
    BY <2>1, <2>2
<1>4. /\ toS' \in Seq(ToServer) /\ Answerable(toS') = Answerable(toS)
      /\ sent' \in {sent, sent + 1}
      /\ crc' \in [Sides -> Texts] /\ lastText' \in Texts
  <2>1. \A on \in BOOLEAN :
           /\ CapsWritten(on) \in Seq(ToServer)
           /\ Answerable(CapsWritten(on)) = Answerable(toS)
    <3>1. ASSUME NEW on \in BOOLEAN
          PROVE  /\ Append(toS, Caps(on)) \in Seq(ToServer)
                 /\ Answerable(Append(toS, Caps(on))) = Answerable(toS)
      <4>1. Caps(on) \in ToServer /\ Caps(on).kind # "request"
        BY MessageFacts DEF Caps
      <4>2. QED
        BY <1>1, <4>1, RequestsAppend DEF TypeOK
    <3>2. QED
      BY <1>1, <3>1 DEF CapsWritten, TypeOK
  <2>2. CASE Toggle /\ enabled
    BY <1>1, <2>1, <2>2 DEF Toggle, TypeOK
  <2>3. CASE Toggle /\ ~enabled
    <3>1. UpdateRemoteClipboard(CapsWritten(TRUE), FALSE)
      BY <2>3 DEF Toggle
    <3>2. QED
      BY <1>1, <2>1, <3>1, UpdateSends
  <2>4. CASE SendClipboard
    <3>1. UpdateRemoteClipboard(toS, TRUE)
      BY <2>4 DEF SendClipboard
    <3>2. QED
      BY <1>1, <3>1, UpdateSends DEF TypeOK
  <2>5. QED
    BY <2>2, <2>3, <2>4
<1>5. TypeOK'
  BY <1>1, <1>2, <1>3, <1>4 DEF TypeOK
<1>6. Owed' <= Owed /\ Owed \in Nat /\ Owed' \in Nat
  <2>1. Drawing("viewer")' = Drawing("viewer") /\ Drawing("server")' = Drawing("server")
    BY <1>2 DEF Drawing
  <2>2. Requests' = Requests
    BY <1>4, RequestsAre
  <2>3. QED
    BY <1>1, <1>2, <1>5, <2>1, <2>2, OwedChanges, PartsAre DEF Sides
<1>7. sent' + Owed' + commands <= sent + Owed + commands'
  BY <1>1, <1>2, <1>4, <1>6
<1>8. QED
  BY <1>1, <1>2, <1>4, <1>5, <1>7, StepPaid

\* RequestRemoteClipboard and the file transfer window.
LEMMA MessageInductive ==
    ASSUME Inductive, RequestRemoteClipboard \/ FileTransfer
    PROVE  Inductive'
<1>1. TypeOK /\ sent \in Nat /\ commands \in Nat
  BY DEF Inductive
<1>2. /\ copies' = copies
      /\ UNCHANGED <<clip, own, draw, seen, updating, crc, lastText, capsPost, auto, notify, ex,
                     enabled, session, offer, tell, loaded, toV, sent>>
  BY DEF RequestRemoteClipboard, FileTransfer, Command, clipboards, settings, pending, bounds
<1>3. files' \in BOOLEAN
  <2>1. CASE RequestRemoteClipboard
    BY <1>1, <2>1 DEF RequestRemoteClipboard, settings, TypeOK
  <2>2. CASE FileTransfer
    BY <2>2, Zenon DEF FileTransfer
  <2>3. QED
    BY <2>1, <2>2
<1>4. /\ toS' \in Seq(ToServer) /\ commands' \in Nat
      /\ Answerable(toS') + commands <= Answerable(toS) + commands'
  <2>1. CASE RequestRemoteClipboard
    <3>1. toS' = Append(toS, Plain("request")) /\ commands' = commands + 1
      BY <2>1 DEF RequestRemoteClipboard, Command
    <3>2. Plain("request") \in ToServer /\ Plain("request").kind = "request"
      BY MessageFacts DEF Plain
    <3>3. Answerable(toS) \in Nat
      BY <1>1, RequestsCounted DEF TypeOK
    <3>4. QED
      BY <1>1, <3>1, <3>2, <3>3, RequestsAppend DEF TypeOK
  <2>2. CASE FileTransfer
    <3>1. /\ toS' = Append(toS, Plain("filesOff")) \/ toS' = Append(toS, Plain("filesOn"))
          /\ commands' = commands \/ commands' = commands + 1
      BY <2>2 DEF FileTransfer, Command, bounds
    <3>2. /\ Plain("filesOn") \in ToServer /\ Plain("filesOn").kind # "request"
          /\ Plain("filesOff") \in ToServer /\ Plain("filesOff").kind # "request"
      BY MessageFacts DEF Plain
    <3>3. Answerable(toS) \in Nat
      BY <1>1, RequestsCounted DEF TypeOK
    <3>4. toS' \in Seq(ToServer) /\ Answerable(toS') = Answerable(toS)
      BY <1>1, <3>1, <3>2, RequestsAppend DEF TypeOK
    <3>5. QED
      BY <1>1, <3>1, <3>3, <3>4
  <2>3. QED
    BY <2>1, <2>2
<1>5. TypeOK'
  BY <1>1, <1>2, <1>3, <1>4 DEF TypeOK
<1>6. sent' + Owed' + commands <= sent + Owed + commands'
  <2>1. Drawing("viewer")' = Drawing("viewer") /\ Drawing("server")' = Drawing("server")
    BY <1>2 DEF Drawing
  <2>2. /\ Requests = Answerable(toS) /\ Requests' = Answerable(toS')
        /\ Answerable(toS) \in Nat /\ Answerable(toS') \in Nat
    BY <1>1, <1>4, RequestsAre, RequestsCounted DEF TypeOK
  <2>3. /\ Drawing("viewer") \in Nat /\ Drawing("server") \in Nat
        /\ One(offer # Nothing) \in Nat /\ One(loaded # Nothing) \in Nat
    BY <1>1, PartsAre DEF Sides
  <2>4. One(offer # Nothing)' = One(offer # Nothing) /\ One(loaded # Nothing)' = One(loaded # Nothing)
    BY <1>2
  <2>5. PICK n \in Nat : n = Drawing("viewer") + Drawing("server") + One(offer # Nothing)
                              + One(loaded # Nothing)
    BY <2>3
  <2>6. Owed = n + Answerable(toS)
    BY <2>2, <2>5 DEF Owed
  <2>7. Owed' = n + Answerable(toS')
    BY <2>1, <2>2, <2>4, <2>5 DEF Owed
  <2>8. sent' = sent
    BY <1>2
  <2>9. QED
    BY <1>1, <1>4, <2>2, <2>6, <2>7, <2>8
<1>7. QED
  BY <1>1, <1>2, <1>4, <1>5, <1>6, StepPaid

-----------------------------------------------------------------------------
(* The steps of the viewer. *)

\* What is drawn is passed on at most once.
LEMMA DrawInductive ==
    ASSUME Inductive, ViewerDraw \/ ServerDraw
    PROVE  Inductive'
<1>1. TypeOK /\ sent \in Nat /\ commands \in Nat
  BY DEF Inductive
<1>2. PICK s \in Sides :
         /\ draw[s] /\ ~updating[s] /\ draw' = [draw EXCEPT ![s] = FALSE]
         /\ \/ updating' = [updating EXCEPT ![s] = ~files /\ ~own[s] /\ enabled]
            \/ updating' = [updating EXCEPT ![s] = ~own[s] /\ ~session]
         /\ UNCHANGED <<clip, own, crc, lastText, capsPost, settings, pending, channels, bounds,
                        sent>>
  BY DEF ViewerDraw, ServerDraw, Sides
<1>3. draw' \in [Sides -> BOOLEAN] /\ updating' \in [Sides -> BOOLEAN]
  BY <1>1, <1>2, Zenon DEF TypeOK
<1>4. UNCHANGED <<clip, own, crc, lastText, capsPost, auto, notify, ex, enabled, files, session,
                  offer, tell, loaded, toV, toS, copies, commands, sent>>
  BY <1>2 DEF settings, pending, channels, bounds
<1>5. TypeOK'
  BY <1>1, <1>3, <1>4 DEF TypeOK
<1>6. \A u \in Sides : Drawing(u)' <= Drawing(u)
  <2>1. ASSUME NEW u \in Sides, u # s PROVE Drawing(u)' <= Drawing(u)
    <3>1. draw'[u] = draw[u] /\ own' = own /\ updating'[u] = updating[u]
      BY <1>1, <1>2, <1>4, <2>1 DEF TypeOK
    <3>2. Drawing(u)' = Drawing(u)
      BY <3>1 DEF Drawing
    <3>3. QED
      BY <1>1, <3>2, PartsAre
  <2>2. Drawing(s)' <= Drawing(s)
    <3>1. /\ ~draw'[s] /\ (updating'[s] => ~own[s])
          /\ draw'[s] \in BOOLEAN /\ updating'[s] \in BOOLEAN /\ own' = own
      BY <1>1, <1>2, <1>3, <1>4 DEF TypeOK
    <3>2. QED
      BY <1>2, <3>1 DEF Drawing, One
  <2>3. QED
    BY <2>1, <2>2
<1>7. Requests' = Requests
  BY <1>4, RequestsAre
<1>8. Owed' <= Owed /\ Owed \in Nat /\ Owed' \in Nat
  <2>1. Requests' <= Requests
    BY <1>1, <1>7, PartsAre
  <2>2. QED
    BY <1>1, <1>4, <1>5, <1>6, <2>1, OwedChanges DEF Sides
<1>9. QED
  BY <1>1, <1>4, <1>5, <1>8, StepPaid

LEMMA ViewerUpdateInductive ==
    ASSUME Inductive, ViewerUpdate
    PROVE  Inductive'
<1>1. TypeOK /\ sent \in Nat /\ commands \in Nat
  BY DEF Inductive
<1>2. /\ updating["viewer"] /\ updating' = [updating EXCEPT !["viewer"] = FALSE]
      /\ UpdateRemoteClipboard(toS, FALSE)
      /\ UNCHANGED <<clip, own, draw, capsPost, auto, notify, ex, enabled, files, session,
                     offer, tell, loaded, toV, copies, commands>>
  BY DEF ViewerUpdate, clipboards, settings, pending, bounds
<1>3. /\ toS' \in Seq(ToServer) /\ Answerable(toS') = Answerable(toS)
      /\ sent' \in {sent, sent + 1}
      /\ crc' \in [Sides -> Texts] /\ lastText' \in Texts
  BY <1>1, <1>2, UpdateSends DEF TypeOK
<1>4. updating' \in [Sides -> BOOLEAN]
  BY <1>1, <1>2, Zenon DEF TypeOK
<1>5. TypeOK'
  BY <1>1, <1>2, <1>3, <1>4 DEF TypeOK
<1>6. Drawing("viewer")' + 1 = Drawing("viewer") /\ Drawing("server")' = Drawing("server")
  BY <1>1, <1>2, <1>4 DEF TypeOK, Drawing, One, Sides
<1>7. Owed' + 1 = Owed /\ Owed \in Nat /\ Owed' \in Nat
  <2>1. PICK n \in Nat : n = One(offer # Nothing) + One(loaded # Nothing) + Requests
    BY <1>1, PartsAre
  <2>2. Requests' = Requests
    BY <1>3, RequestsAre
  <2>3. /\ Drawing("viewer") \in Nat /\ Drawing("server") \in Nat
        /\ Drawing("viewer")' \in Nat /\ Drawing("server")' \in Nat
        /\ One(offer # Nothing) \in Nat /\ One(loaded # Nothing) \in Nat /\ Requests \in Nat
    BY <1>1, <1>5, PartsAre, PartsBecome DEF Sides
  <2>4. Owed = Drawing("viewer") + Drawing("server") + n
    BY <2>1, <2>3 DEF Owed
  <2>5. Owed' = Drawing("viewer")' + Drawing("server")' + n
    BY <1>2, <2>1, <2>2, <2>3 DEF Owed
  <2>6. QED
    BY <1>6, <2>3, <2>4, <2>5
<1>8. QED
  BY <1>1, <1>2, <1>3, <1>5, <1>7, StepPaid

\* PostedCaps and ReadServerCutText: what the program itself puts there is not drawn.
LEMMA ReadInductive ==
    ASSUME Inductive, PostedCaps \/ ReadServerCutText
    PROVE  Inductive'
<1>1. TypeOK /\ sent \in Nat /\ commands \in Nat
  BY DEF Inductive
<1> DEFINE Kept == /\ TypeOK' /\ UNCHANGED <<offer, loaded, copies, commands, sent>>
                   /\ Answerable(toS') = Answerable(toS)
                   /\ Drawing("viewer")' <= Drawing("viewer")
                   /\ Drawing("server")' <= Drawing("server")
<1>2. ASSUME PostedCaps PROVE Kept
  <2>1. /\ capsPost' = FALSE /\ toS' = CapsWritten(enabled)
        /\ UNCHANGED <<clip, own, draw, updating, crc, lastText, auto, notify, ex, enabled,
                       files, session, offer, tell, loaded, toV, copies, commands, sent>>
    BY <1>2 DEF PostedCaps, clipboards, settings, pending, bounds
  <2>2. Caps(enabled) \in ToServer /\ Caps(enabled).kind # "request"
    BY <1>1, MessageFacts DEF Caps, TypeOK
  <2>3. toS' \in Seq(ToServer) /\ Answerable(toS') = Answerable(toS)
    BY <1>1, <2>1, <2>2, RequestsAppend DEF CapsWritten, TypeOK
  <2>4. capsPost' \in BOOLEAN
    BY <2>1, Zenon
  <2>5. TypeOK'
    BY <1>1, <2>1, <2>3, <2>4 DEF TypeOK
  <2>6. Drawing("viewer")' = Drawing("viewer") /\ Drawing("server")' = Drawing("server")
    BY <2>1 DEF Drawing
  <2>7. Kept
    BY <1>1, <2>1, <2>3, <2>5, <2>6, PartsAre DEF Sides
  <2>8. QED
    BY <2>7
<1>3. ASSUME ReadServerCutText PROVE Kept
  <2>1. Head(toV) \in ToViewer /\ Tail(toV) \in Seq(ToViewer)
    BY <1>1, <1>3, HeadTailProperties DEF ReadServerCutText, TypeOK
  <2>2. /\ toV' = Tail(toV) /\ UNCHANGED <<updating, lastText, files, session, offer, tell,
                                         loaded, toS, copies, commands, sent>>
    BY <1>3 DEF ReadServerCutText, pending, bounds
  <2>3. /\ clip' \in [Sides -> Contents] /\ crc' \in [Sides -> Texts]
        /\ own' \in [Sides -> BOOLEAN] /\ draw' \in [Sides -> BOOLEAN]
        /\ auto' \in [Sides -> BOOLEAN] /\ ex' \in BOOLEAN /\ capsPost' \in BOOLEAN
        /\ notify' = notify /\ enabled' = enabled
        /\ own'["viewer"] \/ (own'["viewer"] = own["viewer"] /\ draw'["viewer"] = draw["viewer"])
        /\ own'["server"] = own["server"] /\ draw'["server"] = draw["server"]
    <3>1. CASE ReadCaps
      <4>1. ex' \in BOOLEAN /\ capsPost' \in BOOLEAN
        BY <3>1, Zenon DEF ReadCaps
      <4>2. Head(toV).on \in BOOLEAN
        BY <2>1, <3>1, ReadFacts DEF ReadCaps
      <4>3. auto' \in [Sides -> BOOLEAN]
        BY <1>1, <3>1, <4>2 DEF ReadCaps, TypeOK
      <4>4. QED
        BY <1>1, <3>1, <4>1, <4>3 DEF ReadCaps, clipboards, TypeOK
    <3>2. CASE ReadProvide
      <4>1. ex' \in BOOLEAN
        BY <3>2, Zenon DEF ReadProvide
      <4>2. Head(toV).what \in Contents /\ Head(toV).what.text \in Texts
        BY <2>1, <3>2, ReadFacts, ContentsFacts DEF ReadProvide
      <4>3. CASE enabled
        <5>1. /\ Restore("viewer", Head(toV).what)
              /\ crc' = [crc EXCEPT !["viewer"] = Head(toV).what.text]
          BY <3>2, <4>3 DEF ReadProvide
        <5>2. /\ clip' \in [Sides -> Contents]
              /\ own' \in [Sides -> BOOLEAN] /\ draw' \in [Sides -> BOOLEAN]
              /\ own'["viewer"] /\ own'["server"] = own["server"] /\ draw'["server"] = draw["server"]
          BY <1>1, <4>2, <5>1, RestoreChanges DEF Sides
        <5>3. QED
          BY <1>1, <3>2, <4>1, <4>2, <5>1, <5>2 DEF ReadProvide, TypeOK
      <4>4. CASE ~enabled
        BY <1>1, <3>2, <4>1, <4>4 DEF ReadProvide, clipboards, TypeOK
      <4>5. QED
        BY <4>3, <4>4
    <3>3. CASE ReadNotify
      <4>1. ex' \in BOOLEAN
        BY <3>3, Zenon DEF ReadNotify
      <4>2. QED
        BY <1>1, <3>3, <4>1 DEF ReadNotify, clipboards, TypeOK
    <3>4. QED
      BY <1>3, <3>1, <3>2, <3>3 DEF ReadServerCutText
  <2>4. TypeOK'
    BY <1>1, <2>1, <2>2, <2>3 DEF TypeOK
  <2>5. Drawing("viewer")' <= Drawing("viewer") /\ Drawing("server")' <= Drawing("server")
    BY <1>1, <2>2, <2>3 DEF Drawing, One, TypeOK, Sides
  <2>6. Kept
    BY <2>2, <2>4, <2>5
  <2>7. QED
    BY <2>6
<1>4. Kept
  BY <1>2, <1>3
<1>5. Requests' <= Requests
  BY <1>1, <1>4, RequestsAre, PartsAre
<1>6. Owed' <= Owed /\ Owed \in Nat /\ Owed' \in Nat
  BY <1>1, <1>4, <1>5, OwedChanges
<1>7. QED
  BY <1>1, <1>4, <1>6, StepPaid

-----------------------------------------------------------------------------
(* The steps of the server. *)

\* The update lock makes offer and m_crc one step.
LEMMA OfferChanges ==
    ASSUME TypeOK, NEW c \in Contents, NEW asked \in BOOLEAN, UpdateClipTextEx(c, asked)
    PROVE  /\ offer' \in Contents /\ tell' \in BOOLEAN /\ crc' \in [Sides -> Texts]
           /\ One(offer # Nothing)' <= One(offer # Nothing) + 1
<1>1. CASE c # Nothing /\ Changed("server", c, asked)
  <2>1. /\ offer' = Offered("server", c, asked)
        /\ tell' = (notify /\ ~asked /\ Offered("server", c, asked) # c)
        /\ crc' = [crc EXCEPT !["server"] = c.text]
    BY <1>1 DEF UpdateClipTextEx
  <2>2. tell' \in BOOLEAN
    BY <2>1, Zenon
  <2>3. offer' \in Contents /\ c.text \in Texts
    BY <2>1, ContentsFacts DEF Sides
  <2>4. crc' \in [Sides -> Texts]
    BY <2>1, <2>3 DEF TypeOK
  <2>5. One(offer # Nothing)' <= One(offer # Nothing) + 1
    BY DEF One
  <2>6. QED
    BY <2>2, <2>3, <2>4, <2>5
<1>2. CASE ~(c # Nothing /\ Changed("server", c, asked))
  <2>1. UNCHANGED <<offer, tell, crc>>
    BY <1>2 DEF UpdateClipTextEx
  <2>2. One(offer # Nothing)' <= One(offer # Nothing) + 1
    BY DEF One
  <2>3. QED
    BY <2>1, <2>2 DEF TypeOK
<1>3. QED
  BY <1>1, <1>2

LEMMA ServerUpdateInductive ==
    ASSUME Inductive, ServerUpdate
    PROVE  Inductive'
<1>1. TypeOK /\ sent \in Nat /\ commands \in Nat
  BY DEF Inductive
<1>2. /\ updating["server"] /\ updating' = [updating EXCEPT !["server"] = FALSE]
      /\ UpdateClipTextEx(clip["server"], FALSE)
      /\ UNCHANGED <<clip, own, draw, lastText, capsPost, auto, notify, ex, enabled, files,
                     session, loaded, toV, toS, copies, commands, sent>>
  BY DEF ServerUpdate, clipboards, settings, channels, bounds
<1>3. clip["server"] \in Contents
  BY <1>1 DEF TypeOK, Sides
<1>4. /\ offer' \in Contents /\ tell' \in BOOLEAN /\ crc' \in [Sides -> Texts]
      /\ One(offer # Nothing)' <= One(offer # Nothing) + 1
  BY <1>1, <1>2, <1>3, OfferChanges
<1>5. updating' \in [Sides -> BOOLEAN]
  BY <1>1, <1>2, Zenon DEF TypeOK
<1>6. TypeOK'
  BY <1>1, <1>2, <1>4, <1>5 DEF TypeOK
<1>7. Drawing("server")' + 1 = Drawing("server") /\ Drawing("viewer")' = Drawing("viewer")
  BY <1>1, <1>2, <1>5 DEF TypeOK, Drawing, One, Sides
<1>8. Owed' <= Owed /\ Owed \in Nat /\ Owed' \in Nat
  <2>1. /\ Drawing("viewer") \in Nat /\ Drawing("server") \in Nat
        /\ Drawing("viewer")' \in Nat /\ Drawing("server")' \in Nat
        /\ One(offer # Nothing) \in Nat /\ One(loaded # Nothing) \in Nat /\ Requests \in Nat
        /\ One(offer # Nothing)' \in Nat
    BY <1>1, <1>6, PartsAre, PartsBecome DEF Sides
  <2>2. PICK a \in Nat, b \in Nat : a = One(offer # Nothing) /\ b = One(offer # Nothing)'
    BY <2>1
  <2>3. PICK n \in Nat : n = One(loaded # Nothing)
    BY <2>1
  <2>4. Requests' = Requests
    BY <1>2, RequestsAre
  <2>5. Owed = Drawing("viewer") + Drawing("server") + a + n + Requests
    BY <2>2, <2>3 DEF Owed
  <2>6. Owed' = Drawing("viewer")' + Drawing("server")' + b + n + Requests
    BY <1>2, <2>2, <2>3, <2>4 DEF Owed
  <2>7. b <= a + 1
    BY <1>4, <2>2
  <2>8. QED
    BY <1>7, <2>1, <2>2, <2>3, <2>5, <2>6, <2>7
<1>9. QED
  BY <1>1, <1>2, <1>6, <1>8, StepPaid

\* What is offered is sent once.
LEMMA SendInductive ==
    ASSUME Inductive, SendClip
    PROVE  Inductive'
<1>1. TypeOK /\ sent \in Nat /\ commands \in Nat
  BY DEF Inductive
<1> DEFINE provided == IF offer # Nothing THEN Append(toV, Content("provide", offer)) ELSE toV
<1>2. /\ offer' = Nothing /\ tell' = FALSE
      /\ toV' = IF tell THEN Append(provided, Plain("notify")) ELSE provided
      /\ sent' = IF offer # Nothing THEN sent + 1 ELSE sent
      /\ UNCHANGED <<clip, own, draw, updating, crc, lastText, capsPost, auto, notify, ex,
                     enabled, files, session, loaded, toS, copies, commands>>
  BY DEF SendClip, clipboards, settings, bounds
<1>3. toV' \in Seq(ToViewer)
  <2>1. Content("provide", offer) \in ToViewer /\ Plain("notify") \in ToViewer
    BY <1>1, MessageFacts DEF TypeOK
  <2>2. provided \in Seq(ToViewer)
    BY <1>1, <2>1, AppendProperties DEF TypeOK
  <2> HIDE DEF provided
  <2>3. QED
    BY <1>2, <2>1, <2>2, AppendProperties
<1>4. offer' \in Contents /\ tell' \in BOOLEAN
  <2>1. tell' \in BOOLEAN
    BY <1>2, Zenon
  <2>2. QED
    BY <1>2, <2>1, ContentsFacts
<1> HIDE DEF provided
<1>5. TypeOK'
  BY <1>1, <1>2, <1>3, <1>4 DEF TypeOK
<1>6. One(offer # Nothing)' = 0 /\ sent' = sent + One(offer # Nothing)
  BY <1>1, <1>2 DEF One
<1>7. sent' + Owed' <= sent + Owed /\ Owed \in Nat /\ Owed' \in Nat
  <2>1. /\ Drawing("viewer") \in Nat /\ Drawing("server") \in Nat
        /\ One(offer # Nothing) \in Nat /\ One(loaded # Nothing) \in Nat /\ Requests \in Nat
    BY <1>1, PartsAre DEF Sides
  <2>2. PICK a \in Nat : a = One(offer # Nothing)
    BY <2>1
  <2>3. PICK n \in Nat : n = One(loaded # Nothing)
    BY <2>1
  <2>4. Requests' = Requests
    BY <1>2, RequestsAre
  <2>5. Drawing("viewer")' = Drawing("viewer") /\ Drawing("server")' = Drawing("server")
    BY <1>2 DEF Drawing
  <2>6. Owed = Drawing("viewer") + Drawing("server") + a + n + Requests
    BY <2>2, <2>3 DEF Owed
  <2>7. Owed' = Drawing("viewer") + Drawing("server") + 0 + n + Requests
    BY <1>2, <1>6, <2>3, <2>4, <2>5 DEF Owed
  <2>8. sent' = sent + a
    BY <1>6, <2>2
  <2>9. QED
    BY <1>1, <2>1, <2>2, <2>3, <2>6, <2>7, <2>8
<1>8. sent' \in Nat
  BY <1>1, <1>2
<1>9. QED
  BY <1>1, <1>2, <1>5, <1>7, <1>8, StepPaid

\* An answer uses up the request.
LEMMA AnswerInductive ==
    ASSUME Inductive, AnswerRequest
    PROVE  Inductive'
<1>1. TypeOK /\ sent \in Nat /\ commands \in Nat
  BY DEF Inductive
<1>2. /\ loaded # Nothing /\ loaded' = Nothing /\ UpdateClipTextEx(loaded, TRUE)
      /\ UNCHANGED <<clip, own, draw, updating, lastText, capsPost, auto, notify, ex, enabled,
                     files, session, toV, toS, copies, commands, sent>>
  BY DEF AnswerRequest, clipboards, settings, channels, bounds
<1>3. /\ offer' \in Contents /\ tell' \in BOOLEAN /\ crc' \in [Sides -> Texts]
      /\ One(offer # Nothing)' <= One(offer # Nothing) + 1
  BY <1>1, <1>2, OfferChanges DEF TypeOK
<1>4. TypeOK'
  BY <1>1, <1>2, <1>3, ContentsFacts DEF TypeOK
<1>5. One(loaded # Nothing)' = 0 /\ One(loaded # Nothing) = 1
  BY <1>2 DEF One
<1>6. Owed' <= Owed /\ Owed \in Nat /\ Owed' \in Nat
  <2>1. /\ Drawing("viewer") \in Nat /\ Drawing("server") \in Nat
        /\ One(offer # Nothing) \in Nat /\ Requests \in Nat /\ One(offer # Nothing)' \in Nat
    BY <1>1, <1>4, PartsAre, PartsBecome DEF Sides
  <2>2. PICK a \in Nat, b \in Nat : a = One(offer # Nothing) /\ b = One(offer # Nothing)'
    BY <2>1
  <2>3. Requests' = Requests
    BY <1>2, RequestsAre
  <2>4. Drawing("viewer")' = Drawing("viewer") /\ Drawing("server")' = Drawing("server")
    BY <1>2 DEF Drawing
  <2>5. Owed = Drawing("viewer") + Drawing("server") + a + 1 + Requests
    BY <1>5, <2>2 DEF Owed
  <2>6. Owed' = Drawing("viewer") + Drawing("server") + b + 0 + Requests
    BY <1>5, <2>2, <2>3, <2>4 DEF Owed
  <2>7. b <= a + 1
    BY <1>3, <2>2
  <2>8. QED
    BY <2>1, <2>2, <2>5, <2>6, <2>7
<1>7. QED
  BY <1>1, <1>2, <1>4, <1>6, StepPaid

\* What is received is put on the clipboard for good, or the request is loaded.
LEMMA HandleInductive ==
    ASSUME Inductive, HandleClientMessage
    PROVE  Inductive'
<1>1. TypeOK /\ sent \in Nat /\ commands \in Nat
  BY DEF Inductive
<1>2. /\ toS # <<>> /\ loaded = Nothing /\ toS' = Tail(toS)
      /\ UNCHANGED <<updating, crc, lastText, capsPost, ex, enabled, files, offer, toV,
                     copies, commands, sent>>
  BY DEF HandleClientMessage, bounds
<1>3. /\ Head(toS) \in ToServer /\ toS' \in Seq(ToServer)
      /\ Answerable(toS') <= Answerable(toS) /\ Answerable(toS) \in Nat /\ Answerable(toS') \in Nat
      /\ Head(toS).kind = "request" => Answerable(toS') + 1 <= Answerable(toS)
  BY <1>1, <1>2, RequestsTail, RequestsCounted DEF TypeOK
<1> DEFINE Typed == /\ clip' \in [Sides -> Contents]
                    /\ own' \in [Sides -> BOOLEAN] /\ draw' \in [Sides -> BOOLEAN]
                    /\ auto' \in [Sides -> BOOLEAN]
                    /\ notify' \in BOOLEAN /\ session' \in BOOLEAN /\ tell' \in BOOLEAN
                    /\ loaded' \in Contents
           Viewer == own'["viewer"] = own["viewer"] /\ draw'["viewer"] = draw["viewer"]
           Server == own'["server"] \/ (own'["server"] = own["server"] /\ draw'["server"] = draw["server"])
           Asked == loaded' = Nothing \/ Head(toS).kind = "request"
<1>4. Typed /\ Viewer /\ Server /\ Asked
  <2>1. ASSUME HandleCaps PROVE Typed /\ Viewer /\ Server /\ Asked
    <3>1. /\ auto' = [auto EXCEPT !["server"] = Head(toS).on] /\ notify' = Head(toS).on
          /\ UNCHANGED <<clip, own, draw, session, tell, loaded>>
      BY <2>1 DEF HandleCaps, clipboards
    <3>2. Head(toS).on \in BOOLEAN
      BY <1>3, <2>1, ReadFacts DEF HandleCaps
    <3>3. auto' \in [Sides -> BOOLEAN] /\ notify' \in BOOLEAN
      BY <1>1, <3>1, <3>2 DEF TypeOK
    <3>4. QED
      BY <1>1, <1>2, <3>1, <3>3 DEF TypeOK
  <2>2. ASSUME HandleProvide PROVE Typed /\ Viewer /\ Server /\ Asked
    <3>1. Restore("server", Head(toS).what) /\ UNCHANGED <<auto, notify, tell, session, loaded>>
      BY <2>2 DEF HandleProvide
    <3>2. Head(toS).what \in Contents
      BY <1>3, <2>2, ReadFacts DEF HandleProvide
    <3>3. /\ clip' \in [Sides -> Contents]
          /\ own' \in [Sides -> BOOLEAN] /\ draw' \in [Sides -> BOOLEAN]
          /\ own'["server"] /\ own'["viewer"] = own["viewer"] /\ draw'["viewer"] = draw["viewer"]
      BY <1>1, <3>1, <3>2, RestoreChanges DEF Sides
    <3>4. QED
      BY <1>1, <1>2, <3>1, <3>3 DEF TypeOK
  <2>3. ASSUME HandleRequest PROVE Typed /\ Viewer /\ Server /\ Asked
    <3>1. /\ loaded' = clip["server"] /\ Head(toS).kind = "request"
          /\ UNCHANGED <<clip, own, draw, auto, notify, tell, session>>
      BY <2>3 DEF HandleRequest, clipboards
    <3>2. loaded' \in Contents
      BY <1>1, <3>1 DEF TypeOK, Sides
    <3>3. QED
      BY <1>1, <3>1, <3>2 DEF TypeOK
  <2>4. ASSUME HandleSession PROVE Typed /\ Viewer /\ Server /\ Asked
    <3>1. /\ session' = (Head(toS).kind = "filesOn")
          /\ UNCHANGED <<clip, own, draw, auto, notify, tell, loaded>>
      BY <2>4 DEF HandleSession, clipboards
    <3>2. session' \in BOOLEAN
      BY <3>1, Zenon
    <3>3. QED
      BY <1>1, <1>2, <3>1, <3>2 DEF TypeOK
  <2> HIDE DEF Typed, Viewer, Server, Asked
  <2>5. QED
    BY <2>1, <2>2, <2>3, <2>4 DEF HandleClientMessage
<1>5. TypeOK'
  BY <1>1, <1>2, <1>3, <1>4 DEF TypeOK
<1>6. Drawing("viewer")' <= Drawing("viewer") /\ Drawing("server")' <= Drawing("server")
  BY <1>1, <1>2, <1>4 DEF TypeOK, Drawing, One, Sides
<1>7. Owed' <= Owed /\ Owed \in Nat /\ Owed' \in Nat
  <2>1. /\ Drawing("viewer") \in Nat /\ Drawing("server") \in Nat
        /\ Drawing("viewer")' \in Nat /\ Drawing("server")' \in Nat
        /\ One(offer # Nothing) \in Nat
    BY <1>1, <1>5, PartsAre, PartsBecome DEF Sides
  <2>2. PICK a \in Nat : a = One(offer # Nothing)
    BY <2>1
  <2>3. Requests = Answerable(toS) /\ Requests' = Answerable(toS')
    BY RequestsAre
  <2>4. PICK n \in Nat : n = One(loaded # Nothing)' /\ n + Answerable(toS') <= Answerable(toS)
    <3>1. CASE loaded' = Nothing
      BY <1>3, <3>1 DEF One
    <3>2. CASE Head(toS).kind = "request"
      BY <1>3, <3>2 DEF One
    <3>3. QED
      BY <1>4, <3>1, <3>2
  <2>5. One(loaded # Nothing) = 0
    BY <1>2 DEF One
  <2>6. Owed = Drawing("viewer") + Drawing("server") + a + 0 + Answerable(toS)
    BY <2>2, <2>3, <2>5 DEF Owed
  <2>7. Owed' = Drawing("viewer")' + Drawing("server")' + a + n + Answerable(toS')
    BY <1>2, <2>2, <2>3, <2>4 DEF Owed
  <2>8. \A v, w, x, y, i, j \in Nat :
           (x <= v /\ y <= w /\ n + j <= i) => x + y + a + n + j <= v + w + a + 0 + i
    BY <2>2, <2>4
  <2>9. Owed' <= Owed
    BY <1>3, <1>6, <2>1, <2>4, <2>6, <2>7, <2>8
  <2>10. Owed \in Nat
    BY <1>3, <2>1, <2>2, <2>6
  <2>11. \A v, w, i \in Nat : v + w + a + n + i \in Nat
    BY <2>2, <2>4
  <2>12. Owed' \in Nat
    BY <1>3, <2>1, <2>7, <2>11
  <2>13. QED
    BY <2>9, <2>10, <2>12
<1>8. QED
  BY <1>1, <1>2, <1>5, <1>7, StepPaid

-----------------------------------------------------------------------------
(* The system. *)

LEMMA InductiveStep == Inductive /\ [Next]_vars => Inductive'
<1> SUFFICES ASSUME Inductive, [Next]_vars PROVE Inductive'
  OBVIOUS
<1>1. CASE \E c \in ViewerCopies : Copy("viewer", c)
  BY <1>1, CopyInductive DEF Sides
<1>2. CASE \E c \in ServerCopies : Copy("server", c)
  BY <1>2, CopyInductive DEF Sides
<1>3. CASE Toggle \/ SendClipboard
  BY <1>3, ToggleInductive
<1>4. CASE RequestRemoteClipboard \/ FileTransfer
  BY <1>4, MessageInductive
<1>5. CASE ViewerDraw \/ ServerDraw
  BY <1>5, DrawInductive
<1>6. CASE ViewerUpdate
  BY <1>6, ViewerUpdateInductive
<1>7. CASE PostedCaps \/ ReadServerCutText
  BY <1>7, ReadInductive
<1>8. CASE ServerUpdate
  BY <1>8, ServerUpdateInductive
<1>9. CASE SendClip
  BY <1>9, SendInductive
<1>10. CASE HandleClientMessage
  BY <1>10, HandleInductive
<1>11. CASE AnswerRequest
  BY <1>11, AnswerInductive
<1>12. CASE UNCHANGED vars
  BY <1>12 DEF vars, clipboards, settings, pending, channels, bounds, Inductive, TypeOK, Owed,
               Paid, Drawing, Requests, One
<1>13. QED
  BY <1>1, <1>2, <1>3, <1>4, <1>5, <1>6, <1>7, <1>8, <1>9, <1>10, <1>11, <1>12
     DEF Next, ViewerStep, SinkStep, MessageStep

\* In every reachable state what was sent, with what is still to be sent without anyone
\* asking again, is paid for.
THEOREM InductiveHolds == Spec => []Inductive
<1>1. QED
  BY InductiveInit, InductiveStep, PTL DEF Spec

\* The types: what reaches a side is what that side is written to take, in particular
\* no Notify ever reaches the server and no Request the viewer.
THEOREM ClipboardTypes == Spec => []TypeOK
<1>1. Inductive => TypeOK
  BY DEF Inductive
<1>2. QED
  BY <1>1, InductiveHolds, PTL

\* A clipboard content is not sent back and forth ("We changed it - ignore!"): for
\* any contents, any number of copies and commands and any order of the threads the
\* contents sent are at most the copies and the commands of the users.
THEOREM NoPingPongHolds == Spec => []NoPingPong
<1>1. Inductive => NoPingPong
  <2> SUFFICES ASSUME Inductive PROVE NoPingPong
    OBVIOUS
  <2>1. /\ Drawing("viewer") \in Nat /\ Drawing("server") \in Nat
        /\ One(offer # Nothing) \in Nat /\ One(loaded # Nothing) \in Nat /\ Requests \in Nat
    BY PartsAre DEF Inductive, Sides
  <2>2. Owed \in Nat
    BY <2>1 DEF Owed
  <2>3. copies["viewer"] \in Nat /\ copies["server"] \in Nat /\ commands \in Nat /\ sent \in Nat
    BY DEF Inductive, Sides
  <2>4. sent + Owed <= copies["viewer"] + copies["server"] + commands
    BY DEF Inductive, Paid
  <2>5. QED
    BY <2>2, <2>3, <2>4 DEF NoPingPong
<1>2. QED
  BY <1>1, InductiveHolds, PTL
=============================================================================
