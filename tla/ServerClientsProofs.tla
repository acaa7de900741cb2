------------------------ MODULE ServerClientsProofs ------------------------
(***************************************************************************)
(* The server's lists, its desktop and its end, for any number of clients, *)
(* of ids, of viewers and of closings of the listening socket:             *)
(* `Inductive' of ServerClients is inductive.                              *)
(***************************************************************************)
EXTENDS ServerClients, ListLemmas

USE NoneAssumption, LimitsAssumption, WishesAssumption

\* The oldest viewer is one of those that are on the lists, or nobody.
LEMMA OldestViewerType ==
    ASSUME TypeOK
    PROVE  OldestViewer \in Ids
<1> DEFINE ages == {n \in DOMAIN arrivals : \E i \in auth : clientmap[i] = arrivals[n]}
           first == CHOOSE n \in ages : \A m \in ages : n <= m
<1>1. arrivals \in Seq(Clients) /\ id \in [Clients -> Ids] /\ 0 \in Ids
  BY DEF TypeOK, Ids
<1>2. DOMAIN arrivals = 1 .. Len(arrivals) /\ Len(arrivals) \in Nat
  BY <1>1, LenProperties
<1>3. ages \in SUBSET Nat /\ ages \subseteq 1 .. Len(arrivals)
  BY <1>2
<1> HIDE DEF ages
<1>4. CASE ages = {}
  BY <1>1, <1>4 DEF OldestViewer, ages
<1>5. CASE ages # {}
  <2>1. first \in ages
    BY <1>3, <1>5, LeastNatural
  <2>2. arrivals[first] \in Clients
    BY <1>1, <1>3, <2>1, ElementOfSeq
  <2>3. OldestViewer = id[arrivals[first]]
    BY <1>5 DEF OldestViewer, ages
  <2>4. QED
    BY <1>1, <2>2, <2>3
<1>6. QED
  BY <1>4, <1>5

LEMMA KillType == ASSUME NEW ids, Kill(ids) PROVE killed' \in [Clients -> BOOLEAN]
BY Zenon DEF Kill

LEMMA InductiveInit == Init => Inductive
<1> SUFFICES ASSUME Init PROVE Inductive
  OBVIOUS
<1>1. TypeOK
  <2>1. /\ killed \in [Clients -> BOOLEAN] /\ freed \in [Clients -> BOOLEAN]
        /\ \A c \in Clients : ~freed[c]
    BY Zenon DEF Init
  <2>2. arrivals \in Seq(Clients)
    BY EmptySeq DEF Init
  <2>3. QED
    BY <2>1, <2>2 DEF Init, TypeOK, Places, ServerPlaces, Willing, Ids
<1>2. \A c \in Clients : place[c] = "new" /\ ~freed[c]
  BY Zenon DEF Init
<1>3. ListsConsistent /\ ServedHasDesktop /\ NobodyNoDesktop
  BY <1>2 DEF Init, ListsConsistent, ServedHasDesktop, NobodyNoDesktop, Listed
<1>4. PlacesAgree /\ LockHolder /\ SeenLeave
  BY <1>2 DEF Init, PlacesAgree, LockHolder, SeenLeave, Listed
<1>5. QED
  BY <1>1, <1>3, <1>4 DEF Inductive

-----------------------------------------------------------------------------
\* A client goes through the checks, or leaves: the lists stay as they are.
Unlisted == {"handshake", "oldest", "exclusive", "admitted"}

StaysOnList(c) ==
    /\ place' \in [Clients -> Places]
    /\ \A d \in Clients : d # c => place'[d] = place[d]
    /\ \/ place'[c] = place[c]
       \/ place[c] \in Unlisted /\ place'[c] \in Unlisted
       \/ place[c] \in Unlisted \cup {"welcome", "serving"} /\ place'[c] = "leaving"
       \/ place[c] = "welcome" /\ place'[c] = "serving"
    /\ killed' \in [Clients -> BOOLEAN] /\ victim' \in [Clients -> Ids]
    /\ crashed' \in BOOLEAN
    /\ UNCHANGED <<setting, clientmap, unauth, auth, arrivals, id, shares, freed, desktop,
                   attached, desktopLock, server, closing, ordered>>

LEMMA ChecksStayOnList ==
    ASSUME TypeOK, NEW c \in Clients,
           \/ HangUp(c) \/ Leave(c) \/ CheckViewers(c) \/ KillOldest(c)
           \/ RemoveOthers(c) \/ CheckExclusive(c) \/ ReadFails(c) \/ SendServerInit(c)
    PROVE  StaysOnList(c)
<1> USE DEF TypeOK, StaysOnList, Unlisted, Goto, Places, Ids, lists, objects, screen, task
<1>1. CASE HangUp(c)
  BY <1>1 DEF HangUp
<1>2. CASE Leave(c)
  BY <1>2 DEF Leave
<1>3. CASE CheckViewers(c)
  <2>1. /\ place[c] = "handshake"
        /\ \E p \in {"exclusive", "oldest", "leaving"} : place' = [place EXCEPT ![c] = p]
        /\ victim' = victim \/ victim' = [victim EXCEPT ![c] = OldestViewer]
    BY <1>3 DEF CheckViewers
  <2>2. OldestViewer \in Ids
    BY OldestViewerType
  <2>3. victim' \in [Clients -> Ids]
    BY <2>1, <2>2, ZenonT(60)
  <2>4. QED
    BY <1>3, <2>1, <2>3, ZenonT(60) DEF CheckViewers
<1>4. CASE KillOldest(c)
  BY <1>4, KillType DEF KillOldest
<1>5. CASE RemoveOthers(c)
  BY <1>5, KillType DEF RemoveOthers
<1>6. CASE CheckExclusive(c)
  BY <1>6 DEF CheckExclusive
<1>7. CASE ReadFails(c)
  BY <1>7 DEF ReadFails
<1>8. CASE SendServerInit(c)
  <2>1. /\ place[c] = "welcome"
        /\ \E p \in {"leaving", "serving"} : place' = [place EXCEPT ![c] = p]
    BY <1>8 DEF SendServerInit
  <2>2. QED
    BY <1>8, <2>1 DEF SendServerInit
<1>9. QED
  BY <1>1, <1>2, <1>3, <1>4, <1>5, <1>6, <1>7, <1>8

LEMMA StaysOnListInductive ==
    ASSUME Inductive, NEW c \in Clients, StaysOnList(c)
    PROVE  Inductive'
<1> USE DEF StaysOnList, Unlisted
<1>1. TypeOK'
  BY DEF Inductive, TypeOK
<1>2. \A d \in Clients : Listed(d)' <=> Listed(d)
  BY DEF Listed
<1>3. ListsConsistent'
  BY <1>2 DEF Inductive, ListsConsistent
<1>4. ServedHasDesktop' /\ NobodyNoDesktop'
  BY DEF Inductive, ServedHasDesktop, NobodyNoDesktop
<1>5. PlacesAgree'
  BY DEF Inductive, PlacesAgree
<1>6. LockHolder'
  BY DEF Inductive, LockHolder
<1>7. SeenLeave'
  BY <1>2 DEF Inductive, SeenLeave
<1>8. QED
  BY <1>1, <1>3, <1>4, <1>5, <1>6, <1>7 DEF Inductive

-----------------------------------------------------------------------------
\* A new client takes an id that nobody has.
LEMMA AddClientInductive ==
    ASSUME Inductive, NEW c \in Clients, NEW willing \in Wishes, AddClient(c, willing)
    PROVE  Inductive'
<1>1. PICK i \in FreeIds :
         /\ clientmap' = [clientmap EXCEPT ![i] = c]
         /\ unauth' = unauth \cup {i}
         /\ id' = [id EXCEPT ![c] = i]
  BY DEF AddClient
<1>2. /\ place[c] = "new" /\ ~freed[c] /\ (server = "running" \/ closing)
      /\ place' = [place EXCEPT ![c] = "handshake"]
      /\ UNCHANGED <<setting, auth, freed, killed, victim, desktop, attached, desktopLock,
                     server, closing, ordered, crashed>>
  BY DEF AddClient, Goto, screen, task, Inductive, PlacesAgree
<1>3. /\ i \in Ids /\ i # 0 /\ clientmap[i] = None
      /\ TypeOK /\ ListsConsistent /\ PlacesAgree
  BY <1>1 DEF FreeIds, Inductive
<1>4. i \notin unauth \cup auth
  BY <1>3 DEF ListsConsistent
<1>5. TypeOK'
  <2>1. arrivals' \in Seq(Clients)
    BY <1>3, AppendProperties DEF AddClient, TypeOK
  <2>2. shares' \in [Clients -> Willing]
    BY <1>3 DEF AddClient, TypeOK
  <2>3. QED
    BY <1>1, <1>2, <1>3, <2>1, <2>2 DEF TypeOK, Places
<1>6. \A d \in Clients : d # c => /\ place'[d] = place[d] /\ id'[d] = id[d]
                                  /\ Listed(d)' <=> Listed(d)
  BY <1>1, <1>2, <1>3 DEF TypeOK, Listed
<1>7. Listed(c)' /\ id'[c] = i /\ ~Listed(c)
  BY <1>1, <1>2, <1>3 DEF TypeOK, Listed
<1>8. \A d \in Clients : Listed(d) => id[d] # i
  BY <1>3 DEF ListsConsistent
<1>9. ListsConsistent'
  <2>1. unauth' \cap auth' = {}
    BY <1>1, <1>2, <1>3, <1>4 DEF ListsConsistent
  <2>2. ASSUME NEW j \in unauth' \cup auth'
        PROVE  \E d \in Clients : clientmap'[j] = d /\ id'[d] = j /\ (Listed(d)' \/ freed'[d])
    <3>1. CASE j = i
      BY <1>1, <1>3, <1>7, <3>1 DEF TypeOK
    <3>2. CASE j # i
      <4>1. j \in unauth \cup auth /\ j \in Ids
        BY <1>1, <1>2, <1>3, <3>2 DEF TypeOK
      <4>2. PICK d \in Clients : clientmap[j] = d /\ id[d] = j /\ (Listed(d) \/ freed[d])
        BY <1>3, <4>1 DEF ListsConsistent
      <4>3. d # c
        BY <1>2, <4>2 DEF Listed
      <4>4. QED
        BY <1>1, <1>2, <1>3, <1>6, <3>2, <4>1, <4>2, <4>3 DEF TypeOK
    <3>3. QED
      BY <3>1, <3>2
  <2>3. ASSUME NEW d \in Clients, Listed(d)'
        PROVE  clientmap'[id'[d]] = d /\ id'[d] \in unauth' \cup auth'
    <3>1. CASE d = c
      BY <1>1, <1>3, <1>7, <3>1 DEF TypeOK
    <3>2. CASE d # c
      BY <1>1, <1>2, <1>3, <1>6, <1>8, <2>3, <3>2 DEF TypeOK, ListsConsistent
    <3>3. QED
      BY <3>1, <3>2
  <2>4. \A j \in Ids : clientmap'[j] # None => j \in unauth' \cup auth'
    BY <1>1, <1>2, <1>3 DEF TypeOK, ListsConsistent
  <2>5. QED
    BY <2>1, <2>2, <2>3, <2>4 DEF ListsConsistent
<1>10. ServedHasDesktop' /\ NobodyNoDesktop'
  BY <1>2 DEF Inductive, TypeOK, ServedHasDesktop, NobodyNoDesktop
<1>11. PlacesAgree'
  BY <1>1, <1>2, <1>3, <1>6, <1>7 DEF TypeOK, PlacesAgree
<1>12. LockHolder'
  BY <1>2 DEF Inductive, TypeOK, LockHolder
<1>13. SeenLeave'
  BY <1>2 DEF Inductive, SeenLeave
<1>14. QED
  BY <1>5, <1>9, <1>10, <1>11, <1>12, <1>13 DEF Inductive

-----------------------------------------------------------------------------
\* A deleted client may find id 0 instead of its own.
LEMMA ItsIdIs ==
    ASSUME NEW c \in Clients, NEW i \in ItsId(c)
    PROVE  i = id[c] \/ (freed[c] /\ i = 0)
<1>1. i \in ItsId(c)
  OBVIOUS
<1>2. CASE freed[c]
  <2>1. ItsId(c) = {id[c], 0}
    BY <1>2 DEF ItsId
  <2>2. QED
    BY <1>1, <1>2, <2>1
<1>3. CASE ~freed[c]
  <2>1. ItsId(c) = {id[c]}
    BY <1>3 DEF ItsId
  <2>2. QED
    BY <1>1, <2>1
<1>4. QED
  BY <1>2, <1>3

\* A client changes lists under both locks.  One that was deleted under its thread
\* may look for an id that is no longer its own: 0, which is on no list.
LEMMA AuthenticatedInductive ==
    ASSUME Inductive, NEW c \in Clients, NEW i \in Ids, NEW works \in BOOLEAN,
           Authenticated(c, i, works)
    PROVE  Inductive'
<1>1. /\ place[c] = "admitted" /\ desktopLock = None
      /\ unauth' = unauth \ {i}
      /\ auth' = IF i \in unauth THEN auth \cup {i} ELSE auth
      /\ UNCHANGED <<setting, clientmap, arrivals, id, shares, freed, victim, desktopLock,
                     server, closing, ordered, crashed>>
  BY DEF Authenticated, objects, task
<1>2. TypeOK /\ ListsConsistent /\ PlacesAgree /\ LockHolder /\ SeenLeave
      /\ ServedHasDesktop /\ NobodyNoDesktop
  BY DEF Inductive
<1>3. id[c] \in unauth /\ (i = id[c] \/ (freed[c] /\ i \notin unauth))
  <2>1. i \in ItsId(c)
    BY DEF Authenticated
  <2>2. i = id[c] \/ (freed[c] /\ i = 0)
    BY <2>1, ItsIdIs
  <2>3. QED
    BY <1>1, <1>2, <2>2 DEF PlacesAgree
<1>4. /\ killed' \in [Clients -> BOOLEAN]
      /\ \E p \in {"leaving", "welcome"} : place' = [place EXCEPT ![c] = p]
      /\ attached \subseteq attached' /\ attached' \subseteq attached \cup {c}
      /\ desktop' \in {desktop, "running"} /\ (desktop # "none" => desktop' = desktop)
      /\ desktop' # desktop => auth' # {}
      /\ place'[c] = "welcome" /\ i \in unauth => c \in attached' /\ desktop' # "none"
  <2>1. CASE i \in unauth /\ desktop = "none" /\ ~works
    <3>1. killed' = [killed EXCEPT ![c] = TRUE] /\ Goto(c, "leaving") /\ UNCHANGED screen
      BY <2>1 DEF Authenticated, Attach
    <3>2. QED
      BY <1>1, <1>2, <3>1 DEF TypeOK, Goto, screen
  <2>2. CASE i \in unauth /\ ~(desktop = "none" /\ ~works)
    <3>1. /\ desktop' = IF desktop = "none" THEN "running" ELSE desktop
          /\ attached' = attached \cup {c} /\ Goto(c, "welcome") /\ UNCHANGED killed
      BY <2>2 DEF Authenticated, Attach
    <3>2. QED
      BY <1>1, <1>2, <2>2, <3>1 DEF TypeOK, Goto
  <2>3. CASE i \notin unauth
    <3>1. Goto(c, "welcome") /\ UNCHANGED <<killed, screen>>
      BY <2>3 DEF Authenticated
    <3>2. QED
      BY <1>2, <2>3, <3>1 DEF TypeOK, Goto, screen
  <2>4. QED
    BY <2>1, <2>2, <2>3
<1>5. TypeOK'
  BY <1>1, <1>2, <1>4 DEF TypeOK, Places
<1>6. \A d \in Clients : /\ Listed(d)' <=> Listed(d)
                         /\ d # c => place'[d] = place[d]
  BY <1>1, <1>2, <1>4 DEF TypeOK, Listed
<1>7. unauth' \cup auth' = unauth \cup auth /\ unauth' \cap auth' = {}
  BY <1>1, <1>2 DEF ListsConsistent
<1>8. ListsConsistent'
  BY <1>1, <1>2, <1>6, <1>7 DEF ListsConsistent
<1>9. ServedHasDesktop'
  BY <1>1, <1>2, <1>3, <1>4, <1>6 DEF TypeOK, ServedHasDesktop
<1>10. NobodyNoDesktop'
  BY <1>1, <1>2, <1>4 DEF NobodyNoDesktop
<1>11. \A d \in Clients : d # c /\ Listed(d) => id[d] # id[c]
  BY <1>1, <1>2 DEF ListsConsistent, Listed
<1>12. PlacesAgree'
  <2>1. ASSUME NEW d \in Clients
        PROVE  /\ freed'[d] => place'[d] # "new"
               /\ place'[d] \in Unlisted => id'[d] \in unauth'
               /\ place'[d] \in {"welcome", "serving"} /\ ~freed'[d] => id'[d] \in auth'
    <3>1. CASE d = c
      BY <1>1, <1>2, <1>3, <1>4, <3>1 DEF TypeOK, Unlisted
    <3>2. CASE d # c
      BY <1>1, <1>2, <1>3, <1>6, <1>11, <3>2 DEF PlacesAgree, Unlisted, Listed
    <3>3. QED
      BY <3>1, <3>2
  <2>2. QED
    BY <1>2, <1>7, <2>1 DEF PlacesAgree, Unlisted
<1>13. LockHolder'
  BY <1>1, <1>2, <1>4, <1>6 DEF TypeOK, LockHolder
<1>14. SeenLeave'
  BY <1>1, <1>2, <1>6 DEF SeenLeave
<1>15. QED
  BY <1>5, <1>8, <1>9, <1>10, <1>12, <1>13, <1>14 DEF Inductive

\* RemoveClient takes a client off its list.  Nobody else's entry goes with it.
LEMMA RemoveClientInductive ==
    ASSUME Inductive, NEW c \in Clients, NEW i \in Ids, RemoveClient(c, i)
    PROVE  Inductive'
<1>1. /\ place[c] = "leaving" /\ desktopLock = None /\ desktopLock' = c
      /\ unauth' = unauth \ {i} /\ auth' = auth \ {i}
      /\ clientmap' = [clientmap EXCEPT ![i] = IF i \in unauth \cup auth THEN None ELSE @]
      /\ arrivals' = RemoveFirst(arrivals, clientmap[i])
      /\ place' = [place EXCEPT ![c] = "removing"]
      /\ UNCHANGED <<setting, id, shares, freed, killed, victim, desktop, attached, server,
                     closing, ordered, crashed>>
  BY DEF RemoveClient, Goto, screen, task
<1>2. TypeOK /\ ListsConsistent /\ PlacesAgree /\ LockHolder /\ SeenLeave
      /\ ServedHasDesktop
  BY DEF Inductive
<1>3. i = id[c] \/ (freed[c] /\ i \notin unauth \cup auth)
  <2>1. i \in ItsId(c)
    BY DEF RemoveClient
  <2>2. i = id[c] \/ (freed[c] /\ i = 0)
    BY <2>1, ItsIdIs
  <2>3. QED
    BY <1>2, <2>2 DEF PlacesAgree
<1>4. TypeOK'
  <2>1. arrivals' \in Seq(Clients)
    BY <1>1, <1>2, RemoveFirstType DEF TypeOK
  <2>2. clientmap' \in [Ids -> Clients \cup {None}]
    BY <1>1, <1>2 DEF TypeOK
  <2>3. QED
    BY <1>1, <1>2, <2>1, <2>2 DEF TypeOK, Places
<1>5. /\ ~Listed(c)' /\ place'[c] = "removing"
      /\ \A d \in Clients : d # c => place'[d] = place[d] /\ (Listed(d)' <=> Listed(d))
  BY <1>1, <1>2 DEF TypeOK, Listed
<1>6. \A d \in Clients : d # c /\ Listed(d) => id[d] # i
  <2>1. Listed(c)
    BY <1>1 DEF Listed
  <2>2. QED
    BY <1>2, <1>3, <2>1 DEF ListsConsistent
<1>7. \A j \in Ids : j # i => clientmap'[j] = clientmap[j]
  BY <1>1, <1>2 DEF TypeOK
<1>8. ListsConsistent'
  <2>1. ASSUME NEW j \in unauth' \cup auth'
        PROVE  \E d \in Clients : clientmap'[j] = d /\ id'[d] = j /\ (Listed(d)' \/ freed'[d])
    <3>1. j \in unauth \cup auth /\ j # i /\ j \in Ids
      BY <1>1, <1>2 DEF TypeOK
    <3>2. PICK d \in Clients : clientmap[j] = d /\ id[d] = j /\ (Listed(d) \/ freed[d])
      BY <1>2, <3>1 DEF ListsConsistent
    <3>3. d = c => freed[d]
      BY <1>3, <3>1, <3>2
    <3>4. QED
      BY <1>1, <1>5, <1>7, <3>1, <3>2, <3>3
  <2>2. ASSUME NEW d \in Clients, Listed(d)'
        PROVE  clientmap'[id'[d]] = d /\ id'[d] \in unauth' \cup auth'
    <3>1. d # c /\ Listed(d) /\ id[d] # i /\ id[d] \in Ids
      BY <1>2, <1>5, <1>6, <2>2 DEF TypeOK
    <3>2. QED
      BY <1>1, <1>2, <1>7, <3>1 DEF ListsConsistent
  <2>3. ASSUME NEW j \in Ids, clientmap'[j] # None
        PROVE  j \in unauth' \cup auth'
    <3>1. CASE j = i
      BY <1>1, <1>2, <2>3, <3>1 DEF TypeOK, ListsConsistent
    <3>2. CASE j # i
      BY <1>1, <1>2, <1>7, <2>3, <3>2 DEF ListsConsistent
    <3>3. QED
      BY <3>1, <3>2
  <2>4. unauth' \cap auth' = {}
    BY <1>1, <1>2 DEF ListsConsistent
  <2>5. QED
    BY <2>1, <2>2, <2>3, <2>4 DEF ListsConsistent
<1>9. ServedHasDesktop' /\ NobodyNoDesktop'
  BY <1>1, <1>2, <1>5 DEF ServedHasDesktop, NobodyNoDesktop
<1>10. PlacesAgree'
  <2>1. ASSUME NEW d \in Clients
        PROVE  /\ freed'[d] => place'[d] # "new"
               /\ place'[d] \in Unlisted => id'[d] \in unauth'
               /\ place'[d] \in {"welcome", "serving"} /\ ~freed'[d] => id'[d] \in auth'
    BY <1>1, <1>2, <1>5, <1>6 DEF PlacesAgree, Unlisted, Listed
  <2>2. QED
    BY <1>1, <1>2, <2>1 DEF PlacesAgree, Unlisted
<1>11. LockHolder'
  BY <1>1, <1>2, <1>5 DEF LockHolder
<1>12. SeenLeave'
  BY <1>1, <1>2, <1>5 DEF SeenLeave
<1>13. QED
  BY <1>4, <1>8, <1>9, <1>10, <1>11, <1>12 DEF Inductive

\* The second half of RemoveClient lets go of the desktop only when somebody is
\* authorised, and deletes it only when nobody can be.
LEMMA DesktopInductive ==
    ASSUME Inductive, NEW c \in Clients, CheckDesktop(c) \/ DeleteDesktop(c)
    PROVE  Inductive'
<1>1. /\ place[c] \in {"removing", "deleting"}
      /\ \E p \in {"deleting", "removed"} : place' = [place EXCEPT ![c] = p]
      /\ UNCHANGED <<setting, clientmap, unauth, auth, arrivals, id, shares, freed, victim,
                     server, closing, ordered, crashed>>
  BY DEF CheckDesktop, DeleteDesktop, Goto, lists, objects, task
<1>2. TypeOK /\ ListsConsistent /\ PlacesAgree /\ LockHolder /\ SeenLeave
      /\ ServedHasDesktop /\ NobodyNoDesktop /\ desktopLock = c
  BY <1>1 DEF Inductive, LockHolder
<1>3. \/ /\ place'[c] = "deleting" /\ auth = {} /\ desktopLock' = c
         /\ UNCHANGED <<desktop, attached, killed>>
      \/ /\ place'[c] = "removed" /\ (auth # {} \/ desktop = "none") /\ desktopLock' = None
         /\ UNCHANGED <<desktop, attached, killed>>
      \/ /\ place'[c] = "removed" /\ auth = {} /\ desktopLock' = None
         /\ desktop' = "none" /\ attached' = {} /\ killed' \in [Clients -> BOOLEAN]
  <2>1. CASE CheckDesktop(c)
    BY <1>2, <2>1 DEF CheckDesktop, Goto, screen, TypeOK
  <2>2. CASE DeleteDesktop(c)
    BY <1>2, <2>2, KillType DEF DeleteDesktop, Goto, TypeOK, LockHolder
  <2>3. QED
    BY <2>1, <2>2
<1>4. TypeOK'
  BY <1>1, <1>2, <1>3 DEF TypeOK, Places
<1>5. /\ \A d \in Clients : d # c => place'[d] = place[d]
      /\ \A d \in Clients : Listed(d)' <=> Listed(d)
  BY <1>1, <1>2 DEF TypeOK, Listed
<1>6. ListsConsistent'
  BY <1>1, <1>2, <1>5 DEF ListsConsistent
<1>7. ServedHasDesktop'
  BY <1>1, <1>2, <1>3, <1>5 DEF ServedHasDesktop, PlacesAgree
<1>8. NobodyNoDesktop'
  BY <1>1, <1>2, <1>3 DEF NobodyNoDesktop
<1>9. PlacesAgree'
  BY <1>1, <1>2, <1>3, <1>5 DEF PlacesAgree
<1>10. LockHolder'
  BY <1>1, <1>2, <1>3, <1>5 DEF LockHolder
<1>11. SeenLeave'
  BY <1>1, <1>2, <1>5 DEF SeenLeave
<1>12. QED
  BY <1>4, <1>6, <1>7, <1>8, <1>9, <1>10, <1>11 DEF Inductive

-----------------------------------------------------------------------------
\* Killing clients closes their sockets only; the order to shut down does nothing
\* by itself.
LEMMA KillInductive ==
    ASSUME Inductive, DesktopEnds \/ KillAuthClients \/ OrderShutdown
    PROVE  Inductive'
<1>1. /\ killed' \in [Clients -> BOOLEAN]
      /\ desktop' = desktop \/ (desktop # "none" /\ desktop' = "ended")
      /\ ordered' \in BOOLEAN
      /\ UNCHANGED <<setting, clientmap, unauth, auth, arrivals, id, shares, freed, place,
                     attached, victim, desktopLock, server, closing, crashed>>
  <2>1. CASE DesktopEnds
    BY <2>1, KillType DEF DesktopEnds, lists, objects, screen, task, Inductive, TypeOK
  <2>2. CASE KillAuthClients
    BY <2>2, KillType DEF KillAuthClients, lists, objects, screen, task, Inductive, TypeOK
  <2>3. CASE OrderShutdown
    BY <2>3 DEF OrderShutdown, lists, objects, screen, Inductive, TypeOK
  <2>4. QED
    BY <2>1, <2>2, <2>3
<1>2. \A d \in Clients : Listed(d)' <=> Listed(d)
  BY <1>1 DEF Listed
<1>3. TypeOK'
  BY <1>1 DEF Inductive, TypeOK
<1>4. ListsConsistent'
  BY <1>1, <1>2 DEF Inductive, ListsConsistent
<1>5. ServedHasDesktop' /\ NobodyNoDesktop'
  BY <1>1 DEF Inductive, ServedHasDesktop, NobodyNoDesktop
<1>6. PlacesAgree' /\ LockHolder'
  BY <1>1 DEF Inductive, PlacesAgree, LockHolder
<1>7. SeenLeave'
  BY <1>1, <1>2 DEF Inductive, SeenLeave
<1>8. QED
  BY <1>3, <1>4, <1>5, <1>6, <1>7 DEF Inductive

\* The server deletes the clients it finds unauthorised, whose threads run on, and
\* waits until both lists are empty.
LEMMA ShutdownInductive ==
    ASSUME Inductive, CloseListener \/ Shutdown \/ ServerStep
    PROVE  Inductive'
<1>1. TypeOK /\ ListsConsistent /\ PlacesAgree /\ LockHolder /\ SeenLeave
      /\ ServedHasDesktop /\ NobodyNoDesktop
  BY DEF Inductive
<1>2. /\ UNCHANGED <<setting, clientmap, unauth, auth, arrivals, id, shares, place, victim,
                     desktopLock, ordered, crashed>>
      /\ \A d \in Clients : Listed(d)' <=> Listed(d)
  BY DEF CloseListener, Shutdown, ServerStep, KillUnauthClients, WaitUntilEmpty, FreeDesktop, lists,
         objects, screen, Listed
<1>3. CASE CloseListener \/ Shutdown
  <2>1. /\ server' = "killUnauth" /\ closing' \in {TRUE, closing}
        /\ killed' \in [Clients -> BOOLEAN]
        /\ UNCHANGED <<freed, desktop, attached>>
    BY <1>3, KillType DEF CloseListener, Shutdown, ServerGoto, objects, screen
  <2>2. closing' \in BOOLEAN
    BY <1>1, <2>1, Zenon DEF TypeOK
  <2>3. TypeOK'
    BY <1>1, <1>2, <2>1, <2>2, SMTT(30) DEF TypeOK, ServerPlaces
  <2>4. ListsConsistent'
    BY <1>1, <1>2, <2>1, SMTT(30) DEF ListsConsistent
  <2>5. ServedHasDesktop' /\ NobodyNoDesktop' /\ PlacesAgree' /\ LockHolder' /\ SeenLeave'
    BY <1>1, <1>2, <2>1
       DEF ServedHasDesktop, NobodyNoDesktop, PlacesAgree, LockHolder, SeenLeave
  <2>6. QED
    BY <2>3, <2>5, <2>4 DEF Inductive
<1>4. CASE KillUnauthClients
  <2>1. /\ server' = "waitAuth" /\ killed' \in [Clients -> BOOLEAN]
        /\ UNCHANGED <<closing, desktop, attached>>
    BY <1>4, KillType DEF KillUnauthClients, ServerGoto, screen
  <2>2. /\ freed' \in [Clients -> BOOLEAN]
        /\ \A d \in Clients : freed'[d] <=> freed[d] \/ \E i \in unauth : clientmap[i] = d
    BY <1>4, Zenon DEF KillUnauthClients
  <2>3. \A d \in Clients : freed'[d] => place'[d] # "new"
    BY <1>1, <1>2, <2>2 DEF ListsConsistent, PlacesAgree, Listed
  <2>4. SeenLeave'
    BY <1>1, <1>2, <2>1, <2>2 DEF SeenLeave, ListsConsistent
  <2>5. TypeOK' /\ ListsConsistent'
    BY <1>1, <1>2, <2>1, <2>2 DEF TypeOK, ServerPlaces, ListsConsistent
  <2>6. ServedHasDesktop' /\ NobodyNoDesktop' /\ PlacesAgree' /\ LockHolder'
    BY <1>1, <1>2, <2>1, <2>2, <2>3
       DEF ServedHasDesktop, NobodyNoDesktop, PlacesAgree, LockHolder
  <2>7. QED
    BY <2>4, <2>5, <2>6 DEF Inductive
<1>5. CASE WaitUntilEmpty
  <2>1. /\ \/ server = "waitAuth" /\ auth = {} /\ server' = "waitUnauth" /\ closing' = closing
           \/ /\ server = "waitUnauth" /\ unauth = {} /\ closing' = FALSE
              /\ server' = IF closing THEN "running" ELSE "freeDesktop"
        /\ UNCHANGED <<killed, freed, desktop, attached>>
    BY <1>5 DEF WaitUntilEmpty, AfterWaits, ServerGoto, objects, screen
  <2>2. SeenLeave'
    <3>1. closing' => server' \in {"killUnauth", "waitAuth", "waitUnauth"}
      BY <1>1, <2>1 DEF SeenLeave
    <3>2. CASE closing
      BY <1>1, <2>1, <3>1, <3>2 DEF SeenLeave
    <3>3. CASE ~closing
      <4>1. \A d \in Clients : Listed(d) => id[d] \in unauth \cup auth
        BY <1>1 DEF ListsConsistent
      <4>2. \A d \in Clients : Listed(d) => freed[d]
        BY <1>1, <2>1, <3>3, <4>1 DEF SeenLeave
      <4>3. QED
        BY <1>2, <2>1, <3>1, <4>2 DEF SeenLeave
    <3>4. QED
      BY <3>2, <3>3
  <2>3. closing' \in BOOLEAN
    BY <1>1, <2>1, Zenon DEF TypeOK
  <2>4. TypeOK'
    BY <1>1, <1>2, <2>1, <2>3, SMTT(30) DEF TypeOK, ServerPlaces
  <2>5. ListsConsistent'
    BY <1>1, <1>2, <2>1, SMTT(30) DEF ListsConsistent
  <2>6. ServedHasDesktop' /\ NobodyNoDesktop' /\ PlacesAgree' /\ LockHolder'
    BY <1>1, <1>2, <2>1 DEF ServedHasDesktop, NobodyNoDesktop, PlacesAgree, LockHolder
  <2>7. QED
    BY <2>2, <2>4, <2>6, <2>5 DEF Inductive
<1>6. CASE FreeDesktop
  <2>1. /\ server = "freeDesktop" /\ server' = "gone" /\ killed' \in [Clients -> BOOLEAN]
        /\ desktop' = "none" /\ attached' = {} /\ UNCHANGED <<freed, closing>>
    BY <1>6, KillType DEF FreeDesktop, ServerGoto, objects
  <2>2. ServedHasDesktop'
    BY <1>1, <1>2, <2>1 DEF ServedHasDesktop, SeenLeave, Listed
  <2>3. SeenLeave' /\ TypeOK' /\ ListsConsistent'
    BY <1>1, <1>2, <2>1 DEF SeenLeave, TypeOK, ServerPlaces, ListsConsistent
  <2>4. NobodyNoDesktop' /\ PlacesAgree' /\ LockHolder'
    BY <1>1, <1>2, <2>1 DEF NobodyNoDesktop, PlacesAgree, LockHolder
  <2>5. QED
    BY <2>2, <2>3, <2>4 DEF Inductive
<1>7. QED
  BY <1>3, <1>4, <1>5, <1>6 DEF ServerStep

LEMMA InductiveNext == Inductive /\ [Next]_vars => Inductive'
<1> SUFFICES ASSUME Inductive, [Next]_vars PROVE Inductive'
  OBVIOUS
<1>1. CASE UNCHANGED vars
  <2>1. UNCHANGED <<setting, clientmap, unauth, auth, arrivals, id, shares, freed, place,
                    killed, victim, desktop, attached, desktopLock, server, closing,
                    ordered, crashed>>
    BY <1>1 DEF vars, lists, objects, screen, task
  <2>2. \A d \in Clients : Listed(d)' <=> Listed(d)
    BY <2>1 DEF Listed
  <2>3. TypeOK' /\ ListsConsistent' /\ ServedHasDesktop' /\ NobodyNoDesktop'
    BY <2>1, <2>2
       DEF Inductive, TypeOK, ListsConsistent, ServedHasDesktop, NobodyNoDesktop
  <2>4. PlacesAgree' /\ LockHolder' /\ SeenLeave'
    BY <2>1, <2>2 DEF Inductive, PlacesAgree, LockHolder, SeenLeave
  <2>5. QED
    BY <2>3, <2>4 DEF Inductive
<1>2. ASSUME NEW c \in Clients,
             \/ HangUp(c) \/ Leave(c) \/ CheckViewers(c) \/ KillOldest(c)
             \/ RemoveOthers(c) \/ CheckExclusive(c) \/ ReadFails(c) \/ SendServerInit(c)
      PROVE  Inductive'
  BY <1>2, ChecksStayOnList, StaysOnListInductive DEF Inductive
<1>3. ASSUME NEW c \in Clients, ClientStep(c) PROVE Inductive'
  BY <1>2, <1>3, AuthenticatedInductive, RemoveClientInductive, DesktopInductive
     DEF ClientStep
<1>4. QED
  BY <1>1, <1>2, <1>3, AddClientInductive, KillInductive, ShutdownInductive DEF Next

-----------------------------------------------------------------------------
\* The lists, the desktop and the locks agree, whatever the clients do.
THEOREM InductiveHolds == Spec => []Inductive
BY InductiveInit, InductiveNext, PTL DEF Spec

\* Every variable keeps its type; the oldest viewer's id is an id.
THEOREM ServerTypes == Spec => []TypeOK
<1>1. Inductive => TypeOK
  BY DEF Inductive
<1>2. QED
  BY <1>1, InductiveHolds, PTL

\* A client is on one list, under its own id, from AddClient to RemoveClient.
THEOREM ListsConsistentHolds == Spec => []ListsConsistent
<1>1. Inductive => ListsConsistent
  BY DEF Inductive
<1>2. QED
  BY <1>1, InductiveHolds, PTL

\* Nobody deletes the desktop under a client that is served.
THEOREM ServedHasDesktopHolds == Spec => []ServedHasDesktop
<1>1. Inductive => ServedHasDesktop
  BY DEF Inductive
<1>2. QED
  BY <1>1, InductiveHolds, PTL

\* The screen is captured only while somebody is authorised, but for the time it
\* takes the last client to leave.
THEOREM NobodyNoDesktopHolds == Spec => []NobodyNoDesktop
<1>1. Inductive => NobodyNoDesktop
  BY DEF Inductive
<1>2. QED
  BY <1>1, InductiveHolds, PTL

\* A server that is gone has no clients but those it deleted itself.
THEOREM QuitSignalUnusedHolds == Spec => []QuitSignalUnused
<1>1. Inductive => QuitSignalUnused
  BY DEF Inductive, SeenLeave, QuitSignalUnused
<1>2. QED
  BY <1>1, InductiveHolds, PTL
=============================================================================
