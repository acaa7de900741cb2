---------------------------- MODULE ServerClients ----------------------------
(***************************************************************************)
(* The clients of winvnc's server (vncserver.cpp): the map of their ids,   *)
(* the lists of the unauthorised and of the authorised ones, the desktop   *)
(* that exists while somebody watches it, the closing of the listening     *)
(* socket and the end of the server.                                       *)
(*                                                                         *)
(* Threads: one of each client (vncClientThread::run), the desktop's, the  *)
(* menu's, which closes the listening socket, and the main one, which      *)
(* shuts the server down.  What runs under m_clientsLock is one action;    *)
(* m_desktopLock is held over several, and the checks of InitAuthenticate  *)
(* hold neither.                                                           *)
(***************************************************************************)
EXTENDS Naturals, FiniteSets, SequencesExt

CONSTANTS
    Clients,     \* the connections there may be
    None,        \* the null pointer
    MaxClients,  \* MAX_CLIENTS
    MaxViewers,  \* getMaxViewers()
    Settings,    \* the settings of the server, a set of records
    Wishes       \* what the clients of a run are willing to share

Priority == 0 .. 3  \* ConnectPriority()
ASSUME NoneAssumption == None \notin Clients
ASSUME LimitsAssumption == MaxClients \in Nat \ {0} /\ MaxViewers \in Nat \ {0}
ASSUME SettingsAssumption == Settings \subseteq [priority : Priority, replace : BOOLEAN]

Willing == {"always", "shared", "exclusive"}  \* m_shared; the flag of ClientInit
ASSUME WishesAssumption == Wishes \subseteq Willing

Ids == 0 .. MaxClients - 1

VARIABLES
    setting,     \* ConnectPriority() and getMaxViewerSetting() # 0
    clientmap,   \* m_clientmap
    unauth, auth,  \* m_unauthClients, m_authClients, as sets of ids
    arrivals,    \* the clients on the lists, in the order of their setTiming
    place,       \* where each client's thread is
    id,          \* m_id of each client
    shares,      \* what each client is willing to share
    killed,      \* its socket is closed
    freed,       \* it was deleted by KillUnauthClients
    victim,      \* what getOldestViewer returned to the client's thread
    desktop,     \* m_desktop and its thread
    attached,    \* the clients whose buffer is that of m_desktop
    desktopLock, \* who holds m_desktopLock
    server,      \* where the thread that empties the two lists is
    closing,     \* it closes the listening socket only (SockConnect(FALSE))
    ordered,     \* fShutdownOrdered
    crashed      \* a null client was used

lists   == <<clientmap, unauth, auth>>
objects == <<arrivals, id, shares, freed>>
screen  == <<desktop, attached>>
task    == <<server, closing, ordered>>
vars == <<setting, lists, objects, place, killed, victim, screen, desktopLock,
          task, crashed>>

\* "handshake": up to the ClientInit message; "oldest", "exclusive": in the
\* checks of InitAuthenticate; "admitted": about to call Authenticated;
\* "welcome": authorised, about to be sent the ServerInit message;
\* "leaving": about to call RemoveClient; "removing", "deleting": in it, without
\* m_clientsLock; "removed": it has returned and the client is deleted.
Places == {"new", "handshake", "oldest", "exclusive", "admitted", "welcome", "serving",
           "leaving", "removing", "deleting", "removed"}
ServerPlaces == {"running", "killUnauth", "waitAuth", "waitUnauth", "freeDesktop", "gone"}

TypeOK ==
    /\ setting \in Settings
    /\ clientmap \in [Ids -> Clients \cup {None}]
    /\ unauth \subseteq Ids /\ auth \subseteq Ids
    /\ arrivals \in Seq(Clients)
    /\ place \in [Clients -> Places]
    /\ id \in [Clients -> Ids] /\ victim \in [Clients -> Ids]
    /\ shares \in [Clients -> Willing]
    /\ killed \in [Clients -> BOOLEAN] /\ freed \in [Clients -> BOOLEAN]
    /\ desktop \in {"none", "running", "ended"}
    /\ attached \subseteq Clients
    /\ desktopLock \in Clients \cup {None}
    /\ server \in ServerPlaces
    /\ closing \in BOOLEAN /\ ordered \in BOOLEAN
    /\ crashed \in BOOLEAN

Init ==
    /\ setting \in Settings
    /\ clientmap = [i \in Ids |-> None]
    /\ unauth = {} /\ auth = {}
    /\ arrivals = <<>>
    /\ place = [c \in Clients |-> "new"]
    /\ id = [c \in Clients |-> 0] /\ victim = [c \in Clients |-> 0]
    /\ shares = [c \in Clients |-> "always"]
    /\ killed = [c \in Clients |-> FALSE] /\ freed = [c \in Clients |-> FALSE]
    /\ desktop = "none" /\ attached = {}
    /\ desktopLock = None
    /\ server = "running" /\ closing = FALSE /\ ordered = FALSE
    /\ crashed = FALSE

-----------------------------------------------------------------------------
Goto(c, p) == place' = [place EXCEPT ![c] = p]

\* Clients are killed by closing their sockets.
Kill(ids) ==
    killed' = [c \in Clients |-> killed[c] \/ \E i \in ids : clientmap[i] = c]

\* Faulty variant: the search starts, and ends, one id too late.
FreeIdsLate == {i \in 2 .. MaxClients : i \in Ids => clientmap[i] = None}

\* The first free id above m_nextid, which nothing ever changes: id 0 is not
\* given out.
FreeIds == {i \in Ids \ {0} : clientmap[i] = None}

\* The listening socket accepts until it is deleted: at the end of SockConnect, but
\* at the very beginning of ShutdownServer.
AddClient(c, willing) ==
    /\ place[c] = "new" /\ (server = "running" \/ closing)
    /\ \E i \in FreeIds :
          /\ \A j \in FreeIds : i <= j
          /\ clientmap' = [clientmap EXCEPT ![i] = c]
          /\ unauth' = unauth \cup {i}
          /\ id' = [id EXCEPT ![c] = i]
    /\ shares' = [shares EXCEPT ![c] = willing]
    /\ arrivals' = Append(arrivals, c)
    /\ Goto(c, "handshake")
    /\ UNCHANGED <<setting, auth, freed, killed, victim, screen, desktopLock, task,
                   crashed>>

\* The viewer goes away, or vncServer::KillClient, which is called for authorised
\* clients only: the branch that deletes a client is never taken.
HangUp(c) ==
    /\ place[c] \notin {"new", "removed"} /\ ~killed[c]
    /\ killed' = [killed EXCEPT ![c] = TRUE]
    /\ UNCHANGED <<setting, lists, objects, place, victim, screen, desktopLock, task,
                   crashed>>

\* Every path out of run() but the last: something could not be read or sent,
\* the password is wrong, the handshake takes longer than 30 seconds, the viewer
\* is done.
Leave(c) ==
    /\ place[c] \in {"handshake", "serving"}
    /\ killed[c] \/ place[c] = "handshake"
    /\ Goto(c, "leaving")
    /\ UNCHANGED <<setting, lists, objects, killed, victim, screen, desktopLock, task,
                   crashed>>

-----------------------------------------------------------------------------
(* InitAuthenticate, once the client has shown that it knows the password. *)

\* getOldestViewer: 0 if there is none.
OldestViewer ==
    LET ages == {n \in DOMAIN arrivals :
                   \E i \in auth : clientmap[i] = arrivals[n]}
    IN  IF ages = {} THEN 0
        ELSE id[arrivals[CHOOSE n \in ages : \A m \in ages : n <= m]]

\* "Max viewers reached": the count is read without a lock.
CheckViewers(c) ==
    /\ place[c] = "handshake" /\ ~killed[c]
    /\ IF Cardinality(auth) < MaxViewers
       THEN Goto(c, "exclusive") /\ UNCHANGED victim
       ELSE IF setting.replace
       THEN Goto(c, "oldest") /\ victim' = [victim EXCEPT ![c] = OldestViewer]
       ELSE Goto(c, "leaving") /\ UNCHANGED victim
    /\ UNCHANGED <<setting, lists, objects, killed, screen, desktopLock, task, crashed>>

\* GetClient(getOldestViewer())->Kill(): by now the id may be nobody's, or
\* somebody else's.
KillOldest(c) ==
    /\ place[c] = "oldest"
    /\ Kill({victim[c]})
    /\ crashed' = (clientmap[victim[c]] = None)
    /\ victim' = [victim EXCEPT ![c] = 0]
    /\ Goto(c, "exclusive")
    /\ UNCHANGED <<setting, lists, objects, screen, desktopLock, task>>

\* "If the client wishes to have exclusive access then remove other clients":
\* the incoming client has priority...
RemoveOthers(c) ==
    /\ place[c] = "exclusive" /\ ~killed[c]
    /\ setting.priority = 0 /\ shares[c] = "exclusive"
    /\ Kill(auth)
    /\ Goto(c, "admitted")
    /\ UNCHANGED <<setting, lists, objects, victim, screen, desktopLock, task, crashed>>

\* ...or the existing ones have.
Refused(c) ==
    \/ setting.priority = 3 /\ shares[c] # "always"
    \/ setting.priority \in {2, 3} /\ shares[c] = "exclusive"

CheckExclusive(c) ==
    /\ place[c] = "exclusive" /\ ~killed[c]
    /\ ~(setting.priority = 0 /\ shares[c] = "exclusive")
    /\ Goto(c, IF Refused(c) /\ auth # {} THEN "leaving" ELSE "admitted")
    /\ UNCHANGED <<setting, lists, objects, killed, victim, screen, desktopLock, task,
                   crashed>>

\* The ClientInit message cannot be read.
ReadFails(c) ==
    /\ place[c] = "exclusive" /\ killed[c]
    /\ Goto(c, "leaving")
    /\ UNCHANGED <<setting, lists, objects, killed, victim, screen, desktopLock, task,
                   crashed>>

\* m_client->GetClientId(): a deleted client may still have its id, or none.
ItsId(c) == IF freed[c] THEN {id[c], 0} ELSE {id[c]}

\* vncServer::Authenticated, under both locks: the client changes lists, and
\* the first one makes the desktop, which may fail.
Attach(c, works) ==
    IF desktop = "none" /\ ~works
    THEN /\ killed' = [killed EXCEPT ![c] = TRUE]
         /\ Goto(c, "leaving")
         /\ UNCHANGED screen
    ELSE /\ desktop' = IF desktop = "none" THEN "running" ELSE desktop
         /\ attached' = attached \cup {c}
         /\ Goto(c, "welcome")
         /\ UNCHANGED killed

\* Faulty variant: it does not wait for m_desktopLock.
AuthenticatedUnlocked(c, i, works) ==
    /\ place[c] = "admitted" /\ i \in ItsId(c)
    /\ unauth' = unauth \ {i}
    /\ auth' = IF i \in unauth THEN auth \cup {i} ELSE auth
    /\ IF i \in unauth THEN Attach(c, works)
       ELSE Goto(c, "welcome") /\ UNCHANGED <<killed, screen>>
    /\ UNCHANGED <<setting, clientmap, objects, victim, desktopLock, task, crashed>>

Authenticated(c, i, works) ==
    /\ place[c] = "admitted" /\ i \in ItsId(c)
    /\ desktopLock = None
    /\ unauth' = unauth \ {i}
    /\ auth' = IF i \in unauth THEN auth \cup {i} ELSE auth
    /\ IF i \in unauth THEN Attach(c, works)
       ELSE Goto(c, "welcome") /\ UNCHANGED <<killed, screen>>
    /\ UNCHANGED <<setting, clientmap, objects, victim, desktopLock, task, crashed>>

\* Faulty variant: sendall does not look at fShutdownOrdered.
SendServerInitAnyway(c) ==
    /\ place[c] = "welcome"
    /\ Goto(c, IF killed[c] THEN "leaving" ELSE "serving")
    /\ UNCHANGED <<setting, lists, objects, killed, victim, screen, desktopLock, task,
                   crashed>>

\* The ServerInit message: nothing is sent any more, by sendall, once the shutdown
\* is ordered.
SendServerInit(c) ==
    /\ place[c] = "welcome"
    /\ Goto(c, IF killed[c] \/ ordered THEN "leaving" ELSE "serving")
    /\ UNCHANGED <<setting, lists, objects, killed, victim, screen, desktopLock, task,
                   crashed>>

-----------------------------------------------------------------------------
(* vncServer::RemoveClient. *)

\* Faulty variant: a client that was not authorised yet stays on its list.
RemoveAuthorised(c, i) ==
    /\ place[c] = "leaving" /\ i \in ItsId(c)
    /\ desktopLock = None /\ desktopLock' = c
    /\ auth' = auth \ {i}
    /\ clientmap' = [clientmap EXCEPT ![i] = IF i \in auth THEN None ELSE @]
    /\ arrivals' = IF i \in auth THEN RemoveFirst(arrivals, clientmap[i]) ELSE arrivals
    /\ Goto(c, "removing")
    /\ UNCHANGED <<setting, unauth, id, shares, freed, killed, victim, screen, task,
                   crashed>>

RemoveClient(c, i) ==
    /\ place[c] = "leaving" /\ i \in ItsId(c)
    /\ desktopLock = None /\ desktopLock' = c
    /\ unauth' = unauth \ {i}
    /\ auth' = auth \ {i}
    /\ clientmap' = [clientmap EXCEPT ![i] = IF i \in unauth \cup auth THEN None ELSE @]
    /\ arrivals' = RemoveFirst(arrivals, clientmap[i])
    /\ Goto(c, "removing")
    /\ UNCHANGED <<setting, id, shares, freed, killed, victim, screen, task, crashed>>

\* Faulty variant: a client in its handshake keeps the desktop.
CheckNobody(c) ==
    /\ place[c] = "removing"
    /\ IF unauth \cup auth = {} /\ desktop # "none"
       THEN Goto(c, "deleting") /\ UNCHANGED desktopLock
       ELSE Goto(c, "removed") /\ desktopLock' = None
    /\ UNCHANGED <<setting, lists, objects, killed, victim, screen, task, crashed>>

\* "Are there any authorised clients connected?", without m_clientsLock.
CheckDesktop(c) ==
    /\ place[c] = "removing"
    /\ IF auth = {} /\ desktop # "none"
       THEN Goto(c, "deleting") /\ UNCHANGED desktopLock
       ELSE Goto(c, "removed") /\ desktopLock' = None
    /\ UNCHANGED <<setting, lists, objects, killed, victim, screen, task, crashed>>

\* ~vncDesktop waits for the desktop thread, which ends with KillAuthClients.
DeleteDesktop(c) ==
    /\ place[c] = "deleting"
    /\ Kill(auth)
    /\ desktop' = "none" /\ attached' = {}
    /\ desktopLock' = None
    /\ Goto(c, "removed")
    /\ UNCHANGED <<setting, lists, objects, victim, task, crashed>>

-----------------------------------------------------------------------------
\* The desktop thread ends: it gives up, having no hooks or no buffer, or the
\* shutdown is ordered.
DesktopEnds ==
    /\ desktop = "running"
    /\ Kill(auth)
    /\ desktop' = "ended"
    /\ UNCHANGED <<setting, lists, objects, place, attached, victim, desktopLock, task,
                   crashed>>

\* vncServer::KillAuthClients, from the menu.
KillAuthClients ==
    /\ auth # {}
    /\ Kill(auth)
    /\ UNCHANGED <<setting, lists, objects, place, victim, screen, desktopLock, task,
                   crashed>>

\* fShutdownOrdered, from the menu, the service or a remote desktop session.
OrderShutdown ==
    /\ ~ordered /\ ordered' = TRUE
    /\ UNCHANGED <<setting, lists, objects, place, killed, victim, screen, desktopLock,
                   server, closing, crashed>>

(* vncServer::ShutdownServer, once the menu's thread has ended; and             *)
(* SockConnect(FALSE), which goes through the same steps while the server runs. *)

ServerGoto(p) == server' = p

CloseListener ==
    /\ server = "running" /\ ~ordered
    /\ Kill(auth)
    /\ ServerGoto("killUnauth") /\ closing' = TRUE
    /\ UNCHANGED <<setting, lists, objects, place, victim, screen, desktopLock, ordered,
                   crashed>>

Shutdown ==
    /\ server = "running" /\ ordered
    /\ Kill(auth)
    /\ ServerGoto("killUnauth")
    /\ UNCHANGED <<setting, lists, objects, place, victim, screen, desktopLock, closing,
                   ordered, crashed>>

\* "Kill the client" and delete it, although its thread runs on.
KillUnauthClients ==
    /\ server = "killUnauth"
    /\ Kill(unauth)
    /\ freed' = [c \in Clients |-> freed[c] \/ \E i \in unauth : clientmap[i] = c]
    /\ ServerGoto("waitAuth")
    /\ UNCHANGED <<setting, lists, arrivals, id, shares, place, victim, screen,
                   desktopLock, closing, ordered, crashed>>

\* The listening socket is deleted, and perhaps opened again.
AfterWaits ==
    /\ unauth = {}
    /\ ServerGoto(IF closing THEN "running" ELSE "freeDesktop")
    /\ closing' = FALSE

\* Faulty variant: only the unauthorised clients are waited for.
WaitUntilUnauthEmpty ==
    /\ \/ server = "waitAuth" /\ ServerGoto("waitUnauth") /\ UNCHANGED closing
       \/ server = "waitUnauth" /\ AfterWaits
    /\ UNCHANGED <<setting, lists, objects, place, killed, victim, screen, desktopLock,
                   ordered, crashed>>

\* WaitUntilAuthEmpty, then WaitUntilUnauthEmpty: m_clientquitsig is signalled
\* for every client that leaves.
WaitUntilEmpty ==
    /\ \/ /\ server = "waitAuth" /\ auth = {}
          /\ ServerGoto("waitUnauth") /\ UNCHANGED closing
       \/ server = "waitUnauth" /\ AfterWaits
    /\ UNCHANGED <<setting, lists, objects, place, killed, victim, screen, desktopLock,
                   ordered, crashed>>

\* "Don't free the desktop until no KillClient is likely to free it"; then
\* m_clientquitsig is deleted.
FreeDesktop ==
    /\ server = "freeDesktop" /\ desktopLock = None
    /\ Kill(auth)
    /\ desktop' = "none" /\ attached' = {}
    /\ ServerGoto("gone")
    /\ UNCHANGED <<setting, lists, objects, place, victim, desktopLock, closing, ordered,
                   crashed>>

-----------------------------------------------------------------------------
\* What a client's thread does by itself.
ClientStep(c) ==
    \/ CheckViewers(c) \/ KillOldest(c)
    \/ RemoveOthers(c) \/ CheckExclusive(c) \/ ReadFails(c)
    \/ \E i \in Ids, works \in BOOLEAN : Authenticated(c, i, works)
    \/ SendServerInit(c)
    \/ Leave(c)
    \/ \E i \in Ids : RemoveClient(c, i)
    \/ CheckDesktop(c) \/ DeleteDesktop(c)

ServerStep == KillUnauthClients \/ WaitUntilEmpty \/ FreeDesktop

Next ==
    /\ ~crashed
    /\ \/ \E c \in Clients :
             \/ \E willing \in Wishes : AddClient(c, willing)
             \/ HangUp(c)
             \/ ClientStep(c)
       \/ DesktopEnds \/ KillAuthClients
       \/ OrderShutdown \/ CloseListener \/ Shutdown \/ ServerStep

Spec == Init /\ [][Next]_vars

\* Threads run, and m_desktopLock goes to each that asks for it in the end; the
\* desktop's leaves its loop when the shutdown is ordered.  Viewers come and go as
\* they like, but for the time limit of the handshake.
Fairness ==
    /\ \A c \in Clients : SF_vars(~crashed /\ ClientStep(c))
    /\ SF_vars(~crashed /\ ServerStep)
    /\ WF_vars(~crashed /\ ordered /\ DesktopEnds)

FairSpec == Spec /\ Fairness

-----------------------------------------------------------------------------
\* The client is known to the server: from AddClient to RemoveClient.
Listed(c) == place[c] \notin {"new", "removing", "deleting", "removed"}

\* A client is on exactly one list under its own id as long as its thread has
\* not called RemoveClient, and no longer, but for those the server deleted; its
\* entry of the map is there for everybody who goes through the lists.
ListsConsistent ==
    /\ unauth \cap auth = {}
    /\ \A i \in unauth \cup auth :
          \E c \in Clients : clientmap[i] = c /\ id[c] = i /\ (Listed(c) \/ freed[c])
    /\ \A c \in Clients : Listed(c) => clientmap[id[c]] = c /\ id[c] \in unauth \cup auth
    /\ \A i \in Ids : clientmap[i] # None => i \in unauth \cup auth

\* The desktop and its buffer stay for every client that is served, although
\* another client that leaves deletes the desktop after it has let go of
\* m_clientsLock.
ServedHasDesktop ==
    \A c \in Clients :
        place[c] \in {"welcome", "serving"} /\ ~freed[c] => c \in attached /\ desktop # "none"

\* The screen is not captured, and input not blocked, when nobody is authorised.
NobodyNoDesktop == desktopLock = None /\ auth = {} => desktop = "none"

\* When the server and m_clientquitsig are gone no client is left that would
\* still signal it, but for those whose object was deleted under them.
QuitSignalUnused ==
    server = "gone" => \A c \in Clients : Listed(c) => freed[c]

\* Three facts make these inductive.  A client's place tells which list it is on;
\* id 0 is nobody's, so that a client deleted under its thread takes nothing off
\* the lists with it.
PlacesAgree ==
    /\ 0 \notin unauth \cup auth
    /\ \A c \in Clients :
          /\ freed[c] => place[c] # "new"
          /\ place[c] \in {"handshake", "oldest", "exclusive", "admitted"} => id[c] \in unauth
          /\ place[c] \in {"welcome", "serving"} /\ ~freed[c] => id[c] \in auth

\* Who is between the two halves of RemoveClient holds m_desktopLock, and nobody
\* is authorised while the desktop is deleted.
LockHolder ==
    \A c \in Clients :
        /\ place[c] \in {"removing", "deleting"} <=> desktopLock = c
        /\ place[c] = "deleting" => auth = {}

\* The server that shuts down, which nobody enters any more, has deleted the clients
\* it found unauthorised and has seen the others leave.
SeenLeave ==
    /\ closing => server \in {"killUnauth", "waitAuth", "waitUnauth"}
    /\ ~closing /\ server \in {"waitAuth", "waitUnauth", "freeDesktop", "gone"} =>
          \A c \in Clients : Listed(c) /\ id[c] \in unauth => freed[c]
    /\ ~closing /\ server \in {"waitUnauth", "freeDesktop", "gone"} =>
          \A c \in Clients : Listed(c) => freed[c]

Inductive ==
    /\ TypeOK /\ ListsConsistent /\ ServedHasDesktop /\ NobodyNoDesktop
    /\ PlacesAgree /\ LockHolder /\ SeenLeave

\* A client that was deleted under its thread found no id of its own, and stays
\* on a list for ever.
LeftBehind == \E c \in Clients : freed[c] /\ ~Listed(c) /\ clientmap[id[c]] = c

\* "Remove any active clients!" and "Wait for all the clients to die": the server
\* that shuts down is gone in the end, whatever its viewers do, those included that
\* are authorised after KillAuthClients.  Clients left behind are set aside here.
ShutdownEnds ==
    server # "running" /\ ~closing ~> server = "gone" \/ crashed \/ LeftBehind

\* "Trying to fix up a lock-up when the listening socket closes": SockConnect(FALSE)
\* comes back, whatever the viewers do.
ListenerCloses ==
    closing ~> ~closing \/ crashed \/ LeftBehind

\* "If the client wishes to have exclusive access then remove other clients" or
\* reject it: two clients that want it are not served at the same time.
ExclusiveAccess ==
    \A c, d \in Clients :
        c # d /\ setting.priority # 1
          => ~ \A e \in {c, d} : /\ place[e] = "serving" /\ ~killed[e]
                                 /\ shares[e] = "exclusive"
=============================================================================
