---------------------------- MODULE RemoteViewer ----------------------------
(***************************************************************************)
(* The program that embeds the viewer (RemoteView.cs, RemoteViewer.cs,     *)
(* Form1.cs): a timer probes the VNC server and starts the viewer process  *)
(* or closes it, on its own thread; the process is started on the thread   *)
(* of the form; the exit of a process is reported on a third one.  They    *)
(* share _MyProcess and Connected without a lock: _ObjectLock only keeps   *)
(* two ticks apart.                                                        *)
(*                                                                         *)
(* A method that throws ends there: the timer swallows the exception, the  *)
(* form shows it and goes on.  Windows and the window handles are left     *)
(* out, and so are settings, which are written while nothing runs.         *)
(***************************************************************************)
EXTENDS Naturals

CONSTANTS
    MaxProcesses,  \* bound on the Process objects that are made
    MaxTurns,      \* bound on how often the link changes
    MaxQuits,      \* bound on the viewers that exit by themselves
    MaxQueue       \* bound on the starts that wait for the form's thread

ASSUME BoundsAssumption ==
    /\ MaxProcesses \in Nat /\ MaxTurns \in Nat /\ MaxQuits \in Nat
    /\ MaxQueue \in Nat \ {0}

VARIABLES
    link,       \* how the server answers a probe
    made,       \* how many Process objects were made; they are numbered
    alive,      \* the viewers that run
    dying,      \* those that were killed and have not exited yet
    exited,     \* those that have exited
    raising,    \* EnableRaisingEvents is set
    watched,    \* Process_Exited is attached
    raised,     \* the exit event was raised
    myProcess,  \* _MyProcess, 0 for null
    connected,  \* Connected
    queue,      \* how many calls of StartProcess were queued with BeginInvoke
    pc,         \* where the form's thread and the timer's are
    job,        \* what the form's thread does
    open,       \* the form is open
    disturbed,  \* (history) something met a start that was under way
    turns, quits  \* (bounds) changes of the link, exits so far

process == <<made, alive, dying, exited>>
events == <<raising, watched, raised>>
shared == <<myProcess, connected>>
bounds == <<turns, quits>>
vars == <<link, process, events, shared, queue, pc, job, open, disturbed, bounds>>

Processes == 1 .. made
Links == {"up", "refused", "silent"}
Closing == {"test", "hasExited", "kill", "null"}
Places == Closing \cup {"idle", "probing", "killAll", "new", "start", "inputIdle", "raise",
                        "watch", "window", "connect", "ended"}

TypeOK ==
    /\ link \in Links
    /\ made \in 0 .. MaxProcesses
    /\ alive \subseteq Processes /\ dying \subseteq Processes /\ exited \subseteq Processes
    /\ alive \cap dying = {} /\ (alive \cup dying) \cap exited = {}
    /\ raising \subseteq Processes /\ watched \subseteq Processes /\ raised \subseteq exited
    /\ myProcess \in 0 .. made
    /\ connected \in BOOLEAN
    /\ queue \in 0 .. MaxQueue
    /\ pc \in [{"form", "timer"} -> Places]
    /\ job \in {"none", "start", "close"}
    /\ open \in BOOLEAN /\ disturbed \in BOOLEAN
    /\ turns \in 0 .. MaxTurns /\ quits \in 0 .. MaxQuits

Init ==
    /\ link \in Links
    /\ made = 0 /\ alive = {} /\ dying = {} /\ exited = {}
    /\ raising = {} /\ watched = {} /\ raised = {}
    /\ myProcess = 0 /\ connected = FALSE
    /\ queue = 0
    /\ pc = [t \in {"form", "timer"} |-> "idle"] /\ job = "none"
    /\ open = TRUE /\ disturbed = FALSE
    /\ turns = 0 /\ quits = 0

Goto(t, place) == pc' = [pc EXCEPT ![t] = place]

\* The rest of the method is skipped; a form whose OnClosing throws stays open.
Throw(t) ==
    /\ Goto(t, "idle")
    /\ job' = IF t = "form" THEN "none" ELSE job

Starting == job = "start" \/ queue > 0

-----------------------------------------------------------------------------
(* The processes and the network. *)

LinkChanges ==
    /\ turns < MaxTurns
    /\ link' \in Links \ {link}
    /\ turns' = turns + 1
    /\ UNCHANGED <<process, events, shared, queue, pc, job, open, disturbed, quits>>

\* The user closes the viewer, or it gives up.
Quit(p) ==
    /\ p \in alive /\ quits < MaxQuits
    /\ alive' = alive \ {p} /\ exited' = exited \cup {p}
    /\ quits' = quits + 1
    /\ disturbed' = (disturbed \/ job = "start")
    /\ UNCHANGED <<link, made, dying, events, shared, queue, pc, job, open, turns>>

\* Kill only asks for the end of a process.
Dies(p) ==
    /\ p \in dying
    /\ dying' = dying \ {p} /\ exited' = exited \cup {p}
    /\ UNCHANGED <<link, made, alive, events, shared, queue, pc, job, open, disturbed,
                   bounds>>

\* Faulty variant: the process is forgotten, Connected is not.
ForgetExited(p) ==
    /\ p \in (exited \cap raising) \ raised
    /\ raised' = raised \cup {p}
    /\ myProcess' = IF p \in watched THEN 0 ELSE myProcess
    /\ UNCHANGED <<link, process, raising, watched, connected, queue, pc, job, open,
                   disturbed, bounds>>

\* Process_Exited, if it is attached by the time the event is raised.
ProcessExited(p) ==
    /\ p \in (exited \cap raising) \ raised
    /\ raised' = raised \cup {p}
    /\ connected' = (connected /\ p \notin watched)
    /\ UNCHANGED <<link, process, raising, watched, myProcess, queue, pc, job, open,
                   disturbed, bounds>>

-----------------------------------------------------------------------------
(* CloseProcess, on the thread t; every use of _MyProcess reads it anew. *)

CloseTest(t) ==
    /\ pc[t] = "test"
    /\ Goto(t, IF myProcess = 0 THEN "null" ELSE "hasExited")
    /\ UNCHANGED <<link, process, events, shared, queue, job, open, disturbed, bounds>>

\* It throws if _MyProcess is null by now, or was never started.
CloseHasExited(t) ==
    /\ pc[t] = "hasExited"
    /\ \/ myProcess \in exited /\ Goto(t, "null") /\ UNCHANGED job
       \/ myProcess \in alive \cup dying /\ Goto(t, "kill") /\ UNCHANGED job
       \/ myProcess \notin alive \cup dying \cup exited /\ Throw(t)
    /\ UNCHANGED <<link, process, events, shared, queue, open, disturbed, bounds>>

\* Faulty variant: a process that has exited meanwhile is killed like any other.
KillAnyway(t) ==
    /\ pc[t] = "kill"
    /\ IF myProcess # 0
       THEN /\ alive' = alive \ {myProcess} /\ dying' = dying \cup {myProcess}
            /\ Goto(t, "null") /\ UNCHANGED job
       ELSE Throw(t) /\ UNCHANGED <<alive, dying>>
    /\ UNCHANGED <<link, made, exited, events, shared, queue, open, disturbed, bounds>>

\* Kill throws unless the process runs; of one that is terminating it may.
CloseKill(t) ==
    /\ pc[t] = "kill"
    /\ \/ /\ myProcess \in alive
          /\ alive' = alive \ {myProcess} /\ dying' = dying \cup {myProcess}
          /\ Goto(t, "null") /\ UNCHANGED job
       \/ /\ myProcess \in dying
          /\ Goto(t, "null") /\ UNCHANGED <<job, alive, dying>>
       \/ /\ myProcess \notin alive
          /\ Throw(t) /\ UNCHANGED <<alive, dying>>
    /\ UNCHANGED <<link, made, exited, events, shared, queue, open, disturbed, bounds>>

\* What follows: the timer lets go of _ObjectLock, StartProcess goes on, or the
\* form is closed and the program ends.
CloseNull(t) ==
    /\ pc[t] = "null"
    /\ myProcess' = 0
    /\ \/ t = "timer" /\ Goto(t, "idle") /\ UNCHANGED <<open, queue>>
       \/ t = "form" /\ job = "start" /\ Goto(t, "new") /\ UNCHANGED <<open, queue>>
       \/ t = "form" /\ job = "close" /\ Goto(t, "ended") /\ open' = FALSE /\ queue' = 0
    /\ UNCHANGED <<link, process, events, connected, job, disturbed, bounds>>

-----------------------------------------------------------------------------
(* The timer. *)

\* TmrReLink_Elapsed: a tick that finds _ObjectLock taken does nothing.
Tick ==
    /\ pc["timer"] = "idle"
    /\ Goto("timer", "probing")
    /\ UNCHANGED <<link, process, events, shared, queue, job, open, disturbed, bounds>>

\* What Wait(1000) leaves: the task is "completed", "pending" or the exception is
\* "thrown" again.  A refusal may also come in when Wait has given up, and then
\* counts as completed.
Outcomes ==
    CASE link = "up" -> {"completed"}
      [] link = "silent" -> {"pending"}
      [] link = "refused" -> {"thrown", "pending", "completed"}

\* Faulty variant: the viewer is left alone when the server does not answer.
ProbeUp(outcome) ==
    /\ pc["timer"] = "probing" /\ outcome \in Outcomes
    /\ IF outcome = "completed" /\ ~connected
       THEN /\ queue < MaxQueue
            /\ queue' = queue + 1
            /\ disturbed' = (disturbed \/ Starting)
       ELSE UNCHANGED <<queue, disturbed>>
    /\ Goto("timer", "idle")
    /\ UNCHANGED <<link, process, events, shared, job, open, bounds>>

\* The connection is there and the viewer is not, or the other way round.
Probe(outcome) ==
    /\ pc["timer"] = "probing" /\ outcome \in Outcomes
    /\ \/ /\ outcome = "completed" /\ ~connected
          /\ queue < MaxQueue
          /\ queue' = queue + 1
          /\ Goto("timer", "idle")
          /\ disturbed' = (disturbed \/ Starting)
       \/ /\ outcome = "pending" /\ connected
          /\ Goto("timer", "test")
          /\ disturbed' = (disturbed \/ Starting)
          /\ UNCHANGED queue
       \/ /\ outcome = "thrown" \/ ((outcome = "completed") = connected)
          /\ Goto("timer", "idle")
          /\ UNCHANGED <<queue, disturbed>>
    /\ UNCHANGED <<link, process, events, shared, job, open, bounds>>

TimerStep ==
    \/ Tick
    \/ \E outcome \in {"completed", "pending", "thrown"} : Probe(outcome)
    \/ CloseTest("timer") \/ CloseHasExited("timer") \/ CloseKill("timer") \/ CloseNull("timer")

-----------------------------------------------------------------------------
(* The form. *)

\* The delegate of StartProcessEmbeddedCtl runs.
StartProcess ==
    /\ pc["form"] = "idle" /\ queue > 0
    /\ queue' = queue - 1
    /\ job' = "start" /\ Goto("form", "killAll")
    /\ UNCHANGED <<link, process, events, shared, open, disturbed, bounds>>

\* Faulty variant: only the viewer that is known is closed.
KillKnown ==
    /\ pc["form"] = "killAll"
    /\ Goto("form", "test")
    /\ UNCHANGED <<link, process, events, shared, queue, job, open, disturbed, bounds>>

\* KillProcess: every process of the viewer's name.  Kill may throw for one that
\* is terminating, before or after the others are killed.
KillProcess ==
    /\ pc["form"] = "killAll"
    /\ \/ /\ alive' = {} /\ dying' = dying \cup alive
          /\ Goto("form", "test") /\ UNCHANGED job
       \/ /\ dying # {}
          /\ \E S \in SUBSET alive : alive' = alive \ S /\ dying' = dying \cup S
          /\ Throw("form")
    /\ UNCHANGED <<link, made, exited, events, shared, queue, open, disturbed, bounds>>

\* A viewer exits by itself before Kill comes to it, which throws.
KillMisses ==
    /\ pc["form"] = "killAll" /\ quits < MaxQuits
    /\ \E p \in alive : \E S \in SUBSET (alive \ {p}) :
          /\ alive' = alive \ (S \cup {p})
          /\ dying' = dying \cup S /\ exited' = exited \cup {p}
    /\ Throw("form")
    /\ quits' = quits + 1 /\ disturbed' = TRUE
    /\ UNCHANGED <<link, made, events, shared, queue, open, turns>>

NewProcess ==
    /\ pc["form"] = "new" /\ made < MaxProcesses
    /\ made' = made + 1 /\ myProcess' = made + 1
    /\ Goto("form", "start")
    /\ UNCHANGED <<link, alive, dying, exited, events, connected, queue, job, open, disturbed,
                   bounds>>

\* A step of StartProcess that uses _MyProcess, which the timer may have nulled.
Use(place, next) ==
    /\ pc["form"] = place
    /\ IF myProcess = 0 THEN Throw("form") ELSE Goto("form", next) /\ UNCHANGED job

\* Start().
Start ==
    /\ Use("start", "inputIdle")
    /\ alive' = IF myProcess = 0 THEN alive ELSE alive \cup {myProcess}
    /\ UNCHANGED <<link, made, dying, exited, events, shared, queue, open, disturbed, bounds>>

\* No process can be made of the file: it is in use, or no program.
StartFails ==
    /\ pc["form"] = "start"
    /\ Throw("form")
    /\ disturbed' = TRUE
    /\ UNCHANGED <<link, process, events, shared, queue, open, bounds>>

\* A step that throws for a process that has exited: WaitForInputIdle, and
\* MainWindowHandle.
UseRunning(place, next) ==
    /\ pc["form"] = place
    /\ IF myProcess \in {0} \cup exited THEN Throw("form") ELSE Goto("form", next) /\ UNCHANGED job
    /\ UNCHANGED <<link, process, events, shared, queue, open, disturbed, bounds>>

\* EnableRaisingEvents = true, and Exited += Process_Exited.
Watch ==
    /\ \/ Use("raise", "watch") /\ raising' = raising \cup ({myProcess} \ {0})
          /\ UNCHANGED watched
       \/ Use("watch", "window") /\ watched' = watched \cup ({myProcess} \ {0})
          /\ UNCHANGED raising
    /\ UNCHANGED <<link, process, raised, shared, queue, open, disturbed, bounds>>

Connect ==
    /\ pc["form"] = "connect"
    /\ connected' = TRUE
    /\ Goto("form", "idle") /\ job' = "none"
    /\ UNCHANGED <<link, process, events, myProcess, queue, open, disturbed, bounds>>

\* Faulty variant: the form closes and leaves the viewer alone.
CloseOnly ==
    /\ pc["form"] = "idle"
    /\ job' = "close" /\ Goto("form", "ended") /\ open' = FALSE /\ queue' = 0
    /\ UNCHANGED <<link, process, events, shared, disturbed, bounds>>

\* OnClosing.
OnClosing ==
    /\ pc["form"] = "idle"
    /\ job' = "close" /\ Goto("form", "test")
    /\ UNCHANGED <<link, process, events, shared, queue, open, disturbed, bounds>>

FormStep ==
    \/ StartProcess \/ KillProcess \/ KillMisses
    \/ CloseTest("form") \/ CloseHasExited("form") \/ CloseKill("form") \/ CloseNull("form")
    \/ NewProcess \/ Start \/ StartFails \/ UseRunning("inputIdle", "raise") \/ Watch
    \/ UseRunning("window", "connect") \/ Connect

-----------------------------------------------------------------------------
Next ==
    /\ open
    /\ \/ LinkChanges
       \/ \E p \in Processes : Quit(p) \/ Dies(p) \/ ProcessExited(p)
       \/ TimerStep \/ FormStep \/ OnClosing

Spec == Init /\ [][Next]_vars

\* The timer ticks, both threads run, and what was killed exits and is reported.
\* Nobody has to close the form or the viewer, and the link may stay as it is.
Fairness ==
    /\ WF_vars(open /\ TimerStep) /\ WF_vars(open /\ FormStep)
    /\ \A p \in 1 .. MaxProcesses : WF_vars(open /\ Dies(p)) /\ WF_vars(open /\ ProcessExited(p))

FairSpec == Spec /\ Fairness

-----------------------------------------------------------------------------
\* However often starts are queued, interrupted or repeated: "this.KillProcess"
\* leaves one viewer that runs at most.
OneViewer == \A p, q \in alive : p = q

\* Why: from the time StartProcess has killed every viewer to the time it starts
\* its own nothing runs, and the process it starts was never started before.
Inductive ==
    /\ TypeOK /\ OneViewer
    /\ pc["form"] \in {"new", "start"} => alive = {}
    /\ job = "start" /\ pc["form"] \in Closing => alive = {}
    /\ pc["form"] = "start" =>
          myProcess \in {0, made} /\ made \notin alive \cup dying \cup exited

\* "OnClosing" leaves no viewer behind, if nothing ever met a start under way.
NoViewerLeft == ~open /\ ~disturbed => alive = {}

\* Why: unless a start is disturbed the viewer that runs is the one _MyProcess knows,
\* the timer closes none while a start is under way, and who forgets a viewer has
\* killed it.
KnownInductive ==
    /\ Inductive
    /\ pc["form"] \in {"killAll", "new", "start", "inputIdle", "raise", "watch", "window",
                      "connect"} => job = "start"
    /\ ~disturbed =>
          /\ alive \subseteq {myProcess}
          /\ pc["timer"] \in Closing => ~Starting
          /\ "null" \in {pc["timer"], pc["form"]} => alive = {}
          /\ ~open => alive = {}

\* "TmrReLink": once the server is up for good there is a viewer for good, however
\* often the link or the viewer failed before.  A tick during a start is left
\* aside: see ConnectStatus.
Relinked ==
    <>[](open /\ link = "up" /\ ~disturbed) => <>[](connected /\ alive # {})

\* Once the server is silent for good the viewer is closed for good.
Unlinked ==
    <>[](open /\ link = "silent" /\ ~disturbed) => <>[](~connected /\ alive = {})

\* "vncviewer connect status" (IRemoteViewer.cs): Connected does not stay set with
\* no viewer there, which would keep the timer from ever starting one again.
ConnectStatus ==
    connected /\ alive = {} ~> ~connected \/ alive # {} \/ ~open
=============================================================================
