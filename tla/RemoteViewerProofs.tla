------------------------- MODULE RemoteViewerProofs -------------------------
(***************************************************************************)
(* One viewer runs at most, for every number of processes, of failures and *)
(* of queued starts: `Inductive' of RemoteViewer is inductive.  None is     *)
(* left by a form that closes unless a start was disturbed:                *)
(* `KnownInductive' is.                                                    *)
(***************************************************************************)
EXTENDS RemoteViewer, TLAPS

\* What the actions of the timer and of the form do to the two pcs.
LEMMA GotoPlaces ==
    ASSUME NEW t \in {"form", "timer"}, NEW place \in Places, TypeOK
    PROVE  /\ Goto(t, place) => /\ pc' \in [{"form", "timer"} -> Places]
                                /\ pc'[t] = place
                                /\ t = "timer" => pc'["form"] = pc["form"]
           /\ Throw(t) => /\ pc' \in [{"form", "timer"} -> Places]
                          /\ job' \in {"none", "start", "close"}
                          /\ t = "form" => pc'["form"] = "idle"
                          /\ t = "timer" => pc'["form"] = pc["form"] /\ job' = job
BY DEF TypeOK, Goto, Throw, Places

LEMMA InductiveInit == Init => Inductive
<1> SUFFICES ASSUME Init PROVE Inductive
  OBVIOUS
<1>1. pc \in [{"form", "timer"} -> Places] /\ pc["form"] = "idle"
  BY DEF Init, Places
<1>2. /\ 0 \in 0 .. MaxProcesses /\ 0 \in 0 .. MaxQueue
      /\ 0 \in 0 .. MaxTurns /\ 0 \in 0 .. MaxQuits /\ 0 \in 0 .. made
  BY BoundsAssumption DEF Init
<1>3. QED
  BY <1>1, <1>2 DEF Init, Inductive, TypeOK, OneViewer, Processes

\* Processes that come, go and are reported.
LEMMA ProcessesInductive ==
    ASSUME Inductive,
           LinkChanges \/ \E p \in Processes : Quit(p) \/ Dies(p) \/ ProcessExited(p)
    PROVE  Inductive'
<1>1. CASE LinkChanges
  BY <1>1, BoundsAssumption
     DEF LinkChanges, Inductive, TypeOK, OneViewer, Processes, process, events, shared
<1>2. ASSUME NEW p \in Processes, Quit(p) PROVE Inductive'
  BY <1>2, BoundsAssumption
     DEF Quit, Inductive, TypeOK, OneViewer, Processes, events, shared
<1>3. ASSUME NEW p \in Processes, Dies(p) PROVE Inductive'
  BY <1>3 DEF Dies, Inductive, TypeOK, OneViewer, Processes, events, shared, bounds
<1>4. ASSUME NEW p \in Processes, ProcessExited(p) PROVE Inductive'
  BY <1>4 DEF ProcessExited, Inductive, TypeOK, OneViewer, Processes, process, bounds
<1>5. QED
  BY <1>1, <1>2, <1>3, <1>4

\* CloseProcess, whoever calls it.
LEMMA CloseInductive ==
    ASSUME Inductive, NEW t \in {"form", "timer"},
           CloseTest(t) \/ CloseHasExited(t) \/ CloseKill(t) \/ CloseNull(t)
    PROVE  Inductive'
<1>1. TypeOK
  BY DEF Inductive
<1>2. {"idle", "null", "hasExited", "kill", "new", "ended"} \subseteq Places
  BY DEF Places, Closing
<1> DEFINE Moved == /\ pc' \in [{"form", "timer"} -> Places]
                    /\ job' \in {"none", "start", "close"}
                    /\ pc'["form"] \in {"new", "start"} => pc'["form"] = pc["form"]
                    /\ job' = "start" /\ pc'["form"] \in Closing
                          => job = "start" /\ pc["form"] \in Closing
<1>3. CASE CloseTest(t) \/ CloseHasExited(t)
  <2>1. Moved
    <3>1. CASE CloseTest(t)
      BY <1>1, <1>2, <3>1, GotoPlaces DEF CloseTest, TypeOK, Closing
    <3>2. CASE CloseHasExited(t)
      BY <1>1, <1>2, <3>2, GotoPlaces DEF CloseHasExited, TypeOK, Closing
    <3>3. QED
      BY <1>3, <3>1, <3>2
  <2>2. UNCHANGED <<link, process, events, shared, queue, open, disturbed, bounds>>
    BY <1>3 DEF CloseTest, CloseHasExited
  <2>3. QED
    BY <2>1, <2>2 DEF Inductive, TypeOK, OneViewer, Processes, process, events, shared, bounds
<1>4. CASE CloseKill(t)
  <2>1. Moved
    BY <1>1, <1>2, <1>4, GotoPlaces DEF CloseKill, TypeOK, Closing
  <2>2. /\ alive' \subseteq alive
        /\ alive' \cup dying' = alive \cup dying
        /\ alive \cap dying = {} => alive' \cap dying' = {}
    BY <1>4 DEF CloseKill
  <2>3. UNCHANGED <<link, made, exited, events, shared, queue, open, disturbed, bounds>>
    BY <1>4 DEF CloseKill
  <2>4. QED
    BY <2>1, <2>2, <2>3 DEF Inductive, TypeOK, OneViewer, Processes, events, shared, bounds
<1>5. CASE CloseNull(t)
  <2>1. queue' \in 0 .. MaxQueue /\ open' \in BOOLEAN /\ myProcess' = 0 /\ 0 \in 0 .. made
    <3>1. queue \in 0 .. MaxQueue /\ open \in BOOLEAN /\ 0 \in 0 .. made /\ 0 \in 0 .. MaxQueue
      BY <1>1, BoundsAssumption DEF TypeOK
    <3>2. UNCHANGED <<open, queue>> \/ (open' = FALSE /\ queue' = 0)
      BY <1>5 DEF CloseNull
    <3>3. QED
      BY <1>5, <3>1, <3>2 DEF CloseNull
  <2>2. /\ pc' \in [{"form", "timer"} -> Places]
        /\ pc'["form"] = pc["form"] \/ pc'["form"] \in {"new", "ended"}
        /\ pc'["form"] = "new" =>
              pc["form"] = "new" \/ (pc["form"] = "null" /\ job = "start")
    BY <1>1, <1>2, <1>5, GotoPlaces DEF CloseNull
  <2>3. UNCHANGED <<link, process, events, connected, job, disturbed, bounds>>
    BY <1>5 DEF CloseNull
  <2>4. QED
    BY <2>1, <2>2, <2>3
       DEF Inductive, TypeOK, OneViewer, Processes, process, events, bounds, Closing
<1>6. QED
  BY <1>3, <1>4, <1>5

LEMMA TimerInductive ==
    ASSUME Inductive, TimerStep
    PROVE  Inductive'
<1>1. TypeOK
  BY DEF Inductive
<1>2. {"idle", "probing", "test"} \subseteq Places
  BY DEF Places, Closing
<1>3. CASE Tick
  BY <1>1, <1>2, <1>3, GotoPlaces
     DEF Tick, Inductive, TypeOK, OneViewer, Processes, process, events, shared, bounds
<1>4. ASSUME NEW outcome, Probe(outcome) PROVE Inductive'
  <2>1. queue' \in 0 .. MaxQueue /\ disturbed' \in BOOLEAN
    <3>1. CASE queue' = queue + 1 /\ queue < MaxQueue /\ disturbed' = (disturbed \/ Starting)
      BY <1>1, <3>1, BoundsAssumption DEF TypeOK
    <3>2. CASE queue' = queue /\ disturbed' = (disturbed \/ Starting)
      BY <1>1, <3>2 DEF TypeOK
    <3>3. CASE queue' = queue /\ disturbed' = disturbed
      BY <1>1, <3>3 DEF TypeOK
    <3>4. QED
      BY <1>4, <3>1, <3>2, <3>3, Zenon DEF Probe
  <2>2. pc' \in [{"form", "timer"} -> Places] /\ pc'["form"] = pc["form"]
    BY <1>1, <1>2, <1>4, GotoPlaces DEF Probe
  <2>3. UNCHANGED <<link, process, events, shared, job, open, bounds>>
    BY <1>4 DEF Probe
  <2>4. QED
    BY <2>1, <2>2, <2>3
       DEF Inductive, TypeOK, OneViewer, Processes, process, events, shared, bounds
<1>5. QED
  BY <1>3, <1>4, CloseInductive DEF TimerStep

LEMMA FormInductive ==
    ASSUME Inductive, FormStep \/ OnClosing
    PROVE  Inductive'
<1>1. TypeOK
  BY DEF Inductive
<1>2. {"idle", "killAll", "test", "new", "start", "inputIdle", "raise", "watch", "window",
       "connect"} \subseteq Places
  BY DEF Places, Closing
<1>3. CASE StartProcess
  <2>1. queue' \in 0 .. MaxQueue
    BY <1>1, <1>3, BoundsAssumption DEF StartProcess, TypeOK
  <2>2. pc' \in [{"form", "timer"} -> Places] /\ pc'["form"] = "killAll"
    BY <1>1, <1>2, <1>3, GotoPlaces DEF StartProcess
  <2>3. QED
    BY <1>3, <2>1, <2>2 DEF StartProcess, Inductive, TypeOK, OneViewer, Processes, process,
                            events, shared, bounds, Closing
<1>4. CASE KillProcess
  BY <1>1, <1>2, <1>4, GotoPlaces
     DEF KillProcess, Inductive, TypeOK, OneViewer, Processes, events, shared, bounds, Closing
<1>5. CASE NewProcess
  <2>1. /\ made' = made + 1 /\ made' \in 0 .. MaxProcesses
        /\ made' \notin Processes /\ Processes \subseteq Processes'
        /\ myProcess' = made' /\ myProcess' \in 0 .. made'
    BY <1>1, <1>5, BoundsAssumption DEF NewProcess, TypeOK, Processes
  <2>2. pc' \in [{"form", "timer"} -> Places] /\ pc'["form"] = "start" /\ alive = {}
    BY <1>1, <1>2, <1>5, GotoPlaces DEF NewProcess, Inductive
  <2>3. UNCHANGED <<link, alive, dying, exited, events, connected, queue, job, open,
                    disturbed, bounds>>
    BY <1>5 DEF NewProcess
  <2>4. QED
    BY <1>1, <2>1, <2>2, <2>3 DEF Inductive, TypeOK, OneViewer, events, bounds
<1>6. CASE Start
  <2>1. /\ pc' \in [{"form", "timer"} -> Places]
        /\ pc'["form"] \in {"idle", "inputIdle"}
        /\ job' \in {"none", "start", "close"}
    BY <1>1, <1>2, <1>6, GotoPlaces DEF Start, Use, TypeOK
  <2>2. /\ alive = {} /\ myProcess \in {0, made}
        /\ made \notin alive \cup dying \cup exited
    BY <1>6 DEF Start, Use, Inductive
  <2>3. alive' = {} \/ (alive' = {made} /\ made \in Processes)
    BY <1>1, <1>6, <2>2 DEF Start, TypeOK, Processes
  <2>4. UNCHANGED <<link, made, dying, exited, events, shared, queue, open, disturbed, bounds>>
    BY <1>6 DEF Start
  <2>5. TypeOK'
    <3>1. /\ Processes' = Processes
          /\ UNCHANGED <<made, dying, exited>>
      BY <2>4 DEF Processes
    <3>2. /\ alive' \subseteq Processes' /\ alive' \cap dying' = {}
          /\ (alive' \cup dying') \cap exited' = {}
      BY <1>1, <2>2, <2>3, <3>1 DEF TypeOK
    <3>3. QED
      BY <1>1, <2>1, <2>4, <3>1, <3>2 DEF TypeOK, events, shared, bounds
  <2>6. QED
    BY <2>1, <2>3, <2>5 DEF Inductive, OneViewer, Closing
<1>7. ASSUME UseRunning("inputIdle", "raise") \/ UseRunning("window", "connect")
      PROVE  Inductive'
  <2>1. /\ pc' \in [{"form", "timer"} -> Places]
        /\ pc'["form"] \in {"idle", "raise", "connect"}
        /\ job' \in {"none", "start", "close"}
    BY <1>1, <1>2, <1>7, GotoPlaces DEF UseRunning, TypeOK
  <2>2. UNCHANGED <<link, process, events, shared, queue, open, disturbed, bounds>>
    BY <1>7 DEF UseRunning
  <2>3. QED
    BY <2>1, <2>2
       DEF Inductive, TypeOK, OneViewer, Processes, process, events, shared, bounds, Closing
<1>8. CASE Watch
  <2>1. /\ pc' \in [{"form", "timer"} -> Places]
        /\ pc'["form"] \in {"idle", "watch", "window"}
        /\ job' \in {"none", "start", "close"}
    BY <1>1, <1>2, <1>8, GotoPlaces DEF Watch, Use, TypeOK
  <2>2. UNCHANGED <<link, process, raised, shared, queue, open, disturbed, bounds>>
    BY <1>8 DEF Watch
  <2>3. raising' \subseteq Processes /\ watched' \subseteq Processes
    <3>1. {myProcess} \ {0} \subseteq Processes
      BY <1>1 DEF TypeOK, Processes
    <3>2. raising \subseteq Processes /\ watched \subseteq Processes
      BY <1>1 DEF TypeOK
    <3>3. QED
      BY <1>8, <3>1, <3>2 DEF Watch
  <2>4. QED
    BY <1>1, <2>1, <2>2, <2>3
       DEF Inductive, TypeOK, OneViewer, Processes, process, shared, bounds, Closing
<1>9. CASE Connect
  BY <1>1, <1>2, <1>9, GotoPlaces
     DEF Connect, Inductive, TypeOK, OneViewer, Processes, process, events, bounds
<1>10. CASE OnClosing
  BY <1>1, <1>2, <1>10, GotoPlaces
     DEF OnClosing, Inductive, TypeOK, OneViewer, Processes, process, events, shared, bounds
<1>11. CASE KillMisses
  <2>1. /\ pc' \in [{"form", "timer"} -> Places] /\ pc'["form"] = "idle"
        /\ job' \in {"none", "start", "close"}
    BY <1>1, <1>2, <1>11, GotoPlaces DEF KillMisses, Throw
  <2>2. /\ quits' \in 0 .. MaxQuits /\ disturbed' \in BOOLEAN
        /\ UNCHANGED <<link, made, events, shared, queue, open, turns>>
    BY <1>1, <1>11, BoundsAssumption DEF KillMisses, TypeOK
  <2>3. PICK p \in alive : \E S \in SUBSET (alive \ {p}) :
              /\ alive' = alive \ (S \cup {p})
              /\ dying' = dying \cup S /\ exited' = exited \cup {p}
    BY <1>11 DEF KillMisses
  <2>4. PICK S \in SUBSET (alive \ {p}) :
              /\ alive' = alive \ (S \cup {p})
              /\ dying' = dying \cup S /\ exited' = exited \cup {p}
    BY <2>3
  <2>5. /\ alive' \subseteq Processes /\ dying' \subseteq Processes
        /\ exited' \subseteq Processes
        /\ alive' \cap dying' = {} /\ (alive' \cup dying') \cap exited' = {}
        /\ raised \subseteq exited' /\ alive' \subseteq alive
    BY <1>1, <2>4 DEF TypeOK
  <2>6. QED
    BY <1>1, <2>1, <2>2, <2>5
       DEF Inductive, TypeOK, OneViewer, Processes, events, shared, Closing
<1>12. CASE StartFails
  BY <1>1, <1>2, <1>12, GotoPlaces
     DEF StartFails, Inductive, TypeOK, OneViewer, Processes, process, events, shared, bounds,
         Closing
<1>13. QED
  BY <1>3, <1>4, <1>5, <1>6, <1>7, <1>8, <1>9, <1>10, <1>11, <1>12, CloseInductive DEF FormStep

LEMMA StepInductive == Inductive /\ [Next]_vars => Inductive'
<1> SUFFICES ASSUME Inductive, [Next]_vars PROVE Inductive'
  OBVIOUS
<1>1. CASE UNCHANGED vars
  BY <1>1 DEF vars, Inductive, TypeOK, OneViewer, Processes, process, events, shared, bounds
<1>2. CASE Next
  BY <1>2, ProcessesInductive, TimerInductive, FormInductive DEF Next
<1>3. QED
  BY <1>1, <1>2

-----------------------------------------------------------------------------
\* Every state of the program that embeds the viewer is well typed: no process is
\* both running and gone, and an exit is reported only of a process that exited.
THEOREM RemoteViewerTypes == Spec => []TypeOK
<1>1. Inductive => TypeOK
  BY DEF Inductive
<1>2. QED
  BY <1>1, InductiveInit, StepInductive, PTL DEF Spec

\* StartProcess leaves one viewer running at most, whatever the timer and the
\* exits of other viewers do meanwhile.
THEOREM AtMostOneViewer == Spec => []OneViewer
<1>1. Inductive => OneViewer
  BY DEF Inductive
<1>2. QED
  BY <1>1, InductiveInit, StepInductive, PTL DEF Spec

-----------------------------------------------------------------------------
(* The viewer that runs is known unless a start was disturbed. *)

LEMMA OnePlaceChanges ==
    ASSUME TypeOK, NEW t \in {"form", "timer"}, NEW place, Goto(t, place)
    PROVE  /\ pc'[t] = place
           /\ \A u \in {"form", "timer"} \ {t} : pc'[u] = pc[u]
BY DEF TypeOK, Goto

LEMMA ThrowChanges ==
    ASSUME TypeOK, NEW t \in {"form", "timer"}, Throw(t)
    PROVE  /\ pc'[t] = "idle"
           /\ \A u \in {"form", "timer"} \ {t} : pc'[u] = pc[u]
           /\ job' = IF t = "form" THEN "none" ELSE job
BY DEF TypeOK, Goto, Throw

LEMMA KnownInit == Init => KnownInductive
<1> SUFFICES ASSUME Init PROVE KnownInductive
  OBVIOUS
<1>1. Inductive
  BY InductiveInit
<1>2. pc["form"] = "idle" /\ pc["timer"] = "idle"
  BY DEF Init
<1>3. QED
  BY <1>1, <1>2 DEF Init, KnownInductive, Closing

LEMMA KnownProcesses ==
    ASSUME KnownInductive, Inductive',
           LinkChanges \/ \E p \in Processes : Quit(p) \/ Dies(p) \/ ProcessExited(p)
    PROVE  KnownInductive'
<1> DEFINE Fewer == /\ UNCHANGED <<pc, job, queue, open, myProcess>>
                    /\ alive' \subseteq alive /\ (~disturbed' => ~disturbed)
<1>1. Fewer
  <2>1. CASE LinkChanges
    BY <2>1 DEF LinkChanges, process, shared
  <2>2. ASSUME NEW p \in Processes, Quit(p) PROVE Fewer
    BY <2>2 DEF Quit, shared
  <2>3. ASSUME NEW p \in Processes, Dies(p) \/ ProcessExited(p) PROVE Fewer
    BY <2>3 DEF Dies, ProcessExited, process, shared
  <2>4. QED
    BY <2>1, <2>2, <2>3
<1>2. QED
  BY <1>1 DEF KnownInductive, Starting, Closing

\* CloseProcess: who comes to the assignment of null has killed the viewer, if it ran.
LEMMA KnownClose ==
    ASSUME KnownInductive, Inductive', NEW t \in {"form", "timer"},
           CloseTest(t) \/ CloseHasExited(t) \/ CloseKill(t) \/ CloseNull(t)
    PROVE  KnownInductive'
<1>1. TypeOK /\ Inductive
  BY DEF KnownInductive, Inductive
<1>2. PICK u \in {"form", "timer"} : u # t /\ {"form", "timer"} = {t, u}
  OBVIOUS
<1>3. CASE CloseTest(t) \/ CloseHasExited(t)
  <2>1. /\ pc[t] \in {"test", "hasExited"}
        /\ UNCHANGED <<alive, myProcess, queue, open, disturbed>>
        /\ pc'[u] = pc[u]
        /\ \/ pc'[t] = "null" /\ myProcess \notin alive /\ job' = job
           \/ pc'[t] \in {"hasExited", "kill"} /\ job' = job
           \/ pc'[t] = "idle" /\ job' \in {job, "none"} /\ (t = "timer" => job' = job)
    <3>1. CASE CloseTest(t)
      BY <1>1, <1>2, <3>1, OnePlaceChanges DEF CloseTest, TypeOK, Processes, process, shared
    <3>2. CASE CloseHasExited(t)
      BY <1>1, <1>2, <3>2, OnePlaceChanges, ThrowChanges
         DEF CloseHasExited, TypeOK, process, shared
    <3>3. QED
      BY <1>3, <3>1, <3>2
  <2>2. QED
    BY <1>1, <1>2, <2>1 DEF KnownInductive, Starting, Closing
<1>4. CASE CloseKill(t)
  <2>1. /\ pc[t] = "kill" /\ UNCHANGED <<myProcess, queue, open, disturbed>>
        /\ pc'[u] = pc[u] /\ alive' \subseteq alive
        /\ \/ pc'[t] = "null" /\ myProcess \notin alive' /\ job' = job
           \/ pc'[t] = "idle" /\ job' \in {job, "none"} /\ (t = "timer" => job' = job)
    BY <1>1, <1>2, <1>4, OnePlaceChanges, ThrowChanges DEF CloseKill, TypeOK, shared
  <2>2. QED
    BY <1>1, <1>2, <2>1 DEF KnownInductive, Starting, Closing
<1>5. CASE CloseNull(t)
  <2>1. /\ pc[t] = "null" /\ myProcess' = 0 /\ UNCHANGED <<alive, job, disturbed>>
        /\ pc'[u] = pc[u]
        /\ \/ pc'[t] = "idle" /\ UNCHANGED <<open, queue>>
           \/ pc'[t] = "new" /\ t = "form" /\ job = "start" /\ UNCHANGED <<open, queue>>
           \/ pc'[t] = "ended" /\ t = "form" /\ queue' = 0
    BY <1>1, <1>2, <1>5, OnePlaceChanges DEF CloseNull, TypeOK, process
  <2>2. ~disturbed => alive = {}
    BY <1>2, <2>1 DEF KnownInductive
  <2>3. queue' > 0 => queue > 0
    BY <2>1
  <2>4. QED
    BY <1>1, <1>2, <2>1, <2>2, <2>3 DEF KnownInductive, Starting, Closing
<1>6. QED
  BY <1>3, <1>4, <1>5

\* A probe that makes the timer close the viewer while a start is under way, or
\* queued, is what `disturbed' records.
LEMMA KnownTimer ==
    ASSUME KnownInductive, Inductive', TimerStep
    PROVE  KnownInductive'
<1>1. TypeOK /\ Inductive
  BY DEF KnownInductive, Inductive
<1>2. CASE Tick
  <2>1. /\ pc'["timer"] = "probing" /\ pc'["form"] = pc["form"]
        /\ UNCHANGED <<alive, myProcess, queue, job, open, disturbed>>
    BY <1>1, <1>2, OnePlaceChanges DEF Tick, process, shared
  <2>2. QED
    BY <1>1, <2>1 DEF KnownInductive, Starting, Closing
<1>3. ASSUME NEW outcome, Probe(outcome) PROVE KnownInductive'
  <2>1. /\ pc["timer"] = "probing" /\ pc'["form"] = pc["form"]
        /\ UNCHANGED <<alive, myProcess, job, open>>
        /\ \/ pc'["timer"] = "idle" /\ (disturbed' <=> disturbed \/ Starting)
           \/ /\ pc'["timer"] = "test" /\ (disturbed' <=> disturbed \/ Starting)
              /\ queue' = queue
           \/ pc'["timer"] = "idle" /\ UNCHANGED <<queue, disturbed>>
    <3>1. CASE /\ Goto("timer", "idle") /\ disturbed' = (disturbed \/ Starting)
      BY <1>1, <1>3, <3>1, OnePlaceChanges DEF Probe, process, shared
    <3>2. CASE Goto("timer", "test") /\ disturbed' = (disturbed \/ Starting) /\ queue' = queue
      BY <1>1, <1>3, <3>2, OnePlaceChanges DEF Probe, process, shared
    <3>3. CASE Goto("timer", "idle") /\ UNCHANGED <<queue, disturbed>>
      BY <1>1, <1>3, <3>3, OnePlaceChanges DEF Probe, process, shared
    <3>4. QED
      BY <1>3, <3>1, <3>2, <3>3, Zenon DEF Probe
  <2>2. QED
    BY <1>1, <2>1 DEF KnownInductive, Starting, Closing
<1>4. QED
  BY <1>2, <1>3, KnownClose DEF TimerStep

LEMMA KnownForm ==
    ASSUME KnownInductive, Inductive', FormStep \/ OnClosing, open
    PROVE  KnownInductive'
<1>1. TypeOK /\ Inductive
  BY DEF KnownInductive, Inductive
<1>2. CASE StartProcess
  <2>1. /\ pc'["form"] = "killAll" /\ pc'["timer"] = pc["timer"]
        /\ queue > 0 /\ job' = "start"
        /\ UNCHANGED <<alive, myProcess, open, disturbed>>
    BY <1>1, <1>2, OnePlaceChanges DEF StartProcess, process, shared
  <2>2. QED
    BY <1>1, <2>1 DEF KnownInductive, Starting, Closing
<1>3. CASE KillProcess
  <2>1. /\ pc["form"] = "killAll" /\ pc'["timer"] = pc["timer"]
        /\ pc'["form"] \in {"test", "idle"} /\ alive' \subseteq alive
        /\ UNCHANGED <<myProcess, queue, open, disturbed>>
    BY <1>1, <1>3, OnePlaceChanges, ThrowChanges DEF KillProcess, shared
  <2>2. job = "start" /\ (~disturbed => pc["timer"] \notin Closing)
    BY <2>1 DEF KnownInductive, Starting, Closing
  <2>3. QED
    BY <1>1, <2>1, <2>2 DEF KnownInductive, Starting, Closing
<1>4. CASE NewProcess
  <2>1. /\ pc["form"] = "new" /\ pc'["form"] = "start" /\ pc'["timer"] = pc["timer"]
        /\ UNCHANGED <<alive, queue, job, open, disturbed>>
    BY <1>1, <1>4, OnePlaceChanges DEF NewProcess
  <2>2. alive = {}
    BY <1>1, <2>1 DEF Inductive
  <2>3. QED
    BY <1>1, <2>1, <2>2 DEF KnownInductive, Starting, Closing
<1>5. CASE Start
  <2>1. /\ pc["form"] = "start" /\ pc'["timer"] = pc["timer"]
        /\ \/ pc'["form"] = "idle" /\ alive' = alive
           \/ pc'["form"] = "inputIdle" /\ alive' = alive \cup {myProcess} /\ job' = job
        /\ UNCHANGED <<myProcess, queue, open, disturbed>>
    BY <1>1, <1>5, OnePlaceChanges, ThrowChanges DEF Start, Use, shared
  <2>2. job = "start" /\ (~disturbed => pc["timer"] \notin Closing)
    BY <2>1 DEF KnownInductive, Starting, Closing
  <2>3. QED
    BY <1>1, <2>1, <2>2 DEF KnownInductive, Starting, Closing
<1>6. ASSUME UseRunning("inputIdle", "raise") \/ UseRunning("window", "connect") \/ Watch
      PROVE  KnownInductive'
  <2>1. /\ pc["form"] \in {"inputIdle", "window", "raise", "watch"}
        /\ pc'["timer"] = pc["timer"]
        /\ \/ pc'["form"] = "idle" /\ job' = "none"
           \/ pc'["form"] \in {"raise", "connect", "watch", "window"} /\ job' = job
        /\ UNCHANGED <<alive, myProcess, queue, open, disturbed>>
    BY <1>1, <1>6, OnePlaceChanges, ThrowChanges DEF UseRunning, Watch, Use, process, shared
  <2>2. QED
    BY <1>1, <2>1 DEF KnownInductive, Starting, Closing
<1>7. CASE Connect
  <2>1. /\ pc["form"] = "connect" /\ pc'["form"] = "idle" /\ pc'["timer"] = pc["timer"]
        /\ job' = "none" /\ UNCHANGED <<alive, myProcess, queue, open, disturbed>>
    BY <1>1, <1>7, OnePlaceChanges DEF Connect, process
  <2>2. QED
    BY <1>1, <2>1 DEF KnownInductive, Starting, Closing
<1>8. CASE OnClosing
  <2>1. /\ pc["form"] = "idle" /\ pc'["form"] = "test" /\ pc'["timer"] = pc["timer"]
        /\ job' = "close" /\ UNCHANGED <<alive, myProcess, queue, open, disturbed>>
    BY <1>1, <1>8, OnePlaceChanges DEF OnClosing, process, shared
  <2>2. QED
    BY <1>1, <2>1 DEF KnownInductive, Starting, Closing
<1>9. CASE KillMisses \/ StartFails
  <2>1. disturbed' /\ pc'["form"] = "idle"
    BY <1>1, <1>9, ThrowChanges DEF KillMisses, StartFails
  <2>2. QED
    BY <2>1 DEF KnownInductive
<1>10. QED
  BY <1>2, <1>3, <1>4, <1>5, <1>6, <1>7, <1>8, <1>9, KnownClose DEF FormStep

LEMMA KnownStep == KnownInductive /\ [Next]_vars => KnownInductive'
<1> SUFFICES ASSUME KnownInductive, [Next]_vars PROVE KnownInductive'
  OBVIOUS
<1>1. Inductive'
  BY StepInductive DEF KnownInductive
<1>2. CASE UNCHANGED vars
  BY <1>1, <1>2 DEF vars, KnownInductive, Starting, process, shared
<1>3. CASE Next
  BY <1>1, <1>3, KnownProcesses, KnownTimer, KnownForm DEF Next
<1>4. QED
  BY <1>2, <1>3

\* A form that closes leaves no viewer running, unless a tick or the exit of a viewer
\* met a start that was under way: whoever sets _MyProcess to null has killed it.
THEOREM NoViewerLeftHolds == Spec => []NoViewerLeft
<1>1. KnownInductive => NoViewerLeft
  BY DEF KnownInductive, NoViewerLeft
<1>2. QED
  BY <1>1, KnownInit, KnownStep, PTL DEF Spec
=============================================================================
