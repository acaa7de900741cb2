--------------------------- MODULE OmniCondition ---------------------------
(***************************************************************************)
(* The condition variable of winvnc (omnithread/nt.cpp): a list of waiting *)
(* threads, linked through the threads themselves, and a semaphore of each *)
(* thread.                                                                 *)
(*                                                                         *)
(* What runs inside the critical section `crit' is one action.  A thread   *)
(* may signal or broadcast whether or not it holds the mutex.              *)
(***************************************************************************)
EXTENDS Integers, FiniteSets, SequencesExt

CONSTANTS
    Threads,
    Kinds,       \* the kinds of wait the threads use, a subset of AllKinds
    None,        \* the null link
    MaxTokens    \* bound: a semaphore is not released above this count

\* "wait":        wait() with its default, INFINITE;
\* "waitTimeout": wait(milliseconds);
\* "timedwait":   timedwait(seconds, nanoseconds).
AllKinds == {"wait", "waitTimeout", "timedwait"}
ASSUME KindsAssumption == Kinds \subseteq AllKinds

ASSUME ThreadsAssumption == IsFiniteSet(Threads)
ASSUME NoneAssumption == None \notin Threads
ASSUME MaxTokensAssumption == MaxTokens \in Nat \ {0}

VARIABLES
    head, tail,  \* waiting_head, waiting_tail
    next, prev,  \* cond_next, cond_prev of each thread
    waiting,     \* cond_waiting of each thread
    sem,         \* the count of cond_semaphore of each thread
    pc,          \* where each thread is
    kind,        \* the kind of wait each thread is in
    result,      \* what its wait will return: was it signalled?
    owner        \* who holds the mutex of the condition variable

list == <<head, tail, next, prev, waiting>>
vars == <<head, tail, next, prev, waiting, sem, pc, kind, result, owner>>

\* Links that may be null.
Link == Threads \cup {None}

\* "idle": not in the condition variable; "holding": with the mutex locked;
\* "blocked": in WaitForSingleObject; "expired": it returned WAIT_TIMEOUT;
\* "resync": in the second WaitForSingleObject of timedwait; "relock": about
\* to lock the mutex again and return.
Places == {"idle", "holding", "blocked", "expired", "resync", "relock"}

TypeOK ==
    /\ head \in Link /\ tail \in Link
    /\ next \in [Threads -> Link] /\ prev \in [Threads -> Link]
    /\ waiting \in [Threads -> BOOLEAN]
    /\ sem \in [Threads -> 0 .. MaxTokens]
    /\ pc \in [Threads -> Places]
    /\ kind \in [Threads -> AllKinds]
    /\ result \in [Threads -> BOOLEAN]
    /\ owner \in Link

Init ==
    /\ head = None /\ tail = None
    /\ next = [t \in Threads |-> None] /\ prev = [t \in Threads |-> None]
    /\ waiting = [t \in Threads |-> FALSE]
    /\ sem = [t \in Threads |-> 0]
    /\ pc = [t \in Threads |-> "idle"]
    /\ kind = [t \in Threads |-> "wait"]
    /\ result = [t \in Threads |-> FALSE]
    /\ owner = None

-----------------------------------------------------------------------------
Goto(t, place) == pc' = [pc EXCEPT ![t] = place]

\* The user's own use of the mutex.
Lock(t) ==
    /\ pc[t] = "idle" /\ owner = None
    /\ owner' = t
    /\ Goto(t, "holding")
    /\ UNCHANGED <<list, sem, kind, result>>

Unlock(t) ==
    /\ pc[t] = "holding"
    /\ owner' = None
    /\ Goto(t, "idle")
    /\ UNCHANGED <<list, sem, kind, result>>

\* Faulty variant: the link to the next thread is left over from the wait before.
EnqueueKeepingNext(t, k) ==
    /\ pc[t] = "holding"
    /\ next' = IF head = None THEN next ELSE [next EXCEPT ![tail] = t]
    /\ prev' = [prev EXCEPT ![t] = tail]
    /\ head' = IF head = None THEN t ELSE head
    /\ tail' = t
    /\ waiting' = [waiting EXCEPT ![t] = TRUE]
    /\ kind' = [kind EXCEPT ![t] = k]
    /\ owner' = None
    /\ Goto(t, "blocked")
    /\ UNCHANGED <<sem, result>>

\* The thread links itself at the end of the list and unlocks the mutex.
Enqueue(t, k) ==
    /\ pc[t] = "holding"
    /\ next' = IF head = None THEN [next EXCEPT ![t] = None]
               ELSE [next EXCEPT ![t] = None, ![tail] = t]
    /\ prev' = [prev EXCEPT ![t] = tail]
    /\ head' = IF head = None THEN t ELSE head
    /\ tail' = t
    /\ waiting' = [waiting EXCEPT ![t] = TRUE]
    /\ kind' = [kind EXCEPT ![t] = k]
    /\ owner' = None
    /\ Goto(t, "blocked")
    /\ UNCHANGED <<sem, result>>

\* WaitForSingleObject takes the semaphore...
TakeSemaphore(t) ==
    /\ pc[t] \in {"blocked", "resync"}
    /\ sem[t] > 0
    /\ sem' = [sem EXCEPT ![t] = @ - 1]
    /\ result' = [result EXCEPT ![t] = TRUE]
    /\ Goto(t, "relock")
    /\ UNCHANGED <<list, kind, owner>>

\* ...or gives up.
Expire(t) ==
    /\ pc[t] = "blocked" /\ sem[t] = 0
    /\ kind[t] # "wait"
    /\ Goto(t, "expired")
    /\ UNCHANGED <<list, sem, kind, result, owner>>

\* wait(milliseconds) after a timeout.
ReturnFromTimeout(t) ==
    /\ pc[t] = "expired" /\ kind[t] = "waitTimeout"
    /\ result' = [result EXCEPT ![t] = FALSE]
    /\ Goto(t, "relock")
    /\ UNCHANGED <<list, sem, kind, owner>>

\* Faulty variant: the end of the list is not corrected.
UnlinkKeepingTail(t) ==
    /\ pc[t] = "expired" /\ kind[t] = "timedwait"
    /\ waiting[t]
    /\ next' = IF prev[t] = None THEN next ELSE [next EXCEPT ![prev[t]] = next[t]]
    /\ head' = IF prev[t] = None THEN next[t] ELSE head
    /\ prev' = IF next[t] = None THEN prev ELSE [prev EXCEPT ![next[t]] = prev[t]]
    /\ tail' = IF head' = None THEN None ELSE tail
    /\ waiting' = [waiting EXCEPT ![t] = FALSE]
    /\ result' = [result EXCEPT ![t] = FALSE]
    /\ Goto(t, "relock")
    /\ UNCHANGED <<sem, kind, owner>>

\* timedwait after a timeout: the thread takes itself off the list...
Unlink(t) ==
    /\ pc[t] = "expired" /\ kind[t] = "timedwait"
    /\ waiting[t]
    /\ next' = IF prev[t] = None THEN next ELSE [next EXCEPT ![prev[t]] = next[t]]
    /\ head' = IF prev[t] = None THEN next[t] ELSE head
    /\ prev' = IF next[t] = None THEN prev ELSE [prev EXCEPT ![next[t]] = prev[t]]
    /\ tail' = IF next[t] = None THEN prev[t] ELSE tail
    /\ waiting' = [waiting EXCEPT ![t] = FALSE]
    /\ result' = [result EXCEPT ![t] = FALSE]
    /\ Goto(t, "relock")
    /\ UNCHANGED <<sem, kind, owner>>

\* Faulty variants: it returns at once; it takes the semaphore, but says that
\* it timed out.
ResyncSkipped(t) ==
    /\ pc[t] = "expired" /\ kind[t] = "timedwait"
    /\ ~waiting[t]
    /\ result' = [result EXCEPT ![t] = TRUE]
    /\ Goto(t, "relock")
    /\ UNCHANGED <<list, sem, kind, owner>>

ResyncAsTimeout(t) ==
    /\ pc[t] = "expired" /\ kind[t] = "timedwait"
    /\ ~waiting[t] /\ sem[t] > 0
    /\ sem' = [sem EXCEPT ![t] = @ - 1]
    /\ result' = [result EXCEPT ![t] = FALSE]
    /\ Goto(t, "relock")
    /\ UNCHANGED <<list, kind, owner>>

\* ...unless it was signalled in the meantime: it must take the semaphore.
Resync(t) ==
    /\ pc[t] = "expired" /\ kind[t] = "timedwait"
    /\ ~waiting[t]
    /\ Goto(t, "resync")
    /\ UNCHANGED <<list, sem, kind, result, owner>>

\* The mutex is locked again before any kind of wait returns.
Relock(t) ==
    /\ pc[t] = "relock" /\ owner = None
    /\ owner' = t
    /\ Goto(t, "holding")
    /\ UNCHANGED <<list, sem, kind, result>>

-----------------------------------------------------------------------------
\* omni_condition::signal.
Signal ==
    /\ head # None
    /\ sem[head] < MaxTokens
    /\ head' = next[head]
    /\ tail' = IF next[head] = None THEN None ELSE tail
    /\ prev' = IF next[head] = None THEN prev ELSE [prev EXCEPT ![next[head]] = None]
    /\ waiting' = [waiting EXCEPT ![head] = FALSE]
    /\ sem' = [sem EXCEPT ![head] = @ + 1]
    /\ UNCHANGED <<next, pc, kind, result, owner>>

\* s is what following the links from the first thread comes to.  A thread that is
\* linked to itself ends the list.
Follows(s, first, link) ==
    /\ first = None <=> s = <<>>
    /\ \A i \in DOMAIN s :
          /\ i = 1 => s[i] = first
          /\ i > 1 => s[i] = link[s[i - 1]] /\ s[i] # s[i - 1]
          /\ i = Len(s) => link[s[i]] \in {None, s[i]} \/ i = Cardinality(Threads)

Chain(first, link) ==
    CHOOSE s \in SeqOf(Threads, Cardinality(Threads)) : Follows(s, first, link)

\* The threads on the list.
OnList == Chain(head, next)

InList == {OnList[i] : i \in DOMAIN OnList}

\* omni_condition::broadcast.
Broadcast ==
    /\ head # None
    /\ \A t \in InList : sem[t] < MaxTokens
    /\ head' = None /\ tail' = None
    /\ prev' = [t \in Threads |-> IF t \in InList \ {head} THEN None ELSE prev[t]]
    /\ waiting' = [t \in Threads |-> waiting[t] /\ t \notin InList]
    /\ sem' = [t \in Threads |-> IF t \in InList THEN sem[t] + 1 ELSE sem[t]]
    /\ UNCHANGED <<next, pc, kind, result, owner>>

Next ==
    \/ Signal
    \/ Broadcast
    \/ \E t \in Threads :
          \/ Lock(t) \/ Unlock(t)
          \/ \E k \in Kinds : Enqueue(t, k)
          \/ TakeSemaphore(t) \/ Expire(t)
          \/ ReturnFromTimeout(t) \/ Unlink(t) \/ Resync(t)
          \/ Relock(t)

Spec == Init /\ [][Next]_vars

-----------------------------------------------------------------------------
\* The two ways of reading the list agree: forwards from the head it holds
\* exactly the threads that are marked waiting, and backwards it is the same
\* list.
ListIntact ==
    /\ TypeOK
    /\ \A t \in Threads : waiting[t] <=> t \in InList
    /\ \A i \in DOMAIN OnList :
          prev[OnList[i]] = IF i = 1 THEN None ELSE OnList[i - 1]
    /\ tail = IF OnList = <<>> THEN None ELSE OnList[Len(OnList)]

\* The links of the list s: no thread is on it twice, each link forwards has its link
\* backwards, and who is on it is marked.
Linked(s) ==
    /\ IsInjective(s)
    /\ head = IF s = <<>> THEN None ELSE s[1]
    /\ tail = IF s = <<>> THEN None ELSE s[Len(s)]
    /\ \A i \in DOMAIN s :
          /\ next[s[i]] = IF i = Len(s) THEN None ELSE s[i + 1]
          /\ prev[s[i]] = IF i = 1 THEN None ELSE s[i - 1]
    /\ \A t \in Threads : waiting[t] <=> \E i \in DOMAIN s : s[i] = t

\* A thread in a wait is on the list or has its token, and never both.
TokenOrPlace ==
    \A t \in Threads :
        /\ pc[t] \in {"idle", "holding", "relock"} => sem[t] = 0 /\ ~waiting[t]
        /\ pc[t] \in {"blocked", "expired"} => sem[t] = IF waiting[t] THEN 0 ELSE 1
        /\ pc[t] = "resync" => sem[t] = 1 /\ ~waiting[t]
        /\ pc[t] = "expired" => kind[t] = "timedwait"
        /\ kind[t] # "waitTimeout"

\* What every step keeps as long as nobody waits with wait(milliseconds).
Inductive ==
    /\ TypeOK
    /\ OnList \in Seq(Threads) /\ Linked(OnList)
    /\ TokenOrPlace

\* "actually only needs to be a binary semaphore", and outside of a wait it is
\* not "out of step": a thread that is not waiting holds no token, so that its
\* next wait does not return before it is signalled.
SemaphoreInStep ==
    \A t \in Threads :
        /\ sem[t] <= 1
        /\ pc[t] \in {"idle", "holding", "relock"} => sem[t] = 0
        /\ sem[t] = 1 => ~waiting[t]

\* "Broadcast is simply implemented by kicking the semaphore of each waiting
\* thread": after a broadcast no thread is left blocked.
BroadcastReachesAll ==
    [][Broadcast => \A t \in Threads : pc[t] = "blocked" => sem'[t] > 0]_vars

\* A wait(milliseconds) that times out leaves its thread on the list, and its next
\* wait links it once more.  However torn the list is by then, broadcast comes to an
\* end on it: at a null link or at a thread linked to itself, the only loop it knows
\* how to leave.
BroadcastEnds ==
    OnList # <<>> => LET last == OnList[Len(OnList)] IN next[last] \in {None, last}

-----------------------------------------------------------------------------
\* What the threads have of their waits, as Condition sees it.
Outcome ==
    [t \in Threads |->
        CASE pc[t] \in {"idle", "holding"} -> "none"
          [] pc[t] = "relock" /\ result[t] -> "signalled"
          [] pc[t] = "relock" /\ ~result[t] -> "timeout"
          [] OTHER -> IF waiting[t] THEN "waiting" ELSE "signalled"]

Promise == INSTANCE Condition WITH queue <- OnList, outcome <- Outcome

\* Timed or not, the waits do what users of a condition variable rely on.
KeepsPromise == Promise!Spec
=============================================================================
