------------------------- MODULE OmniConditionProofs -------------------------
(***************************************************************************)
(* Proofs about OmniCondition: the list of waiting threads stays linked in  *)
(* both directions, a semaphore has a token exactly when its thread was     *)
(* signalled and has not noticed yet, and the waits are those of Condition. *)
(***************************************************************************)
EXTENDS OmniCondition, ListLemmas

\* Nobody waits with wait(milliseconds), which leaves a thread that timed out on the
\* list: so m_clientquitsig and m_returnsig are used, but not m_signal and m_sync_sig.
TimedOrEndless == "waitTimeout" \notin Kinds

USE ThreadsAssumption, NoneAssumption, MaxTokensAssumption, KindsAssumption

-----------------------------------------------------------------------------
\* A list without repetition is no longer than there are threads.
LEMMA NoLongerThanThreads ==
    ASSUME NEW s \in Seq(Threads), IsInjective(s)
    PROVE  Len(s) \in Nat /\ Cardinality(Threads) \in Nat /\ Len(s) <= Cardinality(Threads)
<1>1. Len(s) \in Nat /\ s \in [1 .. Len(s) -> Threads]
  BY LenProperties
<1>2. s \in Injection(1 .. Len(s), Threads)
  BY <1>1 DEF Injection
<1>3. Cardinality(1 .. Len(s)) <= Cardinality(Threads)
  BY <1>2, FS_Injection
<1>4. Cardinality(1 .. Len(s)) = Len(s)
  BY <1>1, FS_Interval, SMTT(30)
<1>5. Cardinality(Threads) \in Nat
  BY FS_CardinalityType
<1>6. QED
  BY <1>1, <1>3, <1>4, <1>5

\* Following the links of a list that ends in None finds the list.
LEMMA ChainIs ==
    ASSUME NEW s \in Seq(Threads), NEW first, NEW link,
           IsInjective(s),
           first = IF s = <<>> THEN None ELSE s[1],
           \A i \in DOMAIN s : link[s[i]] = IF i = Len(s) THEN None ELSE s[i + 1]
    PROVE  Chain(first, link) = s
<1>1. /\ Len(s) \in Nat /\ DOMAIN s = 1 .. Len(s) /\ s \in [1 .. Len(s) -> Threads]
      /\ Cardinality(Threads) \in Nat /\ Len(s) <= Cardinality(Threads)
      /\ s = <<>> <=> Len(s) = 0
  BY NoLongerThanThreads, LenProperties, EmptySeq
<1>2. s \in SeqOf(Threads, Cardinality(Threads))
  BY <1>1 DEF SeqOf
<1>3. \A i, j \in 1 .. Len(s) : s[i] = s[j] => i = j
  BY <1>1 DEF IsInjective
<1>4. Follows(s, first, link)
  <2>1. first = None <=> s = <<>>
    BY <1>1
  <2>2. ASSUME NEW i \in 1 .. Len(s)
        PROVE  /\ i = 1 => s[i] = first
               /\ i > 1 => s[i] = link[s[i - 1]] /\ s[i] # s[i - 1]
               /\ i = Len(s) => link[s[i]] \in {None, s[i]}
    <3>1. i = 1 => s[i] = first
      BY <1>1
    <3>2. ASSUME i > 1 PROVE s[i] = link[s[i - 1]] /\ s[i] # s[i - 1]
      <4>1. i - 1 \in 1 .. Len(s) /\ i - 1 # Len(s) /\ (i - 1) + 1 = i /\ i - 1 # i
        BY <1>1, <3>2
      <4>2. QED
        BY <1>1, <1>3, <4>1
    <3>3. i = Len(s) => link[s[i]] \in {None, s[i]}
      BY <1>1
    <3>4. QED
      BY <3>1, <3>2, <3>3
  <2>3. QED
    BY <1>1, <2>1, <2>2 DEF Follows
<1>5. ASSUME NEW z \in SeqOf(Threads, Cardinality(Threads)), Follows(z, first, link)
      PROVE  z = s
  <2>1. PICK m \in Nat : z \in [1 .. m -> Threads]
    BY <1>1 DEF SeqOf
  <2>2. /\ DOMAIN z = 1 .. m /\ Len(z) = m /\ z \in Seq(Threads)
        /\ z = <<>> <=> m = 0
    BY <2>1, LenProperties, EmptySeq
  <2>3. /\ first = None <=> m = 0
        /\ \A i \in 1 .. m :
              /\ i = 1 => z[i] = first
              /\ i > 1 => z[i] = link[z[i - 1]]
              /\ i = m => link[z[i]] \in {None, z[i]} \/ i = Cardinality(Threads)
    BY <1>5, <2>2 DEF Follows
  <2> DEFINE D == {i \in 1 .. m : ~(i <= Len(s) /\ z[i] = s[i])}
  <2>4. D = {}
    <3> SUFFICES ASSUME D # {} PROVE FALSE
      OBVIOUS
    <3>1. D \in SUBSET Nat
      BY <2>1
    <3>2. PICK i \in D : \A j \in D : i <= j
      BY <3>1, LeastNatural
    <3>3. i \in 1 .. m /\ ~(i <= Len(s) /\ z[i] = s[i])
      BY <3>2
    <3>4. CASE i = 1
      <4>1. z[1] = first /\ m # 0
        BY <2>1, <2>3, <3>3, <3>4
      <4>2. Len(s) # 0 /\ s[1] = first
        BY <1>1, <2>3, <4>1
      <4>3. QED
        BY <1>1, <3>3, <3>4, <4>1, <4>2
    <3>5. CASE i > 1
      <4>1. i - 1 \in 1 .. m /\ i - 1 \notin D
        BY <2>1, <3>2, <3>3, <3>5
      <4>2. i - 1 \in 1 .. Len(s) /\ z[i - 1] = s[i - 1]
        BY <1>1, <2>1, <4>1
      <4>3. z[i] = link[s[i - 1]] /\ z[i] # None
        BY <2>1, <2>3, <3>3, <3>5, <4>2
      <4>4. i - 1 # Len(s) /\ z[i] = s[(i - 1) + 1]
        BY <1>1, <4>2, <4>3
      <4>5. QED
        BY <1>1, <2>1, <3>3, <4>2, <4>4
    <3>6. QED
      BY <2>1, <3>3, <3>4, <3>5
  <2>5. \A i \in 1 .. m : i <= Len(s) /\ z[i] = s[i]
    BY <2>4
  <2>6. m = Len(s)
    <3>1. CASE m = 0
      BY <1>1, <2>3, <3>1
    <3>2. CASE m # 0
      <4>1. m \in 1 .. m /\ m <= Len(s) /\ z[m] = s[m]
        BY <2>1, <2>5, <3>2
      <4>2. link[s[m]] \in {None, s[m]} \/ m = Cardinality(Threads)
        BY <2>3, <4>1
      <4>3. m # Len(s) => link[s[m]] = s[m + 1] /\ s[m + 1] # None /\ s[m + 1] # s[m]
        BY <1>1, <1>3, <2>1, <4>1
      <4>4. QED
        BY <1>1, <2>1, <4>1, <4>2, <4>3
    <3>3. QED
      BY <3>1, <3>2
  <2>7. QED
    BY <1>1, <2>1, <2>5, <2>6
<1>6. QED
  BY <1>2, <1>4, <1>5 DEF Chain

LEMMA InductiveInit == Init => Inductive
<1> SUFFICES ASSUME Init PROVE Inductive
  OBVIOUS
<1>1. TypeOK
  <2>1. waiting \in [Threads -> BOOLEAN] /\ result \in [Threads -> BOOLEAN]
    BY Zenon DEF Init
  <2>2. QED
    BY <2>1 DEF Init, TypeOK, Link, Places, AllKinds
<1>2. <<>> \in Seq(Threads) /\ IsInjective(<<>>)
  BY EmptySeq DEF IsInjective
<1>3. OnList = <<>>
  <2>1. <<>> \in Seq(Threads) /\ DOMAIN <<>> = {}
    BY EmptySeq
  <2>2. Chain(None, next) = <<>>
    BY <1>2, <2>1, ChainIs
  <2>3. QED
    BY <2>2 DEF Init, OnList
<1>4. Linked(<<>>)
  BY <1>2, EmptySeq DEF Init, Linked
<1>5. TokenOrPlace
  BY DEF Init, TokenOrPlace
<1>6. QED
  BY <1>1, <1>2, <1>3, <1>4, <1>5 DEF Inductive

-----------------------------------------------------------------------------
(* What the operations do to the list. *)

\* A step that links the list s is a step to s.
LEMMA ListBecomes ==
    ASSUME NEW s \in Seq(Threads), Linked(s)'
    PROVE  OnList' = s /\ Linked(OnList)'
<1>1. /\ IsInjective(s) /\ head' = IF s = <<>> THEN None ELSE s[1]
      /\ \A i \in DOMAIN s : next'[s[i]] = IF i = Len(s) THEN None ELSE s[i + 1]
  BY DEF Linked
<1>2. Chain(head', next') = s
  BY <1>1, ChainIs
<1>3. OnList' = s
  BY <1>2 DEF OnList
<1>4. QED
  BY <1>3 DEF Linked

LEMMA ListFacts ==
    ASSUME Inductive
    PROVE  /\ OnList \in Seq(Threads) /\ Len(OnList) \in Nat
           /\ DOMAIN OnList = 1 .. Len(OnList)
           /\ \A i \in 1 .. Len(OnList) : OnList[i] \in Threads
           /\ OnList = <<>> <=> Len(OnList) = 0
           /\ \A i, j \in 1 .. Len(OnList) : OnList[i] = OnList[j] => i = j
BY LenProperties, EmptySeq, ElementOfSeq DEF Inductive, Linked, IsInjective

LEMMA ListUnchanged ==
    ASSUME Inductive, UNCHANGED list
    PROVE  OnList' = OnList /\ Linked(OnList)'
BY DEF Inductive, Linked, list, OnList

\* The thread is appended.
LEMMA ListAppended ==
    ASSUME Inductive, NEW t \in Threads, NEW k \in Kinds, Enqueue(t, k)
    PROVE  /\ Append(OnList, t) \in Seq(Threads)
           /\ OnList' = Append(OnList, t) /\ Linked(OnList)'
<1>1. PICK s \in Seq(Threads) : s = OnList
  BY DEF Inductive
<1> DEFINE u == Append(s, t)
<1>2. /\ Len(s) \in Nat /\ DOMAIN s = 1 .. Len(s) /\ (s = <<>> <=> Len(s) = 0)
      /\ \A i \in 1 .. Len(s) : s[i] \in Threads
      /\ \A i, j \in 1 .. Len(s) : s[i] = s[j] => i = j
  BY <1>1, ListFacts
<1>3. /\ u \in Seq(Threads) /\ Len(u) = Len(s) + 1 /\ DOMAIN u = 1 .. Len(s) + 1
      /\ \A i \in 1 .. Len(s) : u[i] = s[i]
      /\ u[Len(s) + 1] = t /\ u # <<>>
  BY <1>2, AppendProperties, LenProperties, EmptySeq
<1>4. Linked(s) /\ TypeOK
  BY <1>1 DEF Inductive
<1>5. ~waiting[t] /\ \A i \in 1 .. Len(s) : s[i] # t
  BY <1>2, <1>4 DEF Inductive, TokenOrPlace, Enqueue, Linked
<1>6. /\ next' = IF head = None THEN [next EXCEPT ![t] = None]
                 ELSE [next EXCEPT ![t] = None, ![tail] = t]
      /\ prev' = [prev EXCEPT ![t] = tail]
      /\ head' = IF head = None THEN t ELSE head
      /\ tail' = t
      /\ waiting' = [waiting EXCEPT ![t] = TRUE]
  BY DEF Enqueue
<1> HIDE DEF u
<1>7. /\ head = IF Len(s) = 0 THEN None ELSE s[1]
      /\ tail = IF Len(s) = 0 THEN None ELSE s[Len(s)]
      /\ \A i \in 1 .. Len(s) : next[s[i]] = IF i = Len(s) THEN None ELSE s[i + 1]
      /\ \A i \in 1 .. Len(s) : prev[s[i]] = IF i = 1 THEN None ELSE s[i - 1]
      /\ \A d \in Threads : waiting[d] <=> \E i \in 1 .. Len(s) : s[i] = d
  BY <1>2, <1>4 DEF Linked
<1>14. /\ Len(s) = 0 => head = None /\ tail = None
       /\ Len(s) # 0 => /\ 1 \in 1 .. Len(s) /\ head = s[1] /\ head \in Threads
                        /\ Len(s) \in 1 .. Len(s) /\ tail = s[Len(s)]
                        /\ tail \in Threads /\ tail # t
  <2>1. Len(s) # 0 => 1 \in 1 .. Len(s) /\ Len(s) \in 1 .. Len(s)
    BY <1>2
  <2>2. QED
    BY <1>2, <1>5, <1>7, <2>1
<1>8. IsInjective(u)
  BY <1>2, <1>3, <1>5 DEF IsInjective
<1>9. head' = u[1] /\ tail' = u[Len(u)]
  <2>1. CASE Len(s) = 0
    BY <1>3, <1>6, <1>14, <2>1
  <2>2. CASE Len(s) # 0
    <3>1. u[1] = s[1] /\ head # None
      BY <1>2, <1>3, <1>14, <2>2
    <3>2. QED
      BY <1>3, <1>6, <1>14, <2>2, <3>1
  <2>3. QED
    BY <2>1, <2>2
<1>10. ASSUME NEW i \in 1 .. Len(s) + 1
       PROVE  /\ next'[u[i]] = IF i = Len(s) + 1 THEN None ELSE u[i + 1]
              /\ prev'[u[i]] = IF i = 1 THEN None ELSE u[i - 1]
  <2>1. CASE i = Len(s) + 1
    <3>1. u[i] = t /\ tail # t
      BY <1>3, <1>14, <2>1
    <3>2. next'[t] = None /\ prev'[t] = tail
      BY <1>4, <1>6, <3>1 DEF TypeOK
    <3>3. tail = IF i = 1 THEN None ELSE u[i - 1]
      <4>1. i - 1 = Len(s)
        BY <1>2, <2>1
      <4>2. QED
        BY <1>2, <1>3, <1>14, <2>1, <4>1
    <3>4. QED
      BY <2>1, <3>1, <3>2, <3>3
  <2>2. CASE i # Len(s) + 1
    <3>0. i \in 1 .. Len(s) /\ Len(s) # 0
      BY <1>2, <2>2
    <3>1. /\ i \in 1 .. Len(s) /\ u[i] = s[i] /\ s[i] \in Threads /\ s[i] # t
          /\ head # None /\ tail \in Threads /\ tail # t
      BY <1>2, <1>3, <1>5, <1>14, <3>0
    <3>2. prev'[s[i]] = prev[s[i]] /\ next'[s[i]] = IF s[i] = tail THEN t ELSE next[s[i]]
      BY <1>4, <1>6, <3>1 DEF TypeOK
    <3>3. s[i] = tail <=> i = Len(s)
      BY <1>2, <1>14, <3>0
    <3>4. next'[s[i]] = u[i + 1]
      <4>1. CASE i = Len(s)
        BY <1>3, <3>2, <3>3, <4>1
      <4>2. CASE i # Len(s)
        <5>1. i + 1 \in 1 .. Len(s)
          <6>1. Len(s) \in Nat
            BY <1>2
          <6>2. QED
            BY <3>0, <4>2, <6>1
        <5>2. QED
          BY <1>3, <1>7, <3>1, <3>2, <3>3, <4>2, <5>1
      <4>3. QED
        BY <4>1, <4>2
    <3>5. prev'[s[i]] = IF i = 1 THEN None ELSE u[i - 1]
      <4>1. i # 1 => i - 1 \in 1 .. Len(s)
        BY <1>2, <3>0
      <4>2. QED
        BY <1>3, <1>7, <3>1, <3>2, <4>1, ZenonT(60)
    <3>6. QED
      BY <2>2, <3>1, <3>4, <3>5
  <2>3. QED
    BY <2>1, <2>2
<1>11. \A d \in Threads : waiting'[d] <=> \E i \in 1 .. Len(s) + 1 : u[i] = d
  <2>1. ASSUME NEW d \in Threads, d # t
        PROVE  waiting'[d] <=> \E i \in 1 .. Len(s) + 1 : u[i] = d
    <3>1. waiting'[d] <=> \E i \in 1 .. Len(s) : s[i] = d
      BY <1>4, <1>6, <1>7, <2>1 DEF TypeOK
    <3>2. QED
      BY <1>2, <1>3, <2>1, <3>1
  <2>2. waiting'[t] /\ Len(s) + 1 \in 1 .. Len(s) + 1 /\ u[Len(s) + 1] = t
    BY <1>2, <1>3, <1>4, <1>6 DEF TypeOK
  <2>3. QED
    BY <2>1, <2>2
<1>12. Linked(u)'
  BY <1>3, <1>8, <1>9, <1>10, <1>11 DEF Linked
<1>13. OnList' = u /\ Linked(OnList)'
  BY <1>3, <1>12, ListBecomes
<1>15. QED
  BY <1>1, <1>3, <1>12, <1>13 DEF u

\* The thread t is taken out, wherever it is, and nobody's mark but its own changes.
TakenOut(t) ==
    /\ next' = IF prev[t] = None THEN next ELSE [next EXCEPT ![prev[t]] = next[t]]
    /\ head' = IF prev[t] = None THEN next[t] ELSE head
    /\ prev' = IF next[t] = None THEN prev ELSE [prev EXCEPT ![next[t]] = prev[t]]
    /\ tail' = IF next[t] = None THEN prev[t] ELSE tail
    /\ waiting' = [waiting EXCEPT ![t] = FALSE]

LEMMA ListTakenOut ==
    ASSUME Inductive, NEW i \in 1 .. Len(OnList), TakenOut(OnList[i])
    PROVE  /\ RemoveAt(OnList, i) \in Seq(Threads)
           /\ OnList' = RemoveAt(OnList, i) /\ Linked(OnList)'
<1>1. PICK s \in Seq(Threads) : s = OnList
  BY DEF Inductive
<1>2. PICK n \in Nat : n = Len(s)
  BY <1>1, ListFacts
<1> DEFINE u == RemoveAt(s, i)
           t == s[i]
<1>3. i \in 1 .. n /\ n \in Nat
  BY <1>1, <1>2
<1>4. /\ DOMAIN s = 1 .. n
      /\ \A j \in 1 .. n : s[j] \in Threads /\ s[j] # None
      /\ \A j, k \in 1 .. n : s[j] = s[k] => j = k
  BY <1>1, <1>2, ListFacts
<1>5. /\ u \in Seq(Threads) /\ Len(u) = n - 1 /\ DOMAIN u = 1 .. n - 1
      /\ u = <<>> <=> n = 1
      /\ \A j \in 1 .. n - 1 : u[j] = IF j < i THEN s[j] ELSE s[j + 1]
  <2>1. /\ u \in Seq(Threads) /\ Len(u) = n - 1
        /\ \A j \in 1 .. n - 1 : u[j] = IF j < i THEN s[j] ELSE s[j + 1]
    <3>1. i \in 1 .. Len(s)
      BY <1>2, <1>3
    <3>2. QED
      BY <1>2, <3>1, RemoveAtProperties
  <2>2. DOMAIN u = 1 .. n - 1 /\ (u = <<>> <=> n - 1 = 0)
    BY <2>1, LenProperties, EmptySeq
  <2>3. n - 1 = 0 <=> n = 1
    BY <1>3
  <2>4. QED
    BY <2>1, <2>2, <2>3
<1> HIDE DEF u
<1>6. /\ head = s[1] /\ tail = s[n]
      /\ \A j \in 1 .. n : next[s[j]] = IF j = n THEN None ELSE s[j + 1]
      /\ \A j \in 1 .. n : prev[s[j]] = IF j = 1 THEN None ELSE s[j - 1]
      /\ \A d \in Threads : waiting[d] <=> \E j \in 1 .. n : s[j] = d
  <2>1. Linked(s) /\ Len(s) = n /\ s # <<>>
    BY <1>1, <1>2, <1>3, EmptySeq DEF Inductive
  <2>2. QED
    BY <1>4, <2>1 DEF Linked
<1>7. /\ next \in [Threads -> Link] /\ prev \in [Threads -> Link]
      /\ waiting \in [Threads -> BOOLEAN] /\ t \in Threads
  BY <1>3, <1>4 DEF Inductive, TypeOK
<1>8. /\ next' = IF i = 1 THEN next ELSE [next EXCEPT ![s[i - 1]] = next[t]]
      /\ head' = IF i = 1 THEN next[t] ELSE head
      /\ prev' = IF i = n THEN prev ELSE [prev EXCEPT ![s[i + 1]] = prev[t]]
      /\ tail' = IF i = n THEN prev[t] ELSE tail
      /\ waiting' = [waiting EXCEPT ![t] = FALSE]
      /\ next[t] = (IF i = n THEN None ELSE s[i + 1])
      /\ prev[t] = (IF i = 1 THEN None ELSE s[i - 1])
  <2>1. TakenOut(t)
    BY <1>1
  <2>2. /\ next[t] = (IF i = n THEN None ELSE s[i + 1])
        /\ prev[t] = (IF i = 1 THEN None ELSE s[i - 1])
    BY <1>3, <1>6
  <2>3. i # n => i + 1 \in 1 .. n
    BY <1>3
  <2>4. i # 1 => i - 1 \in 1 .. n
    BY <1>3
  <2>5. /\ next[t] = None <=> i = n
        /\ prev[t] = None <=> i = 1
    BY <1>4, <2>2, <2>3, <2>4
  <2>6. QED
    BY <2>1, <2>2, <2>5 DEF TakenOut
<1> HIDE DEF t
<1>9. ASSUME NEW k \in 1 .. n, k # i
      PROVE  next'[s[k]] = IF k = i - 1 THEN next[t] ELSE next[s[k]]
  <2>1. CASE i = 1
    <3>1. k # i - 1
      BY <2>1
    <3>2. QED
      BY <1>8, <2>1, <3>1
  <2>2. CASE i # 1
    <3>1. i - 1 \in 1 .. n
      BY <1>3, <2>2
    <3>2. s[k] \in Threads /\ (s[k] = s[i - 1] <=> k = i - 1)
      BY <1>4, <3>1
    <3>3. next' = [next EXCEPT ![s[i - 1]] = next[t]]
      BY <1>8, <2>2
    <3>4. QED
      BY <1>7, <3>2, <3>3
  <2>3. QED
    BY <2>1, <2>2
<1>10. ASSUME NEW k \in 1 .. n, k # i
       PROVE  prev'[s[k]] = IF k = i + 1 THEN prev[t] ELSE prev[s[k]]
  <2>1. CASE i = n
    <3>1. k # i + 1
      BY <1>3, <2>1
    <3>2. QED
      BY <1>8, <2>1, <3>1
  <2>2. CASE i # n
    <3>1. i + 1 \in 1 .. n
      BY <1>3, <2>2
    <3>2. s[k] \in Threads /\ (s[k] = s[i + 1] <=> k = i + 1)
      BY <1>4, <3>1
    <3>3. prev' = [prev EXCEPT ![s[i + 1]] = prev[t]]
      BY <1>8, <2>2
    <3>4. QED
      BY <1>7, <3>2, <3>3
  <2>3. QED
    BY <2>1, <2>2
<1>11. ASSUME NEW j \in 1 .. n - 1
       PROVE  /\ next'[u[j]] = IF j = n - 1 THEN None ELSE u[j + 1]
              /\ prev'[u[j]] = IF j = 1 THEN None ELSE u[j - 1]
  <2>1. j \in 1 .. n /\ j + 1 \in 1 .. n /\ (j # 1 => j - 1 \in 1 .. n - 1)
        /\ (j # n - 1 => j + 1 \in 1 .. n - 1 /\ (j + 1) + 1 \in 1 .. n)
    BY <1>3
  <2>2. CASE j < i
    <3>1. u[j] = s[j] /\ j # i /\ j # i + 1
      BY <1>3, <1>5, <2>2
    <3>2. prev'[u[j]] = IF j = 1 THEN None ELSE s[j - 1]
      BY <1>6, <1>10, <2>1, <3>1
    <3>3. j # 1 => u[j - 1] = s[j - 1]
      BY <1>3, <1>5, <2>1, <2>2
    <3>4. CASE j = i - 1
      <4>1. next'[u[j]] = IF i = n THEN None ELSE s[i + 1]
        BY <1>8, <1>9, <2>1, <3>1, <3>4
      <4>2. (i = n <=> j = n - 1) /\ j + 1 = i /\ ~(j + 1 < i)
        BY <1>3, <3>4
      <4>3. j # n - 1 => u[j + 1] = s[i + 1]
        BY <1>5, <2>1, <4>2
      <4>4. QED
        BY <3>2, <3>3, <4>1, <4>2, <4>3
    <3>5. CASE j # i - 1
      <4>1. j # n /\ j # n - 1 /\ j + 1 < i
        BY <1>3, <2>2, <3>5
      <4>2. next'[u[j]] = s[j + 1]
        BY <1>6, <1>9, <2>1, <3>1, <3>5, <4>1
      <4>3. u[j + 1] = s[j + 1]
        BY <1>5, <2>1, <4>1
      <4>4. QED
        BY <3>2, <3>3, <4>1, <4>2, <4>3
    <3>6. QED
      BY <3>4, <3>5
  <2>3. CASE ~(j < i)
    <3>1. u[j] = s[j + 1] /\ j + 1 # i /\ j + 1 # i - 1 /\ j + 1 # 1
      BY <1>3, <1>5, <2>3
    <3>2. next'[u[j]] = IF j = n - 1 THEN None ELSE s[(j + 1) + 1]
      <4>1. j = n - 1 <=> j + 1 = n
        BY <1>3
      <4>2. QED
        BY <1>6, <1>9, <2>1, <3>1, <4>1
    <3>3. j # n - 1 => u[j + 1] = s[(j + 1) + 1]
      <4>1. ~(j + 1 < i)
        BY <1>3, <2>3
      <4>2. QED
        BY <1>5, <2>1, <4>1
    <3>4. CASE j = i
      <4>1. prev'[u[j]] = IF i = 1 THEN None ELSE s[i - 1]
        BY <1>8, <1>10, <2>1, <3>1, <3>4
      <4>2. j # 1 => j - 1 < i /\ u[j - 1] = s[j - 1]
        BY <1>3, <1>5, <2>1, <3>4
      <4>3. QED
        BY <3>2, <3>3, <3>4, <4>1, <4>2
    <3>5. CASE j # i
      <4>1. j + 1 # i + 1 /\ j # 1 /\ ~(j - 1 < i) /\ (j + 1) - 1 = j /\ (j - 1) + 1 = j
        BY <1>3, <2>3, <3>5
      <4>2. prev'[u[j]] = s[j]
        <5>1. prev'[s[j + 1]] = prev[s[j + 1]]
          BY <1>10, <2>1, <3>1, <4>1
        <5>2. prev[s[j + 1]] = s[(j + 1) - 1]
          BY <1>6, <2>1, <3>1
        <5>3. QED
          BY <3>1, <4>1, <5>1, <5>2
      <4>3. u[j - 1] = s[j]
        BY <1>5, <2>1, <4>1
      <4>4. QED
        BY <3>2, <3>3, <4>1, <4>2, <4>3
    <3>6. QED
      BY <3>4, <3>5
  <2>4. QED
    BY <2>2, <2>3
<1>12. IsInjective(u)
  <2>1. ASSUME NEW j \in 1 .. n - 1, NEW k \in 1 .. n - 1, u[j] = u[k]
        PROVE  j = k
    <3>1. j \in 1 .. n /\ j + 1 \in 1 .. n /\ k \in 1 .. n /\ k + 1 \in 1 .. n
      BY <1>3
    <3>2. /\ u[j] = IF j < i THEN s[j] ELSE s[j + 1]
          /\ u[k] = IF k < i THEN s[k] ELSE s[k + 1]
      BY <1>5
    <3>3. (IF j < i THEN j ELSE j + 1) = (IF k < i THEN k ELSE k + 1)
      BY <1>4, <2>1, <3>1, <3>2
    <3>4. QED
      BY <1>3, <3>3
  <2>2. QED
    BY <1>5, <2>1 DEF IsInjective
<1>13. /\ head' = IF n = 1 THEN None ELSE u[1]
       /\ tail' = IF n = 1 THEN None ELSE u[n - 1]
  <2>1. CASE n = 1
    BY <1>3, <1>8, <2>1
  <2>2. CASE n # 1
    <3>1. 1 \in 1 .. n - 1 /\ n - 1 \in 1 .. n - 1 /\ (n - 1) + 1 = n
      BY <1>3, <2>2
    <3>2. u[1] = (IF 1 < i THEN s[1] ELSE s[1 + 1]) /\ u[n - 1] = (IF n - 1 < i THEN s[n - 1] ELSE s[n])
      BY <1>5, <3>1
    <3>3. head' = u[1]
      <4>1. CASE i = 1
        <5>1. i + 1 = 1 + 1 /\ ~(1 < i)
          BY <4>1
        <5>2. QED
          BY <1>8, <2>2, <3>2, <4>1, <5>1
      <4>2. CASE i # 1
        <5>1. 1 < i
          BY <1>3, <4>2
        <5>2. QED
          BY <1>6, <1>8, <3>2, <4>2, <5>1
      <4>3. QED
        BY <4>1, <4>2
    <3>4. tail' = u[n - 1]
      <4>1. CASE i = n
        <5>1. n - 1 < i
          BY <1>3, <4>1
        <5>2. QED
          BY <1>8, <2>2, <3>2, <4>1, <5>1
      <4>2. CASE i # n
        <5>1. ~(n - 1 < i)
          BY <1>3, <4>2
        <5>2. QED
          BY <1>6, <1>8, <3>2, <4>2, <5>1
      <4>3. QED
        BY <4>1, <4>2
    <3>5. QED
      BY <2>2, <3>3, <3>4
  <2>3. QED
    BY <2>1, <2>2
<1>14. ASSUME NEW d \in Threads
       PROVE  waiting'[d] <=> \E j \in 1 .. n - 1 : u[j] = d
  <2>1. waiting'[d] <=> d # t /\ \E k \in 1 .. n : s[k] = d
    BY <1>6, <1>7, <1>8
  <2>2. ASSUME NEW j \in 1 .. n - 1, u[j] = d
        PROVE  d # t /\ \E k \in 1 .. n : s[k] = d
    <3>1. j \in 1 .. n /\ j + 1 \in 1 .. n
      BY <1>3
    <3>2. PICK k \in 1 .. n : s[k] = d /\ k # i
      <4>1. CASE j < i
        <5>1. s[j] = d /\ j # i
          BY <1>3, <1>5, <2>2, <4>1
        <5>2. QED
          BY <3>1, <5>1
      <4>2. CASE ~(j < i)
        <5>1. s[j + 1] = d /\ j + 1 # i
          BY <1>3, <1>5, <2>2, <4>2
        <5>2. QED
          BY <3>1, <5>1
      <4>3. QED
        BY <4>1, <4>2
    <3>3. QED
      BY <1>3, <1>4, <3>2 DEF t
  <2>3. ASSUME NEW k \in 1 .. n, s[k] = d, d # t
        PROVE  \E j \in 1 .. n - 1 : u[j] = d
    <3>1. k # i
      BY <2>3 DEF t
    <3>2. CASE k < i
      <4>1. k \in 1 .. n - 1
        BY <1>3, <3>2
      <4>2. QED
        BY <1>5, <2>3, <3>2, <4>1
    <3>3. CASE i < k
      <4>1. k - 1 \in 1 .. n - 1 /\ ~(k - 1 < i) /\ (k - 1) + 1 = k
        BY <1>3, <3>3
      <4>2. QED
        BY <1>5, <2>3, <4>1
    <3>4. QED
      BY <1>3, <3>1, <3>2, <3>3
  <2>4. QED
    BY <2>1, <2>2, <2>3
<1>15. Linked(u)'
  BY <1>5, <1>11, <1>12, <1>13, <1>14, ZenonT(60) DEF Linked
<1>16. OnList' = u /\ Linked(OnList)'
  BY <1>5, <1>15, ListBecomes
<1>17. QED
  BY <1>1, <1>5, <1>16 DEF u

\* Who is on the list, and the list when nobody is.
LEMMA InListIs ==
    ASSUME Inductive
    PROVE  /\ \A t \in Threads : waiting[t] <=> t \in InList
           /\ \A t \in Threads : waiting[t] => \E i \in 1 .. Len(OnList) : OnList[i] = t
           /\ InList \subseteq Threads
           /\ head = None <=> OnList = <<>>
<1>1. Linked(OnList) /\ DOMAIN OnList = 1 .. Len(OnList)
      /\ \A i \in 1 .. Len(OnList) : OnList[i] \in Threads
  BY ListFacts DEF Inductive
<1>2. /\ \A t \in Threads : waiting[t] <=> t \in InList
      /\ InList \subseteq Threads
      /\ \A t \in Threads : waiting[t] => \E i \in 1 .. Len(OnList) : OnList[i] = t
  BY <1>1 DEF InList, Linked
<1>3. head = None <=> OnList = <<>>
  <2>1. OnList # <<>> => OnList[1] \in Threads
    BY <1>1, RemoveAtHead DEF Inductive
  <2>2. QED
    BY <1>1, <2>1 DEF Linked
<1>4. QED
  BY <1>2, <1>3

-----------------------------------------------------------------------------
(* The steps keep the invariant. *)

\* Steps that leave the list alone.
LEMMA OffListInductive ==
    ASSUME Inductive, NEW t \in Threads,
           Lock(t) \/ Unlock(t) \/ TakeSemaphore(t) \/ Expire(t) \/ Resync(t) \/ Relock(t)
    PROVE  Inductive'
<1>1. TypeOK /\ TokenOrPlace
  BY DEF Inductive
<1>2. UNCHANGED list /\ UNCHANGED kind
  BY DEF Lock, Unlock, TakeSemaphore, Expire, Resync, Relock, list
<1>3. /\ waiting' = waiting /\ head' = head /\ tail' = tail
      /\ next' = next /\ prev' = prev /\ kind' = kind
  BY <1>2 DEF list
<1>4. OnList' \in Seq(Threads) /\ Linked(OnList)'
  BY <1>2, ListUnchanged, ListFacts
<1>5. result' \in [Threads -> BOOLEAN]
  <2>1. result \in [Threads -> BOOLEAN]
    BY <1>1 DEF TypeOK
  <2>2. CASE TakeSemaphore(t)
    BY <2>1, <2>2, Zenon DEF TakeSemaphore
  <2>3. CASE ~TakeSemaphore(t)
    BY <2>1, <2>3 DEF Lock, Unlock, Expire, Resync, Relock
  <2>4. QED
    BY <2>2, <2>3
<1>6. CASE TakeSemaphore(t)
  <2>1. /\ pc[t] \in {"blocked", "resync"} /\ sem[t] = 1
        /\ sem' = [sem EXCEPT ![t] = 0] /\ pc' = [pc EXCEPT ![t] = "relock"]
        /\ owner' = owner
    <3>1. pc[t] \in {"blocked", "resync"} /\ sem[t] > 0
      BY <1>6 DEF TakeSemaphore
    <3>2. sem[t] = 1
      BY <1>1, <3>1 DEF TokenOrPlace
    <3>3. 1 - 1 = 0
      OBVIOUS
    <3>4. QED
      BY <1>6, <3>1, <3>2, <3>3 DEF TakeSemaphore, Goto
  <2>2. TypeOK'
    BY <1>1, <1>3, <1>5, <2>1 DEF TypeOK, Places
  <2>3. TokenOrPlace'
    BY <1>1, <1>3, <2>1 DEF TypeOK, TokenOrPlace
  <2>4. QED
    BY <1>4, <2>2, <2>3 DEF Inductive
<1>7. CASE ~TakeSemaphore(t)
  <2>1. /\ sem' = sem /\ owner' \in Link
        /\ \/ pc[t] = "idle" /\ pc' = [pc EXCEPT ![t] = "holding"]
           \/ pc[t] = "holding" /\ pc' = [pc EXCEPT ![t] = "idle"]
           \/ pc[t] = "blocked" /\ kind[t] # "wait" /\ pc' = [pc EXCEPT ![t] = "expired"]
           \/ pc[t] = "expired" /\ ~waiting[t] /\ pc' = [pc EXCEPT ![t] = "resync"]
           \/ pc[t] = "relock" /\ pc' = [pc EXCEPT ![t] = "holding"]
    BY <1>1, <1>7 DEF Lock, Unlock, Expire, Resync, Relock, Goto, TypeOK, Link
  <2>2. TypeOK'
    BY <1>1, <1>3, <1>5, <2>1 DEF TypeOK, Places
  <2>3. TokenOrPlace'
    BY <1>1, <1>3, <2>1 DEF TypeOK, TokenOrPlace, AllKinds
  <2>4. QED
    BY <1>4, <2>2, <2>3 DEF Inductive
<1>8. QED
  BY <1>6, <1>7

LEMMA EnqueueInductive ==
    ASSUME Inductive, TimedOrEndless, NEW t \in Threads, NEW k \in Kinds, Enqueue(t, k)
    PROVE  Inductive'
<1>1. TypeOK /\ TokenOrPlace
  BY DEF Inductive
<1>2. /\ pc[t] = "holding" /\ pc' = [pc EXCEPT ![t] = "blocked"]
      /\ kind' = [kind EXCEPT ![t] = k] /\ sem' = sem /\ owner' = None
      /\ waiting' = [waiting EXCEPT ![t] = TRUE]
  BY DEF Enqueue, Goto
<1>3. OnList' \in Seq(Threads) /\ Linked(OnList)'
  BY ListAppended
<1>4. waiting' \in [Threads -> BOOLEAN] /\ result' \in [Threads -> BOOLEAN]
  BY <1>1, Zenon DEF TypeOK, Enqueue
<1>5. /\ head' \in Link /\ tail' \in Link /\ prev' \in [Threads -> Link]
      /\ next' \in [Threads -> Link]
  BY <1>1 DEF TypeOK, Enqueue, Link
<1>6. TypeOK'
  BY <1>1, <1>2, <1>4, <1>5 DEF TypeOK, Places, Link
<1>7. TokenOrPlace'
  BY <1>1, <1>2 DEF TypeOK, TokenOrPlace, TimedOrEndless
<1>8. QED
  BY <1>3, <1>6, <1>7 DEF Inductive

\* Whoever takes itself off the list was on it, and has no token.
LEMMA UnlinkInductive ==
    ASSUME Inductive, NEW t \in Threads, Unlink(t)
    PROVE  /\ Inductive'
           /\ \E i \in 1 .. Len(OnList) : OnList[i] = t /\ OnList' = RemoveAt(OnList, i)
<1>1. TypeOK /\ TokenOrPlace
  BY DEF Inductive
<1>2. /\ pc[t] = "expired" /\ waiting[t] /\ TakenOut(t)
      /\ pc' = [pc EXCEPT ![t] = "relock"] /\ UNCHANGED <<sem, kind, owner>>
      /\ waiting' = [waiting EXCEPT ![t] = FALSE]
  BY DEF Unlink, TakenOut, Goto
<1>3. PICK i \in 1 .. Len(OnList) : OnList[i] = t
  BY <1>2, InListIs
<1>4. OnList' = RemoveAt(OnList, i) /\ OnList' \in Seq(Threads) /\ Linked(OnList)'
  BY <1>2, <1>3, ListTakenOut
<1>5. waiting' \in [Threads -> BOOLEAN] /\ result' \in [Threads -> BOOLEAN]
  BY <1>1, Zenon DEF TypeOK, Unlink
<1>6. /\ head' \in Link /\ tail' \in Link /\ prev' \in [Threads -> Link]
      /\ next' \in [Threads -> Link]
  BY <1>1, <1>2 DEF TypeOK, TakenOut, Link
<1>7. TypeOK'
  BY <1>1, <1>2, <1>5, <1>6 DEF TypeOK, Places
<1>8. TokenOrPlace'
  BY <1>1, <1>2 DEF TypeOK, TokenOrPlace
<1>9. Inductive'
  BY <1>4, <1>7, <1>8 DEF Inductive
<1>10. QED
  BY <1>3, <1>4, <1>9

\* signal gives its token to the first thread of the list.
LEMMA SignalInductive ==
    ASSUME Inductive, Signal
    PROVE  /\ Inductive'
           /\ OnList # <<>> /\ head = Head(OnList) /\ OnList' = Tail(OnList)
           /\ head \in Threads /\ waiting[head] /\ ~waiting'[head]
<1>1. TypeOK /\ TokenOrPlace /\ Linked(OnList) /\ OnList \in Seq(Threads)
  BY DEF Inductive
<1>2. /\ head # None /\ UNCHANGED <<pc, kind, result, owner>>
      /\ waiting' = [waiting EXCEPT ![head] = FALSE]
      /\ sem' = [sem EXCEPT ![head] = @ + 1]
  BY DEF Signal
<1>3. /\ OnList # <<>> /\ 1 \in 1 .. Len(OnList) /\ OnList[1] = head
      /\ Head(OnList) = head /\ RemoveAt(OnList, 1) = Tail(OnList)
  BY <1>1, <1>2, InListIs, RemoveAtHead DEF Linked
<1>4. head \in Threads /\ prev[head] = None /\ waiting[head]
  <2>1. /\ prev[OnList[1]] = None /\ OnList[1] \in Threads
        /\ \E i \in DOMAIN OnList : OnList[i] = OnList[1]
    BY <1>1, <1>3, ListFacts DEF Linked
  <2>2. QED
    BY <1>1, <1>3, <2>1 DEF Linked
<1>5. TakenOut(head)
  BY <1>4 DEF Signal, TakenOut
<1>6. OnList' = Tail(OnList) /\ OnList' \in Seq(Threads) /\ Linked(OnList)'
  BY <1>3, <1>5, ListTakenOut
<1>7. waiting' \in [Threads -> BOOLEAN]
  BY <1>1, <1>2, Zenon DEF TypeOK
<1>8. /\ head' \in Link /\ tail' \in Link /\ prev' \in [Threads -> Link]
      /\ next' \in [Threads -> Link]
  BY <1>1, <1>4, <1>5 DEF TypeOK, TakenOut, Link
<1>9. sem[head] = 0 /\ pc[head] \in {"blocked", "expired"}
  BY <1>1, <1>4 DEF TypeOK, TokenOrPlace, Places
<1>10. TypeOK'
  BY <1>1, <1>2, <1>4, <1>7, <1>8, <1>9 DEF TypeOK
<1>11. TokenOrPlace'
  BY <1>1, <1>2, <1>4, <1>9 DEF TypeOK, TokenOrPlace
<1>12. ~waiting'[head] /\ Inductive'
  BY <1>1, <1>2, <1>4, <1>6, <1>10, <1>11 DEF Inductive, TypeOK
<1>13. QED
  BY <1>3, <1>4, <1>6, <1>12

\* broadcast gives one to every thread of the list.
LEMMA BroadcastInductive ==
    ASSUME Inductive, Broadcast
    PROVE  /\ Inductive'
           /\ OnList # <<>> /\ OnList' = <<>>
           /\ \A t \in Threads : ~waiting'[t] /\ (waiting[t] => sem'[t] = 1)
           /\ \A t \in Threads : ~waiting[t] => sem'[t] = sem[t]
<1>1. TypeOK /\ TokenOrPlace
  BY DEF Inductive
<1>2. /\ head # None /\ head' = None /\ tail' = None
      /\ UNCHANGED <<next, pc, kind, result, owner>>
      /\ waiting' = [t \in Threads |-> waiting[t] /\ t \notin InList]
      /\ sem' = [t \in Threads |-> IF t \in InList THEN sem[t] + 1 ELSE sem[t]]
  BY DEF Broadcast
<1>3. \A t \in Threads : ~waiting'[t]
  <2>1. ASSUME NEW t \in Threads PROVE ~waiting'[t]
    <3>1. waiting'[t] <=> waiting[t] /\ t \notin InList
      BY <1>2, Zenon
    <3>2. QED
      BY <3>1, InListIs
  <2>2. QED
    BY <2>1
<1>4. \A t \in Threads : sem'[t] = IF waiting[t] THEN 1 ELSE sem[t]
  <2>1. ASSUME NEW t \in Threads PROVE sem'[t] = IF waiting[t] THEN 1 ELSE sem[t]
    <3>1. sem'[t] = IF waiting[t] THEN sem[t] + 1 ELSE sem[t]
      BY <1>2, InListIs
    <3>2. waiting[t] => sem[t] = 0
      BY <1>1 DEF TypeOK, TokenOrPlace, Places
    <3>3. QED
      BY <3>1, <3>2
  <2>2. QED
    BY <2>1
<1>5. waiting' \in [Threads -> BOOLEAN]
  BY <1>2, Zenon
<1>6. prev' \in [Threads -> Link]
  BY <1>1 DEF Broadcast, TypeOK, Link
<1>7. sem' \in [Threads -> 0 .. MaxTokens]
  <2>1. \A t \in Threads : sem'[t] \in 0 .. MaxTokens
    BY <1>1, <1>4 DEF TypeOK
  <2>2. QED
    BY <1>2, <2>1
<1>8. TypeOK'
  BY <1>1, <1>2, <1>5, <1>6, <1>7 DEF TypeOK, Link
<1>9. TokenOrPlace'
  BY <1>1, <1>2, <1>3, <1>4 DEF TypeOK, TokenOrPlace
<1>10. <<>> \in Seq(Threads) /\ Linked(<<>>)'
  BY <1>2, <1>3, EmptySeq DEF Linked, IsInjective
<1>11. OnList' = <<>> /\ Linked(OnList)'
  BY <1>10, ListBecomes
<1>12. QED
  BY <1>2, <1>3, <1>4, <1>8, <1>9, <1>10, <1>11, InListIs DEF Inductive

LEMMA InductiveStep == Inductive /\ TimedOrEndless /\ [Next]_vars => Inductive'
<1> SUFFICES ASSUME Inductive, TimedOrEndless, [Next]_vars PROVE Inductive'
  OBVIOUS
<1>1. CASE UNCHANGED vars
  <2>1. OnList' = OnList /\ Linked(OnList)'
    BY <1>1, ListUnchanged DEF vars, list
  <2>2. TypeOK' /\ TokenOrPlace'
    BY <1>1 DEF Inductive, TypeOK, TokenOrPlace, vars
  <2>3. QED
    BY <2>1, <2>2, ListFacts DEF Inductive
<1>2. CASE Signal
  BY <1>2, SignalInductive
<1>3. CASE Broadcast
  BY <1>3, BroadcastInductive
<1>4. ASSUME NEW t \in Threads, NEW k \in Kinds, Enqueue(t, k) PROVE Inductive'
  BY <1>4, EnqueueInductive
<1>5. ASSUME NEW t \in Threads, ReturnFromTimeout(t) PROVE FALSE
  BY <1>5 DEF Inductive, TokenOrPlace, ReturnFromTimeout
<1>6. ASSUME NEW t \in Threads, Unlink(t) PROVE Inductive'
  BY <1>6, UnlinkInductive
<1>7. ASSUME NEW t \in Threads,
             Lock(t) \/ Unlock(t) \/ TakeSemaphore(t) \/ Expire(t) \/ Resync(t) \/ Relock(t)
      PROVE  Inductive'
  BY <1>7, OffListInductive
<1>8. QED
  BY <1>1, <1>2, <1>3, <1>4, <1>5, <1>6, <1>7 DEF Next

\* As long as nobody waits with wait(milliseconds), the list and the semaphores of
\* nt.cpp are what Inductive says, for any number of threads.
THEOREM InductiveHolds == TimedOrEndless /\ Spec => []Inductive
<1>1. ASSUME TimedOrEndless PROVE Spec => []Inductive
  <2>1. Inductive /\ [Next]_vars => Inductive'
    BY <1>1, InductiveStep
  <2>2. QED
    BY <2>1, InductiveInit, PTL DEF Spec
<1>2. QED
  BY <1>1

-----------------------------------------------------------------------------
(* What a user relies on. *)

\* The list of waiting threads reads the same forwards and backwards, from
\* waiting_head and from waiting_tail, and holds the threads marked cond_waiting:
\* signals and timeouts in any order never tear it.
THEOREM ListIntactHolds == TimedOrEndless /\ Spec => []ListIntact
<1>1. ASSUME Inductive PROVE ListIntact
  BY <1>1, InListIs, ListFacts DEF Inductive, Linked, ListIntact
<1>2. Inductive => ListIntact
  BY <1>1
<1>3. QED
  BY <1>2, InductiveHolds, PTL

\* The semaphore of a thread is binary and in step: outside of a wait it has no token,
\* so that the next wait does not return before it is signalled.
THEOREM SemaphoreInStepHolds == TimedOrEndless /\ Spec => []SemaphoreInStep
<1>1. Inductive => SemaphoreInStep
  BY DEF Inductive, TypeOK, Places, TokenOrPlace, SemaphoreInStep
<1>2. QED
  BY <1>1, InductiveHolds, PTL

\* A broadcast leaves no thread blocked without a token.
THEOREM BroadcastReachesAllHolds == TimedOrEndless /\ Spec => BroadcastReachesAll
<1>1. ASSUME Inductive, [Next]_vars
      PROVE  [Broadcast => \A t \in Threads : pc[t] = "blocked" => sem'[t] > 0]_vars
  <2>1. ASSUME Broadcast, NEW t \in Threads, pc[t] = "blocked" PROVE sem'[t] > 0
    <3>1. CASE waiting[t]
      BY <2>1, <3>1, <1>1, BroadcastInductive
    <3>2. CASE ~waiting[t]
      <4>1. sem'[t] = sem[t] /\ sem[t] = 1
        BY <2>1, <3>2, <1>1, BroadcastInductive DEF Inductive, TokenOrPlace
      <4>2. QED
        BY <4>1
    <3>3. QED
      BY <3>1, <3>2
  <2>2. QED
    BY <2>1
<1>2. Inductive /\ [Next]_vars
        => [Broadcast => \A t \in Threads : pc[t] = "blocked" => sem'[t] > 0]_vars
  BY <1>1
<1>3. QED
  BY <1>2, InductiveHolds, PTL DEF Spec, BroadcastReachesAll

-----------------------------------------------------------------------------
(* The steps are steps of Condition. *)

\* What a thread at p has of its wait.
OutcomeAt(p, r, w) ==
    CASE p \in {"idle", "holding"} -> "none"
      [] p = "relock" /\ r -> "signalled"
      [] p = "relock" /\ ~r -> "timeout"
      [] OTHER -> IF w THEN "waiting" ELSE "signalled"

LEMMA OutcomeAtIs ==
    ASSUME NEW p, NEW r \in BOOLEAN, NEW w \in BOOLEAN
    PROVE  /\ p \in {"idle", "holding"} => OutcomeAt(p, r, w) = "none"
           /\ p = "relock" /\ r => OutcomeAt(p, r, w) = "signalled"
           /\ p = "relock" /\ ~r => OutcomeAt(p, r, w) = "timeout"
           /\ p \in {"blocked", "expired", "resync"} /\ w => OutcomeAt(p, r, w) = "waiting"
           /\ p \in {"blocked", "expired", "resync"} /\ ~w => OutcomeAt(p, r, w) = "signalled"
<1>1. p \in {"idle", "holding"} => OutcomeAt(p, r, w) = "none"
  BY DEF OutcomeAt
<1>2. /\ p = "relock" /\ r => OutcomeAt(p, r, w) = "signalled"
      /\ p = "relock" /\ ~r => OutcomeAt(p, r, w) = "timeout"
  BY DEF OutcomeAt
<1>3. p \in {"blocked", "expired", "resync"}
        => OutcomeAt(p, r, w) = IF w THEN "waiting" ELSE "signalled"
  BY DEF OutcomeAt
<1>4. QED
  BY <1>1, <1>2, <1>3

LEMMA OutcomeIs ==
    /\ Outcome = [t \in Threads |-> OutcomeAt(pc[t], result[t], waiting[t])]
    /\ Outcome' = [t \in Threads |-> OutcomeAt(pc'[t], result'[t], waiting'[t])]
BY DEF Outcome, OutcomeAt

\* A step of one thread changes what that thread has of its wait.
LEMMA OutcomeChanges ==
    ASSUME NEW t \in Threads, NEW v,
           \A d \in Threads \ {t} :
              pc'[d] = pc[d] /\ result'[d] = result[d] /\ waiting'[d] = waiting[d],
           OutcomeAt(pc'[t], result'[t], waiting'[t]) = v
    PROVE  Outcome' = [Outcome EXCEPT ![t] = v]
<1> HIDE DEF OutcomeAt
<1>1. ASSUME NEW d \in Threads
      PROVE  Outcome'[d] = IF d = t THEN v ELSE Outcome[d]
  BY OutcomeIs
<1>2. QED
  BY <1>1, OutcomeIs

LEMMA QueuesUp ==
    ASSUME Inductive, NEW t \in Threads, NEW k \in Kinds, Enqueue(t, k)
    PROVE  Promise!Wait(t)
<1>1. TypeOK
  BY DEF Inductive
<1>2. Outcome[t] = "none"
  BY <1>1, OutcomeIs, OutcomeAtIs DEF Enqueue, TypeOK
<1>3. /\ pc'[t] = "blocked" /\ waiting'[t] /\ waiting'[t] \in BOOLEAN
      /\ result'[t] \in BOOLEAN
      /\ \A d \in Threads \ {t} :
            pc'[d] = pc[d] /\ result'[d] = result[d] /\ waiting'[d] = waiting[d]
  BY <1>1 DEF TypeOK, Enqueue, Goto
<1>4. OutcomeAt(pc'[t], result'[t], waiting'[t]) = "waiting"
  BY <1>3 DEF OutcomeAt
<1>5. Outcome' = [Outcome EXCEPT ![t] = "waiting"]
  BY <1>3, <1>4, OutcomeChanges
<1>6. OnList' = Append(OnList, t)
  BY ListAppended
<1>7. QED
  BY <1>2, <1>5, <1>6 DEF Promise!Wait

LEMMA GivesUp ==
    ASSUME Inductive, NEW t \in Threads, Unlink(t)
    PROVE  Promise!GiveUp(t)
<1>1. TypeOK /\ Inductive'
  BY UnlinkInductive DEF Inductive
<1>2. /\ pc[t] = "expired" /\ waiting[t] /\ result[t] \in BOOLEAN
      /\ waiting[t] \in BOOLEAN /\ waiting'[t] \in BOOLEAN
  BY <1>1 DEF Unlink, Inductive, TypeOK
<1>3. Outcome[t] = "waiting"
  <2>1. Outcome[t] = OutcomeAt(pc[t], result[t], waiting[t])
    BY OutcomeIs
  <2>2. QED
    BY <1>2, <2>1, OutcomeAtIs, ZenonT(60)
<1>4. /\ pc'[t] = "relock" /\ ~result'[t] /\ result'[t] \in BOOLEAN
      /\ \A d \in Threads \ {t} :
            pc'[d] = pc[d] /\ result'[d] = result[d] /\ waiting'[d] = waiting[d]
  BY <1>1 DEF Inductive, TypeOK, Unlink, Goto
<1>5. OutcomeAt(pc'[t], result'[t], waiting'[t]) = "timeout"
  BY <1>2, <1>4, OutcomeAtIs
<1>6. Outcome' = [Outcome EXCEPT ![t] = "timeout"]
  BY <1>4, <1>5, OutcomeChanges
<1>7. PICK i \in 1 .. Len(OnList) : OnList[i] = t /\ OnList' = RemoveAt(OnList, i)
  BY UnlinkInductive
<1>8. RemoveFirst(OnList, OnList[i]) = RemoveAt(OnList, i)
  BY ListFacts, RemoveFirstIs
<1>9. OnList' = RemoveFirst(OnList, t)
  BY <1>7, <1>8
<1>10. QED
  BY <1>3, <1>6, <1>9
     DEF Promise!GiveUp, Promise!RemoveFirst, RemoveFirst, Promise!SelectInSeq, SelectInSeq,
         Promise!RemoveAt, RemoveAt, Promise!Min, Min

LEMMA WakesFirst ==
    ASSUME Inductive, Signal
    PROVE  Promise!Signal
<1> DEFINE t == head
<1>1. /\ TypeOK /\ TokenOrPlace /\ Inductive'
      /\ OnList # <<>> /\ t = Head(OnList) /\ OnList' = Tail(OnList)
      /\ t \in Threads /\ waiting[t] /\ ~waiting'[t]
  BY SignalInductive DEF Inductive
<1>2. pc[t] \in {"blocked", "expired"} /\ pc' = pc /\ result' = result
      /\ result[t] \in BOOLEAN /\ waiting'[t] \in BOOLEAN
  BY <1>1 DEF Signal, TokenOrPlace, Inductive, TypeOK, Places
<1>3. \A d \in Threads \ {t} : waiting'[d] = waiting[d]
  BY <1>1 DEF Signal, TypeOK
<1> HIDE DEF t
<1>4. OutcomeAt(pc'[t], result'[t], waiting'[t]) = "signalled"
  BY <1>1, <1>2, OutcomeAtIs
<1>5. Outcome' = [Outcome EXCEPT ![t] = "signalled"]
  BY <1>1, <1>2, <1>3, <1>4, OutcomeChanges
<1>6. QED
  BY <1>1, <1>5 DEF Promise!Signal

LEMMA WakesAll ==
    ASSUME Inductive, Broadcast
    PROVE  Promise!Broadcast
<1>1. /\ TypeOK /\ TokenOrPlace /\ Inductive' /\ OnList # <<>> /\ OnList' = <<>>
      /\ \A t \in Threads : ~waiting'[t]
  BY BroadcastInductive DEF Inductive
<1>2. pc' = pc /\ result' = result
  BY DEF Broadcast
<1>3. ASSUME NEW t \in Threads
      PROVE  Outcome'[t] = IF Outcome[t] = "waiting" THEN "signalled" ELSE Outcome[t]
  <2>1. /\ result[t] \in BOOLEAN /\ waiting[t] \in BOOLEAN /\ waiting'[t] \in BOOLEAN
        /\ ~waiting'[t] /\ pc'[t] = pc[t] /\ result'[t] = result[t]
        /\ pc[t] \in {"idle", "holding", "relock"} => ~waiting[t]
    BY <1>1, <1>2 DEF Inductive, TypeOK, TokenOrPlace
  <2>2. /\ Outcome[t] = OutcomeAt(pc[t], result[t], waiting[t])
        /\ Outcome'[t] = OutcomeAt(pc[t], result[t], waiting'[t])
    BY <2>1, OutcomeIs
  <2>3. QED
    BY <2>1, <2>2 DEF OutcomeAt
<1>4. Outcome' = [t \in Threads |-> IF Outcome[t] = "waiting" THEN "signalled" ELSE Outcome[t]]
  BY <1>3, OutcomeIs
<1>5. QED
  BY <1>1, <1>4 DEF Promise!Broadcast

\* Whoever has its token and has not noticed has been signalled already.
LEMMA NoticesOnly ==
    ASSUME Inductive, NEW t \in Threads,
           Lock(t) \/ Unlock(t) \/ TakeSemaphore(t) \/ Expire(t) \/ Resync(t)
    PROVE  UNCHANGED <<OnList, Outcome>>
<1>1. TypeOK /\ TokenOrPlace /\ Inductive'
  BY OffListInductive DEF Inductive
<1>2. UNCHANGED list /\ waiting' = waiting
  BY DEF Lock, Unlock, TakeSemaphore, Expire, Resync, list
<1>3. \A d \in Threads \ {t} : pc'[d] = pc[d] /\ result'[d] = result[d]
  BY <1>1 DEF TypeOK, Lock, Unlock, TakeSemaphore, Expire, Resync, Goto
<1>4. OutcomeAt(pc'[t], result'[t], waiting'[t]) = Outcome[t]
  <2>1. /\ waiting'[t] = waiting[t] /\ waiting[t] \in BOOLEAN /\ result[t] \in BOOLEAN
        /\ result'[t] \in BOOLEAN
        /\ Outcome[t] = OutcomeAt(pc[t], result[t], waiting[t])
    BY <1>1, <1>2, OutcomeIs DEF Inductive, TypeOK
  <2>2. CASE Lock(t) \/ Unlock(t)
    <3>1. pc[t] \in {"idle", "holding"} /\ pc'[t] \in {"idle", "holding"}
      BY <1>1, <2>2 DEF Lock, Unlock, Goto, TypeOK
    <3>2. QED
      BY <2>1, <3>1, OutcomeAtIs
  <2>3. CASE TakeSemaphore(t)
    <3>1. pc[t] \in {"blocked", "resync"} /\ sem[t] > 0
      BY <2>3 DEF TakeSemaphore
    <3>2. ~waiting[t]
      BY <1>1, <3>1 DEF TokenOrPlace
    <3>3. pc'[t] = "relock" /\ result'[t]
      BY <1>1, <2>3 DEF TakeSemaphore, Goto, TypeOK
    <3>4. Outcome[t] = "signalled"
      BY <2>1, <3>1, <3>2, OutcomeAtIs
    <3>5. OutcomeAt(pc'[t], result'[t], waiting'[t]) = "signalled"
      BY <3>3 DEF OutcomeAt
    <3>6. QED
      BY <3>4, <3>5
  <2>4. CASE Expire(t) \/ Resync(t)
    <3>1. /\ pc[t] \in {"blocked", "expired"} /\ pc'[t] \in {"expired", "resync"}
          /\ result'[t] = result[t]
      BY <1>1, <2>4 DEF Expire, Resync, Goto, TypeOK
    <3>2. QED
      BY <2>1, <3>1, OutcomeAtIs
  <2>5. QED
    BY <2>2, <2>3, <2>4
<1>5. Outcome' = [Outcome EXCEPT ![t] = Outcome[t]]
  BY <1>2, <1>3, <1>4, OutcomeChanges
<1>6. Outcome' = Outcome
  BY <1>5, OutcomeIs
<1>7. QED
  BY <1>2, <1>6, ListUnchanged

LEMMA ReturnsOutcome ==
    ASSUME Inductive, NEW t \in Threads, Relock(t)
    PROVE  Promise!Return(t)
<1>1. TypeOK
  BY DEF Inductive
<1>2. /\ pc[t] = "relock" /\ pc'[t] = "holding" /\ UNCHANGED list
      /\ result'[t] \in BOOLEAN /\ waiting'[t] \in BOOLEAN
      /\ result[t] \in BOOLEAN /\ waiting[t] \in BOOLEAN
      /\ \A d \in Threads \ {t} :
            pc'[d] = pc[d] /\ result'[d] = result[d] /\ waiting'[d] = waiting[d]
  BY <1>1 DEF Relock, Goto, TypeOK, list
<1>3. Outcome[t] \in {"signalled", "timeout"}
  BY <1>2, OutcomeIs, OutcomeAtIs
<1>4. OutcomeAt(pc'[t], result'[t], waiting'[t]) = "none"
  BY <1>2, OutcomeAtIs
<1>5. Outcome' = [Outcome EXCEPT ![t] = "none"]
  BY <1>2, <1>4, OutcomeChanges
<1>6. QED
  BY <1>2, <1>3, <1>5, ListUnchanged DEF Promise!Return

LEMMA PromiseInit == Init => Promise!Init
<1> SUFFICES ASSUME Init PROVE Promise!Init
  OBVIOUS
<1>1. <<>> \in Seq(Threads) /\ DOMAIN <<>> = {} /\ IsInjective(<<>>)
  BY EmptySeq DEF IsInjective
<1>2. Chain(None, next) = <<>>
  BY <1>1, ChainIs
<1>3. OnList = <<>>
  BY <1>2 DEF Init, OnList
<1>4. ASSUME NEW t \in Threads PROVE Outcome[t] = "none"
  <2>1. pc[t] = "idle" /\ Outcome[t] = OutcomeAt(pc[t], result[t], waiting[t])
    BY OutcomeIs DEF Init
  <2>2. QED
    BY <2>1 DEF OutcomeAt
<1>5. Outcome = [t \in Threads |-> "none"]
  BY <1>4, OutcomeIs
<1>6. QED
  BY <1>3, <1>5 DEF Promise!Init

LEMMA PromiseStep ==
    Inductive /\ TimedOrEndless /\ [Next]_vars => [Promise!Next]_(Promise!condition)
<1> SUFFICES ASSUME Inductive, TimedOrEndless, [Next]_vars
             PROVE  Promise!Next \/ UNCHANGED <<OnList, Outcome>>
  BY DEF Promise!condition
<1>1. CASE UNCHANGED vars
  <2>1. UNCHANGED list /\ Outcome' = Outcome
    BY <1>1, OutcomeIs DEF vars, list
  <2>2. QED
    BY <2>1, ListUnchanged
<1>2. CASE Signal
  BY <1>2, WakesFirst DEF Promise!Next
<1>3. CASE Broadcast
  BY <1>3, WakesAll DEF Promise!Next
<1>4. ASSUME NEW t \in Threads, NEW k \in Kinds, Enqueue(t, k) PROVE Promise!Next
  BY <1>4, QueuesUp DEF Promise!Next
<1>5. ASSUME NEW t \in Threads, ReturnFromTimeout(t) PROVE FALSE
  BY <1>5 DEF Inductive, TokenOrPlace, ReturnFromTimeout
<1>6. ASSUME NEW t \in Threads, Unlink(t) PROVE Promise!Next
  BY <1>6, GivesUp DEF Promise!Next
<1>7. ASSUME NEW t \in Threads,
             Lock(t) \/ Unlock(t) \/ TakeSemaphore(t) \/ Expire(t) \/ Resync(t)
      PROVE  UNCHANGED <<OnList, Outcome>>
  BY <1>7, NoticesOnly
<1>8. ASSUME NEW t \in Threads, Relock(t) PROVE Promise!Next
  BY <1>8, ReturnsOutcome DEF Promise!Next
<1>9. QED
  BY <1>1, <1>2, <1>3, <1>4, <1>5, <1>6, <1>7, <1>8 DEF Next

\* The list and the semaphores implement a condition variable: the first of the queue
\* is woken, or all, who gives up is no longer in the queue, and who was signalled
\* in the moment of its timeout returns as signalled.
THEOREM PromiseKept == TimedOrEndless /\ Spec => KeepsPromise
<1>1. ASSUME TimedOrEndless PROVE Spec => Promise!Spec
  <2>1. Inductive /\ [Next]_vars => [Promise!Next]_(Promise!condition)
    BY <1>1, PromiseStep
  <2>2. Spec => []Inductive
    BY <1>1, InductiveHolds
  <2>3. QED
    BY <2>1, <2>2, PromiseInit, PTL DEF Spec, Promise!Spec
<1>2. QED
  BY <1>1 DEF KeepsPromise

=============================================================================
