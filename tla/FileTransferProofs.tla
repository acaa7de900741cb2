-------------------------- MODULE FileTransferProofs --------------------------
(***************************************************************************)
(* Proofs about FileTransfer: for every set of files, every contents and   *)
(* every part an earlier transfer may have left, a file that appears under *)
(* its own name is complete, a received part is kept, and, where no write  *)
(* fails, both sides stay in step.  The user starts nothing while messages *)
(* are under way (Ahead = 0): otherwise a second request is taken for part *)
(* of the first (README, section 4).                                       *)
(***************************************************************************)
EXTENDS FileTransfer, ListLemmas

OneAtATime == Ahead = 0

\* A permission that is withdrawn is not granted again: a block that was refused in between
\* would be missing from its file.
NotGrantedAgain == "grant" \notin Faults

USE FilesAssumption

-----------------------------------------------------------------------------
(* Blocks and files. *)

LEMMA ContentFacts ==
    ASSUME NEW f \in Files
    PROVE  /\ Content[f] \in Seq(Blocks) /\ Content[f] \in Stored
           /\ Len(Content[f]) \in Nat
           /\ \A i \in 1 .. Len(Content[f]) :
                 Content[f][i] \in Blocks /\ Content[f][i] # Same
<1>1. Content[f] \in Seq(Blocks)
  OBVIOUS
<1>2. Content[f] \in Seq(Blocks \cup {Zero})
  BY <1>1, SeqMonotonic, Zenon
<1>3. Len(Content[f]) \in Nat /\ \A i \in 1 .. Len(Content[f]) : Content[f][i] \in Blocks
  BY <1>1, LenProperties, ElementOfSeq
<1>4. QED
  BY <1>1, <1>2, <1>3 DEF Stored

LEMMA StoredFacts ==
    ASSUME NEW t \in Stored
    PROVE  /\ Len(t) \in Nat /\ t # NoFile
           /\ \A i \in 1 .. Len(t) : t[i] \in Blocks \cup {Zero}
BY LenProperties, ElementOfSeq DEF Stored

LEMMA EmptyStored == <<>> \in Stored /\ Len(<<>>) = 0
BY EmptySeq DEF Stored

\* A sequence of blocks, given as a function.
LEMMA StoredIs ==
    ASSUME NEW n \in Nat, NEW t, t \in [1 .. n -> Blocks \cup {Zero}]
    PROVE  t \in Stored /\ Len(t) = n
<1>1. t \in Seq(Blocks \cup {Zero})
  BY SeqDef
<1>2. DOMAIN t = 1 .. Len(t) /\ Len(t) \in Nat
  BY <1>1, LenProperties
<1>3. Len(t) = n
  BY <1>2
<1>4. QED
  BY <1>1, <1>3 DEF Stored

LEMMA SizedIs ==
    ASSUME NEW t \in Stored, NEW n \in Nat
    PROVE  /\ Sized(t, n) \in Stored /\ Len(Sized(t, n)) = n
           /\ \A i \in 1 .. n : Sized(t, n)[i] = IF i <= Len(t) THEN t[i] ELSE Zero
<1>1. Len(t) \in Nat /\ \A i \in 1 .. Len(t) : t[i] \in Blocks \cup {Zero}
  BY StoredFacts
<1>2. Sized(t, n) \in [1 .. n -> Blocks \cup {Zero}]
  BY <1>1 DEF Sized
<1>3. QED
  BY <1>2, StoredIs DEF Sized

LEMMA WrittenIs ==
    ASSUME NEW t \in Stored, NEW pos \in Nat, pos <= Len(t), NEW block \in Blocks
    PROVE  /\ Written(t, pos, block) \in Stored
           /\ pos + 1 <= Len(Written(t, pos, block)) /\ Len(t) <= Len(Written(t, pos, block))
           /\ Written(t, pos, block)[pos + 1] = block
           /\ \A i \in 1 .. Len(t) : i # pos + 1 => Written(t, pos, block)[i] = t[i]
<1> DEFINE n == Longer(Len(t), pos + 1)
           s == Sized(t, n)
<1>1. Len(t) \in Nat
  BY StoredFacts
<1>2. n \in Nat /\ pos + 1 \in 1 .. n /\ Len(t) <= n
  BY <1>1 DEF Longer
<1> HIDE DEF n
<1>3. s \in Stored /\ Len(s) = n
      /\ \A i \in 1 .. n : s[i] = IF i <= Len(t) THEN t[i] ELSE Zero
  BY <1>2, SizedIs
<1> HIDE DEF s
<1>4. /\ [s EXCEPT ![pos + 1] = block] \in Seq(Blocks \cup {Zero})
      /\ Len([s EXCEPT ![pos + 1] = block]) = n
      /\ \A i \in 1 .. n :
            [s EXCEPT ![pos + 1] = block][i] = IF i = pos + 1 THEN block ELSE s[i]
  BY <1>2, <1>3, ExceptSeq DEF Stored
<1>5. Written(t, pos, block) = [s EXCEPT ![pos + 1] = block]
  BY DEF Written, s, n
<1>6. QED
  BY <1>1, <1>2, <1>3, <1>4, <1>5 DEF Stored

\* A block, or the note that spares it.
LEMMA PacketIs ==
    ASSUME NEW s, s.file \in Files, s.sums \in Stored, s.at \in Nat,
           NEW pos \in Nat, pos < Len(Content[s.file])
    PROVE  /\ Packet(s, pos) \in Blocks \cup {Same}
           /\ \/ Packet(s, pos) = Content[s.file][pos + 1]
              \/ /\ Packet(s, pos) = Same /\ s.at < Len(s.sums)
                 /\ s.sums[s.at + 1] = Content[s.file][pos + 1]
<1>1. Len(Content[s.file]) \in Nat
      /\ \A i \in 1 .. Len(Content[s.file]) : Content[s.file][i] \in Blocks
  BY ContentFacts
<1>2. pos + 1 \in 1 .. Len(Content[s.file])
  BY <1>1
<1>3. QED
  BY <1>1, <1>2 DEF Packet

\* Checksums that agree: the block is already there.
LEMMA PacketRight ==
    ASSUME NEW s, s.file \in Files, s.sums \in Stored, s.at \in Nat,
           NEW pos \in Nat, pos < Len(Content[s.file]),
           NEW t \in Stored, Spared(s.sums, s.at, pos, t)
    PROVE  Right(s.file, pos + 1, t, Packet(s, pos))
<1>1. Len(Content[s.file]) \in Nat /\ Len(s.sums) \in Nat
  BY ContentFacts, StoredFacts
<1>2. CASE Packet(s, pos) = Content[s.file][pos + 1]
  BY <1>1, <1>2 DEF Right
<1>3. CASE /\ Packet(s, pos) = Same /\ s.at < Len(s.sums)
           /\ s.sums[s.at + 1] = Content[s.file][pos + 1]
  <2>1. s.at = pos /\ pos + 1 \in pos + 1 .. Len(s.sums)
    BY <1>1, <1>3 DEF Spared
  <2>2. pos + 1 <= Len(t) /\ t[pos + 1] = s.sums[pos + 1]
    BY <2>1 DEF Spared
  <2>3. QED
    BY <1>1, <1>3, <2>1, <2>2 DEF Right
<1>4. QED
  BY <1>2, <1>3, PacketIs

\* After a block was compared and sent, the next one is compared.
LEMMA SparedNext ==
    ASSUME NEW sums \in Stored, NEW at \in Nat, NEW pos \in Nat, NEW t \in Stored,
           Spared(sums, at, pos, t)
    PROVE  Spared(sums, IF at < Len(sums) THEN at + 1 ELSE at, pos + 1, t)
<1>1. Len(sums) \in Nat
  BY StoredFacts
<1>2. QED
  BY <1>1 DEF Spared

\* The checksums of what there was, or none.
LEMMA SparedStart ==
    ASSUME NEW t \in Stored, NEW sums \in {<<>>, t}, NEW pos \in Nat
    PROVE  Spared(sums, pos, pos, t)
<1>1. Len(t) \in Nat /\ Len(<<>>) = 0
  BY StoredFacts, EmptyStored
<1>2. QED
  BY <1>1 DEF Spared

-----------------------------------------------------------------------------
(* What a queue brings. *)

LEMMA BringsStart ==
    ASSUME NEW f \in Files, NEW t \in Stored, NEW T, NEW q \in Seq(T),
           \A i \in 1 .. Len(q) : q[i].type \notin {"packet", "eof"}
    PROVE  Brings(f, 0, t, q)
<1>1. Len(t) \in Nat /\ Len(Content[f]) \in Nat /\ Len(q) \in Nat
  BY StoredFacts, ContentFacts, LenProperties
<1>2. QED
  BY <1>1 DEF Brings

LEMMA BringsBlock ==
    ASSUME NEW f \in Files, NEW pos \in Nat, NEW t, NEW T, NEW q \in Seq(T),
           Brings(f, pos, t, q), Is(q, "packet"), Arg(q) \in Blocks \cup {Same}
    PROVE  /\ Arg(q) = Same => Brings(f, pos + 1, t, Tail(q))
           /\ Arg(q) # Same => Brings(f, pos + 1, Written(t, pos, Arg(q)), Tail(q))
<1> DEFINE u == IF Arg(q) = Same THEN t ELSE Written(t, pos, Arg(q))
           r == Tail(q)
<1>1. /\ Len(q) \in Nat /\ 1 \in 1 .. Len(q) /\ Head(q) = q[1] /\ Len(r) = Len(q) - 1
      /\ \A i \in 1 .. Len(q) - 1 : r[i] = q[i + 1]
  BY RemoveAtHead, HeadTailProperties DEF Is
<1>2. /\ t \in Stored /\ Len(t) \in Nat /\ Len(Content[f]) \in Nat
      /\ pos <= Len(t) /\ pos <= Len(Content[f])
      /\ \A j \in 1 .. pos : t[j] = Content[f][j]
  BY StoredFacts, ContentFacts DEF Brings
<1>3. /\ pos + 1 <= Len(Content[f])
      /\ \/ Arg(q) = Content[f][pos + 1]
         \/ Arg(q) = Same /\ pos + 1 <= Len(t) /\ t[pos + 1] = Content[f][pos + 1]
  BY <1>1 DEF Brings, Is, Arg, Right
<1>4. Content[f][pos + 1] # Same
  BY <1>2, <1>3, ContentFacts
<1>5. /\ u \in Stored /\ pos + 1 <= Len(u) /\ Len(t) <= Len(u) /\ Len(u) \in Nat
      /\ u[pos + 1] = Content[f][pos + 1]
      /\ \A j \in 1 .. Len(t) : j # pos + 1 => u[j] = t[j]
  <2>1. CASE Arg(q) = Same
    BY <1>2, <1>3, <1>4, <2>1
  <2>2. CASE Arg(q) # Same
    <3>1. Arg(q) \in Blocks /\ Arg(q) = Content[f][pos + 1] /\ u = Written(t, pos, Arg(q))
      BY <1>3, <2>2
    <3> DEFINE block == Arg(q)
               w == Written(t, pos, block)
    <3> HIDE DEF block
    <3>2. block \in Blocks
      BY <3>1 DEF block
    <3>3. /\ w \in Stored /\ pos + 1 <= Len(w) /\ Len(t) <= Len(w)
          /\ w[pos + 1] = block
          /\ \A j \in 1 .. Len(t) : j # pos + 1 => w[j] = t[j]
      BY <1>2, <3>2, WrittenIs
    <3>4. u = w /\ block = Content[f][pos + 1]
      BY <3>1 DEF block
    <3> HIDE DEF u, w
    <3>5. QED
      BY <3>3, <3>4, StoredFacts
  <2>3. QED
    BY <2>1, <2>2
<1> HIDE DEF u
<1>6. \A j \in 1 .. pos + 1 : u[j] = Content[f][j]
  BY <1>2, <1>5
<1>7. ASSUME NEW i \in 1 .. Len(r)
      PROVE  /\ r[i].type \in {"packet", "eof"} => \A j \in 1 .. i - 1 : r[j].type = "packet"
             /\ r[i].type = "packet" => Right(f, pos + 1 + i, u, r[i].arg)
             /\ r[i].type = "eof" => r[i].arg = f /\ pos + 1 + i = Len(Content[f]) + 1
  <2>1. i + 1 \in 1 .. Len(q) /\ r[i] = q[i + 1]
    BY <1>1
  <2>2. /\ q[i + 1].type \in {"packet", "eof"} => \A j \in 1 .. i : q[j].type = "packet"
        /\ q[i + 1].type = "packet" => Right(f, pos + (i + 1), t, q[i + 1].arg)
        /\ q[i + 1].type = "eof" => q[i + 1].arg = f /\ pos + (i + 1) = Len(Content[f]) + 1
    <3>1. (i + 1) - 1 = i
      BY <1>1
    <3>2. QED
      BY <2>1, <3>1 DEF Brings
  <2>3. \A j \in 1 .. i - 1 : j + 1 \in 1 .. i /\ r[j] = q[j + 1]
    BY <1>1
  <2>4. r[i].type = "packet" => Right(f, pos + 1 + i, u, r[i].arg)
    BY <1>1, <1>2, <1>5, <2>1, <2>2 DEF Right
  <2>5. QED
    BY <1>1, <2>1, <2>2, <2>3, <2>4
<1>8. Brings(f, pos + 1, u, r)
  BY <1>2, <1>3, <1>5, <1>6, <1>7 DEF Brings
<1>9. QED
  BY <1>8 DEF u

LEMMA BringsEnd ==
    ASSUME NEW f \in Files, NEW pos \in Nat, NEW t, NEW T, NEW q \in Seq(T),
           Brings(f, pos, t, q), Is(q, "eof")
    PROVE  Arg(q) = f /\ Sized(t, pos) = Content[f]
<1>1. Len(q) \in Nat /\ 1 \in 1 .. Len(q) /\ Head(q) = q[1]
  BY RemoveAtHead DEF Is
<1>2. /\ t \in Stored /\ Len(t) \in Nat /\ Len(Content[f]) \in Nat /\ pos <= Len(t)
      /\ \A j \in 1 .. pos : t[j] = Content[f][j]
  BY StoredFacts, ContentFacts DEF Brings
<1>3. Arg(q) = f /\ pos + 1 = Len(Content[f]) + 1
  BY <1>1 DEF Brings, Is, Arg
<1>4. /\ Sized(t, pos) \in Stored /\ Len(Sized(t, pos)) = pos
      /\ \A i \in 1 .. pos : Sized(t, pos)[i] = IF i <= Len(t) THEN t[i] ELSE Zero
  BY <1>2, SizedIs
<1>5. pos = Len(Content[f]) /\ \A i \in 1 .. pos : Sized(t, pos)[i] = Content[f][i]
  BY <1>2, <1>3, <1>4
<1>6. Sized(t, pos) = Content[f]
  <2> DEFINE s == Sized(t, pos)
             c == Content[f]
  <2>1. /\ s \in Seq(Blocks \cup {Zero}) /\ c \in Seq(Blocks \cup {Zero})
        /\ Len(s) = Len(c) /\ \A i \in 1 .. Len(s) : s[i] = c[i]
    BY <1>4, <1>5, ContentFacts DEF Stored
  <2> HIDE DEF s, c
  <2>2. s = c
    BY <2>1, SeqEqual
  <2>3. QED
    BY <2>2 DEF s, c
<1>7. QED
  BY <1>3, <1>6

\* After another message nothing comes for the receiver.
LEMMA BringsOther ==
    ASSUME NEW f \in Files, NEW pos \in Nat, NEW t, NEW T, NEW q \in Seq(T),
           Brings(f, pos, t, q), q # <<>>, Head(q).type \notin {"packet"}
    PROVE  /\ \A i \in 1 .. Len(Tail(q)) : Tail(q)[i].type \notin {"packet", "eof"}
           /\ Brings(f, pos, t, Tail(q))
<1>1. /\ Len(q) \in Nat /\ 1 \in 1 .. Len(q) /\ Head(q) = q[1] /\ Len(Tail(q)) = Len(q) - 1
      /\ \A i \in 1 .. Len(q) - 1 : Tail(q)[i] = q[i + 1]
  BY RemoveAtHead, HeadTailProperties
<1>2. \A i \in 1 .. Len(q) - 1 : i + 1 \in 1 .. Len(q) /\ 1 \in 1 .. (i + 1) - 1
  BY <1>1
<1>3. \A i \in 1 .. Len(Tail(q)) : Tail(q)[i].type \notin {"packet", "eof"}
  BY <1>1, <1>2 DEF Brings
<1>4. QED
  BY <1>3 DEF Brings

LEMMA BringsAppend ==
    ASSUME NEW f \in Files, NEW pos \in Nat, NEW t, NEW T, NEW q \in Seq(T), NEW m \in T,
           Brings(f, pos, t, q),
           m.type \in {"packet", "eof"} => \A i \in 1 .. Len(q) : q[i].type = "packet",
           m.type = "packet" => Right(f, pos + Len(q) + 1, t, m.arg),
           m.type = "eof" => m.arg = f /\ pos + Len(q) = Len(Content[f])
    PROVE  Brings(f, pos, t, Append(q, m))
<1> DEFINE r == Append(q, m)
<1>1. /\ Len(q) \in Nat /\ Len(r) = Len(q) + 1 /\ r[Len(q) + 1] = m
      /\ \A i \in 1 .. Len(q) : r[i] = q[i]
  BY AppendProperties, LenProperties
<1> HIDE DEF r
<1>2. Len(Content[f]) \in Nat
  BY ContentFacts
<1>3. ASSUME NEW i \in 1 .. Len(r)
      PROVE  /\ r[i].type \in {"packet", "eof"} => \A j \in 1 .. i - 1 : r[j].type = "packet"
             /\ r[i].type = "packet" => Right(f, pos + i, t, r[i].arg)
             /\ r[i].type = "eof" => r[i].arg = f /\ pos + i = Len(Content[f]) + 1
  <2>1. CASE i = Len(q) + 1
    <3>1. r[i] = m /\ pos + i = pos + Len(q) + 1 /\ i - 1 = Len(q)
      BY <1>1, <2>1
    <3>2. QED
      BY <1>1, <1>2, <3>1
  <2>2. CASE i \in 1 .. Len(q)
    <3>1. r[i] = q[i] /\ \A j \in 1 .. i - 1 : j \in 1 .. Len(q) /\ r[j] = q[j]
      BY <1>1, <2>2
    <3>2. QED
      BY <2>2, <3>1 DEF Brings
  <2>3. QED
    BY <1>1, <2>1, <2>2
<1>4. QED
  BY <1>3 DEF Brings, r

LEMMA BringsPrefix ==
    ASSUME NEW f \in Files, NEW pos \in Nat, NEW t, NEW T, NEW q \in Seq(T),
           NEW k \in 0 .. Len(q), Brings(f, pos, t, q)
    PROVE  Brings(f, pos, t, SubSeq(q, 1, k))
<1> DEFINE r == SubSeq(q, 1, k)
<1>1. /\ Len(q) \in Nat /\ Len(r) = k
      /\ \A i \in 1 .. k : i \in 1 .. Len(q) /\ r[i] = q[i]
  BY SubSeqProperties, LenProperties, ElementOfSeq
<1> HIDE DEF r
<1>2. QED
  BY <1>1, SMTT(30) DEF Brings, r

\* The server's blocks of a whole file.
Blocks0(s) ==
    [i \in 1 .. Len(Content[s.file]) |-> Msg("packet", Packet([s EXCEPT !.at = @ + i - 1], i - 1))]

LEMMA WholeFile ==
    ASSUME NEW s, s \in [file : Files, sums : Stored, at : Nat]
    PROVE  /\ Blocks0(s) \in Seq(Packets) /\ Len(Blocks0(s)) = Len(Content[s.file])
           /\ \A i \in 1 .. Len(Content[s.file]) : Blocks0(s)[i].type = "packet"
           /\ \A t \in Stored : s.at = 0 /\ s.sums \in {<<>>, t} =>
                 Brings(s.file, 0, t, Append(Blocks0(s), Msg("eof", s.file)))
<1> DEFINE n == Len(Content[s.file])
           b == Blocks0(s)
           from(i) == [s EXCEPT !.at = @ + i - 1]
<1>1. n \in Nat
  BY ContentFacts
<1>2. ASSUME NEW i \in 1 .. n
      PROVE  /\ Packet(from(i), i - 1) \in Blocks \cup {Same}
             /\ \A t \in Stored : s.at = 0 /\ s.sums \in {<<>>, t} =>
                   Right(s.file, i, t, Packet(from(i), i - 1))
  <2> DEFINE u == from(i)
             j == i - 1
  <2>1. u.file = s.file /\ u.sums = s.sums /\ u.at = s.at + i - 1
    OBVIOUS
  <2>2. u.file \in Files /\ u.sums \in Stored /\ u.at \in Nat
        /\ j \in Nat /\ j < Len(Content[u.file]) /\ j + 1 = i
    BY <1>1, <2>1
  <2> HIDE DEF u, j
  <2>3. Packet(u, j) \in Blocks \cup {Same}
    BY <2>2, PacketIs
  <2>4. ASSUME NEW t \in Stored, s.at = 0, s.sums \in {<<>>, t}
        PROVE  Right(s.file, i, t, Packet(u, j))
    <3>1. u.at = j /\ u.sums \in {<<>>, t}
      BY <1>1, <2>1, <2>4 DEF j
    <3>2. Spared(u.sums, u.at, j, t)
      BY <2>2, <3>1, SparedStart
    <3>3. Right(u.file, j + 1, t, Packet(u, j))
      BY <2>2, <3>2, PacketRight
    <3>4. QED
      BY <2>1, <2>2, <3>3
  <2>5. QED
    BY <2>3, <2>4 DEF u, j
<1>3. \A i \in 1 .. n : b[i].type = "packet" /\ b[i].arg = Packet(from(i), i - 1)
  BY DEF Blocks0, Msg
<1>4. b \in [1 .. n -> Packets]
  BY <1>2 DEF Blocks0, Msg, Packets
<1> HIDE DEF b, n, from
<1>5. b \in Seq(Packets) /\ DOMAIN b = 1 .. n
  BY <1>1, <1>4, SeqDef
<1>6. Len(b) = n
  BY <1>1, <1>5, LenProperties
<1>7. ASSUME NEW t \in Stored, s.at = 0, s.sums \in {<<>>, t}
      PROVE  Brings(s.file, 0, t, Append(b, Msg("eof", s.file)))
  <2>1. Brings(s.file, 0, t, b)
    <3>1. 0 <= Len(t) /\ 0 <= Len(Content[s.file])
      BY StoredFacts, ContentFacts
    <3>2. ASSUME NEW i \in 1 .. Len(b)
          PROVE  b[i].type = "packet" /\ Right(s.file, 0 + i, t, b[i].arg)
      <4> DEFINE packet == Packet(from(i), i - 1)
      <4>1. i \in 1 .. n /\ 0 + i = i
        BY <1>1, <1>6
      <4>2. Right(s.file, i, t, packet)
        BY <1>2, <1>7, <4>1, Zenon
      <4>3. b[i].type = "packet" /\ b[i].arg = packet
        BY <1>3, <4>1, Zenon
      <4> HIDE DEF packet
      <4>4. QED
        BY <4>1, <4>2, <4>3
    <3>3. \A i \in 1 .. Len(b) : \A j \in 1 .. i - 1 : j \in 1 .. Len(b)
      BY <1>1, <1>6
    <3>4. QED
      BY <3>1, <3>2, <3>3 DEF Brings
  <2> DEFINE m == Msg("eof", s.file)
  <2>2. m.type = "eof" /\ m.arg = s.file
    BY DEF Msg
  <2> HIDE DEF m
  <2>3. b \in Seq(Packets \cup {m})
    BY <1>5, SeqMonotonic
  <2>4. 0 + Len(b) = Len(Content[s.file]) /\ \A i \in 1 .. Len(b) : b[i].type = "packet"
    BY <1>1, <1>3, <1>6 DEF n
  <2>5. Brings(s.file, 0, t, Append(b, m))
    BY <2>1, <2>2, <2>3, <2>4, BringsAppend
  <2>6. QED
    BY <2>5 DEF m
<1>8. QED
  BY <1>3, <1>5, <1>6, <1>7 DEF b, n

-----------------------------------------------------------------------------
(* Queues. *)

LEMMA SeqHead ==
    ASSUME NEW M, NEW q \in Seq(M), q # <<>>
    PROVE  Head(q) \in M /\ Tail(q) \in Seq(M)
BY HeadTailProperties

LEMMA SeqPrefix ==
    ASSUME NEW M, NEW q \in Seq(M), NEW k \in 0 .. Len(q)
    PROVE  SubSeq(q, 1, k) \in Seq(M) /\ Len(SubSeq(q, 1, k)) = k
<1>1. Len(q) \in Nat /\ \A i \in 1 .. k : q[i] \in M
  BY LenProperties, ElementOfSeq
<1>2. QED
  BY <1>1, SubSeqProperties

LEMMA FrontIs ==
    ASSUME NEW T, NEW q \in Seq(T), q # <<>>
    PROVE  /\ Len(q) \in Nat \ {0} /\ Len(SubSeq(q, 1, Len(q) - 1)) = Len(q) - 1
           /\ \A i \in 1 .. Len(q) - 1 : SubSeq(q, 1, Len(q) - 1)[i] = q[i]
<1> DEFINE n == Len(q) - 1
<1>1. Len(q) \in Nat \ {0} /\ n \in Nat /\ \A i \in 1 .. n : q[i] \in T
  BY EmptySeq, ElementOfSeq
<1> HIDE DEF n
<1>2. /\ Len(SubSeq(q, 1, n)) = IF 1 <= n THEN n - 1 + 1 ELSE 0
      /\ \A i \in 1 .. n - 1 + 1 : SubSeq(q, 1, n)[i] = q[1 + i - 1]
  BY <1>1, SubSeqProperties
<1>3. Len(SubSeq(q, 1, n)) = n /\ \A i \in 1 .. n : SubSeq(q, 1, n)[i] = q[i]
  BY <1>1, <1>2
<1>4. QED
  BY <1>1, <1>3 DEF n

LEMMA EndsAppend ==
    ASSUME NEW M, NEW q \in Seq(M), NEW m
    PROVE  Ends(Append(q, m), M, m)
<1> DEFINE r == Append(q, m)
<1>1. q \in Seq(M \cup {m}) /\ Len(q) \in Nat
  BY SeqMonotonic, LenProperties
<1>2. /\ r \in Seq(M \cup {m}) /\ Len(r) = Len(q) + 1 /\ r[Len(r)] = m
      /\ \A i \in 1 .. Len(q) : r[i] = q[i] /\ r[i] \in M
  BY <1>1, AppendProperties, ElementOfSeq
<1> HIDE DEF r
<1>3. r # <<>>
  BY <1>1, <1>2, EmptySeq
<1>4. SubSeq(r, 1, Len(q)) \in Seq(M)
  BY <1>1, <1>2, SubSeqProperties
<1>5. Len(r) - 1 = Len(q)
  BY <1>1, <1>2
<1>6. QED
  BY <1>2, <1>3, <1>4, <1>5 DEF Ends, r

\* Reading from such a queue: the last message, or one before it.
LEMMA EndsRead ==
    ASSUME NEW T, NEW q \in Seq(T), NEW M, NEW last, Ends(q, M, last)
    PROVE  \/ Head(q) = last /\ Tail(q) = <<>>
           \/ Head(q) \in M /\ Ends(Tail(q), M, last)
<1> DEFINE r == Tail(q)
           n == Len(q)
           front == SubSeq(q, 1, n - 1)
<1>1. /\ q # <<>> /\ n \in Nat /\ 1 \in 1 .. n /\ Head(q) = q[1]
      /\ r \in Seq(T) /\ Len(r) = n - 1 /\ \A i \in 1 .. n - 1 : r[i] = q[i + 1]
  BY RemoveAtHead, HeadTailProperties DEF Ends
<1>2. q[n] = last /\ front \in Seq(M)
  BY DEF Ends
<1>3. Len(front) = n - 1 /\ \A i \in 1 .. n - 1 : front[i] = q[i]
  BY FrontIs DEF Ends
<1> HIDE DEF r, n, front
<1>4. \A i \in 1 .. n - 1 : q[i] \in M
  BY <1>2, <1>3, ElementOfSeq
<1>5. CASE n = 1
  <2>1. Len(r) = 0
    BY <1>1, <1>5
  <2>2. r = <<>>
    BY <1>1, <2>1, EmptySeq
  <2>3. QED
    BY <1>1, <1>2, <1>5, <2>2 DEF r
<1>6. CASE n # 1
  <2>1. n - 1 \in 1 .. n - 1 /\ Len(r) = n - 1 /\ 1 \in 1 .. n - 1
    BY <1>1, <1>6
  <2>2. r # <<>> /\ r[Len(r)] = last
    BY <1>1, <1>2, <2>1, EmptySeq
  <2>3. \A i \in 1 .. Len(r) - 1 : r[i] \in M
    BY <1>1, <1>4, SMTT(30)
  <2>4. SubSeq(r, 1, Len(r) - 1) \in Seq(M)
    BY <1>1, <2>3, SubSeqProperties
  <2>5. QED
    BY <1>1, <1>4, <2>1, <2>2, <2>4 DEF Ends, r
<1>7. QED
  BY <1>5, <1>6

LEMMA EndsPrefix ==
    ASSUME NEW T, NEW q \in Seq(T), NEW M, NEW last, Ends(q, M, last), NEW k \in 0 .. Len(q)
    PROVE  SubSeq(q, 1, k) \in Seq(M) \/ SubSeq(q, 1, k) = q
<1> DEFINE n == Len(q)
           front == SubSeq(q, 1, n - 1)
<1>1. n \in Nat /\ front \in Seq(M) /\ \A i \in 1 .. n : q[i] \in T
  BY LenProperties, ElementOfSeq DEF Ends
<1>2. CASE k = n
  BY <1>2, SubSeqFull
<1>3. CASE k # n
  <2>1. n - 1 \in Nat /\ k \in 0 .. n - 1
    BY <1>1, <1>3
  <2>2. Len(front) = n - 1 /\ \A i \in 1 .. n - 1 : front[i] = q[i]
    BY FrontIs DEF Ends
  <2> HIDE DEF front, n
  <2>3. \A i \in 1 .. k : q[i] \in M
    BY <1>1, <2>1, <2>2, ElementOfSeq
  <2>4. QED
    BY <2>1, <2>3, SubSeqProperties
<1>4. QED
  BY <1>2, <1>3

LEMMA EndsWithin ==
    ASSUME NEW T, NEW q \in Seq(T), NEW M, NEW N, M \subseteq N, NEW last, Ends(q, M, last)
    PROVE  /\ Ends(q, N, last)
           /\ \A i \in 1 .. Len(q) : q[i] \in M \/ (i = Len(q) /\ q[i] = last)
<1> DEFINE n == Len(q)
           front == SubSeq(q, 1, n - 1)
<1>1. /\ n \in Nat /\ n # 0 /\ front \in Seq(M) /\ q[n] = last
      /\ \A i \in 1 .. n - 1 : q[i] \in T
  BY LenProperties, ElementOfSeq, EmptySeq DEF Ends
<1>2. front \in Seq(N)
  BY <1>1, SeqMonotonic
<1>3. Len(front) = n - 1 /\ \A i \in 1 .. n - 1 : front[i] = q[i]
  BY FrontIs DEF Ends
<1>4. Ends(q, N, last)
  BY <1>2 DEF Ends
<1> HIDE DEF front, n
<1>5. \A i \in 1 .. n - 1 : q[i] \in M
  BY <1>1, <1>3, ElementOfSeq
<1>6. QED
  BY <1>1, <1>4, <1>5 DEF n

\* Short queues.
LEMMA Singles ==
    ASSUME NEW m, NEW n
    PROVE  /\ Head(<<m>>) = m /\ Tail(<<m>>) = <<>> /\ <<m>> # <<>> /\ Len(<<m>>) = 1
           /\ Head(<<m, n>>) = m /\ Tail(<<m, n>>) = <<n>> /\ <<m, n>> # <<>>
           /\ <<>> \o <<m>> = <<m>> /\ <<m>> \o <<n>> = <<m, n>>
           /\ Append(<<>>, m) = <<m>> /\ Append(<<m>>, n) = <<m, n>>
<1>1. Head(<<m>>) = m /\ Tail(<<m>>) = <<>> /\ <<m>> # <<>> /\ Len(<<m>>) = 1
  OBVIOUS
<1>2. Head(<<m, n>>) = m /\ Tail(<<m, n>>) = <<n>> /\ <<m, n>> # <<>>
  OBVIOUS
<1>3. /\ <<>> \in Seq({m, n}) /\ Len(<<>>) = 0
      /\ <<m>> \in Seq({m, n}) /\ Len(<<m>>) = 1 /\ <<m>>[1] = m
      /\ <<n>> \in Seq({m, n}) /\ Len(<<n>>) = 1 /\ <<n>>[1] = n
      /\ <<m, n>> \in Seq({m, n}) /\ Len(<<m, n>>) = 2
      /\ <<m, n>>[1] = m /\ <<m, n>>[2] = n
  BY EmptySeq
<1>4. Append(<<>>, m) = <<m>>
  BY <1>3, AppendProperties, SeqEqual
<1>5. Append(<<m>>, n) = <<m, n>>
  <2> DEFINE r == Append(<<m>>, n)
  <2>1. n \in {m, n}
    OBVIOUS
  <2>2. r \in Seq({m, n}) /\ Len(r) = 2 /\ r[1] = m /\ r[2] = n
    BY <1>3, <2>1, AppendProperties
  <2> HIDE DEF r
  <2>3. \A i \in 1 .. Len(r) : r[i] = <<m, n>>[i]
    BY <1>3, <2>2
  <2>4. r = <<m, n>>
    BY <1>3, <2>2, <2>3, SeqEqual
  <2>5. QED
    BY <2>4 DEF r
<1>6. <<>> \o <<m>> = <<m>> /\ <<m>> \o <<n>> = <<m, n>>
  <2>1. m \in {m, n} /\ n \in {m, n}
    OBVIOUS
  <2>2. Append(<<>>, m) = <<>> \o <<m>>
    BY <1>3, <2>1, AppendIsConcat
  <2>3. Append(<<m>>, n) = <<m>> \o <<n>>
    BY <1>3, <2>1, AppendIsConcat
  <2>4. QED
    BY <1>4, <1>5, <2>2, <2>3
<1>7. QED
  BY <1>1, <1>2, <1>4, <1>5, <1>6

-----------------------------------------------------------------------------
(* Messages. *)

LEMMA FileFacts ==
    /\ Sent(Uploads) \subseteq Files /\ Sent(Downloads) \subseteq Files
    /\ Sent(Uploads) \cap Sent(Downloads) = {} /\ NoFile \notin Files
    /\ \A l \in Uploads : l \in Seq(Sent(Uploads)) /\ l # <<>>
    /\ \A l \in Downloads : l \in Seq(Sent(Downloads)) /\ l # <<>>
<1>1. \A l \in Uploads \cup Downloads : l \in Seq(Files) /\ l # <<>>
  OBVIOUS
<1>2. \A l \in Uploads \cup Downloads : \A i \in DOMAIN l : l[i] \in Files
  BY <1>1, LenProperties, ElementOfSeq
<1>3. \A l \in Uploads \cup Downloads : \A M :
         (\A i \in DOMAIN l : l[i] \in M) => l \in Seq(M)
  <2> SUFFICES ASSUME NEW l \in Uploads \cup Downloads, NEW M, \A i \in DOMAIN l : l[i] \in M
               PROVE  l \in Seq(M)
    OBVIOUS
  <2>1. Len(l) \in Nat /\ l \in [1 .. Len(l) -> Files] /\ DOMAIN l = 1 .. Len(l)
    BY <1>1, LenProperties
  <2>2. l \in [1 .. Len(l) -> M]
    BY <2>1
  <2>3. QED
    BY <2>1, <2>2, SeqDef
<1>4. Sent(Uploads) \subseteq Files /\ Sent(Downloads) \subseteq Files
  BY <1>2 DEF Sent
<1>5. /\ \A l \in Uploads : \A i \in DOMAIN l : l[i] \in Sent(Uploads)
      /\ \A l \in Downloads : \A i \in DOMAIN l : l[i] \in Sent(Downloads)
  BY DEF Sent
<1>6. QED
  BY <1>1, <1>3, <1>4, <1>5

LEMMA MsgIs == \A type, arg : Msg(type, arg).type = type /\ Msg(type, arg).arg = arg
BY DEF Msg

LEMMA RefusedIs == Refused.type = "header" /\ ~Refused.arg
BY DEF Msg, Refused

LEMMA ToServerHas ==
    /\ Msg("abort", NoFile) \in ToServer /\ Msg("drives", NoFile) \in ToServer
    /\ Msg("dir", NoFile) \in ToServer
    /\ Msg("command", "create") \in ToServer /\ Deletion \in ToServer
    /\ \A f \in Files : /\ Msg("offer", f) \in ToServer /\ Msg("eof", f) \in ToServer
                        /\ Msg("request", f) \in ToServer
    /\ \A t \in Stored : Msg("sums", t) \in ToServer
    /\ \A b \in BOOLEAN : Msg("header", b) \in ToServer /\ Refused \in ToServer
    /\ \A b \in Blocks \cup {Same} : Msg("packet", b) \in ToServer
BY DEF Msg, ToServer, Packets, Deletion, Refused

LEMMA ToServerIs ==
    ASSUME NEW m \in ToServer
    PROVE  /\ m.type \in {"abort", "drives", "dir", "packet", "command", "offer", "eof",
                          "request", "sums", "header"}
           /\ m = Msg(m.type, m.arg)
           /\ m.type \in {"abort", "drives", "dir"} => m.arg = NoFile
           /\ m.type = "packet" => m.arg \in Blocks \cup {Same}
           /\ m.type = "command" => m.arg \in {"create", "delete"}
           /\ m.type \in {"offer", "eof", "request"} => m.arg \in Files
           /\ m.type = "sums" => m.arg \in Stored
           /\ m.type = "header" => m.arg \in BOOLEAN
BY DEF Msg, ToServer, Packets

LEMMA ToViewerHas ==
    /\ \A b \in BOOLEAN : /\ Msg("access", b) \in ToViewer /\ Msg("directory", b) \in ToViewer
                          /\ Msg("accept", b) \in ToViewer
    /\ Msg("drives", NoFile) \in ToViewer
    /\ \A w \in {"create", "delete"}, b \in BOOLEAN :
          Msg("return", [what |-> w, ok |-> b]) \in ToViewer
    /\ \A f \in Files, b \in BOOLEAN : Msg("header", [file |-> f, ok |-> b]) \in ToViewer
    /\ \A t \in Stored : Msg("sums", t) \in ToViewer
    /\ \A f \in Files : Msg("eof", f) \in ToViewer
    /\ \A b \in Blocks \cup {Same} : Msg("packet", b) \in ToViewer
BY DEF Msg, ToViewer, Packets

LEMMA ToViewerIs ==
    ASSUME NEW m \in ToViewer
    PROVE  /\ m.type \in {"access", "directory", "accept", "drives", "return", "header",
                          "sums", "eof", "packet"}
           /\ m = Msg(m.type, m.arg)
           /\ m.type \in {"access", "directory", "accept"} => m.arg \in BOOLEAN
           /\ m.type = "return" => m.arg.what \in {"create", "delete"} /\ m.arg.ok \in BOOLEAN
           /\ m.type = "header" => m.arg.file \in Files /\ m.arg.ok \in BOOLEAN
           /\ m.type = "sums" => m.arg \in Stored
           /\ m.type = "eof" => m.arg \in Files
           /\ m.type = "packet" => m.arg \in Blocks \cup {Same}
BY DEF Msg, ToViewer, Packets

-----------------------------------------------------------------------------
(* Deletions. *)

LEMMA KnownCounts ==
    ASSUME NEW s, NEW v, NEW n
    PROVE  Known(s, v, n) <=> Count(s, {Deletion}) + Count(v, Deletions) <= n
BY DEF Known, Count

LEMMA CountNone ==
    ASSUME NEW T, NEW q \in Seq(T), NEW M, \A i \in 1 .. Len(q) : q[i] \notin M
    PROVE  Count(q, M) = 0
<1>1. {i \in DOMAIN q : q[i] \in M} = {}
  BY LenProperties
<1>2. QED
  BY <1>1, FS_EmptySet DEF Count

LEMMA KnownNone ==
    ASSUME NEW s \in Seq(ToServer), NEW v \in Seq(ToViewer), NEW n \in Nat,
           \A i \in 1 .. Len(s) : s[i].type # "command",
           \A i \in 1 .. Len(v) : v[i].type # "return"
    PROVE  Known(s, v, n)
<1>1. (\A i \in 1 .. Len(s) : s[i] \notin {Deletion})
      /\ \A i \in 1 .. Len(v) : v[i] \notin Deletions
  BY MsgIs DEF Deletion, Deletions
<1>2. Count(s, {Deletion}) = 0 /\ Count(v, Deletions) = 0
  BY <1>1, CountNone
<1>3. Count(s, {Deletion}) + Count(v, Deletions) <= n
  BY <1>2
<1>4. QED
  BY <1>3, KnownCounts, Zenon

\* Reading, or sending something else than a deletion or its answer.
LEMMA KnownOther ==
    ASSUME NEW s \in Seq(ToServer), NEW v \in Seq(ToViewer), NEW n \in Nat, Known(s, v, n)
    PROVE  /\ s # <<>> => Known(Tail(s), v, n)
           /\ v # <<>> => Known(s, Tail(v), n)
           /\ \A m \in ToServer : m # Deletion => Known(Append(s, m), v, n)
           /\ \A m \in ToViewer : m \notin Deletions => Known(s, Append(v, m), n)
<1>1. Count(s, {Deletion}) \in Nat /\ Count(v, Deletions) \in Nat
  BY CountType
<1>2. Count(s, {Deletion}) + Count(v, Deletions) <= n
  BY KnownCounts, Zenon
<1>3. ASSUME s # <<>> PROVE Known(Tail(s), v, n)
  <2>1. /\ Count(Tail(s), {Deletion}) + (IF Head(s) \in {Deletion} THEN 1 ELSE 0)
               <= Count(s, {Deletion})
        /\ Count(Tail(s), {Deletion}) \in Nat
    BY <1>3, CountTail, CountType, SeqHead
  <2>2. Count(Tail(s), {Deletion}) + Count(v, Deletions) <= n
    BY <1>1, <1>2, <2>1
  <2>3. QED
    BY <2>2, KnownCounts, Zenon
<1>4. ASSUME v # <<>> PROVE Known(s, Tail(v), n)
  <2>1. /\ Count(Tail(v), Deletions) + (IF Head(v) \in Deletions THEN 1 ELSE 0)
               <= Count(v, Deletions)
        /\ Count(Tail(v), Deletions) \in Nat
    BY <1>4, CountTail, CountType, SeqHead
  <2>2. Count(s, {Deletion}) + Count(Tail(v), Deletions) <= n
    BY <1>1, <1>2, <2>1
  <2>3. QED
    BY <2>2, KnownCounts, Zenon
<1>5. ASSUME NEW m \in ToServer, m # Deletion PROVE Known(Append(s, m), v, n)
  <2>1. Count(Append(s, m), {Deletion}) = Count(s, {Deletion})
    BY <1>5, CountAppend
  <2>2. Count(Append(s, m), {Deletion}) + Count(v, Deletions) <= n
    BY <1>2, <2>1
  <2>3. QED
    BY <2>2, KnownCounts, Zenon
<1>6. ASSUME NEW m \in ToViewer, m \notin Deletions PROVE Known(s, Append(v, m), n)
  <2>1. Count(Append(v, m), Deletions) = Count(v, Deletions)
    BY <1>6, CountAppend
  <2>2. Count(s, {Deletion}) + Count(Append(v, m), Deletions) <= n
    BY <1>2, <2>1
  <2>3. QED
    BY <2>2, KnownCounts, Zenon
<1>7. QED
  BY <1>3, <1>4, <1>5, <1>6

LEMMA KnownAnswered ==
    ASSUME NEW s \in Seq(ToServer), NEW v \in Seq(ToViewer), NEW n \in Nat, Known(s, v, n),
           Is(s, "command"), NEW ok \in BOOLEAN
    PROVE  Known(Tail(s), Append(v, Msg("return", [what |-> Arg(s), ok |-> ok])), n)
<1> DEFINE w == Arg(s)
           m == Msg("return", [what |-> w, ok |-> ok])
<1>1. s # <<>> /\ Head(s) \in ToServer /\ Head(s).type = "command" /\ Head(s).arg = w
  BY SeqHead DEF Is, Arg
<1>2. w \in {"create", "delete"} /\ Head(s) = Msg("command", w)
  BY <1>1, ToServerIs
<1>3. m \in ToViewer /\ (m \in Deletions <=> w = "delete") /\ (Head(s) = Deletion <=> w = "delete")
  <2>1. m \in ToViewer
    BY <1>2, ToViewerHas
  <2>2. m.type = "return" /\ m.arg.what = w
    BY MsgIs
  <2>3. Head(s) = Deletion <=> w = "delete"
    BY <1>2 DEF Msg, Deletion
  <2>4. QED
    BY <2>1, <2>2, <2>3 DEF Deletions
<1> HIDE DEF w, m
<1>4. Count(s, {Deletion}) \in Nat /\ Count(v, Deletions) \in Nat
  BY CountType
<1>5. Count(s, {Deletion}) + Count(v, Deletions) <= n
  BY KnownCounts, Zenon
<1>6. /\ Count(Tail(s), {Deletion}) + (IF Head(s) \in {Deletion} THEN 1 ELSE 0)
            <= Count(s, {Deletion})
      /\ Count(Tail(s), {Deletion}) \in Nat
  BY <1>1, CountTail, CountType, SeqHead
<1>7. Count(Append(v, m), Deletions)
         = IF m \in Deletions THEN Count(v, Deletions) + 1 ELSE Count(v, Deletions)
  BY <1>3, CountAppend
<1>8. Count(Tail(s), {Deletion}) + Count(Append(v, m), Deletions) <= n
  BY <1>3, <1>4, <1>5, <1>6, <1>7
<1>9. Known(Tail(s), Append(v, m), n)
  BY <1>8, KnownCounts, Zenon
<1>10. QED
  BY <1>9 DEF w, m

LEMMA KnownDone ==
    ASSUME NEW s \in Seq(ToServer), NEW v \in Seq(ToViewer), NEW n \in Nat, Known(s, v, n),
           v # <<>>, Head(v) \in Deletions
    PROVE  n - 1 \in Nat /\ Known(s, Tail(v), n - 1)
<1>1. Count(s, {Deletion}) \in Nat /\ Count(v, Deletions) \in Nat
  BY CountType
<1>2. Count(s, {Deletion}) + Count(v, Deletions) <= n
  BY KnownCounts, Zenon
<1>3. /\ Count(Tail(v), Deletions) + (IF Head(v) \in Deletions THEN 1 ELSE 0)
            <= Count(v, Deletions)
      /\ Count(Tail(v), Deletions) \in Nat
  BY CountTail, CountType, SeqHead
<1>4. n - 1 \in Nat /\ Count(s, {Deletion}) + Count(Tail(v), Deletions) <= n - 1
  BY <1>1, <1>2, <1>3
<1>5. QED
  BY <1>4, KnownCounts, Zenon

LEMMA KnownOrdered ==
    ASSUME NEW n \in Nat
    PROVE  /\ [i \in 1 .. n |-> Deletion] \in Seq({Deletion})
           /\ Known([i \in 1 .. n |-> Deletion], <<>>, n)
<1> DEFINE s == [i \in 1 .. n |-> Deletion]
           I == {i \in DOMAIN s : s[i] \in {Deletion}}
           J == {i \in DOMAIN <<>> : <<>>[i] \in Deletions}
<1>1. s \in [1 .. n -> {Deletion}]
  OBVIOUS
<1>2. s \in Seq({Deletion})
  BY <1>1, SeqDef
<1>3. I = 1 .. n
  OBVIOUS
<1>4. Cardinality(1 .. n) = n
  <2>1. 1 \in Int /\ n \in Int
    OBVIOUS
  <2>2. Cardinality(1 .. n) = IF 1 > n THEN 0 ELSE n - 1 + 1
    BY <2>1, FS_Interval
  <2>3. QED
    BY <2>2
<1>5. J = {}
  OBVIOUS
<1>6. Cardinality(J) = 0
  BY <1>5, FS_EmptySet
<1> HIDE DEF I, J
<1>7. Cardinality(I) + Cardinality(J) <= n
  BY <1>3, <1>4, <1>6
<1>8. QED
  BY <1>2, <1>7 DEF Known, I, J

-----------------------------------------------------------------------------
(* What a step leaves alone. *)

\* A queue after a step that neither takes nor adds a part of a file.
Other(q, r, T) ==
    \/ r = q
    \/ q # <<>> /\ Head(q).type # "packet" /\ r = Tail(q)
    \/ \E m \in T : m.type \notin {"packet", "eof"} /\ r = Append(q, m)
    \/ \E k \in 0 .. Len(q) : r = SubSeq(q, 1, k)

LEMMA BringsKept ==
    ASSUME NEW f \in Files, NEW pos \in Nat, NEW t, NEW T, NEW q \in Seq(T), NEW r,
           Brings(f, pos, t, q), Other(q, r, T)
    PROVE  Brings(f, pos, t, r)
<1>1. CASE r = q
  BY <1>1
<1>2. CASE q # <<>> /\ Head(q).type # "packet" /\ r = Tail(q)
  BY <1>2, BringsOther
<1>3. ASSUME NEW m \in T, m.type \notin {"packet", "eof"}, r = Append(q, m)
      PROVE  Brings(f, pos, t, r)
  BY <1>3, BringsAppend
<1>4. ASSUME NEW k \in 0 .. Len(q), r = SubSeq(q, 1, k)
      PROVE  Brings(f, pos, t, r)
  BY <1>4, BringsPrefix
<1>5. QED
  BY <1>1, <1>2, <1>3, <1>4 DEF Other

LEMMA Receivers ==
    ASSUME Inductive
    PROVE  /\ sRecv.pos \in Nat /\ vRecv.pos \in Nat
           /\ sRecv.running \in BOOLEAN /\ vRecv.running \in BOOLEAN /\ vRecv.error \in BOOLEAN
           /\ enabled \in BOOLEAN
           /\ sRecv.running /\ sRecv.file # NoFile =>
                 /\ sRecv.file \in Sent(Uploads) /\ sRecv.file \in Files
                 /\ temp[sRecv.file] \in Stored
           /\ Fed => /\ sRecv.running /\ sRecv.file \in Sent(Uploads) /\ sRecv.file \in Files
                     /\ temp[sRecv.file] \in Stored
                     /\ Brings(sRecv.file, sRecv.pos, temp[sRecv.file], toS)
           /\ vRecv.running => /\ vRecv.file \in Sent(Downloads) /\ vRecv.file \in Files
                               /\ temp[vRecv.file] \in Stored
                               /\ ~vRecv.error =>
                                     Brings(vRecv.file, vRecv.pos, temp[vRecv.file], toV)
           /\ vRecv.running /\ sRecv.running => vRecv.file # sRecv.file
           /\ toS \in Seq(ToServer) /\ toV \in Seq(ToViewer)
<1>1. sRecv \in [running : BOOLEAN, file : Files \cup {NoFile}, pos : Nat]
      /\ vRecv \in [running : BOOLEAN, error : BOOLEAN, file : Files \cup {NoFile}, pos : Nat]
      /\ toS \in Seq(ToServer) /\ toV \in Seq(ToViewer) /\ enabled \in BOOLEAN
  BY DEF Inductive, TypeOK
<1>2. UploadGrows /\ DownloadGrows
  BY DEF Inductive
<1>3. QED
  BY <1>1, <1>2, FileFacts DEF UploadGrows, DownloadGrows, Fed

LEMMA UploadKept ==
    ASSUME Inductive, UNCHANGED sRecv, enabled' => enabled,
           sRecv.running /\ sRecv.file # NoFile => temp'[sRecv.file] = temp[sRecv.file],
           Other(toS, toS', ToServer)
    PROVE  UploadGrows'
<1>1. ASSUME Fed
      PROVE  Brings(sRecv.file, sRecv.pos, temp[sRecv.file], toS')
  BY <1>1, Receivers, BringsKept
<1>2. QED
  BY <1>1, Receivers DEF UploadGrows, Fed

LEMMA DownloadKept ==
    ASSUME Inductive, UNCHANGED vRecv, vRecv.running => temp'[vRecv.file] = temp[vRecv.file],
           Other(toV, toV', ToViewer)
    PROVE  DownloadGrows'
<1>1. CASE vRecv.running
  <2>1. ~vRecv.error => Brings(vRecv.file, vRecv.pos, temp[vRecv.file], toV')
    BY <1>1, Receivers, BringsKept
  <2>2. QED
    BY <1>1, <2>1, Receivers DEF DownloadGrows
<1>2. CASE ~vRecv.running
  BY <1>2 DEF DownloadGrows
<1>3. QED
  BY <1>1, <1>2

-----------------------------------------------------------------------------
(* What is read says which phase it is. *)

LEMMA HeadTold ==
    ASSUME Inductive, inSync, link = "up", toV # <<>>
    PROVE  /\ Head(toV) \in ToViewer /\ Tail(toV) \in Seq(ToViewer)
           /\ Head(toV).type \in {"access", "drives"} => Resting \/ Receiving
           /\ Head(toV).type \in {"directory", "return"} => Resting
           /\ Head(toV).type \in {"sums", "accept"} => Accepting
           /\ Head(toV).type = "header" => Announcing /\ Tail(toV) = <<>>
           /\ Head(toV).type \in {"packet", "eof"} =>
                 Resting \/ Requesting \/ Zipping \/ Announcing \/ Receiving \/ Unanswered
<1>1. toV \in Seq(ToViewer) /\ Phase /\ ~Cut
  BY DEF Inductive, TypeOK, Cut
<1>2. Head(toV) \in ToViewer /\ Tail(toV) \in Seq(ToViewer)
  BY <1>1, SeqHead
<1>3. CASE Resting
  <2>1. Head(toV).type \in {"access", "drives", "directory", "return", "packet", "eof"}
    BY <1>3, SeqHead DEF Resting, Told
  <2>2. QED
    BY <1>2, <1>3, <2>1
<1>4. CASE Offering \/ Uploading \/ Opening
  BY <1>4 DEF Offering, Uploading, Opening
<1>5. CASE Accepting
  <2>1. Head(toV).type \in {"sums", "accept"}
    <3>1. ASSUME NEW b \in BOOLEAN, toV = <<Msg("accept", b)>>
          PROVE  Head(toV).type = "accept"
      BY <3>1, MsgIs
    <3>2. CASE toV = <<Msg("sums", temp[vSend.file]), Msg("accept", TRUE)>>
      BY <3>2, MsgIs, Singles
    <3>3. QED
      BY <1>5, <3>1, <3>2 DEF Accepting
  <2>2. QED
    BY <1>2, <1>5, <2>1
<1>6. CASE Requesting \/ Zipping \/ Unanswered
  <2>1. Head(toV).type \in {"packet", "eof"}
    BY <1>6, SeqHead DEF Requesting, Zipping, Unanswered, Stray, Told
  <2>2. QED
    BY <1>2, <1>6, <2>1
<1>7. CASE Announcing
  <2>1. PICK ok \in BOOLEAN :
           Ends(toV, Stray, Msg("header", [file |-> sSend.file, ok |-> ok]))
    BY <1>7 DEF Announcing
  <2>2. \/ Head(toV).type = "header" /\ Tail(toV) = <<>>
        \/ Head(toV).type \in {"packet", "eof"}
    BY <1>1, <2>1, EndsRead, MsgIs DEF Stray, Told
  <2>3. QED
    BY <1>2, <1>7, <2>2
<1>8. CASE Receiving
  <2>1. Head(toV).type \in {"access", "drives", "packet", "eof"}
    BY <1>8, SeqHead DEF Receiving, Told
  <2>2. QED
    BY <1>2, <1>8, <2>1
<1>9. QED
  BY <1>1, <1>3, <1>4, <1>5, <1>6, <1>7, <1>8 DEF Phase

LEMMA HeadAsked ==
    ASSUME Inductive, inSync, toS # <<>>
    PROVE  /\ Head(toS) \in ToServer /\ Tail(toS) \in Seq(ToServer)
           /\ Head(toS).type \in {"dir", "command"} => Resting \/ Cut
           /\ Head(toS).type \in {"abort", "drives"} => Resting \/ Receiving \/ Cut
           /\ Head(toS).type \in {"packet", "eof"} =>
                 Resting \/ Offering \/ (Uploading /\ Head(toS).type = "packet") \/ Cut
           /\ Head(toS).type = "offer" => (Offering \/ Cut) /\ Tail(toS) = <<>>
           /\ Head(toS).type = "request" => (Requesting \/ Cut) /\ Tail(toS) = <<>>
           /\ Head(toS).type = "sums" => Opening \/ Cut
           /\ Head(toS).type = "header" =>
                 \/ Head(toS) = Refused /\ (Resting \/ Requesting)
                 \/ Opening /\ Tail(toS) = <<>> /\ Head(toS).arg
                 \/ Cut
           /\ Cut => \/ Head(toS) \in Unread(sSend.file)
                     \/ /\ Tail(toS) = <<>>
                        /\ \E f \in Sent(Uploads) : Head(toS) = Msg("offer", f)
                     \/ /\ Tail(toS) = <<>>
                        /\ \E f \in Sent(Downloads) : Head(toS) = Msg("request", f)
<1>1. toS \in Seq(ToServer) /\ Phase
  BY DEF Inductive, TypeOK
<1>2. Head(toS) \in ToServer /\ Tail(toS) \in Seq(ToServer)
  BY <1>1, SeqHead
<1> DEFINE type == Head(toS).type
<1>3. CASE Resting /\ ~Cut
  <2>1. \/ type \in {"abort", "drives", "dir", "command", "packet", "eof"}
        \/ type = "header" /\ Head(toS) = Refused
    BY <1>3, SeqHead, RefusedIs DEF Resting, Asked
  <2>2. QED
    BY <1>2, <1>3, <2>1
<1>4. CASE Offering /\ ~Cut
  <2>1. \/ type = "offer" /\ Tail(toS) = <<>>
        \/ type \in {"packet", "eof"}
    BY <1>1, <1>4, EndsRead, MsgIs DEF Offering, Asked
  <2>2. QED
    BY <1>2, <1>4, <2>1
<1>5. CASE Accepting \/ Zipping \/ Announcing \/ Unanswered
  BY <1>5 DEF Accepting, Zipping, Announcing, Unanswered
<1>6. CASE Uploading /\ ~Cut
  <2>1. type = "packet"
    BY <1>6, SeqHead DEF Uploading, Asked
  <2>2. QED
    BY <1>2, <1>6, <2>1
<1>7. CASE Requesting /\ ~Cut
  <2>1. PICK f \in Sent(Downloads) : Ends(toS, {Refused}, Msg("request", f))
    BY <1>7 DEF Requesting
  <2>2. \/ type = "request" /\ Tail(toS) = <<>>
        \/ type = "header" /\ Head(toS) = Refused
    BY <1>1, <2>1, EndsRead, MsgIs, RefusedIs
  <2>3. QED
    BY <1>2, <1>7, <2>2
<1>8. CASE Opening /\ ~Cut
  <2>1. type = "sums" \/ (type = "header" /\ Tail(toS) = <<>> /\ Head(toS).arg)
    <3>1. ASSUME NEW b \in BOOLEAN, toS = <<Msg("header", b)>>
          PROVE  Head(toS).type = "header" /\ Tail(toS) = <<>> /\ Head(toS).arg = b
      BY <3>1, MsgIs
    <3>2. CASE toS = <<Msg("sums", temp[vRecv.file]), Msg("header", TRUE)>>
      BY <3>2, MsgIs, Singles
    <3>3. QED
      BY <1>8, <3>1, <3>2 DEF Opening
  <2>2. QED
    BY <1>2, <1>8, <2>1
<1>9. CASE Receiving /\ ~Cut
  <2>1. type \in {"abort", "drives"}
    BY <1>9, SeqHead DEF Receiving, Asked
  <2>2. QED
    BY <1>2, <1>9, <2>1
<1>10. CASE Cut
  <2>1. CASE toS \in Seq(Unread(sSend.file))
    <3>1. Head(toS) \in Unread(sSend.file)
      BY <2>1, SeqHead
    <3>2. Head(toS).type \notin {"offer", "request"}
      BY <3>1 DEF Unread
    <3>3. QED
      BY <1>2, <1>10, <3>1, <3>2
  <2>2. ASSUME NEW f \in Sent(Uploads), Ends(toS, Unread(sSend.file), Msg("offer", f))
        PROVE  \/ Head(toS) \in Unread(sSend.file)
               \/ Tail(toS) = <<>> /\ Head(toS) = Msg("offer", f)
    BY <1>1, <2>2, EndsRead
  <2>3. ASSUME NEW f \in Sent(Downloads), Ends(toS, Unread(sSend.file), Msg("request", f))
        PROVE  \/ Head(toS) \in Unread(sSend.file)
               \/ Tail(toS) = <<>> /\ Head(toS) = Msg("request", f)
    BY <1>1, <2>3, EndsRead
  <2>4. \/ Head(toS) \in Unread(sSend.file)
        \/ Tail(toS) = <<>> /\ \E f \in Sent(Uploads) : Head(toS) = Msg("offer", f)
        \/ Tail(toS) = <<>> /\ \E f \in Sent(Downloads) : Head(toS) = Msg("request", f)
    <3>1. CASE toS \in Seq(Unread(sSend.file))
      BY <3>1, SeqHead
    <3>2. QED
      BY <1>10, <2>2, <2>3, <3>1 DEF Cut
  <2>5. type \in {"offer", "request"} => Tail(toS) = <<>>
    BY <2>4 DEF Unread
  <2>6. QED
    BY <1>2, <1>10, <2>4, <2>5
<1>11. QED
  BY <1>1, <1>3, <1>4, <1>5, <1>6, <1>7, <1>8, <1>9, <1>10 DEF Phase

-----------------------------------------------------------------------------
(* The viewer's thread that reads. *)

LEMMA ListRemoteDrivesKeeps ==
    ASSUME Inductive, ListRemoteDrives
    PROVE  Inductive'
<1>1. /\ inSync /\ link = "up" /\ toV # <<>> /\ Head(toV).type = "drives" /\ toV' = Tail(toV)
      /\ remoteDir' = FALSE /\ pending' = FALSE
  BY DEF ListRemoteDrives, Reads, Is
<1>2. UNCHANGED <<buttons, allowed, abort, aborted, deletes, list, sending, vRecv,
                   server, toS, link, lists, inSync, disk>>
  BY DEF ListRemoteDrives
<1>3. toV' \in Seq(ToViewer) /\ (Resting \/ Receiving)
  BY <1>1, HeadTold
<1>4. TypeOK'
  <2>1. pending' \in BOOLEAN /\ remoteDir' \in BOOLEAN
    BY <1>1, Zenon
  <2>2. QED
    BY <1>2, <1>3, <2>1 DEF Inductive, TypeOK, sending, server, disk
<1>5. UploadGrows' /\ DownloadGrows' /\ FileIntact'
  <2>1. Other(toS, toS', ToServer) /\ Other(toV, toV', ToViewer)
    BY <1>1, <1>2 DEF Other
  <2>2. UploadGrows' /\ DownloadGrows'
    BY <1>2, <2>1, UploadKept, DownloadKept DEF server, disk
  <2>3. QED
    BY <1>2, <2>2 DEF Inductive, FileIntact, disk
<1>6. Phase'
  <2>1. CASE Resting
    <3>1. Known(toS', toV', deletes')
      BY <1>1, <1>2, <2>1, KnownOther DEF Inductive, TypeOK, Resting
    <3>2. QED
      BY <1>1, <1>2, <2>1, <3>1, SeqHead DEF Resting, Phase, sending, server
  <2>2. CASE Receiving
    BY <1>1, <1>2, <2>2, SeqHead DEF Receiving, InDownload, Stray, Phase, sending, server
  <2>3. QED
    BY <1>3, <2>1, <2>2
<1>7. QED
  BY <1>2, <1>4, <1>5, <1>6 DEF Inductive, sending

LEMMA TestPermissionKeeps ==
    ASSUME Inductive, TestPermission
    PROVE  Inductive'
<1> DEFINE b == Arg(toV)
           m == Msg("drives", NoFile)
<1>1. /\ inSync /\ link = "up" /\ toV # <<>> /\ Head(toV).type = "access" /\ toV' = Tail(toV)
      /\ Head(toV).arg = b /\ allowed' = b /\ buttons' = (buttons /\ b)
      /\ toS' = IF b THEN Append(toS, m) ELSE toS
  BY DEF TestPermission, Reads, Is, Arg
<1>2. UNCHANGED <<pending, remoteDir, abort, aborted, deletes, list, sending, vRecv,
                   server, link, lists, inSync, disk>>
  BY DEF TestPermission
<1>3. toV' \in Seq(ToViewer) /\ (Resting \/ Receiving) /\ b \in BOOLEAN
  BY <1>1, HeadTold, ToViewerIs
<1>4. m \in ToServer /\ m.type = "drives" /\ m # Deletion
  BY ToServerHas, MsgIs DEF Deletion
<1>5. toS \in Seq(ToServer) /\ toV \in Seq(ToViewer) /\ toS' \in Seq(ToServer) /\ deletes \in Nat
  BY <1>1, <1>4, AppendProperties DEF Inductive, TypeOK
<1> HIDE DEF b, m
<1>6. TypeOK'
  <2>1. allowed' \in BOOLEAN /\ buttons' \in BOOLEAN
    BY <1>1, <1>3, Zenon
  <2>2. QED
    BY <1>2, <1>3, <1>5, <2>1 DEF Inductive, TypeOK, sending, server, disk
<1>7. UploadGrows' /\ DownloadGrows' /\ FileIntact'
  <2>1. Other(toS, toS', ToServer) /\ Other(toV, toV', ToViewer)
    BY <1>1, <1>4 DEF Other
  <2>2. UploadGrows' /\ DownloadGrows'
    BY <1>2, <2>1, UploadKept, DownloadKept DEF server, disk
  <2>3. QED
    BY <1>2, <2>2 DEF Inductive, FileIntact, disk
<1>8. Phase'
  <2>1. CASE Resting
    <3>1. Known(toS', toV', deletes)
      <4>1. Known(toS', toV, deletes)
        BY <1>1, <1>4, <1>5, <2>1, KnownOther DEF Resting
      <4>2. QED
        BY <1>1, <1>5, <4>1, KnownOther
    <3>2. toS' \in Seq(Asked({"abort", "drives", "dir", "command", "packet", "eof"})
                          \cup {Refused})
      BY <1>1, <1>4, <2>1, AppendProperties DEF Resting, Asked
    <3>3. QED
      BY <1>1, <1>2, <2>1, <3>1, <3>2, SeqHead DEF Resting, Phase, sending, server
  <2>2. CASE Receiving
    <3>1. abort
      BY <1>1, <2>2, SeqHead DEF Receiving, Stray, Told
    <3>2. toS' \in Seq(Asked({"abort", "drives"}))
      BY <1>1, <1>4, <2>2, AppendProperties DEF Receiving, Asked
    <3>3. QED
      BY <1>1, <1>2, <2>2, <3>1, <3>2, SeqHead
      DEF Receiving, InDownload, Phase, sending, server
  <2>3. QED
    BY <1>3, <2>1, <2>2
<1>9. QED
  BY <1>2, <1>6, <1>7, <1>8 DEF Inductive, sending

LEMMA ReceiveDirectoryKeeps ==
    ASSUME Inductive, ReceiveDirectory
    PROVE  Inductive'
<1>1. /\ inSync /\ link = "up" /\ toV # <<>> /\ Head(toV).type = "directory"
      /\ toV' = Tail(toV)
      /\ \/ remoteDir' = TRUE /\ buttons' = TRUE /\ pending' = FALSE
         \/ UNCHANGED <<remoteDir, buttons, pending>>
  BY DEF ReceiveDirectory, Reads, Is
<1>2. UNCHANGED <<allowed, abort, aborted, deletes, list, sending, vRecv,
                   server, toS, link, lists, inSync, disk>>
  BY DEF ReceiveDirectory
<1>3. toV' \in Seq(ToViewer) /\ Resting
  BY <1>1, HeadTold
<1>4. TypeOK'
  <2>1. pending' \in BOOLEAN /\ remoteDir' \in BOOLEAN /\ buttons' \in BOOLEAN
    <3>1. pending \in BOOLEAN /\ remoteDir \in BOOLEAN /\ buttons \in BOOLEAN
      BY DEF Inductive, TypeOK
    <3>2. QED
      BY <1>1, <3>1, Zenon
  <2>2. QED
    BY <1>2, <1>3, <2>1 DEF Inductive, TypeOK, sending, server, disk
<1>5. UploadGrows' /\ DownloadGrows' /\ FileIntact'
  <2>1. Other(toS, toS', ToServer) /\ Other(toV, toV', ToViewer)
    BY <1>1, <1>2 DEF Other
  <2>2. UploadGrows' /\ DownloadGrows'
    BY <1>2, <2>1, UploadKept, DownloadKept DEF server, disk
  <2>3. QED
    BY <1>2, <2>2 DEF Inductive, FileIntact, disk
<1>6. Phase'
  <2>1. Known(toS', toV', deletes')
    BY <1>1, <1>2, <1>3, KnownOther DEF Inductive, TypeOK, Resting
  <2>2. QED
    BY <1>1, <1>2, <1>3, <2>1, SeqHead DEF Resting, Phase, sending, server
<1>7. QED
  BY <1>2, <1>4, <1>5, <1>6 DEF Inductive, sending

LEMMA CommandFeedbackKeeps ==
    ASSUME Inductive, CommandFeedback
    PROVE  Inductive'
<1> DEFINE what == Arg(toV).what
           ok == Arg(toV).ok
           m == Msg("dir", NoFile)
<1>1. /\ inSync /\ link = "up" /\ toV # <<>> /\ Head(toV).type = "return" /\ toV' = Tail(toV)
      /\ toS' = toS \/ toS' = Append(toS, m)
      /\ deletes' = IF ok /\ what = "delete" THEN deletes - 1 ELSE deletes
      /\ pending' = FALSE
  BY DEF CommandFeedback, Reads, Is
<1>2. UNCHANGED <<buttons, remoteDir, allowed, abort, aborted, list, sending, vRecv,
                   server, link, lists, inSync, disk>>
  BY DEF CommandFeedback
<1>3. /\ toV' \in Seq(ToViewer) /\ Resting
      /\ what = "delete" => Head(toV) \in Deletions
  BY <1>1, HeadTold DEF Deletions, Arg
<1>4. m \in ToServer /\ m.type = "dir" /\ m # Deletion
  BY ToServerHas, MsgIs DEF Deletion
<1>5. /\ toS \in Seq(ToServer) /\ toV \in Seq(ToViewer) /\ toS' \in Seq(ToServer)
      /\ deletes \in 0 .. MaxDeletes /\ deletes \in Nat /\ MaxDeletes \in Nat
  <2>1. /\ toS \in Seq(ToServer) /\ toV \in Seq(ToViewer)
        /\ deletes \in 0 .. MaxDeletes /\ MaxDeletes \in Nat
    BY DEF Inductive, TypeOK
  <2>2. Append(toS, m) \in Seq(ToServer)
    BY <1>4, <2>1, AppendProperties
  <2>3. QED
    BY <1>1, <2>1, <2>2, SMTT(30)
<1> HIDE DEF what, ok, m
<1>6. deletes' \in 0 .. MaxDeletes /\ Known(toS, toV', deletes')
  <2>1. CASE ok /\ what = "delete"
    <3>1. deletes - 1 \in Nat /\ Known(toS, toV', deletes - 1)
      BY <1>1, <1>3, <1>5, <2>1, KnownDone DEF Resting
    <3>2. QED
      BY <1>1, <1>5, <2>1, <3>1
  <2>2. CASE ~(ok /\ what = "delete")
    <3>1. deletes' = deletes
      BY <1>1, <2>2
    <3>2. Known(toS, toV', deletes)
      BY <1>1, <1>3, <1>5, KnownOther DEF Resting
    <3>3. QED
      BY <1>5, <3>1, <3>2
  <2>3. QED
    BY <2>1, <2>2
<1>7. TypeOK'
  <2>1. pending' \in BOOLEAN
    BY <1>1, Zenon
  <2>2. QED
    BY <1>2, <1>3, <1>5, <1>6, <2>1 DEF Inductive, TypeOK, sending, server, disk
<1>8. UploadGrows' /\ DownloadGrows' /\ FileIntact'
  <2>1. Other(toS, toS', ToServer) /\ Other(toV, toV', ToViewer)
    BY <1>1, <1>4 DEF Other
  <2>2. UploadGrows' /\ DownloadGrows'
    BY <1>2, <2>1, UploadKept, DownloadKept DEF server, disk
  <2>3. QED
    BY <1>2, <2>2 DEF Inductive, FileIntact, disk
<1>9. Phase'
  <2>1. Known(toS', toV', deletes')
    <3>1. deletes' \in Nat
      BY <1>5, <1>6
    <3>2. Known(Append(toS, m), toV', deletes')
      BY <1>3, <1>4, <1>5, <1>6, <3>1, KnownOther
    <3>3. QED
      BY <1>1, <1>6, <3>2
  <2> DEFINE M == Asked({"abort", "drives", "dir", "command", "packet", "eof"}) \cup {Refused}
  <2>2. toS' \in Seq(M)
    <3>1. toS \in Seq(M) /\ m \in M
      BY <1>3, <1>4 DEF Resting, Asked
    <3>2. Append(toS, m) \in Seq(M)
      BY <3>1, AppendProperties
    <3>3. QED
      BY <1>1, <3>1, <3>2
  <2>3. QED
    BY <1>1, <1>2, <1>3, <2>1, <2>2, SeqHead DEF Resting, Phase, sending, server
<1>10. QED
  BY <1>2, <1>7, <1>8, <1>9 DEF Inductive, sending

LEMMA ReceiveChecksumsKeeps ==
    ASSUME Inductive, ReceiveChecksums
    PROVE  Inductive'
<1> DEFINE t == Arg(toV)
<1>1. /\ inSync /\ link = "up" /\ toV # <<>> /\ Head(toV).type = "sums" /\ toV' = Tail(toV)
      /\ t = Head(toV).arg /\ vSend' = [vSend EXCEPT !.sums = t]
  BY DEF ReceiveChecksums, Reads, Is, Arg
<1>2. UNCHANGED <<ui, list, timerOn, tick, vRecv, server, toS, link, lists, inSync, disk>>
  BY DEF ReceiveChecksums
<1>3. toV' \in Seq(ToViewer) /\ Accepting /\ t \in Stored
  BY <1>1, HeadTold, ToViewerIs
<1> HIDE DEF t
<1>4. vSend \in [running : BOOLEAN, eof : BOOLEAN, file : Files \cup {NoFile},
                 pos : Nat, sums : Stored, at : Nat]
  BY DEF Inductive, TypeOK
<1>5. /\ vSend' \in [running : BOOLEAN, eof : BOOLEAN, file : Files \cup {NoFile},
                     pos : Nat, sums : Stored, at : Nat]
      /\ vSend'.sums = t /\ vSend'.running = vSend.running
      /\ vSend'.file = vSend.file /\ vSend'.at = vSend.at
  BY <1>1, <1>3, <1>4
<1>6. TypeOK'
  BY <1>2, <1>3, <1>5 DEF Inductive, TypeOK, ui, server, disk
<1>7. UploadGrows' /\ DownloadGrows' /\ FileIntact'
  <2>1. Other(toS, toS', ToServer) /\ Other(toV, toV', ToViewer)
    BY <1>1, <1>2 DEF Other
  <2>2. UploadGrows' /\ DownloadGrows'
    BY <1>2, <2>1, UploadKept, DownloadKept DEF server, disk
  <2>3. QED
    BY <1>2, <2>2 DEF Inductive, FileIntact, disk
<1>8. Accepting'
  <2> DEFINE old == temp[vSend.file]
  <2>1. toV = <<Msg("sums", old), Msg("accept", TRUE)>>
    <3>1. ASSUME NEW b \in BOOLEAN, toV = <<Msg("accept", b)>>
          PROVE  FALSE
      BY <1>1, <3>1, MsgIs
    <3>2. QED
      BY <1>3, <3>1 DEF Accepting
  <2>2. sRecv.running /\ sRecv.file = vSend.file /\ sRecv.pos = 0
    <3>1. ASSUME NEW b \in BOOLEAN, toV = <<Msg("accept", b)>>
          PROVE  FALSE
      BY <1>1, <3>1, MsgIs
    <3>2. QED
      BY <1>3, <3>1 DEF Accepting
  <2>3. t = old /\ toV' = <<Msg("accept", TRUE)>>
    <3>1. /\ Head(toV) = Msg("sums", old)
          /\ Tail(toV) = <<Msg("accept", TRUE)>>
      BY <2>1, Singles, ZenonT(30)
    <3>2. Msg("sums", old).arg = old
      BY MsgIs
    <3>3. t = old
      BY <1>1, <3>1, <3>2
    <3>4. toV' = <<Msg("accept", TRUE)>>
      BY <1>1, <3>1, Zenon
    <3>5. QED
      BY <3>3, <3>4
  <2>4. InUpload'
    BY <1>2, <1>3, <1>5 DEF Accepting, InUpload, ui, server
  <2>5. QED
    BY <1>2, <1>3, <1>5, <2>2, <2>3, <2>4 DEF Accepting, server, disk
<1>9. QED
  BY <1>1, <1>2, <1>5, <1>6, <1>7, <1>8 DEF Inductive, Phase


-----------------------------------------------------------------------------
(* The next file of a list, or its end. *)

Uploaders == [running : BOOLEAN, eof : BOOLEAN, file : Files \cup {NoFile},
              pos : Nat, sums : Stored, at : Nat]

\* A file is offered.
Offers(queue, thread) ==
    /\ list' \in Seq(Sent(Uploads)) /\ vSend'.file \in Sent(Uploads)
    /\ toS' = Append(queue, Msg("offer", vSend'.file))
    /\ vSend'.sums = <<>> /\ vSend'.at = 0
    /\ tick' = (IF thread = "timer" THEN "idle" ELSE tick)
    /\ abort => thread = "dialog"

\* The list is done.
Stops(queue, thread) ==
    /\ list' = <<>>
    /\ toS' = queue \/ toS' = Append(queue, Msg("dir", NoFile))
    /\ tick' = (IF thread = "timer" THEN "ending" ELSE tick)

LEMMA OfferFromIs ==
    ASSUME Inductive, NEW files \in Seq(Sent(Uploads)), NEW queue,
           NEW thread \in {"dialog", "reader", "timer"}, OfferFrom(files, queue, thread)
    PROVE  /\ pending' \in BOOLEAN /\ timerOn' \in BOOLEAN
           /\ vSend' \in Uploaders
           /\ vSend'.running = (vSend.running /\ thread # "timer")
           /\ Offers(queue, thread) \/ Stops(queue, thread)
<1>1. vSend \in Uploaders /\ pending \in BOOLEAN /\ timerOn \in BOOLEAN
  BY DEF Inductive, TypeOK, Uploaders
<1>2. /\ Idle(thread) \in Uploaders
      /\ Idle(thread).running = (vSend.running /\ thread # "timer")
  <2>1. (vSend.running /\ thread # "timer") \in BOOLEAN
    OBVIOUS
  <2> DEFINE on == vSend.running /\ thread # "timer"
  <2>2. on \in BOOLEAN /\ Idle(thread) = [vSend EXCEPT !.running = on]
    BY <2>1 DEF Idle
  <2> HIDE DEF on
  <2>3. Idle(thread) \in Uploaders /\ Idle(thread).running = on
    BY <1>1, <2>2 DEF Uploaders
  <2>4. QED
    BY <2>3 DEF on
<1>3. PICK k \in Skipped(files) :
         IF k < Len(files) /\ (abort => thread = "dialog")
         THEN /\ OfferLocalFile(After(files, k), queue, thread)
              /\ pending' = (pending \/ thread = "dialog")
              /\ timerOn' = (timerOn \/ k > 0 \/ thread = "reader")
              /\ tick' = IF thread = "timer" THEN "idle" ELSE tick
         ELSE UploadEnds(queue, thread)
  BY Zenon DEF OfferFrom
<1>4. Len(files) \in Nat /\ k \in 0 .. Len(files)
  <2>1. Len(files) \in Nat
    BY LenProperties
  <2>2. QED
    BY <2>1 DEF Skipped
<1>5. CASE k < Len(files) /\ (abort => thread = "dialog")
  <2>1. /\ OfferLocalFile(After(files, k), queue, thread)
        /\ pending' = (pending \/ thread = "dialog")
        /\ timerOn' = (timerOn \/ k > 0 \/ thread = "reader")
        /\ tick' = IF thread = "timer" THEN "idle" ELSE tick
    BY <1>3, <1>5, Zenon
  <2> DEFINE rest == After(files, k)
             f == Head(rest)
  <2>2. rest \in Seq(Sent(Uploads)) /\ f \in Sent(Uploads)
    <3>1. \A i \in k + 1 .. Len(files) : files[i] \in Sent(Uploads)
      BY <1>4, ElementOfSeq
    <3>2. rest \in Seq(Sent(Uploads)) /\ Len(rest) # 0
      BY <1>4, <1>5, <3>1, SubSeqProperties DEF After
    <3>3. rest # <<>>
      BY <3>2, EmptySeq
    <3>4. QED
      BY <3>2, <3>3, SeqHead
  <2> HIDE DEF rest
  <2>3. /\ list' = rest /\ toS' = Append(queue, Msg("offer", f))
        /\ vSend' = [Idle(thread) EXCEPT !.file = f, !.sums = <<>>, !.at = 0]
    BY <2>1 DEF OfferLocalFile, rest
  <2>4. f \in Files /\ <<>> \in Stored
    BY <2>2, FileFacts, EmptyStored
  <2> HIDE DEF f
  <2>5. /\ vSend' \in Uploaders /\ vSend'.file = f /\ vSend'.sums = <<>> /\ vSend'.at = 0
        /\ vSend'.running = Idle(thread).running
    BY <1>2, <2>3, <2>4 DEF Uploaders
  <2>6. pending' \in BOOLEAN /\ timerOn' \in BOOLEAN
    BY <1>1, <2>1, Zenon
  <2>7. Offers(queue, thread)
    BY <1>5, <2>1, <2>2, <2>3, <2>5 DEF Offers
  <2>8. QED
    BY <1>2, <2>5, <2>6, <2>7
<1>6. CASE ~(k < Len(files) /\ (abort => thread = "dialog"))
  <2>1. UploadEnds(queue, thread)
    BY <1>3, <1>6, Zenon
  <2>2. pending' \in BOOLEAN /\ timerOn' \in BOOLEAN
    BY <1>1, <2>1, Zenon DEF UploadEnds
  <2>3. QED
    BY <1>2, <2>1, <2>2 DEF UploadEnds, Stops
<1>7. QED
  BY <1>5, <1>6

\* Either way the upload is in the phase that follows.
LEMMA OfferFromLeads ==
    ASSUME Inductive, NEW queue \in Seq(Asked({"abort", "packet", "eof"})),
           NEW thread \in {"dialog", "reader", "timer"},
           Offers(queue, thread) \/ Stops(queue, thread),
           Offers(queue, thread) => queue \in Seq(Asked({"packet", "eof"})),
           ~vSend'.running, ~buttons', toV' = <<>>, link' = "up",
           UNCHANGED <<vRecv, zip, deletes>>, ~vRecv.running, zip = NoFile
    PROVE  /\ toS' \in Seq(ToServer) /\ list' \in Seq(Files)
           /\ tick' \in {"idle", "sending", "ending"}
           /\ thread = "timer" => tick' # "sending"
           /\ (Resting \/ Offering)'
<1>1. tick \in {"idle", "sending", "ending"} /\ deletes \in Nat
  BY DEF Inductive, TypeOK
<1>2. Asked({"abort", "packet", "eof"}) \subseteq ToServer
  BY DEF Asked
<1>3. queue \in Seq(ToServer)
  BY <1>2, SeqMonotonic
<1>4. CASE Offers(queue, thread)
  <2> DEFINE m == Msg("offer", vSend'.file)
  <2>1. /\ queue \in Seq(Asked({"packet", "eof"})) /\ toS' = Append(queue, m)
        /\ list' \in Seq(Sent(Uploads)) /\ vSend'.file \in Sent(Uploads)
        /\ vSend'.sums = <<>> /\ vSend'.at = 0
        /\ tick' = (IF thread = "timer" THEN "idle" ELSE tick)
    BY <1>4 DEF Offers
  <2>2. m \in ToServer /\ list' \in Seq(Files)
    BY <2>1, FileFacts, ToServerHas, SeqMonotonic
  <2>3. toS' \in Seq(ToServer)
    BY <1>3, <2>1, <2>2, AppendProperties
  <2>4. Ends(toS', Asked({"packet", "eof"}), m)
    BY <2>1, EndsAppend
  <2>5. Offering'
    BY <2>1, <2>4 DEF Offering, InUpload
  <2>6. QED
    BY <1>1, <2>1, <2>2, <2>3, <2>5
<1>5. CASE Stops(queue, thread)
  <2> DEFINE m == Msg("dir", NoFile)
             M == Asked({"abort", "drives", "dir", "command", "packet", "eof"}) \cup {Refused}
             N == Asked({"abort", "dir", "packet", "eof"})
  <2>1. /\ toS' = queue \/ toS' = Append(queue, m)
        /\ list' = <<>> /\ tick' = (IF thread = "timer" THEN "ending" ELSE tick)
    BY <1>5 DEF Stops
  <2>2. m \in N
    BY ToServerHas, MsgIs DEF Asked
  <2>3. N \subseteq M /\ N \subseteq ToServer /\ Asked({"abort", "packet", "eof"}) \subseteq N
    BY DEF Asked
  <2>4. queue \in Seq(N)
    BY <2>3, SeqMonotonic
  <2>5. Append(queue, m) \in Seq(N)
    BY <2>2, <2>4, AppendProperties
  <2>6. toS' \in Seq(N)
    BY <2>1, <2>4, <2>5
  <2>7. toS' \in Seq(M) /\ toS' \in Seq(ToServer) /\ list' \in Seq(Files)
    BY <2>1, <2>3, <2>6, SeqMonotonic, EmptySeq
  <2>8. Known(toS', <<>>, deletes)
    <3>1. \A i \in 1 .. Len(toS') : toS'[i].type # "command"
      BY <2>6, ElementOfSeq DEF Asked
    <3>2. <<>> \in Seq(ToViewer) /\ Len(<<>>) = 0
      BY EmptySeq
    <3>3. \A i \in 1 .. Len(<<>>) : <<>>[i].type # "return"
      BY <3>2
    <3>4. QED
      BY <1>1, <2>7, <3>1, <3>2, <3>3, KnownNone
  <2>9. toV' \in Seq(Told({"access", "drives", "directory", "return", "packet", "eof"}))
    BY EmptySeq
  <2>10. Resting'
    BY <2>7, <2>8, <2>9 DEF Resting
  <2>11. QED
    BY <1>1, <2>1, <2>7, <2>10
<1>6. QED
  BY <1>4, <1>5


LEMMA AfterIs ==
    ASSUME NEW S, NEW files \in Seq(S), NEW k \in Nat
    PROVE  After(files, k) \in Seq(S)
<1>1. Len(files) \in Nat /\ \A i \in k + 1 .. Len(files) : files[i] \in S
  BY LenProperties, ElementOfSeq
<1>2. QED
  BY <1>1, SubSeqProperties DEF After

LEMMA SendFileKeeps ==
    ASSUME Inductive, SendFile
    PROVE  Inductive'
<1>1. /\ inSync /\ link = "up" /\ toV # <<>> /\ Head(toV).type = "accept" /\ toV' = Tail(toV)
      /\ \/ /\ Head(toV).arg
            /\ vSend' = [vSend EXCEPT !.running = TRUE, !.eof = FALSE, !.pos = 0]
            /\ timerOn' = TRUE
            /\ UNCHANGED <<pending, list, tick, toS>>
         \/ OfferFrom(After(list, 1), toS, "reader")
  BY DEF SendFile, Reads, Is, Arg
<1>2. UNCHANGED <<buttons, remoteDir, allowed, abort, aborted, deletes, vRecv,
                  server, link, lists, inSync, disk>>
  BY DEF SendFile
<1>3. Accepting /\ toV \in Seq(ToViewer)
  BY <1>1, HeadTold DEF Inductive, TypeOK
<1>4. /\ toV' = <<>> /\ toS = <<>> /\ InUpload /\ ~vSend.running /\ vSend.at = 0
      /\ Head(toV).arg => /\ sRecv.running /\ sRecv.file = vSend.file /\ sRecv.pos = 0
                          /\ vSend.sums \in {<<>>, temp[vSend.file]}
  <2>1. ASSUME toV = <<Msg("sums", temp[vSend.file]), Msg("accept", TRUE)>>
        PROVE  FALSE
    BY <1>1, <2>1, MsgIs, Singles
  <2>2. ASSUME NEW b \in BOOLEAN, toV = <<Msg("accept", b)>>
        PROVE  toV' = <<>> /\ Head(toV).arg = b
    BY <1>1, <2>2, MsgIs
  <2>3. QED
    BY <1>3, <2>1, <2>2 DEF Accepting
<1>5. DownloadGrows' /\ FileIntact' /\ UNCHANGED <<sRecv, temp, enabled>>
  <2>1. Other(toV, toV', ToViewer)
    BY <1>1 DEF Other
  <2>2. DownloadGrows'
    BY <1>2, <2>1, DownloadKept DEF disk
  <2>3. QED
    BY <1>2, <2>2 DEF Inductive, FileIntact, disk, server
<1>6. toV' \in Seq(ToViewer) /\ vSend \in Uploaders /\ timerOn \in BOOLEAN
  BY <1>4, EmptySeq DEF Inductive, TypeOK, Uploaders
<1>7. CASE /\ Head(toV).arg
           /\ vSend' = [vSend EXCEPT !.running = TRUE, !.eof = FALSE, !.pos = 0]
           /\ timerOn' = TRUE
           /\ UNCHANGED <<pending, list, tick, toS>>
  <2>1. /\ vSend' \in Uploaders /\ vSend'.running /\ ~vSend'.eof /\ vSend'.pos = 0
        /\ vSend'.file = vSend.file /\ vSend'.sums = vSend.sums /\ vSend'.at = vSend.at
    BY <1>6, <1>7 DEF Uploaders
  <2>2. TypeOK'
    <3>1. timerOn' \in BOOLEAN
      BY <1>7, Zenon
    <3>2. QED
      BY <1>2, <1>6, <1>7, <2>1, <3>1, SMTT(30) DEF Inductive, TypeOK, Uploaders, server, disk
  <2>3. UploadGrows'
    BY <1>5, <1>7, UploadKept DEF Other
  <2>4. Uploading'
    <3>1. InUpload'
      BY <1>2, <1>4, <1>7, <2>1 DEF InUpload, server
    <3>2. vSend.file \in Files /\ Len(Content[vSend.file]) \in Nat
      BY <1>4, FileFacts, ContentFacts DEF InUpload
    <3>3. temp[vSend.file] \in Stored
      BY <1>4, <1>7, Receivers, FileFacts DEF InUpload
    <3>4. Spared(vSend.sums, 0, 0, temp[vSend.file])
      BY <1>4, <1>7, <3>3, SparedStart
    <3>5. toS' \in Seq(Asked({"packet"})) /\ Len(toS') = 0
      BY <1>4, <1>7, EmptySeq
    <3> DEFINE pos == vSend'.pos
               room == Len(Content[vSend.file])
    <3>6. pos <= room /\ (vSend'.eof => pos = room) /\ sRecv'.pos + Len(toS') = pos
      BY <1>4, <1>5, <1>7, <2>1, <3>2, <3>5
    <3>7. Spared(vSend'.sums, vSend'.at, vSend'.pos, temp'[vSend'.file])
      BY <1>4, <1>5, <2>1, <3>4
    <3>8. QED
      BY <1>4, <1>5, <1>7, <2>1, <3>1, <3>5, <3>6, <3>7 DEF Uploading
  <2>5. QED
    BY <1>1, <1>2, <1>5, <2>1, <2>2, <2>3, <2>4 DEF Inductive, Phase
<1>8. CASE OfferFrom(After(list, 1), toS, "reader")
  <2>1. list \in Seq(Sent(Uploads)) /\ ~vRecv.running /\ zip = NoFile /\ ~buttons
    BY <1>4 DEF InUpload
  <2>2. After(list, 1) \in Seq(Sent(Uploads))
    BY <2>1, AfterIs
  <2>3. /\ pending' \in BOOLEAN /\ timerOn' \in BOOLEAN
        /\ vSend' \in Uploaders
        /\ vSend'.running = (vSend.running /\ "reader" # "timer")
        /\ Offers(toS, "reader") \/ Stops(toS, "reader")
    BY <1>8, <2>2, OfferFromIs
  <2>4. /\ toS \in Seq(Asked({"abort", "packet", "eof"})) /\ toS \in Seq(Asked({"packet", "eof"}))
    BY <1>4, EmptySeq
  <2>5. ~vSend'.running
    BY <1>4, <2>3
  <2>6. /\ toS' \in Seq(ToServer) /\ list' \in Seq(Files)
        /\ tick' \in {"idle", "sending", "ending"}
        /\ (Resting \/ Offering)'
    <3>1. ~buttons' /\ UNCHANGED <<vRecv, zip, deletes>> /\ link' = "up"
      BY <1>1, <1>2, <2>1 DEF server
    <3>2. QED
      BY <1>4, <2>1, <2>3, <2>4, <2>5, <3>1, OfferFromLeads
  <2>7. TypeOK'
    BY <1>2, <1>6, <2>3, <2>6 DEF Inductive, TypeOK, Uploaders, server, disk
  <2>8. UploadGrows'
    <3>1. Other(toS, toS', ToServer)
      BY <2>3, ToServerHas, MsgIs, FileFacts DEF Offers, Stops, Other
    <3>2. QED
      BY <1>5, <3>1, UploadKept
  <2>9. tick' = tick
    BY <2>3 DEF Offers, Stops
  <2>10. tick # "sending"
    BY <1>4 DEF Inductive
  <2>11. QED
    BY <1>1, <1>2, <1>5, <2>6, <2>7, <2>8, <2>9, <2>10 DEF Inductive, Phase
<1>9. QED
  BY <1>1, <1>7, <1>8

-----------------------------------------------------------------------------
(* The timer's thread, which sends. *)

LEMMA RunningIsUploading ==
    ASSUME Inductive, inSync, vSend.running
    PROVE  /\ Uploading /\ link = "up"
           /\ vSend \in Uploaders /\ vSend.file \in Files /\ Len(Content[vSend.file]) \in Nat
           /\ toS \in Seq(ToServer) /\ Len(toS) \in Nat /\ list \in Seq(Sent(Uploads))
<1>1. Uploading /\ link = "up"
  BY DEF Inductive, Phase, Cut, Resting, Offering, Accepting, Requesting, Zipping, Announcing,
         Opening, Receiving, Unanswered, InDownload
<1>2. vSend \in Uploaders /\ toS \in Seq(ToServer)
  BY DEF Inductive, TypeOK, Uploaders
<1>3. vSend.file \in Sent(Uploads) /\ list \in Seq(Sent(Uploads))
  BY <1>1 DEF Uploading, InUpload
<1>4. vSend.file \in Files
  BY <1>3, FileFacts
<1>5. QED
  BY <1>1, <1>2, <1>3, <1>4, ContentFacts, LenProperties

\* The block that is sent is right for a receiver that has got all before it.
LEMMA PacketSent ==
    ASSUME Inductive, inSync, vSend.running, vSend.pos # Len(Content[vSend.file])
    PROVE  LET m    == Msg("packet", Packet(vSend, vSend.pos))
               sent == Append(toS, m)
           IN  /\ m \in ToServer /\ m.type = "packet"
               /\ sent \in Seq(Asked({"packet"})) /\ sent \in Seq(ToServer)
               /\ Len(sent) = Len(toS) + 1
               /\ vSend.pos + 1 <= Len(Content[vSend.file])
               /\ Fed => Brings(sRecv.file, sRecv.pos, temp[sRecv.file], sent)
<1> DEFINE m == Msg("packet", Packet(vSend, vSend.pos))
           sent == Append(toS, m)
           s == vSend
           pos == vSend.pos
<1>1. /\ Uploading /\ s.file \in Files /\ s.sums \in Stored /\ s.at \in Nat /\ pos \in Nat
      /\ Len(Content[s.file]) \in Nat /\ toS \in Seq(ToServer) /\ Len(toS) \in Nat
  BY RunningIsUploading DEF Uploaders
<1>2. pos < Len(Content[s.file])
  BY <1>1 DEF Uploading
<1> HIDE DEF s, pos
<1>3. Packet(s, pos) \in Blocks \cup {Same}
  BY <1>1, <1>2, PacketIs
<1>4. m \in ToServer /\ m.type = "packet" /\ m.arg = Packet(s, pos)
  BY <1>3, ToServerHas, MsgIs DEF s, pos
<1> HIDE DEF m
<1>5. toS \in Seq(Asked({"packet"})) /\ m \in Asked({"packet"})
  BY <1>1, <1>4 DEF Uploading, Asked
<1>6. /\ sent \in Seq(Asked({"packet"})) /\ sent \in Seq(ToServer)
      /\ Len(sent) = Len(toS) + 1
  BY <1>1, <1>4, <1>5, AppendProperties
<1>7. ASSUME Fed
      PROVE  Brings(sRecv.file, sRecv.pos, temp[sRecv.file], sent)
  <2>1. /\ sRecv.file = s.file /\ sRecv.pos + Len(toS) = pos
        /\ Spared(s.sums, s.at, pos, temp[s.file])
    BY <1>1, <1>7 DEF Uploading, Fed, s, pos
  <2>2. /\ Brings(s.file, sRecv.pos, temp[s.file], toS) /\ temp[s.file] \in Stored
        /\ sRecv.pos \in Nat
    BY <1>7, <2>1, Receivers
  <2>3. Right(s.file, pos + 1, temp[s.file], Packet(s, pos))
    BY <1>1, <1>2, <2>1, <2>2, PacketRight
  <2>4. Right(s.file, sRecv.pos + Len(toS) + 1, temp[s.file], m.arg)
    BY <1>4, <2>1, <2>3
  <2>5. \A i \in 1 .. Len(toS) : toS[i].type = "packet"
    BY <1>5, ElementOfSeq DEF Asked
  <2>6. Brings(s.file, sRecv.pos, temp[s.file], sent)
    BY <1>1, <1>4, <2>2, <2>4, <2>5, BringsAppend
  <2>7. QED
    BY <2>1, <2>6
<1>8. pos + 1 <= Len(Content[s.file])
  BY <1>1, <1>2
<1>9. QED
  BY <1>4, <1>6, <1>7, <1>8 DEF m, s, pos


LEMMA PhaseSame ==
    ASSUME Phase, abort => abort', enabled' => enabled,
           UNCHANGED buttons, UNCHANGED deletes, UNCHANGED list, UNCHANGED vSend, UNCHANGED vRecv,
           UNCHANGED sSend, UNCHANGED sRecv, UNCHANGED zip,
           UNCHANGED toS, UNCHANGED toV, UNCHANGED link, UNCHANGED temp
    PROVE  Phase'
<1>1. Cut => Cut'
  BY DEF Cut
<1>2. Resting => Resting'
  BY DEF Resting
<1>3. InUpload => InUpload'
  BY DEF InUpload
<1>4. (Offering => Offering') /\ (Accepting => Accepting') /\ (Uploading => Uploading')
  BY <1>3 DEF Offering, Accepting, Uploading
<1>5. InDownload => InDownload'
  BY DEF InDownload
<1>6. (Requesting => Requesting') /\ (Zipping => Zipping') /\ (Announcing => Announcing')
  BY <1>5 DEF Requesting, Zipping, Announcing
<1>7. (Opening => Opening') /\ (Receiving => Receiving') /\ (Unanswered => Unanswered')
  BY <1>5 DEF Opening, Receiving, Unanswered
<1>8. QED
  BY <1>1, <1>2, <1>4, <1>6, <1>7 DEF Phase

\* A step that sends and reads nothing and touches no file.
LEMMA FilesSame ==
    ASSUME Inductive, enabled' => enabled, UNCHANGED sRecv, UNCHANGED vRecv,
           UNCHANGED toS, UNCHANGED toV, UNCHANGED temp, UNCHANGED final
    PROVE  UploadGrows' /\ DownloadGrows' /\ FileIntact'
<1>1. UploadGrows' /\ DownloadGrows'
  BY UploadKept, DownloadKept DEF Other
<1>2. QED
  BY <1>1 DEF Inductive, FileIntact

LEMMA TickKeeps ==
    ASSUME Inductive, Tick
    PROVE  Inductive'
<1>1. /\ inSync /\ vSend.running /\ tick' = "sending"
      /\ UNCHANGED <<ui, list, vSend, timerOn, vRecv, server, toS, toV, link, lists, inSync, disk>>
  BY DEF Tick
<1>2. TypeOK'
  BY <1>1 DEF Inductive, TypeOK, ui, server, disk
<1>3. Phase'
  BY <1>1, PhaseSame DEF Inductive, ui, server, disk
<1>4. UploadGrows' /\ DownloadGrows' /\ FileIntact'
  BY <1>1, FilesSame DEF server, disk
<1>5. QED
  BY <1>1, <1>2, <1>3, <1>4 DEF Inductive

LEMMA UploadUnlocksKeeps ==
    ASSUME Inductive, UploadUnlocks
    PROVE  Inductive'
<1>1. /\ inSync /\ pending' = FALSE /\ timerOn' = FALSE /\ tick' = "idle"
      /\ UNCHANGED <<buttons, remoteDir, allowed, abort, aborted, deletes, list, vSend, vRecv,
                     server, toS, toV, link, lists, inSync, disk>>
  BY DEF UploadUnlocks
<1>2. TypeOK'
  <2>1. pending' \in BOOLEAN /\ timerOn' \in BOOLEAN
    BY <1>1, Zenon
  <2>2. QED
    BY <1>1, <2>1 DEF Inductive, TypeOK, server, disk
<1>3. Phase'
  BY <1>1, PhaseSame DEF Inductive, server, disk
<1>4. UploadGrows' /\ DownloadGrows' /\ FileIntact'
  BY <1>1, FilesSame DEF server, disk
<1>5. QED
  BY <1>1, <1>2, <1>3, <1>4 DEF Inductive

\* What both steps of the sending thread leave alone.
LEMMA SendingLeaves ==
    ASSUME Inductive, inSync, vSend.running,
           UNCHANGED <<buttons, remoteDir, allowed, abort, aborted, deletes, vRecv,
                       server, toV, link, lists, inSync, disk>>
    PROVE  /\ ~buttons' /\ toV' = <<>> /\ link' = "up" /\ ~vRecv.running /\ zip = NoFile
           /\ UNCHANGED <<vRecv, zip, deletes>> /\ UNCHANGED sRecv /\ UNCHANGED temp
           /\ UNCHANGED enabled /\ DownloadGrows' /\ FileIntact' /\ inSync'
           /\ pending' \in BOOLEAN /\ timerOn' \in BOOLEAN
                /\ tick' \in {"idle", "sending", "ending"} /\ list' \in Seq(Files)
                /\ vSend' \in Uploaders /\ toS' \in Seq(ToServer) => TypeOK'
<1>1. Uploading /\ link = "up"
  BY RunningIsUploading
<1>2. ~buttons' /\ toV' = <<>> /\ link' = "up" /\ ~vRecv.running /\ zip = NoFile
  BY <1>1 DEF Uploading, InUpload
<1>3. /\ UNCHANGED <<vRecv, zip, deletes>> /\ UNCHANGED sRecv /\ UNCHANGED temp
      /\ UNCHANGED enabled /\ inSync'
  BY DEF server, disk
<1>4. DownloadGrows'
  BY <1>3, DownloadKept DEF Other
<1>5. FileIntact'
  BY DEF Inductive, FileIntact, disk
<1>6. pending' \in BOOLEAN /\ timerOn' \in BOOLEAN
        /\ tick' \in {"idle", "sending", "ending"} /\ list' \in Seq(Files)
        /\ vSend' \in Uploaders /\ toS' \in Seq(ToServer) => TypeOK'
  BY DEF Inductive, TypeOK, Uploaders, server, disk
<1>7. QED
  BY <1>2, <1>3, <1>4, <1>5, <1>6

\* OfferFrom at the end of a file or after an abort.
LEMMA SendingEnds ==
    ASSUME Inductive, inSync, vSend.running, NEW queue \in Seq(Asked({"abort", "packet", "eof"})),
           Fed => Brings(sRecv.file, sRecv.pos, temp[sRecv.file], queue),
           OfferFrom(After(list, 1), queue, "timer"),
           Offers(queue, "timer") => queue \in Seq(Asked({"packet", "eof"})),
           UNCHANGED <<buttons, remoteDir, allowed, abort, aborted, deletes, vRecv,
                       server, toV, link, lists, inSync, disk>>
    PROVE  Inductive'
<1>1. /\ ~buttons' /\ toV' = <<>> /\ link' = "up" /\ ~vRecv.running /\ zip = NoFile
      /\ UNCHANGED <<vRecv, zip, deletes>> /\ UNCHANGED sRecv /\ UNCHANGED temp
      /\ UNCHANGED enabled /\ DownloadGrows' /\ FileIntact' /\ inSync'
      /\ pending' \in BOOLEAN /\ timerOn' \in BOOLEAN
           /\ tick' \in {"idle", "sending", "ending"} /\ list' \in Seq(Files)
           /\ vSend' \in Uploaders /\ toS' \in Seq(ToServer) => TypeOK'
  BY SendingLeaves
<1>2. After(list, 1) \in Seq(Sent(Uploads))
  BY RunningIsUploading, AfterIs
<1>3. /\ pending' \in BOOLEAN /\ timerOn' \in BOOLEAN /\ vSend' \in Uploaders
      /\ vSend'.running = (vSend.running /\ "timer" # "timer")
      /\ Offers(queue, "timer") \/ Stops(queue, "timer")
  BY <1>2, OfferFromIs
<1>4. ~vSend'.running
  BY <1>3
<1>5. /\ toS' \in Seq(ToServer) /\ list' \in Seq(Files)
      /\ tick' \in {"idle", "sending", "ending"} /\ tick' # "sending"
      /\ (Resting \/ Offering)'
  BY <1>1, <1>3, <1>4, OfferFromLeads
<1>6. TypeOK'
  BY <1>1, <1>3, <1>5
<1>7. UploadGrows'
  <2>1. Asked({"abort", "packet", "eof"}) \subseteq ToServer
    BY DEF Asked
  <2>2. queue \in Seq(ToServer)
    BY <2>1, SeqMonotonic
  <2>3. Other(queue, toS', ToServer)
    BY <1>3, FileFacts, ToServerHas, MsgIs DEF Offers, Stops, Other
  <2>4. Fed => Brings(sRecv.file, sRecv.pos, temp[sRecv.file], toS')
    BY <2>2, <2>3, Receivers, BringsKept
  <2>5. QED
    BY <1>1, <2>4, Receivers DEF UploadGrows, Fed
<1>8. QED
  BY <1>1, <1>5, <1>6, <1>7 DEF Inductive, Phase

LEMMA SendFileChunkKeeps ==
    ASSUME Inductive, SendFileChunk
    PROVE  Inductive'
<1> DEFINE m == Msg("packet", Packet(vSend, vSend.pos))
           sent == Append(toS, m)
<1>1. inSync /\ tick = "sending" /\ ~vSend.eof /\ vSend.running
  BY DEF SendFileChunk, Inductive
<1>2. UNCHANGED <<buttons, remoteDir, allowed, abort, aborted, deletes, vRecv,
                  server, toV, link, lists, inSync, disk>>
  BY DEF SendFileChunk
<1>3. /\ ~buttons' /\ toV' = <<>> /\ link' = "up" /\ ~vRecv.running /\ zip = NoFile
      /\ UNCHANGED <<vRecv, zip, deletes>> /\ UNCHANGED sRecv /\ UNCHANGED temp
      /\ UNCHANGED enabled /\ DownloadGrows' /\ FileIntact' /\ inSync'
      /\ pending' \in BOOLEAN /\ timerOn' \in BOOLEAN
           /\ tick' \in {"idle", "sending", "ending"} /\ list' \in Seq(Files)
           /\ vSend' \in Uploaders /\ toS' \in Seq(ToServer) => TypeOK'
  BY <1>1, <1>2, SendingLeaves
<1>4. /\ Uploading /\ link = "up"
      /\ vSend \in Uploaders /\ vSend.file \in Files /\ Len(Content[vSend.file]) \in Nat
      /\ toS \in Seq(ToServer) /\ Len(toS) \in Nat /\ list \in Seq(Sent(Uploads))
      /\ pending \in BOOLEAN /\ timerOn \in BOOLEAN /\ tick \in {"idle", "sending", "ending"}
      /\ list \in Seq(Files)
  BY <1>1, RunningIsUploading DEF Inductive, TypeOK
<1>5. InUpload /\ vSend.file \in Sent(Uploads) /\ ~buttons
  BY <1>4 DEF Uploading, InUpload
<1>6. CASE vSend.pos = Len(Content[vSend.file])
  <2>1. vSend' = [vSend EXCEPT !.eof = TRUE] /\ UNCHANGED <<pending, list, timerOn, tick, toS>>
    BY <1>6 DEF SendFileChunk
  <2>2. /\ vSend' \in Uploaders /\ vSend'.running = vSend.running /\ vSend'.file = vSend.file
        /\ vSend'.pos = vSend.pos /\ vSend'.sums = vSend.sums /\ vSend'.at = vSend.at
    BY <1>4, <2>1 DEF Uploaders
  <2>3. TypeOK'
    BY <1>3, <1>4, <2>1, <2>2
  <2>4. UploadGrows'
    BY <1>3, <2>1, UploadKept DEF Other
  <2>5. Uploading'
    <3>1. InUpload'
      BY <1>3, <1>5, <2>1, <2>2 DEF InUpload
    <3>2. sRecv'.running /\ enabled' =>
            /\ sRecv'.file = vSend'.file /\ sRecv'.pos + Len(toS') = vSend'.pos
            /\ Spared(vSend'.sums, vSend'.at, vSend'.pos, temp'[vSend'.file])
      BY <1>3, <1>4, <2>1, <2>2 DEF Uploading
    <3>3. QED
      BY <1>1, <1>3, <1>4, <1>6, <2>1, <2>2, <3>1, <3>2 DEF Uploading
  <2>6. QED
    BY <1>1, <1>3, <2>1, <2>2, <2>3, <2>4, <2>5 DEF Inductive, Phase
<1>7. CASE vSend.pos # Len(Content[vSend.file])
  <2>1. /\ m \in ToServer /\ m.type = "packet"
        /\ sent \in Seq(Asked({"packet"})) /\ sent \in Seq(ToServer)
        /\ Len(sent) = Len(toS) + 1
        /\ vSend.pos + 1 <= Len(Content[vSend.file])
        /\ Fed => Brings(sRecv.file, sRecv.pos, temp[sRecv.file], sent)
    BY <1>1, <1>7, PacketSent, Zenon
  <2>2. CASE abort
    <3> DEFINE stop == Msg("abort", NoFile)
               queue == Append(sent, stop)
    <3>1. OfferFrom(After(list, 1), queue, "timer")
      BY <1>7, <2>2 DEF SendFileChunk
    <3> HIDE DEF m, sent
    <3>2. stop \in ToServer /\ stop.type = "abort"
      BY ToServerHas, MsgIs
    <3> HIDE DEF stop
    <3>3. queue \in Seq(Asked({"abort", "packet", "eof"}))
      <4>1. Asked({"packet"}) \subseteq Asked({"abort", "packet", "eof"})
            /\ stop \in Asked({"abort", "packet", "eof"})
        BY <3>2 DEF Asked
      <4>2. sent \in Seq(Asked({"abort", "packet", "eof"}))
        BY <2>1, <4>1, SeqMonotonic
      <4>3. QED
        BY <4>1, <4>2, AppendProperties
    <3>4. Fed => Brings(sRecv.file, sRecv.pos, temp[sRecv.file], queue)
      <4>1. Other(sent, queue, ToServer)
        BY <3>2 DEF Other
      <4>2. QED
        BY <2>1, <4>1, Receivers, BringsKept
    <3>5. ~Offers(queue, "timer")
      BY <2>2 DEF Offers
    <3> HIDE DEF queue
    <3>6. QED
      BY <1>1, <1>2, <3>1, <3>3, <3>4, <3>5, SendingEnds
  <2>3. CASE ~abort
    <3>1. /\ vSend' = [vSend EXCEPT !.pos = @ + 1, !.at = Compared(vSend)]
          /\ toS' = sent /\ UNCHANGED <<pending, list, timerOn, tick>>
      BY <1>7, <2>3 DEF SendFileChunk
    <3> HIDE DEF m, sent
    <3>2. vSend.sums \in Stored /\ Len(vSend.sums) \in Nat /\ vSend.at \in Nat /\ vSend.pos \in Nat
      BY <1>4, StoredFacts DEF Uploaders
    <3>3. Compared(vSend) \in Nat
          /\ Compared(vSend) = IF vSend.at < Len(vSend.sums) THEN vSend.at + 1 ELSE vSend.at
      BY <3>2 DEF Compared
    <3>4. /\ vSend' \in Uploaders /\ vSend'.running /\ vSend'.file = vSend.file
          /\ ~vSend'.eof /\ vSend'.pos = vSend.pos + 1 /\ vSend'.sums = vSend.sums
          /\ vSend'.at = Compared(vSend)
      <4> DEFINE at == Compared(vSend)
                 pos == vSend.pos + 1
      <4>1. at \in Nat /\ pos \in Nat /\ vSend' = [vSend EXCEPT !.pos = pos, !.at = at]
        BY <3>1, <3>2, <3>3
      <4> HIDE DEF at, pos
      <4>2. /\ vSend' \in Uploaders /\ vSend'.running = vSend.running
            /\ vSend'.file = vSend.file /\ vSend'.eof = vSend.eof /\ vSend'.pos = pos
            /\ vSend'.sums = vSend.sums /\ vSend'.at = at
        BY <1>4, <4>1 DEF Uploaders
      <4>3. QED
        BY <1>1, <4>2 DEF at, pos
    <3>5. TypeOK'
      BY <1>3, <1>4, <2>1, <3>1, <3>4
    <3>6. UploadGrows'
      BY <1>3, <2>1, <3>1, Receivers DEF UploadGrows, Fed
    <3>7. Uploading'
      <4>1. InUpload'
        BY <1>3, <1>5, <3>1, <3>4 DEF InUpload
      <4>2. ASSUME sRecv.running, enabled
            PROVE  /\ sRecv.file = vSend.file /\ sRecv.pos + Len(sent) = vSend.pos + 1
                   /\ Spared(vSend.sums, Compared(vSend), vSend.pos + 1, temp[vSend.file])
        <5>1. /\ sRecv.file = vSend.file /\ sRecv.pos + Len(toS) = vSend.pos
              /\ Spared(vSend.sums, vSend.at, vSend.pos, temp[vSend.file])
          BY <1>4, <4>2 DEF Uploading
        <5>2. sRecv.pos \in Nat /\ temp[vSend.file] \in Stored
          BY <1>4, <4>2, <5>1, Receivers, FileFacts
        <5>3. Spared(vSend.sums, Compared(vSend), vSend.pos + 1, temp[vSend.file])
          BY <3>2, <3>3, <5>1, <5>2, SparedNext
        <5>4. sRecv.pos + Len(sent) = vSend.pos + 1
          <6>1. Len(sent) = Len(toS) + 1 /\ Len(toS) \in Nat /\ sRecv.pos \in Nat
            BY <1>4, <2>1, <5>2
          <6> HIDE DEF sent
          <6>2. \A n, k \in Nat : n + (k + 1) = (n + k) + 1
            OBVIOUS
          <6>3. sRecv.pos + (Len(toS) + 1) = (sRecv.pos + Len(toS)) + 1
            BY <6>1, <6>2, Zenon
          <6>4. QED
            BY <5>1, <6>1, <6>3, Zenon
        <5>5. QED
          BY <5>1, <5>3, <5>4
      <4>3. sRecv'.running /\ enabled' =>
              /\ sRecv'.file = vSend'.file /\ sRecv'.pos + Len(toS') = vSend'.pos
              /\ Spared(vSend'.sums, vSend'.at, vSend'.pos, temp'[vSend'.file])
        BY <1>3, <3>1, <3>4, <4>2
      <4>4. QED
        BY <1>3, <2>1, <3>1, <3>4, <4>1, <4>3 DEF Uploading
    <3>8. QED
      BY <1>3, <3>4, <3>5, <3>6, <3>7 DEF Inductive, Phase
  <2>4. QED
    BY <2>2, <2>3
<1>8. QED
  BY <1>6, <1>7

LEMMA SendEndOfFileKeeps ==
    ASSUME Inductive, SendEndOfFile
    PROVE  Inductive'
<1> DEFINE m == Msg("eof", vSend.file)
           queue == Append(toS, m)
<1>1. /\ inSync /\ tick = "sending" /\ vSend.eof /\ vSend.running
      /\ OfferFrom(After(list, 1), queue, "timer")
  BY DEF SendEndOfFile, Inductive
<1>2. UNCHANGED <<buttons, remoteDir, allowed, abort, aborted, deletes, vRecv,
                  server, toV, link, lists, inSync, disk>>
  BY DEF SendEndOfFile
<1>3. /\ Uploading /\ vSend.file \in Files /\ Len(Content[vSend.file]) \in Nat
      /\ toS \in Seq(ToServer) /\ Len(toS) \in Nat
  BY <1>1, RunningIsUploading
<1>4. toS \in Seq(Asked({"packet"})) /\ vSend.pos = Len(Content[vSend.file])
  BY <1>1, <1>3 DEF Uploading
<1>5. m \in ToServer /\ m.type = "eof" /\ m.arg = vSend.file
  BY <1>3, ToServerHas, MsgIs
<1> HIDE DEF m
<1>6. queue \in Seq(Asked({"packet", "eof"})) /\ queue \in Seq(Asked({"abort", "packet", "eof"}))
  <2>1. Asked({"packet"}) \subseteq Asked({"packet", "eof"}) /\ m \in Asked({"packet", "eof"})
        /\ Asked({"packet", "eof"}) \subseteq Asked({"abort", "packet", "eof"})
    BY <1>5 DEF Asked
  <2>2. toS \in Seq(Asked({"packet", "eof"}))
    BY <1>4, <2>1, SeqMonotonic
  <2>3. queue \in Seq(Asked({"packet", "eof"}))
    BY <2>1, <2>2, AppendProperties
  <2>4. QED
    BY <2>1, <2>3, SeqMonotonic
<1>7. Fed => Brings(sRecv.file, sRecv.pos, temp[sRecv.file], queue)
  <2>1. \A i \in 1 .. Len(toS) : toS[i].type = "packet"
    BY <1>4, ElementOfSeq DEF Asked
  <2>2. Fed =>
           /\ m.arg = sRecv.file /\ sRecv.pos + Len(toS) = Len(Content[sRecv.file])
    BY <1>3, <1>4, <1>5 DEF Uploading, Fed
  <2>3. QED
    BY <1>3, <1>5, <2>1, <2>2, Receivers, BringsAppend
<1> HIDE DEF queue
<1>8. QED
  BY <1>1, <1>2, <1>6, <1>7, SendingEnds


-----------------------------------------------------------------------------
(* The viewer receives. *)

Downloaders == [running : BOOLEAN, error : BOOLEAN, file : Files \cup {NoFile}, pos : Nat]

LEMMA RequestNextLeads ==
    ASSUME Inductive, InDownload, zip = NoFile, link = "up",
           NEW queue \in Seq(Asked({"abort", "drives"}) \cup {Refused}),
           ~abort => queue \in Seq({Refused}), RequestNextFile(queue),
           ~vRecv'.running, UNCHANGED vSend, UNCHANGED zip, UNCHANGED deletes, UNCHANGED link,
           toV' \in Seq(Told({"packet", "eof", "access", "drives"})),
           ~abort => toV' \in Seq(Stray)
    PROVE  /\ toS' \in Seq(ToServer) /\ list' \in Seq(Files)
           /\ pending' \in BOOLEAN /\ buttons' \in BOOLEAN
           /\ Other(queue, toS', ToServer) /\ Phase'
<1>1. /\ list \in Seq(Sent(Downloads)) /\ ~buttons /\ ~vSend.running
      /\ pending \in BOOLEAN /\ buttons \in BOOLEAN /\ deletes \in Nat
  BY DEF InDownload, Inductive, TypeOK
<1> DEFINE M == Asked({"abort", "drives", "dir", "command", "packet", "eof"}) \cup {Refused}
           K == Asked({"abort", "drives"}) \cup {Refused}
<1>2. Refused \in ToServer /\ K \subseteq M /\ K \subseteq ToServer
      /\ \A x \in K : x.type \in {"abort", "drives", "header"}
  BY ToServerHas, RefusedIs DEF Asked
<1>3. queue \in Seq(M) /\ queue \in Seq(ToServer)
  BY <1>2, SeqMonotonic
<1>4. /\ Told({"packet", "eof", "access", "drives"}) \subseteq ToViewer
      /\ Told({"packet", "eof", "access", "drives"})
            \subseteq Told({"access", "drives", "directory", "return", "packet", "eof"})
  BY DEF Told
<1>5. toV' \in Seq(ToViewer)
      /\ toV' \in Seq(Told({"access", "drives", "directory", "return", "packet", "eof"}))
  BY <1>4, SeqMonotonic
<1>6. ASSUME toS' = queue PROVE Resting'
  <2>1. \A i \in 1 .. Len(queue) : queue[i].type # "command"
    BY <1>2, ElementOfSeq
  <2>2. \A i \in 1 .. Len(toV') : toV'[i].type # "return"
    BY ElementOfSeq DEF Told
  <2>3. Known(queue, toV', deletes)
    BY <1>1, <1>3, <1>5, <2>1, <2>2, KnownNone
  <2>4. QED
    BY <1>1, <1>3, <1>5, <1>6, <2>3 DEF Resting
<1>7. CASE Len(list) > 1 /\ ~abort
  <2> DEFINE f == list[2]
             m == Msg("request", f)
  <2>1. /\ list' = After(list, 1) /\ toS' = (IF remoteDir THEN Append(queue, m) ELSE queue)
        /\ UNCHANGED pending /\ UNCHANGED buttons
    BY <1>7 DEF RequestNextFile
  <2>2. f \in Sent(Downloads) /\ list' \in Seq(Sent(Downloads))
    <3>1. Len(list) \in Nat
      BY <1>1, LenProperties
    <3>2. 2 \in 1 .. Len(list)
      BY <1>7, <3>1
    <3>3. QED
      BY <1>1, <2>1, <3>2, ElementOfSeq, AfterIs
  <2> HIDE DEF f
  <2>3. m \in ToServer /\ m.type = "request" /\ list' \in Seq(Files)
    BY <2>2, FileFacts, ToServerHas, MsgIs, SeqMonotonic
  <2>4. Append(queue, m) \in Seq(ToServer) /\ Ends(Append(queue, m), {Refused}, m)
    BY <1>3, <1>7, <2>3, AppendProperties, EndsAppend
  <2>5. Other(queue, toS', ToServer)
    BY <2>1, <2>3 DEF Other
  <2>6. toS' = Append(queue, m) => Requesting'
    BY <1>1, <1>7, <2>1, <2>2, <2>4 DEF Requesting, InDownload
  <2>7. QED
    BY <1>1, <1>3, <1>6, <2>1, <2>3, <2>4, <2>5, <2>6 DEF Phase
<1>8. CASE ~(Len(list) > 1 /\ ~abort)
  <2>1. toS' = queue /\ list' = <<>> /\ buttons' = TRUE /\ pending' = FALSE
    BY <1>8 DEF RequestNextFile
  <2>2. pending' \in BOOLEAN /\ buttons' \in BOOLEAN
    BY <2>1, Zenon
  <2>3. list' \in Seq(Files)
    BY <2>1, EmptySeq
  <2>4. QED
    BY <1>3, <1>6, <2>1, <2>2, <2>3 DEF Other, Phase
<1>9. QED
  BY <1>7, <1>8

LEMMA OpenedIs ==
    ASSUME Inductive, NEW f \in Files
    PROVE  /\ Opened(f) \in [Files -> Stored \cup {NoFile}]
           /\ Opened(f)[f] = (IF temp[f] = NoFile THEN <<>> ELSE temp[f])
           /\ Opened(f)[f] \in Stored
           /\ \A g \in Files : g # f => Opened(f)[g] = temp[g]
<1>1. temp \in [Files -> Stored \cup {NoFile}] /\ <<>> \in Stored
  BY EmptyStored DEF Inductive, TypeOK
<1>2. QED
  BY <1>1 DEF Opened

LEMMA ReceiveFileKeeps ==
    ASSUME Inductive, ReceiveFile
    PROVE  Inductive'
<1> DEFINE f == Arg(toV).file
           old == temp[f]
           h == Msg("header", TRUE)
           sums == Msg("sums", old)
<1>1. /\ inSync /\ link = "up" /\ toV # <<>> /\ Head(toV).type = "header" /\ toV' = Tail(toV)
  BY DEF ReceiveFile, Reads, Is
<1>2. UNCHANGED <<remoteDir, allowed, abort, aborted, deletes, sending,
                  server, link, lists, inSync, final>>
  BY DEF ReceiveFile
<1>3. \/ /\ temp' = Opened(f)
         /\ toS' = toS \o (IF old = NoFile THEN <<>> ELSE <<sums>>) \o <<h>>
         /\ vRecv' = [running |-> TRUE, error |-> FALSE, file |-> f, pos |-> 0]
         /\ UNCHANGED <<pending, buttons, list>>
      \/ /\ vRecv' = [vRecv EXCEPT !.error = TRUE] /\ UNCHANGED temp
         /\ RequestNextFile(toS) \/ RequestNextFile(Append(toS, Refused))
  BY DEF ReceiveFile, Refused
<1>4. Announcing /\ toV' = <<>>
  BY <1>1, HeadTold
<1>5. /\ InDownload /\ ~vRecv.running /\ zip = NoFile /\ toS = <<>>
      /\ sSend.file \in Sent(Downloads) /\ sSend.sums = <<>> /\ sSend.at = 0
  BY <1>4 DEF Announcing
<1>6. f = sSend.file
  <2>1. PICK ok \in BOOLEAN :
           Ends(toV, Stray, Msg("header", [file |-> sSend.file, ok |-> ok]))
    BY <1>4 DEF Announcing
  <2>2. Head(toV) = Msg("header", [file |-> sSend.file, ok |-> ok]) \/ Head(toV) \in Stray
    BY <2>1, Receivers, EndsRead
  <2>3. Head(toV) \notin Stray
    BY <1>1 DEF Stray, Told
  <2>4. QED
    BY <2>2, <2>3, MsgIs DEF Arg
<1>7. f \in Sent(Downloads) /\ f \in Files /\ old \in Stored \cup {NoFile}
      /\ Len(Content[f]) \in Nat
  BY <1>5, <1>6, FileFacts, ContentFacts DEF Inductive, TypeOK
<1>8. /\ vRecv \in Downloaders /\ toV' \in Seq(ToViewer) /\ toS \in Seq(ToServer)
      /\ UNCHANGED sRecv /\ UNCHANGED final /\ UNCHANGED vSend /\ UNCHANGED tick
      /\ UNCHANGED enabled
  BY <1>2, <1>4, EmptySeq DEF Inductive, TypeOK, Downloaders, sending, server
<1> HIDE DEF f, old
<1>9. FileIntact'
  BY <1>8 DEF Inductive, FileIntact
<1>10. CASE /\ temp' = Opened(f)
            /\ toS' = toS \o (IF old = NoFile THEN <<>> ELSE <<sums>>) \o <<h>>
            /\ vRecv' = [running |-> TRUE, error |-> FALSE, file |-> f, pos |-> 0]
            /\ UNCHANGED <<pending, buttons, list>>
  <2>1. /\ temp' \in [Files -> Stored \cup {NoFile}]
        /\ temp'[f] = (IF old = NoFile THEN <<>> ELSE old) /\ temp'[f] \in Stored
        /\ \A g \in Files : g # f => temp'[g] = temp[g]
    BY <1>7, <1>10, OpenedIs DEF old
  <2>2. h \in ToServer /\ h.type = "header"
    BY ToServerHas, MsgIs
  <2> HIDE DEF h
  <2>3. old # NoFile => sums \in ToServer /\ sums.type = "sums"
    BY <1>7, ToServerHas, MsgIs
  <2> HIDE DEF sums
  <2>4. /\ old = NoFile => toS' = <<h>>
        /\ old # NoFile => toS' = <<sums, h>>
    <3>1. <<>> \o <<>> = <<>>
      BY EmptySeq, ConcatEmptySeq
    <3>2. <<>> \o <<sums>> = <<sums>> /\ <<sums>> \o <<h>> = <<sums, h>> /\ <<>> \o <<h>> = <<h>>
      BY Singles
    <3>3. QED
      BY <1>5, <1>10, <3>1, <3>2
  <2>5. toS' \in Seq(ToServer)
    <3>1. <<h>> \in Seq(ToServer)
      BY <2>2
    <3>2. CASE old = NoFile
      BY <2>4, <3>1, <3>2
    <3>3. CASE old # NoFile
      <4>1. sums \in ToServer /\ toS' = <<sums, h>>
        BY <2>3, <2>4, <3>3
      <4>2. <<sums, h>> \in Seq(ToServer)
        BY <2>2, <4>1
      <4>3. QED
        BY <4>1, <4>2
    <3>4. QED
      BY <3>2, <3>3
  <2>6. vRecv' \in Downloaders /\ vRecv'.running /\ ~vRecv'.error /\ vRecv'.file = f
        /\ vRecv'.pos = 0
    BY <1>7, <1>10 DEF Downloaders
  <2>7. TypeOK'
    BY <1>2, <1>8, <1>10, <2>1, <2>5, <2>6 DEF Inductive, TypeOK, Downloaders, sending, server
  <2>8. DownloadGrows'
    <3>1. \A i \in 1 .. Len(toV') : toV'[i].type \notin {"packet", "eof"}
      BY <1>4, EmptySeq
    <3>2. Brings(f, 0, temp'[f], toV')
      BY <1>7, <1>8, <2>1, <3>1, BringsStart
    <3>3. QED
      BY <1>7, <2>1, <2>6, <3>2 DEF DownloadGrows
  <2>9. UploadGrows'
    <3>1. ASSUME Fed
          PROVE  Brings(sRecv.file, sRecv.pos, temp[sRecv.file], toS')
      <4>1. CASE old = NoFile
        <5>1. Append(toS, h) = toS'
          BY <1>5, <2>4, <4>1, Singles
        <5>2. Other(toS, toS', ToServer)
          BY <2>2, <5>1 DEF Other
        <5>3. QED
          BY <3>1, <5>2, Receivers, BringsKept
      <4>2. CASE old # NoFile
        <5> DEFINE q == Append(toS, sums)
        <5>1. q = <<sums>> /\ Append(q, h) = toS'
          BY <1>5, <2>4, <4>2, Singles
        <5>2. q \in Seq(ToServer)
          BY <1>8, <2>3, <4>2, AppendProperties
        <5>3. Other(toS, q, ToServer) /\ Other(q, toS', ToServer)
          BY <2>2, <2>3, <4>2, <5>1 DEF Other
        <5> HIDE DEF q
        <5>4. Brings(sRecv.file, sRecv.pos, temp[sRecv.file], q)
          BY <3>1, <5>3, Receivers, BringsKept
        <5>5. QED
          BY <3>1, <5>2, <5>3, <5>4, Receivers, BringsKept
      <4>3. QED
        BY <4>1, <4>2
    <3>2. sRecv.running /\ sRecv.file # NoFile => sRecv.file # f /\ sRecv.file \in Files
      BY <1>7, Receivers, FileFacts
    <3>3. QED
      BY <1>8, <2>1, <3>1, <3>2, Receivers DEF UploadGrows, Fed
  <2>10. Opening'
    <3>1. InDownload'
      BY <1>5, <1>8, <1>10 DEF InDownload
    <3>2. \/ sSend.sums \in {<<>>, temp'[f]} /\ toS' = <<Msg("header", TRUE)>>
          \/ sSend.sums = <<>> /\ toS' = <<Msg("sums", temp'[f]), Msg("header", TRUE)>>
      BY <1>5, <2>1, <2>4 DEF h, sums
    <3>3. QED
      BY <1>2, <1>4, <1>5, <1>6, <2>6, <3>1, <3>2 DEF Opening, server
  <2>11. QED
    BY <1>1, <1>2, <1>8, <1>9, <2>6, <2>7, <2>8, <2>9, <2>10 DEF Inductive, Phase
<1>11. ASSUME NEW queue \in {toS, Append(toS, Refused)}, RequestNextFile(queue),
              vRecv' = [vRecv EXCEPT !.error = TRUE], UNCHANGED temp
       PROVE  Inductive'
  <2>1. vRecv' \in Downloaders /\ ~vRecv'.running
    BY <1>5, <1>8, <1>11 DEF Downloaders
  <2>2. Refused \in ToServer /\ Refused.type = "header"
    BY ToServerHas, RefusedIs
  <2>3. /\ queue \in Seq({Refused}) /\ queue \in Seq(ToServer)
        /\ queue \in Seq(Asked({"abort", "drives"}) \cup {Refused})
    <3>1. toS \in Seq({Refused}) /\ Refused \in {Refused}
      BY <1>5, EmptySeq
    <3>2. queue \in Seq({Refused})
      BY <1>11, <3>1, AppendProperties
    <3>3. QED
      BY <2>2, <3>2, SeqMonotonic
  <2>4. toV' \in Seq(Told({"packet", "eof", "access", "drives"})) /\ toV' \in Seq(Stray)
    BY <1>4, EmptySeq
  <2>5. /\ toS' \in Seq(ToServer) /\ list' \in Seq(Files)
        /\ pending' \in BOOLEAN /\ buttons' \in BOOLEAN
        /\ Other(queue, toS', ToServer) /\ Phase'
    <3>1. UNCHANGED zip /\ UNCHANGED deletes /\ UNCHANGED link
      BY <1>2 DEF server
    <3>2. QED
      BY <1>1, <1>5, <1>8, <1>11, <2>1, <2>3, <2>4, <3>1, RequestNextLeads
  <2>6. TypeOK'
    BY <1>2, <1>8, <1>11, <2>1, <2>5, SMTT(30) DEF Inductive, TypeOK, Downloaders, sending, server
  <2>7. DownloadGrows'
    BY <2>1 DEF DownloadGrows
  <2>8. UploadGrows'
    <3>1. Fed => Brings(sRecv.file, sRecv.pos, temp[sRecv.file], toS')
      <4>1. Other(toS, queue, ToServer)
        BY <1>11, <2>2 DEF Other
      <4>2. Fed => Brings(sRecv.file, sRecv.pos, temp[sRecv.file], queue)
        BY <4>1, Receivers, BringsKept
      <4>3. QED
        BY <2>3, <2>5, <4>2, Receivers, BringsKept
    <3>2. QED
      BY <1>8, <1>11, <3>1, Receivers DEF UploadGrows, Fed
  <2>9. QED
    BY <1>2, <1>8, <1>9, <2>5, <2>6, <2>7, <2>8 DEF Inductive
<1>12. QED
  BY <1>3, <1>10, <1>11


\* A receiver's file after its end or after an error.
LEMMA FinishIs ==
    ASSUME temp \in [Files -> Stored \cup {NoFile}], final \in [Files -> Stored \cup {NoFile}],
           NEW recv, recv.file \in Files, temp[recv.file] \in Stored, recv.pos \in Nat,
           NEW error \in BOOLEAN, NEW discard \in BOOLEAN, Finish(recv, error, discard)
    PROVE  /\ temp' \in [Files -> Stored \cup {NoFile}]
           /\ final' \in [Files -> Stored \cup {NoFile}]
           /\ \A g \in Files : g # recv.file => temp'[g] = temp[g] /\ final'[g] = final[g]
           /\ error => final' = final
           /\ ~error => final'[recv.file] = Sized(temp[recv.file], recv.pos)
           /\ temp'[recv.file] = NoFile => ~error \/ discard
<1> DEFINE f == recv.file
           blocks == Sized(temp[f], recv.pos)
<1>1. /\ temp' = [temp EXCEPT ![f] = IF error /\ ~discard THEN blocks ELSE NoFile]
      /\ final' = IF error THEN final ELSE [final EXCEPT ![f] = blocks]
  BY Zenon DEF Finish
<1>2. blocks \in Stored /\ blocks # NoFile
  BY SizedIs, StoredFacts
<1> HIDE DEF blocks
<1>3. /\ temp' \in [Files -> Stored \cup {NoFile}]
      /\ \A g \in Files : g # f => temp'[g] = temp[g]
      /\ temp'[f] = NoFile => ~error \/ discard
  BY <1>1, <1>2
<1>4. /\ final' \in [Files -> Stored \cup {NoFile}]
      /\ \A g \in Files : g # f => final'[g] = final[g]
      /\ error => final' = final
      /\ ~error => final'[f] = blocks
  BY <1>1, <1>2
<1>5. QED
  BY <1>3, <1>4 DEF blocks

\* A receiver without a file touches none.
LEMMA FinishNothing ==
    ASSUME temp \in [Files -> Stored \cup {NoFile}], final \in [Files -> Stored \cup {NoFile}],
           NEW recv, recv.file \notin Files, NEW error, NEW discard,
           Finish(recv, error, discard)
    PROVE  UNCHANGED temp /\ UNCHANGED final
<1> DEFINE blocks == Sized(temp[recv.file], recv.pos)
           kept == IF error /\ ~discard THEN blocks ELSE NoFile
<1>1. /\ temp' = [temp EXCEPT ![recv.file] = kept]
      /\ final' = IF error THEN final ELSE [final EXCEPT ![recv.file] = blocks]
  BY Zenon DEF Finish
<1> HIDE DEF blocks, kept
<1>2. QED
  BY <1>1

LEMMA StoresNothing ==
    ASSUME temp \in [Files -> Stored \cup {NoFile}], NEW recv, recv.file \notin Files,
           NEW packet, Stores(recv, packet)
    PROVE  UNCHANGED temp
<1> DEFINE blocks == Written(temp[recv.file], recv.pos, packet)
<1>1. temp' = temp \/ temp' = [temp EXCEPT ![recv.file] = blocks]
  BY DEF Stores
<1> HIDE DEF blocks
<1>2. QED
  BY <1>1

\* What a failed transfer has left under way is read.
LEMMA StrayRead ==
    ASSUME Inductive, inSync, link = "up", toV # <<>>, Head(toV).type \in {"packet", "eof"},
           ~vRecv.running, toV' = Tail(toV), UNCHANGED buttons, UNCHANGED deletes,
           UNCHANGED list, UNCHANGED vSend, UNCHANGED vRecv, UNCHANGED sSend, UNCHANGED zip,
           UNCHANGED toS, UNCHANGED link
    PROVE  Phase'
<1>1. Resting \/ Requesting \/ Zipping \/ Announcing \/ Unanswered
  BY HeadTold DEF Receiving
<1>2. toS \in Seq(ToServer) /\ toV \in Seq(ToViewer) /\ deletes \in Nat
  BY DEF Inductive, TypeOK
<1>3. CASE Resting
  <2>1. Known(toS', toV', deletes')
    BY <1>2, <1>3, KnownOther DEF Resting
  <2>2. QED
    BY <1>3, <2>1, SeqHead DEF Resting, Phase
<1>4. CASE Requesting
  <2>1. InDownload'
    BY <1>4 DEF Requesting, InDownload
  <2>2. toV' \in Seq(Stray)
    BY <1>4, SeqHead DEF Requesting
  <2>3. QED
    BY <1>4, <2>1, <2>2 DEF Requesting, Phase
<1>5. CASE Zipping
  <2>1. InDownload'
    BY <1>5 DEF Zipping, InDownload
  <2>2. toV' \in Seq(Stray)
    BY <1>5, SeqHead DEF Zipping
  <2>3. QED
    BY <1>5, <2>1, <2>2 DEF Zipping, Phase
<1>6. CASE Announcing
  <2>1. InDownload'
    BY <1>6 DEF Announcing, InDownload
  <2>2. PICK ok \in BOOLEAN :
           Ends(toV, Stray, Msg("header", [file |-> sSend.file, ok |-> ok]))
    BY <1>6 DEF Announcing
  <2>3. Ends(toV', Stray, Msg("header", [file |-> sSend.file, ok |-> ok]))
    BY <1>2, <2>2, EndsRead, MsgIs
  <2>4. QED
    BY <1>6, <2>1, <2>3 DEF Announcing, Phase
<1>7. CASE Unanswered
  <2>1. InDownload'
    BY <1>7 DEF Unanswered, InDownload
  <2>2. toV' \in Seq(Stray)
    BY <1>7, SeqHead DEF Unanswered
  <2>3. QED
    BY <1>7, <2>1, <2>2 DEF Unanswered, Phase
<1>8. QED
  BY <1>1, <1>3, <1>4, <1>5, <1>6, <1>7

\* The viewer's reception ends.
LEMMA ReceptionEnds ==
    ASSUME Inductive, inSync, link = "up", toV # <<>>, Head(toV).type \in {"packet", "eof"},
           toV' = Tail(toV), vRecv.running, NEW error \in BOOLEAN, Finish(vRecv, error, abort),
           ~error => ~vRecv.error /\ Head(toV).type = "eof",
           vRecv' = [vRecv EXCEPT !.running = FALSE], aborted' \in BOOLEAN,
           NEW queue \in {toS, Append(toS, Msg("abort", NoFile))},
           queue # toS => abort, RequestNextFile(queue),
           UNCHANGED <<remoteDir, allowed, abort, deletes, sending, server, link, lists, inSync>>
    PROVE  Inductive'
<1> DEFINE m == Msg("abort", NoFile)
           f == vRecv.file
<1>1. /\ toS \in Seq(ToServer) /\ toV \in Seq(ToViewer) /\ vRecv \in Downloaders
      /\ temp \in [Files -> Stored \cup {NoFile}] /\ final \in [Files -> Stored \cup {NoFile}]
      /\ abort \in BOOLEAN
  BY DEF Inductive, TypeOK, Downloaders
<1>2. f \in Files /\ temp[f] \in Stored /\ vRecv.pos \in Nat
      /\ (~vRecv.error => Brings(f, vRecv.pos, temp[f], toV))
      /\ (sRecv.running /\ sRecv.file # NoFile => sRecv.file # f /\ sRecv.file \in Files)
  BY Receivers
<1>3. Receiving /\ toV' \in Seq(ToViewer)
  BY HeadTold DEF Resting, Requesting, Zipping, Announcing, Unanswered
<1>4. /\ InDownload /\ zip = NoFile /\ toS \in Seq(Asked({"abort", "drives"}))
      /\ toV \in Seq(Told({"packet", "eof", "access", "drives"}))
      /\ ~abort => toS = <<>> /\ toV \in Seq(Stray)
  BY <1>3 DEF Receiving
<1>5. m \in ToServer /\ m.type = "abort" /\ Refused \in ToServer
  BY ToServerHas, MsgIs
<1> HIDE DEF m
<1>6. /\ queue \in Seq(ToServer) /\ queue \in Seq(Asked({"abort", "drives"}) \cup {Refused})
      /\ ~abort => queue \in Seq({Refused})
  <2>1. m \in Asked({"abort", "drives"}) /\ Asked({"abort", "drives"}) \subseteq ToServer
    BY <1>5 DEF Asked
  <2>2. Append(toS, m) \in Seq(Asked({"abort", "drives"}))
    BY <1>4, <2>1, AppendProperties
  <2>3. queue \in Seq(Asked({"abort", "drives"}))
    BY <1>4, <2>2 DEF m
  <2>4. ~abort => queue = <<>>
    BY <1>4
  <2>5. QED
    BY <2>1, <2>3, <2>4, SeqMonotonic, EmptySeq
<1>7. /\ toV' \in Seq(Told({"packet", "eof", "access", "drives"}))
      /\ ~abort => toV' \in Seq(Stray)
  BY <1>4, SeqHead
<1>8. vRecv' \in Downloaders /\ ~vRecv'.running
  BY <1>1 DEF Downloaders
<1>9. UNCHANGED vSend /\ UNCHANGED zip /\ UNCHANGED sRecv /\ UNCHANGED tick /\ UNCHANGED enabled
  BY DEF sending, server
<1>10. /\ toS' \in Seq(ToServer) /\ list' \in Seq(Files)
       /\ pending' \in BOOLEAN /\ buttons' \in BOOLEAN
       /\ Other(queue, toS', ToServer) /\ Phase'
  BY <1>4, <1>6, <1>7, <1>8, <1>9, RequestNextLeads
<1>11. /\ temp' \in [Files -> Stored \cup {NoFile}]
       /\ final' \in [Files -> Stored \cup {NoFile}]
       /\ \A g \in Files : g # f => temp'[g] = temp[g] /\ final'[g] = final[g]
       /\ error => final' = final
       /\ ~error => final'[f] = Sized(temp[f], vRecv.pos)
  BY <1>1, <1>2, FinishIs
<1>12. TypeOK'
  BY <1>3, <1>8, <1>10, <1>11, SMTT(30) DEF Inductive, TypeOK, Downloaders, sending, server
<1>13. ~error => final'[f] = Content[f]
  <2>1. ~error => Sized(temp[f], vRecv.pos) = Content[f]
    BY <1>1, <1>2, BringsEnd DEF Is
  <2>2. QED
    BY <1>11, <2>1
<1>14. FileIntact'
  <2>1. \A g \in Files : final[g] \in {NoFile, Content[g]}
    BY DEF Inductive, FileIntact
  <2>2. \A g \in Files : final'[g] \in {NoFile, Content[g]}
    BY <1>11, <1>13, <2>1
  <2>3. QED
    BY <2>2 DEF FileIntact
<1>15. DownloadGrows'
  BY <1>8 DEF DownloadGrows
<1>16. UploadGrows'
  <2>1. Other(toS, queue, ToServer)
    BY <1>5 DEF Other, m
  <2>2. Fed => Brings(sRecv.file, sRecv.pos, temp[sRecv.file], queue)
    BY <2>1, Receivers, BringsKept
  <2>3. Fed => Brings(sRecv.file, sRecv.pos, temp[sRecv.file], toS')
    BY <1>6, <1>10, <2>2, Receivers, BringsKept
  <2>4. QED
    BY <1>2, <1>9, <1>11, <2>3, Receivers DEF UploadGrows, Fed
<1>17. QED
  BY <1>9, <1>10, <1>12, <1>14, <1>15, <1>16 DEF Inductive

\* Nobody receives: the file's end or a note that nothing has changed is skipped.
LEMMA ReadsStray ==
    ASSUME Inductive, inSync, link = "up", toV # <<>>, Head(toV).type \in {"packet", "eof"},
           toV' = Tail(toV), ~vRecv.running, inSync' \in BOOLEAN,
           UNCHANGED <<pending, buttons, aborted, list, vRecv, toS, disk>>,
           UNCHANGED <<remoteDir, allowed, abort, deletes, sending, server, link, lists>>
    PROVE  Inductive'
<1>1. toV' \in Seq(ToViewer)
  BY HeadTold
<1>2. TypeOK'
  BY <1>1 DEF Inductive, TypeOK, sending, server, disk
<1>3. Phase'
  <2>1. UNCHANGED vSend /\ UNCHANGED sSend /\ UNCHANGED zip
    BY DEF sending, server
  <2>2. QED
    BY <2>1, StrayRead
<1>4. FileIntact' /\ DownloadGrows'
  BY DEF Inductive, FileIntact, disk, DownloadGrows
<1>5. UploadGrows'
  <2>1. UNCHANGED sRecv /\ UNCHANGED temp /\ UNCHANGED enabled
    BY DEF server, disk
  <2>2. QED
    BY <2>1, UploadKept DEF Other
<1>6. QED
  BY <1>2, <1>3, <1>4, <1>5 DEF Inductive, sending

LEMMA FinishFileReceptionKeeps ==
    ASSUME Inductive, FinishFileReception
    PROVE  Inductive'
<1>1. /\ inSync /\ link = "up" /\ toV # <<>> /\ Head(toV).type = "eof" /\ toV' = Tail(toV)
      /\ UNCHANGED <<remoteDir, allowed, abort, aborted, deletes, sending,
                     server, link, lists, inSync>>
  BY DEF FinishFileReception, Reads, Is
<1>2. vRecv.error \in BOOLEAN /\ aborted \in BOOLEAN /\ inSync \in BOOLEAN
  BY DEF Inductive, TypeOK
<1>3. CASE vRecv.running
  <2>1. /\ Finish(vRecv, vRecv.error, abort) /\ RequestNextFile(toS)
        /\ vRecv' = [vRecv EXCEPT !.running = FALSE]
    BY <1>3 DEF FinishFileReception
  <2>2. aborted' \in BOOLEAN
    BY <1>1, <1>2
  <2> DEFINE error == vRecv.error
  <2>3. Finish(vRecv, error, abort) /\ error \in BOOLEAN
        /\ (~error => ~vRecv.error /\ Head(toV).type = "eof")
    BY <1>1, <1>2, <2>1
  <2> HIDE DEF error
  <2>4. QED
    BY <1>1, <1>3, <2>1, <2>2, <2>3, ReceptionEnds
<1>4. CASE ~vRecv.running
  <2>1. UNCHANGED <<disk, vRecv, pending, buttons, list, toS>>
    BY <1>4 DEF FinishFileReception
  <2>2. QED
    BY <1>1, <1>2, <1>4, <2>1, ReadsStray
<1>5. QED
  BY <1>2, <1>3, <1>4, Receivers


\* A block comes in.
LEMMA StoresIs ==
    ASSUME temp \in [Files -> Stored \cup {NoFile}], NEW recv, recv.file \in Files,
           recv.pos \in Nat, NEW T, NEW q \in Seq(T),
           Brings(recv.file, recv.pos, temp[recv.file], q), Is(q, "packet"),
           Arg(q) \in Blocks \cup {Same}, Stores(recv, Arg(q))
    PROVE  /\ temp' \in [Files -> Stored \cup {NoFile}] /\ temp'[recv.file] \in Stored
           /\ \A g \in Files : g # recv.file => temp'[g] = temp[g]
           /\ \A j \in 1 .. Len(temp[recv.file]) :
                 j # recv.pos + 1 => temp'[recv.file][j] = temp[recv.file][j]
           /\ Len(temp[recv.file]) <= Len(temp'[recv.file])
           /\ Brings(recv.file, recv.pos + 1, temp'[recv.file], Tail(q))
<1> DEFINE f == recv.file
           pos == recv.pos
           packet == Arg(q)
           w == Written(temp[f], pos, packet)
<1>1. temp' = IF packet = Same THEN temp ELSE [temp EXCEPT ![f] = w]
  BY DEF Stores
<1>2. temp[f] \in Stored /\ pos <= Len(temp[f]) /\ Len(temp[f]) \in Nat
  BY StoredFacts DEF Brings
<1>3. /\ packet = Same => Brings(f, pos + 1, temp[f], Tail(q))
      /\ packet # Same => Brings(f, pos + 1, w, Tail(q))
  BY BringsBlock
<1>4. packet # Same =>
         /\ w \in Stored /\ Len(temp[f]) <= Len(w)
         /\ \A j \in 1 .. Len(temp[f]) : j # pos + 1 => w[j] = temp[f][j]
  <2> HIDE DEF packet
  <2>1. packet # Same => packet \in Blocks
    BY DEF packet
  <2> DEFINE t == temp[f]
  <2>2. t \in Stored /\ pos <= Len(t) /\ pos \in Nat
    BY <1>2
  <2> HIDE DEF t, pos
  <2>3. packet # Same =>
           LET u == Written(t, pos, packet)
           IN  u \in Stored /\ Len(t) <= Len(u)
                 /\ \A j \in 1 .. Len(t) : j # pos + 1 => u[j] = t[j]
    BY <2>1, <2>2, WrittenIs
  <2>4. QED
    BY <2>3 DEF t
<1> HIDE DEF w, packet
<1>5. CASE packet = Same
  BY <1>1, <1>2, <1>3, <1>5
<1>6. CASE packet # Same
  <2>1. /\ temp'[f] = w /\ temp' \in [Files -> Stored \cup {NoFile}]
        /\ \A g \in Files : g # f => temp'[g] = temp[g]
    BY <1>1, <1>4, <1>6
  <2>2. QED
    BY <1>3, <1>4, <1>6, <2>1
<1>7. QED
  BY <1>5, <1>6

LEMMA StoreChunkKeeps ==
    ASSUME Inductive, inSync, link = "up", Is(toV, "packet"), toV' = Tail(toV),
           vRecv.running, ~vRecv.error, NEW failed \in BOOLEAN, StoreChunk(failed),
           UNCHANGED <<remoteDir, allowed, abort, deletes, sending, server, link, lists>>
    PROVE  Inductive'
<1> DEFINE f == vRecv.file
           m == Msg("abort", NoFile)
           n == IF failed THEN vRecv.pos ELSE vRecv.pos + 1
<1>1. /\ toV # <<>> /\ Head(toV).type = "packet"
      /\ toS \in Seq(ToServer) /\ toV \in Seq(ToViewer) /\ vRecv \in Downloaders
      /\ temp \in [Files -> Stored \cup {NoFile}]
      /\ abort \in BOOLEAN /\ aborted \in BOOLEAN
  BY DEF Inductive, TypeOK, Downloaders, Is
<1>2. f \in Files /\ f \in Sent(Downloads) /\ temp[f] \in Stored /\ vRecv.pos \in Nat
      /\ Brings(f, vRecv.pos, temp[f], toV)
      /\ (sRecv.running /\ sRecv.file # NoFile => sRecv.file # f /\ sRecv.file \in Files)
  BY Receivers
<1>3. Receiving /\ toV' \in Seq(ToViewer) /\ Arg(toV) \in Blocks \cup {Same}
  BY <1>1, HeadTold, ToViewerIs
  DEF Resting, Requesting, Zipping, Announcing, Unanswered, Arg
<1>4. /\ InDownload /\ zip = NoFile /\ toS \in Seq(Asked({"abort", "drives"}))
      /\ toV \in Seq(Told({"packet", "eof", "access", "drives"}))
      /\ ~abort => toS = <<>> /\ toV \in Seq(Stray)
  BY <1>3 DEF Receiving
<1>5. m \in ToServer /\ m.type = "abort"
  BY ToServerHas, MsgIs
<1>6. /\ IF failed THEN UNCHANGED temp ELSE Stores(vRecv, Arg(toV))
      /\ vRecv' = [vRecv EXCEPT !.pos = n, !.error = @ \/ failed]
      /\ aborted' = (aborted \/ abort)
      /\ toS' = toS \/ (abort /\ toS' = Append(toS, m))
      /\ UNCHANGED <<pending, buttons, list, final, inSync>>
  BY DEF StoreChunk
<1> HIDE DEF m
<1>7. n \in Nat /\ aborted' \in BOOLEAN
  <2>1. n \in Nat
    BY <1>2
  <2>2. aborted' \in BOOLEAN
    BY <1>1, <1>6, Zenon
  <2>3. QED
    BY <2>1, <2>2
<1>8. /\ vRecv' \in Downloaders /\ vRecv'.running /\ vRecv'.file = f /\ vRecv'.pos = n
      /\ vRecv'.error = failed
  <2> HIDE DEF n
  <2>1. vRecv' = [vRecv EXCEPT !.pos = n, !.error = failed]
    BY <1>1, <1>6 DEF Downloaders
  <2>2. QED
    BY <1>1, <1>7, <2>1 DEF Downloaders
<1>9. /\ temp' \in [Files -> Stored \cup {NoFile}] /\ temp'[f] \in Stored
      /\ \A g \in Files : g # f => temp'[g] = temp[g]
      /\ ~failed => Brings(f, vRecv.pos + 1, temp'[f], toV')
  <2>1. CASE failed
    BY <1>1, <1>2, <1>6, <2>1
  <2>2. CASE ~failed
    <3>1. Stores(vRecv, Arg(toV))
      BY <1>6, <2>2
    <3>2. QED
      BY <1>1, <1>2, <1>3, <3>1, StoresIs
  <2>3. QED
    BY <2>1, <2>2
<1>10. toS' \in Seq(ToServer) /\ toS' \in Seq(Asked({"abort", "drives"}))
       /\ (~abort => toS' = <<>>)
  <2>1. m \in Asked({"abort", "drives"})
    BY <1>5 DEF Asked
  <2>2. Append(toS, m) \in Seq(ToServer) /\ Append(toS, m) \in Seq(Asked({"abort", "drives"}))
    BY <1>1, <1>4, <1>5, <2>1, AppendProperties
  <2>3. QED
    BY <1>1, <1>4, <1>6, <2>2
<1>11. TypeOK'
  BY <1>3, <1>6, <1>7, <1>8, <1>9, <1>10, SMTT(30) DEF Inductive, TypeOK, Downloaders, sending, server
<1>12. FileIntact'
  BY <1>6 DEF Inductive, FileIntact
<1>13. DownloadGrows'
  BY <1>2, <1>8, <1>9 DEF DownloadGrows
<1>14. UNCHANGED sRecv /\ UNCHANGED vSend /\ UNCHANGED tick /\ UNCHANGED zip /\ UNCHANGED enabled
  BY DEF sending, server
<1>15. UploadGrows'
  <2>1. Other(toS, toS', ToServer)
    BY <1>5, <1>6 DEF Other
  <2>2. QED
    BY <1>2, <1>9, <1>14, <2>1, UploadKept
<1>16. Receiving'
  <2>1. InDownload'
    BY <1>4, <1>6, <1>14 DEF InDownload
  <2>2. /\ toV' \in Seq(Told({"packet", "eof", "access", "drives"}))
        /\ ~abort => toV' \in Seq(Stray)
    BY <1>1, <1>4, SeqHead
  <2>3. QED
    BY <1>4, <1>8, <1>10, <1>14, <2>1, <2>2 DEF Receiving
<1>17. QED
  BY <1>11, <1>12, <1>13, <1>14, <1>15, <1>16 DEF Inductive, Phase

LEMMA ReceiveFileChunkKeeps ==
    ASSUME Inductive, ReceiveFileChunk
    PROVE  Inductive'
<1> DEFINE m == Msg("abort", NoFile)
<1>1. /\ inSync /\ link = "up" /\ Is(toV, "packet") /\ toV # <<>>
      /\ Head(toV).type = "packet" /\ toV' = Tail(toV)
      /\ UNCHANGED <<remoteDir, allowed, abort, deletes, sending, server, link, lists>>
  BY DEF ReceiveFileChunk, Reads, Is
<1>2. vRecv.error \in BOOLEAN /\ vRecv.running \in BOOLEAN /\ abort \in BOOLEAN
      /\ aborted \in BOOLEAN /\ inSync \in BOOLEAN
  BY Receivers DEF Inductive, TypeOK
<1>3. CASE ~vRecv.running
  <2>1. /\ inSync' = (Arg(toV) = Same)
        /\ UNCHANGED <<pending, buttons, aborted, list, vRecv, toS, disk>>
    BY <1>3 DEF ReceiveFileChunk
  <2>2. inSync' \in BOOLEAN
    BY <2>1, Zenon
  <2>3. QED
    BY <1>1, <1>3, <2>1, <2>2, ReadsStray
<1>4. CASE vRecv.running /\ vRecv.error
  <2> DEFINE queue == IF abort /\ ~aborted THEN Append(toS, m) ELSE toS
  <2>1. /\ Finish(vRecv, TRUE, abort) /\ vRecv' = [vRecv EXCEPT !.running = FALSE]
        /\ aborted' = (aborted \/ abort) /\ RequestNextFile(queue) /\ UNCHANGED inSync
    BY <1>4 DEF ReceiveFileChunk
  <2>2. aborted' \in BOOLEAN
    BY <1>2, <2>1, Zenon
  <2>3. queue \in {toS, Append(toS, m)} /\ (queue # toS => abort)
    OBVIOUS
  <2>4. ASSUME NEW error \in BOOLEAN, error = TRUE PROVE Inductive'
    <3>1. Finish(vRecv, error, abort) /\ (~error => ~vRecv.error /\ Head(toV).type = "eof")
      BY <2>1, <2>4
    <3> HIDE DEF queue
    <3>2. QED
      BY <1>1, <1>4, <2>1, <2>2, <2>3, <3>1, ReceptionEnds
  <2>5. QED
    BY <2>4
<1>5. CASE vRecv.running /\ ~vRecv.error
  <2>1. PICK failed \in Fails("write") : StoreChunk(failed)
    BY <1>5 DEF ReceiveFileChunk
  <2>2. failed \in BOOLEAN
    BY DEF Fails
  <2>3. QED
    BY <1>1, <1>5, <2>1, <2>2, StoreChunkKeeps
<1>6. QED
  BY <1>2, <1>3, <1>4, <1>5


-----------------------------------------------------------------------------
(* The server. *)

Targets == [running : BOOLEAN, file : Files \cup {NoFile}, pos : Nat]
Sources == [file : Files \cup {NoFile}, sums : Stored, at : Nat]

LEMMA ServerVars ==
    ASSUME Inductive
    PROVE  /\ sRecv \in Targets /\ sSend \in Sources /\ zip \in Files \cup {NoFile}
           /\ toS \in Seq(ToServer) /\ toV \in Seq(ToViewer)
           /\ temp \in [Files -> Stored \cup {NoFile}]
           /\ final \in [Files -> Stored \cup {NoFile}]
           /\ enabled \in BOOLEAN /\ inSync \in BOOLEAN
           /\ deletes \in Nat /\ link \in {"up", "down"}
BY DEF Inductive, TypeOK, Targets, Sources

\* The types after a step of the server.
LEMMA ServerTypes ==
    ASSUME Inductive, UNCHANGED viewer, UNCHANGED enabled, UNCHANGED lists,
           sRecv' \in Targets, sSend' \in Sources, zip' \in Files \cup {NoFile},
           toS' \in Seq(ToServer), toV' \in Seq(ToViewer), link' \in {"up", "down"},
           inSync' \in BOOLEAN, temp' \in [Files -> Stored \cup {NoFile}],
           final' \in [Files -> Stored \cup {NoFile}]
    PROVE  TypeOK'
BY DEF Inductive, TypeOK, viewer, ui, sending, Targets, Sources

LEMMA ViewerVars ==
    ASSUME UNCHANGED viewer
    PROVE  /\ UNCHANGED vRecv /\ UNCHANGED vSend /\ UNCHANGED list /\ UNCHANGED abort
           /\ UNCHANGED buttons /\ UNCHANGED deletes /\ UNCHANGED tick
BY DEF viewer, ui, sending

LEMMA AnswersIs ==
    ASSUME Inductive, NEW m \in ToViewer, Answers(<<m>>)
    PROVE  /\ link = "up" => toV' = Append(toV, m)
           /\ link # "up" => toV' = toV
           /\ toV' \in Seq(ToViewer)
           /\ m.type \notin {"packet", "eof"} => Other(toV, toV', ToViewer)
<1>1. toV \in Seq(ToViewer)
  BY ServerVars
<1>2. toV \o <<m>> = Append(toV, m) /\ Append(toV, m) \in Seq(ToViewer)
  BY <1>1, AppendIsConcat, AppendProperties
<1>3. QED
  BY <1>1, <1>2 DEF Answers, Other

\* What is left when the connection is cut.
LEMMA CutRead ==
    ASSUME Inductive, Cut, toS # <<>>, toS' = Tail(toS), toV' = toV, UNCHANGED viewer,
           UNCHANGED link, sSend'.file = sSend.file \/ toS' = <<>>,
           \/ UNCHANGED zip
           \/ zip' \in Sent(Downloads) /\ toS' = <<>>
    PROVE  Cut'
<1> DEFINE M == Unread(sSend.file)
           N == Unread(sSend'.file)
<1>1. toS \in Seq(ToServer)
  BY ServerVars
<1>2. /\ link' = "down" /\ toV' = <<>> /\ ~vSend'.running /\ ~vRecv'.running
      /\ zip' # NoFile => toS' = <<>> /\ zip' \in Sent(Downloads)
  BY ViewerVars DEF Cut
<1>3. \/ toS' \in Seq(N)
      \/ \E f \in Sent(Uploads) : Ends(toS', N, Msg("offer", f))
      \/ \E f \in Sent(Downloads) : Ends(toS', N, Msg("request", f))
  <2>1. CASE toS' = <<>>
    <3> HIDE DEF N
    <3>1. toS' \in Seq(N)
      BY <2>1, EmptySeq, Zenon
    <3>2. QED
      BY <3>1, Zenon
  <2>2. CASE M = N
    <3>1. CASE toS \in Seq(M)
      BY <2>2, <3>1, SeqHead
    <3>2. ASSUME NEW f \in Sent(Uploads), Ends(toS, M, Msg("offer", f))
          PROVE  toS' = <<>> \/ Ends(toS', N, Msg("offer", f))
      BY <1>1, <2>2, <3>2, EndsRead
    <3>3. ASSUME NEW f \in Sent(Downloads), Ends(toS, M, Msg("request", f))
          PROVE  toS' = <<>> \/ Ends(toS', N, Msg("request", f))
      BY <1>1, <2>2, <3>3, EndsRead
    <3> HIDE DEF M, N
    <3>4. \/ toS \in Seq(M)
          \/ \E f \in Sent(Uploads) : Ends(toS, M, Msg("offer", f))
          \/ \E f \in Sent(Downloads) : Ends(toS, M, Msg("request", f))
      BY DEF Cut, M
    <3>5. QED
      BY <2>1, <3>1, <3>2, <3>3, <3>4
  <2>3. QED
    BY <2>1, <2>2
<1>4. QED
  BY <1>2, <1>3 DEF Cut

\* What is left of a file, or the abort, is read.
LEMMA StrayServed ==
    ASSUME Inductive, inSync, toS # <<>>, Head(toS).type \in {"packet", "eof", "abort"},
           toS' = Tail(toS), UNCHANGED toV, UNCHANGED viewer, UNCHANGED sSend, UNCHANGED zip,
           UNCHANGED link,
           sRecv'.running /\ enabled' =>
              /\ enabled /\ sRecv.running /\ sRecv'.file = sRecv.file
              /\ sRecv'.pos = sRecv.pos + 1
              /\ sRecv.file \in Files =>
                    /\ \A j \in 1 .. Len(temp[sRecv.file]) :
                          j # sRecv.pos + 1 => temp'[sRecv.file][j] = temp[sRecv.file][j]
                    /\ Len(temp[sRecv.file]) <= Len(temp'[sRecv.file])
                    /\ temp'[sRecv.file] \in Stored
    PROVE  Phase'
<1>1. toS \in Seq(ToServer) /\ toV \in Seq(ToViewer) /\ deletes \in Nat
  BY ServerVars
<1>2. /\ UNCHANGED vRecv /\ UNCHANGED vSend /\ UNCHANGED list /\ UNCHANGED abort
      /\ UNCHANGED buttons /\ UNCHANGED deletes
  BY ViewerVars
<1>3. CASE Cut
  BY <1>3, CutRead DEF Phase
<1>4. CASE ~Cut
  <2>1. link = "up" /\ link' = "up"
    BY <1>4 DEF Inductive, Phase
  <2>2. Resting \/ Offering \/ (Uploading /\ Head(toS).type = "packet") \/ Receiving
    BY <1>4, HeadAsked
  <2>3. CASE Resting
    <3>1. Known(toS', toV', deletes')
      BY <1>1, <1>2, <2>3, KnownOther DEF Resting
    <3>2. QED
      BY <1>2, <2>1, <2>3, <3>1, SeqHead DEF Resting, Phase
  <2>4. CASE Offering
    <3>1. InUpload'
      BY <1>2, <2>4 DEF Offering, InUpload
    <3>2. Ends(toS', Asked({"packet", "eof"}), Msg("offer", vSend.file))
      BY <1>1, <2>4, EndsRead, MsgIs DEF Offering
    <3>3. QED
      BY <1>2, <2>1, <2>4, <3>1, <3>2 DEF Offering, Phase
  <2>5. CASE Uploading
    <3>1. InUpload'
      BY <1>2, <2>5 DEF Uploading, InUpload
    <3>2. toS' \in Seq(Asked({"packet"}))
      BY <2>5, SeqHead DEF Uploading
    <3>3. ASSUME sRecv'.running, enabled'
          PROVE  /\ sRecv'.file = vSend.file /\ sRecv'.pos + Len(toS') = vSend.pos
                 /\ Spared(vSend.sums, vSend.at, vSend.pos, temp'[vSend.file])
      <4> DEFINE f == vSend.file
                 pos == vSend.pos
      <4>1. /\ sRecv.file = f /\ sRecv.pos + Len(toS) = pos
            /\ Spared(vSend.sums, vSend.at, pos, temp[f])
            /\ sRecv.file \in Files /\ sRecv.file # NoFile
        BY <2>5, <3>3, FileFacts DEF Uploading, InUpload
      <4>2. /\ Len(toS) \in Nat /\ Len(toS') = Len(toS) - 1 /\ sRecv.pos \in Nat /\ Len(toS) # 0
        BY <1>1, LenProperties, HeadTailProperties, EmptySeq, Receivers
      <4>3. sRecv'.pos + Len(toS') = pos
        BY <3>3, <4>1, <4>2
      <4>4. temp[f] \in Stored /\ temp'[f] \in Stored
        BY <3>3, <4>1, Receivers
      <4>5. Len(temp[f]) \in Nat /\ Len(temp'[f]) \in Nat
        BY <4>4, StoredFacts
      <4>6. vSend \in Uploaders
        BY DEF Inductive, TypeOK, Uploaders
      <4>7. Len(vSend.sums) \in Nat /\ pos \in Nat
        BY <4>6, StoredFacts DEF Uploaders
      <4>8. /\ sRecv.pos + 1 <= pos /\ Len(temp[f]) <= Len(temp'[f])
            /\ \A j \in 1 .. Len(temp[f]) : j # sRecv.pos + 1 => temp'[f][j] = temp[f][j]
        BY <3>3, <4>1, <4>2, <4>7
      <4> HIDE DEF f, pos
      <4>9. Spared(vSend.sums, vSend.at, pos, temp'[f])
        <5> DEFINE t == temp[f]
                   u == temp'[f]
                   sums == vSend.sums
        <5>1. /\ vSend.at < Len(sums) => vSend.at = pos
              /\ \A j \in pos + 1 .. Len(sums) : j <= Len(t) /\ t[j] = sums[j]
          BY <4>1 DEF Spared
        <5>2. ASSUME NEW j \in pos + 1 .. Len(sums)
              PROVE  j <= Len(u) /\ u[j] = sums[j]
          <6>1. j \in Int /\ j > pos /\ j <= Len(t) /\ t[j] = sums[j]
            BY <4>7, <5>1
          <6>2. j \in 1 .. Len(t) /\ j # sRecv.pos + 1
            BY <4>2, <4>5, <4>7, <4>8, <6>1
          <6>3. u[j] = t[j]
            BY <4>8, <6>2
          <6> HIDE DEF t, u, sums
          <6>4. QED
            BY <4>5, <4>8, <6>1, <6>3 DEF t, u
        <5>3. QED
          BY <5>1, <5>2 DEF Spared
      <4>10. QED
        BY <3>3, <4>1, <4>3, <4>9 DEF f, pos
    <3>4. QED
      BY <1>2, <2>1, <2>5, <3>1, <3>2, <3>3 DEF Uploading, Phase
  <2>6. CASE Receiving
    <3>1. InDownload'
      BY <1>2, <2>6 DEF Receiving, InDownload
    <3>2. toS' \in Seq(Asked({"abort", "drives"})) /\ abort
      BY <2>6, SeqHead DEF Receiving
    <3>3. QED
      BY <1>2, <2>1, <2>6, <3>1, <3>2 DEF Receiving, Phase
  <2>7. QED
    BY <2>2, <2>3, <2>4, <2>5, <2>6
<1>5. QED
  BY <1>3, <1>4

\* The server's reception ends.
LEMMA ReceptionStops ==
    ASSUME Inductive, inSync, toS # <<>>, Head(toS).type \in {"packet", "eof", "abort"},
           toS' = Tail(toS), sRecv.running, NEW error \in BOOLEAN, NEW discard \in BOOLEAN,
           Finish(sRecv, error, discard), ~error => Head(toS).type = "eof" /\ enabled,
           sRecv' = [sRecv EXCEPT !.running = FALSE],
           UNCHANGED <<viewer, enabled, sSend, zip, toV, link, lists, inSync>>
    PROVE  Inductive'
<1> DEFINE f == sRecv.file
<1>1. /\ sRecv \in Targets /\ sSend \in Sources /\ zip \in Files \cup {NoFile}
      /\ toS \in Seq(ToServer) /\ toV \in Seq(ToViewer)
      /\ temp \in [Files -> Stored \cup {NoFile}] /\ final \in [Files -> Stored \cup {NoFile}]
      /\ link \in {"up", "down"} /\ inSync \in BOOLEAN
  BY ServerVars
<1>2. /\ f \in Files \cup {NoFile} /\ sRecv.pos \in Nat
      /\ f \in Files => temp[f] \in Stored
      /\ f \in Files /\ enabled => Brings(f, sRecv.pos, temp[f], toS)
      /\ vRecv.running => vRecv.file # f /\ vRecv.file \in Files
  BY <1>1, Receivers, FileFacts DEF Targets, Fed
<1>3. /\ temp' \in [Files -> Stored \cup {NoFile}]
      /\ final' \in [Files -> Stored \cup {NoFile}]
      /\ \A g \in Files : g # f => temp'[g] = temp[g] /\ final'[g] = final[g]
      /\ error => final' = final
      /\ f \in Files /\ ~error => final'[f] = Sized(temp[f], sRecv.pos)
  <2>1. CASE f \in Files
    BY <1>1, <1>2, <2>1, FinishIs
  <2>2. CASE f \notin Files
    BY <1>1, <2>2, FinishNothing
  <2>3. QED
    BY <2>1, <2>2
<1>4. sRecv' \in Targets /\ ~sRecv'.running
  BY <1>1 DEF Targets
<1>5. toS' \in Seq(ToServer)
  BY <1>1, SeqHead
<1>6. TypeOK'
  BY <1>1, <1>3, <1>4, <1>5, ServerTypes
<1>7. f \in Files /\ ~error => final'[f] = Content[f]
  <2>1. f \in Files /\ ~error => Sized(temp[f], sRecv.pos) = Content[f]
    BY <1>1, <1>2, BringsEnd DEF Is
  <2>2. QED
    BY <1>3, <2>1
<1>8. FileIntact'
  <2>1. \A g \in Files : final[g] \in {NoFile, Content[g]}
    BY DEF Inductive, FileIntact
  <2>2. \A g \in Files : final'[g] \in {NoFile, Content[g]}
    BY <1>3, <1>7, <2>1
  <2>3. QED
    BY <2>2 DEF FileIntact
<1>9. UploadGrows'
  BY <1>4 DEF UploadGrows, Fed
<1>10. DownloadGrows'
  BY <1>2, <1>3, ViewerVars, DownloadKept DEF Other
<1>11. Phase'
  BY <1>4, StrayServed
<1>12. QED
  BY <1>6, <1>8, <1>9, <1>10, <1>11, ViewerVars DEF Inductive

\* Nobody receives, or nobody may.
LEMMA ServesStray ==
    ASSUME Inductive, inSync, toS # <<>>, Head(toS).type \in {"packet", "eof"},
           toS' = Tail(toS), ~sRecv.running \/ ~enabled, UNCHANGED sRecv, UNCHANGED disk,
           inSync' \in BOOLEAN, UNCHANGED <<viewer, enabled, sSend, zip, toV, link, lists>>
    PROVE  Inductive'
<1>1. toS' \in Seq(ToServer)
  BY HeadAsked
<1>2. TypeOK'
  BY <1>1, ServerVars, ServerTypes DEF disk
<1>3. FileIntact' /\ UploadGrows'
  BY DEF Inductive, FileIntact, UploadGrows, Fed, disk
<1>4. DownloadGrows'
  BY ViewerVars, DownloadKept DEF Other, disk
<1>5. Phase'
  BY StrayServed
<1>6. QED
  BY <1>2, <1>3, <1>4, <1>5, ViewerVars DEF Inductive

LEMMA ServePacketKeeps ==
    ASSUME Inductive, ServePacket
    PROVE  Inductive'
<1>1. /\ inSync /\ Is(toS, "packet") /\ toS # <<>> /\ Head(toS).type = "packet"
      /\ toS' = Tail(toS) /\ enabled
      /\ UNCHANGED <<viewer, enabled, sSend, zip, toV, link, lists>>
  BY DEF ServePacket, Serves, Is
<1>2. CASE ~sRecv.running
  <2>1. inSync' = (Arg(toS) = Same) /\ UNCHANGED sRecv /\ UNCHANGED disk
    BY <1>2 DEF ServePacket
  <2>2. inSync' \in BOOLEAN
    BY <2>1, Zenon
  <2>3. QED
    BY <1>1, <1>2, <2>1, <2>2, ServesStray
<1>3. CASE sRecv.running
  <2>1. PICK failed \in Fails("write") :
           /\ IF failed
              THEN Finish(sRecv, TRUE, FALSE)
              ELSE Stores(sRecv, Arg(toS)) /\ UNCHANGED final
           /\ sRecv' = IF failed THEN [sRecv EXCEPT !.running = FALSE]
                       ELSE [sRecv EXCEPT !.pos = @ + 1]
           /\ UNCHANGED inSync
    BY <1>3 DEF ServePacket
  <2>2. CASE failed
    <3>1. ASSUME NEW error \in BOOLEAN, NEW discard \in BOOLEAN, error = TRUE, discard = FALSE
          PROVE  Inductive'
      <4>1. Finish(sRecv, error, discard) /\ sRecv' = [sRecv EXCEPT !.running = FALSE] /\ error
        BY <2>1, <2>2, <3>1
      <4>2. QED
        BY <1>1, <1>3, <2>1, <4>1, ReceptionStops
    <3>2. QED
      BY <3>1
  <2>3. CASE ~failed
    <3> DEFINE f == sRecv.file
    <3>1. /\ Stores(sRecv, Arg(toS)) /\ UNCHANGED final
          /\ sRecv' = [sRecv EXCEPT !.pos = @ + 1] /\ UNCHANGED inSync
      BY <2>1, <2>3
    <3>2. /\ sRecv \in Targets /\ sSend \in Sources /\ zip \in Files \cup {NoFile}
          /\ toS \in Seq(ToServer) /\ toV \in Seq(ToViewer)
          /\ temp \in [Files -> Stored \cup {NoFile}]
          /\ final \in [Files -> Stored \cup {NoFile}]
          /\ link \in {"up", "down"} /\ inSync \in BOOLEAN
      BY ServerVars
    <3>3. /\ f \in Files \cup {NoFile} /\ sRecv.pos \in Nat
          /\ f \in Files => f \in Sent(Uploads) /\ Brings(f, sRecv.pos, temp[f], toS)
          /\ vRecv.running => vRecv.file # f /\ vRecv.file \in Files
      BY <1>1, <1>3, <3>2, Receivers, FileFacts DEF Targets, Fed
    <3>4. toS' \in Seq(ToServer) /\ Arg(toS) \in Blocks \cup {Same}
      BY <1>1, HeadAsked, ToServerIs DEF Arg
    <3>5. /\ temp' \in [Files -> Stored \cup {NoFile}]
          /\ \A g \in Files : g # f => temp'[g] = temp[g]
          /\ f \in Files =>
                /\ temp'[f] \in Stored
                /\ \A j \in 1 .. Len(temp[f]) : j # sRecv.pos + 1 => temp'[f][j] = temp[f][j]
                /\ Len(temp[f]) <= Len(temp'[f])
                /\ Brings(f, sRecv.pos + 1, temp'[f], Tail(toS))
      <4>1. CASE f \in Files
        BY <1>1, <3>1, <3>2, <3>3, <3>4, <4>1, StoresIs
      <4>2. CASE f \notin Files
        BY <3>1, <3>2, <4>2, StoresNothing
      <4>3. QED
        BY <4>1, <4>2
    <3>6. /\ sRecv' \in Targets /\ sRecv'.running /\ sRecv'.file = f
          /\ sRecv'.pos = sRecv.pos + 1
      BY <1>3, <3>1, <3>2, SMTT(30) DEF Targets
    <3>7. TypeOK'
      BY <1>1, <3>1, <3>2, <3>4, <3>5, <3>6, ServerTypes
    <3>8. FileIntact'
      BY <3>1 DEF Inductive, FileIntact
    <3>9. UploadGrows'
      BY <1>1, <3>3, <3>5, <3>6 DEF UploadGrows, Fed
    <3>10. DownloadGrows'
      BY <1>1, <3>3, <3>5, ViewerVars, DownloadKept DEF Other
    <3>11. Phase'
      BY <1>1, <1>3, <3>1, <3>5, <3>6, StrayServed
    <3>12. QED
      BY <1>1, <3>7, <3>8, <3>9, <3>10, <3>11, ViewerVars DEF Inductive
  <2>4. QED
    BY <2>2, <2>3
<1>4. QED
  BY <1>2, <1>3

LEMMA ServeEndOfFileKeeps ==
    ASSUME Inductive, ServeEndOfFile
    PROVE  Inductive'
<1>1. /\ inSync /\ toS # <<>> /\ Head(toS).type = "eof" /\ toS' = Tail(toS) /\ enabled
      /\ sRecv' = [sRecv EXCEPT !.running = FALSE]
      /\ UNCHANGED <<viewer, enabled, sSend, zip, toV, link, lists, inSync>>
  BY DEF ServeEndOfFile, Serves, Is
<1>2. CASE sRecv.running
  <2>1. Finish(sRecv, FALSE, FALSE)
    BY <1>2 DEF ServeEndOfFile
  <2>2. ASSUME NEW error \in BOOLEAN, error = FALSE PROVE Inductive'
    <3>1. Finish(sRecv, error, error)
      BY <2>1, <2>2
    <3>2. QED
      BY <1>1, <1>2, <3>1, ReceptionStops
  <2>3. QED
    BY <2>2
<1>3. CASE ~sRecv.running
  <2>1. UNCHANGED disk
    BY <1>3 DEF ServeEndOfFile
  <2>2. UNCHANGED sRecv /\ inSync' \in BOOLEAN
    BY <1>1, <1>3, ServerVars DEF Targets
  <2>3. QED
    BY <1>1, <1>3, <2>1, <2>2, ServesStray
<1>4. QED
  BY <1>2, <1>3


\* A request that is answered at once.
LEMMA AnsweredKeeps ==
    ASSUME Inductive, inSync, toS # <<>>, toS' = Tail(toS),
           Head(toS).type \in {"abort", "drives", "dir", "command"},
           NEW m \in ToViewer, m.type \in {"access", "drives", "directory", "return"},
           Head(toS).type \in {"abort", "drives"} => m.type \in {"access", "drives"},
           Known(toS, toV, deletes) => Known(Tail(toS), Append(toV, m), deletes),
           Answers(<<m>>), UNCHANGED <<viewer, link, lists, inSync>>,
           UNCHANGED server, UNCHANGED disk
    PROVE  Inductive'
<1>1. /\ UNCHANGED enabled /\ UNCHANGED sSend /\ UNCHANGED sRecv /\ UNCHANGED zip
      /\ UNCHANGED temp /\ UNCHANGED final
  BY DEF server, disk
<1>2. /\ UNCHANGED vRecv /\ UNCHANGED vSend /\ UNCHANGED list /\ UNCHANGED abort
      /\ UNCHANGED buttons /\ UNCHANGED deletes /\ UNCHANGED tick
  BY ViewerVars
<1>3. /\ toV' \in Seq(ToViewer) /\ Other(toV, toV', ToViewer)
      /\ link = "up" => toV' = Append(toV, m)
      /\ link # "up" => toV' = toV
  BY AnswersIs
<1>4. toS' \in Seq(ToServer)
  BY HeadAsked
<1>5. TypeOK'
  BY <1>1, <1>3, <1>4, ServerVars, ServerTypes
<1>6. FileIntact'
  BY <1>1 DEF Inductive, FileIntact
<1>7. UploadGrows'
  BY <1>1, UploadKept DEF Other
<1>8. DownloadGrows'
  BY <1>1, <1>2, <1>3, DownloadKept
<1>9. Phase'
  <2>1. CASE Cut
    <3>1. toV' = toV
      BY <1>3, <2>1 DEF Cut
    <3>2. QED
      BY <1>1, <2>1, <3>1, CutRead DEF Phase
  <2>2. CASE ~Cut
    <3>1. link = "up" /\ link' = "up" /\ toV' = Append(toV, m)
      BY <1>3, <2>2 DEF Inductive, Phase
    <3>2. CASE Resting
      <4>1. /\ toS \in Seq(Asked({"abort", "drives", "dir", "command", "packet", "eof"})
                            \cup {Refused})
            /\ toV \in Seq(Told({"access", "drives", "directory", "return", "packet", "eof"}))
            /\ Known(toS, toV, deletes)
        BY <3>2 DEF Resting
      <4>2. m \in Told({"access", "drives", "directory", "return", "packet", "eof"})
        BY DEF Told
      <4>3. toV' \in Seq(Told({"access", "drives", "directory", "return", "packet", "eof"}))
        BY <3>1, <4>1, <4>2, AppendProperties
      <4>4. toS' \in Seq(Asked({"abort", "drives", "dir", "command", "packet", "eof"})
                             \cup {Refused})
        BY <4>1, SeqHead
      <4>5. Known(toS', toV', deletes')
        BY <1>2, <3>1, <4>1
      <4>6. QED
        BY <1>1, <1>2, <3>1, <3>2, <4>3, <4>4, <4>5 DEF Resting, Phase
    <3>3. CASE Receiving
      <4>1. /\ toS \in Seq(Asked({"abort", "drives"})) /\ abort
            /\ toV \in Seq(Told({"packet", "eof", "access", "drives"}))
        BY <3>3 DEF Receiving
      <4>2. Head(toS).type \in {"abort", "drives"} /\ toS' \in Seq(Asked({"abort", "drives"}))
        BY <4>1, SeqHead DEF Asked
      <4>3. m \in Told({"packet", "eof", "access", "drives"})
        BY <4>2 DEF Told
      <4>4. toV' \in Seq(Told({"packet", "eof", "access", "drives"}))
        BY <3>1, <4>1, <4>3, AppendProperties
      <4>5. InDownload'
        BY <1>2, <3>3 DEF Receiving, InDownload
      <4>6. QED
        BY <1>1, <1>2, <3>1, <3>3, <4>1, <4>2, <4>4, <4>5 DEF Receiving, Phase
    <3>4. QED
      BY <2>2, <3>2, <3>3, HeadAsked
  <2>3. QED
    BY <2>1, <2>2
<1>10. QED
  BY <1>2, <1>5, <1>6, <1>7, <1>8, <1>9 DEF Inductive

LEMMA ServeDrivesKeeps ==
    ASSUME Inductive, ServeDrives
    PROVE  Inductive'
<1> DEFINE m == Msg("drives", NoFile)
<1>1. /\ inSync /\ toS # <<>> /\ Head(toS).type = "drives" /\ toS' = Tail(toS)
      /\ Answers(<<m>>) /\ UNCHANGED <<viewer, link, lists, inSync>>
      /\ UNCHANGED server /\ UNCHANGED disk
  BY DEF ServeDrives, Serves, Is
<1>2. m \in ToViewer /\ m.type = "drives" /\ m \notin Deletions
  BY ToViewerHas, MsgIs DEF Deletions
<1> HIDE DEF m
<1>3. Known(toS, toV, deletes) => Known(Tail(toS), Append(toV, m), deletes)
  <2>1. toS \in Seq(ToServer) /\ toV \in Seq(ToViewer) /\ deletes \in Nat
        /\ Tail(toS) \in Seq(ToServer)
    BY <1>1, ServerVars, SeqHead
  <2>2. Known(toS, toV, deletes) => Known(Tail(toS), toV, deletes)
    BY <1>1, <2>1, KnownOther
  <2>3. QED
    BY <1>2, <2>1, <2>2, KnownOther
<1>4. QED
  BY <1>1, <1>2, <1>3, AnsweredKeeps

LEMMA ServeDirectoryKeeps ==
    ASSUME Inductive, ServeDirectory
    PROVE  Inductive'
<1>1. PICK unreadable \in Fails("media") : Answers(<<Msg("directory", ~unreadable)>>)
  BY DEF ServeDirectory
<1> DEFINE m == Msg("directory", ~unreadable)
<1>2. /\ inSync /\ toS # <<>> /\ Head(toS).type = "dir" /\ toS' = Tail(toS)
      /\ UNCHANGED <<viewer, link, lists, inSync>> /\ UNCHANGED server /\ UNCHANGED disk
  BY DEF ServeDirectory, Serves, Is
<1>3. m \in ToViewer /\ m.type = "directory" /\ m \notin Deletions
  <2>1. (~unreadable) \in BOOLEAN
    <3>1. unreadable \in BOOLEAN
      BY DEF Fails
    <3>2. (unreadable = TRUE \/ unreadable = FALSE) => (~unreadable) \in BOOLEAN
      BY Zenon
    <3>3. QED
      BY <3>1, <3>2
  <2>2. QED
    BY <2>1, ToViewerHas, MsgIs DEF Deletions
<1>4. Answers(<<m>>)
  BY <1>1
<1> HIDE DEF m
<1>5. Known(toS, toV, deletes) => Known(Tail(toS), Append(toV, m), deletes)
  <2>1. toS \in Seq(ToServer) /\ toV \in Seq(ToViewer) /\ deletes \in Nat
        /\ Tail(toS) \in Seq(ToServer)
    BY <1>2, ServerVars, SeqHead
  <2>2. Known(toS, toV, deletes) => Known(Tail(toS), toV, deletes)
    BY <1>2, <2>1, KnownOther
  <2>3. QED
    BY <1>3, <2>1, <2>2, KnownOther
<1>6. QED
  BY <1>2, <1>3, <1>4, <1>5, AnsweredKeeps

LEMMA ServeCommandKeeps ==
    ASSUME Inductive, ServeCommand
    PROVE  Inductive'
<1>1. PICK ok \in BOOLEAN : Answers(<<Msg("return", [what |-> Arg(toS), ok |-> ok])>>)
  BY DEF ServeCommand
<1> DEFINE m == Msg("return", [what |-> Arg(toS), ok |-> ok])
<1>2. /\ inSync /\ Is(toS, "command") /\ toS # <<>> /\ Head(toS).type = "command"
      /\ toS' = Tail(toS)
      /\ UNCHANGED <<viewer, link, lists, inSync>> /\ UNCHANGED server /\ UNCHANGED disk
  BY DEF ServeCommand, Serves, Is
<1>3. toS \in Seq(ToServer) /\ toV \in Seq(ToViewer) /\ deletes \in Nat
  BY ServerVars
<1>4. Arg(toS) \in {"create", "delete"}
  BY <1>2, <1>3, SeqHead, ToServerIs DEF Arg
<1>5. m \in ToViewer /\ m.type = "return"
  BY <1>4, ToViewerHas, MsgIs
<1>6. Known(toS, toV, deletes) => Known(Tail(toS), Append(toV, m), deletes)
  BY <1>2, <1>3, KnownAnswered
<1>7. Answers(<<m>>)
  BY <1>1
<1> HIDE DEF m
<1>8. QED
  BY <1>2, <1>5, <1>6, <1>7, AnsweredKeeps

LEMMA ServeAbortKeeps ==
    ASSUME Inductive, ServeAbort
    PROVE  Inductive'
<1>1. /\ inSync /\ toS # <<>> /\ Head(toS).type = "abort" /\ toS' = Tail(toS)
      /\ sRecv' = [sRecv EXCEPT !.running = FALSE]
      /\ UNCHANGED <<viewer, enabled, sSend, zip, link, lists, inSync>>
  BY DEF ServeAbort, Serves, Is
<1>2. CASE sRecv.running
  <2>1. Finish(sRecv, TRUE, TRUE) /\ UNCHANGED toV
    BY <1>2 DEF ServeAbort
  <2>2. ASSUME NEW error \in BOOLEAN, NEW discard \in BOOLEAN, error = TRUE, discard = TRUE
        PROVE  Inductive'
    <3>1. Finish(sRecv, error, discard) /\ error
      BY <2>1, <2>2
    <3>2. QED
      BY <1>1, <1>2, <2>1, <3>1, ReceptionStops
  <2>3. QED
    BY <2>2
<1>3. CASE ~sRecv.running
  <2> DEFINE m == Msg("access", enabled)
  <2>1. Answers(<<m>>) /\ UNCHANGED disk
    BY <1>3 DEF ServeAbort
  <2>2. UNCHANGED sRecv
    <3>1. sRecv \in Targets
      BY ServerVars
    <3>2. sRecv.running = FALSE
      BY <1>3, <3>1 DEF Targets
    <3>3. QED
      BY <1>1, <3>1, <3>2 DEF Targets
  <2>3. UNCHANGED server
    BY <1>1, <2>2 DEF server
  <2>4. m \in ToViewer /\ m.type = "access" /\ m \notin Deletions
    BY ServerVars, ToViewerHas, MsgIs DEF Deletions
  <2> HIDE DEF m
  <2>5. Known(toS, toV, deletes) => Known(Tail(toS), Append(toV, m), deletes)
    <3>1. toS \in Seq(ToServer) /\ toV \in Seq(ToViewer) /\ deletes \in Nat
          /\ Tail(toS) \in Seq(ToServer)
      BY <1>1, ServerVars, SeqHead
    <3>2. Known(toS, toV, deletes) => Known(Tail(toS), toV, deletes)
      BY <1>1, <3>1, KnownOther
    <3>3. QED
      BY <2>4, <3>1, <3>2, KnownOther
  <2>6. QED
    BY <1>1, <2>1, <2>3, <2>4, <2>5, AnsweredKeeps
<1>4. QED
  BY <1>2, <1>3


\* The name the next message carries.
LEMMA OfferedIs ==
    ASSUME Inductive, inSync, toS # <<>>, Head(toS).type = "offer"
    PROVE  /\ Head(toS).arg \in Sent(Uploads) /\ Head(toS).arg \in Files
           /\ ~Cut => Offering /\ Head(toS).arg = vSend.file
<1>1. Offering \/ Cut
  BY HeadAsked
<1>2. CASE Offering /\ ~Cut
  <2>1. Head(toS) = Msg("offer", vSend.file) \/ Head(toS) \in Asked({"packet", "eof"})
    BY <1>2, Receivers, EndsRead DEF Offering
  <2>2. Head(toS).arg = vSend.file /\ vSend.file \in Sent(Uploads)
    BY <1>2, <2>1, MsgIs DEF Asked, Offering, InUpload
  <2>3. QED
    BY <1>2, <2>2, FileFacts
<1>3. CASE Cut
  <2>1. Head(toS) \notin Unread(sSend.file)
    BY DEF Unread
  <2>2. \E f \in Sent(Uploads) : Head(toS) = Msg("offer", f)
    BY <1>3, <2>1, HeadAsked, MsgIs
  <2>3. QED
    BY <1>3, <2>2, MsgIs, FileFacts
<1>4. QED
  BY <1>1, <1>2, <1>3

LEMMA ServeOfferKeeps ==
    ASSUME Inductive, ServeOffer
    PROVE  Inductive'
<1> DEFINE f == Arg(toS)
           old == temp[f]
           sums == Msg("sums", old)
           yes == Msg("accept", TRUE)
           no == Msg("accept", FALSE)
<1>1. /\ inSync /\ toS # <<>> /\ Head(toS).type = "offer" /\ toS' = Tail(toS)
      /\ UNCHANGED <<viewer, enabled, sSend, zip, link, lists, inSync, final>>
  BY DEF ServeOffer, Serves, Is
<1>2. \/ Answers(<<no>>) /\ sRecv' = [sRecv EXCEPT !.file = NoFile] /\ UNCHANGED temp
      \/ /\ temp' = Opened(f) /\ sRecv' = [running |-> TRUE, file |-> f, pos |-> 0]
         /\ Answers((IF old = NoFile THEN <<>> ELSE <<sums>>) \o <<yes>>)
  BY DEF ServeOffer, AcceptOffer
<1>3. toS' = <<>> /\ toS' \in Seq(ToServer)
  BY <1>1, HeadAsked
<1>4. f \in Sent(Uploads) /\ f \in Files /\ (~Cut => Offering /\ f = vSend.file)
  BY <1>1, OfferedIs DEF Arg
<1>5. Offering \/ Cut
  BY <1>4
<1>6. /\ UNCHANGED vRecv /\ UNCHANGED vSend /\ UNCHANGED list /\ UNCHANGED abort
      /\ UNCHANGED buttons /\ UNCHANGED deletes /\ UNCHANGED tick
  BY <1>1, ViewerVars
<1>7. /\ toV = <<>> /\ ~vRecv.running
      /\ ~Cut => link = "up" /\ InUpload /\ ~vSend.running /\ vSend.sums = <<>> /\ vSend.at = 0
  <2>1. CASE Cut
    BY <2>1 DEF Cut
  <2>2. CASE ~Cut
    <3>1. link = "up"
      BY <1>1, <2>2 DEF Inductive, Phase
    <3>2. Offering
      BY <1>5, <2>2
    <3>3. QED
      BY <3>1, <3>2 DEF Offering, InUpload
  <2>3. QED
    BY <2>1, <2>2
<1>8. Cut => link = "down" /\ link # "up"
  BY DEF Cut
<1>9. FileIntact' /\ DownloadGrows'
  BY <1>1, <1>6, <1>7 DEF Inductive, FileIntact, DownloadGrows
<1>10. old \in Stored \cup {NoFile}
  BY <1>4, ServerVars
<1>11. (~Cut => InUpload') /\ (Cut => (toV' = toV => Phase'))
  <2>1. ~Cut => InUpload'
    BY <1>1, <1>6, <1>7 DEF InUpload
  <2>2. ASSUME Cut, toV' = toV PROVE Phase'
    BY <1>1, <2>2, CutRead DEF Phase
  <2>3. QED
    BY <2>1, <2>2
<1> HIDE DEF f, old
<1>12. CASE Answers(<<no>>) /\ sRecv' = [sRecv EXCEPT !.file = NoFile] /\ UNCHANGED temp
  <2>1. no \in ToViewer /\ no.type = "accept"
    BY ToViewerHas, MsgIs
  <2> HIDE DEF no
  <2>2. /\ toV' \in Seq(ToViewer)
        /\ link = "up" => toV' = Append(toV, no)
        /\ link # "up" => toV' = toV
    BY <1>12, <2>1, AnswersIs
  <2>3. TypeOK'
    <3>1. sRecv' \in Targets
      BY <1>12, ServerVars DEF Targets
    <3>2. QED
      BY <1>1, <1>3, <1>12, <2>2, <3>1, ServerVars, ServerTypes
  <2>4. UploadGrows'
    <3>1. sRecv'.file = NoFile
      BY <1>12, ServerVars DEF Targets
    <3>2. QED
      BY <3>1 DEF UploadGrows, Fed
  <2>5. Phase'
    <3>1. CASE ~Cut
      <4>1. toV' = <<no>>
        BY <1>7, <2>2, <3>1, Singles
      <4>2. Accepting'
        BY <1>3, <1>6, <1>7, <1>11, <3>1, <4>1 DEF Accepting, no
      <4>3. QED
        BY <1>1, <1>7, <3>1, <4>2 DEF Phase
    <3>2. QED
      BY <1>8, <1>11, <2>2, <3>1
  <2>6. QED
    BY <1>6, <1>9, <2>3, <2>4, <2>5 DEF Inductive
<1>13. CASE /\ temp' = Opened(f) /\ sRecv' = [running |-> TRUE, file |-> f, pos |-> 0]
            /\ Answers((IF old = NoFile THEN <<>> ELSE <<sums>>) \o <<yes>>)
  <2>1. /\ temp' \in [Files -> Stored \cup {NoFile}]
        /\ temp'[f] = (IF old = NoFile THEN <<>> ELSE old) /\ temp'[f] \in Stored
        /\ \A g \in Files : g # f => temp'[g] = temp[g]
    BY <1>4, <1>13, OpenedIs DEF old
  <2>2. yes \in ToViewer
    BY ToViewerHas
  <2>3. old # NoFile => sums \in ToViewer
    BY <1>10, ToViewerHas
  <2>4. sRecv' \in Targets /\ sRecv'.running /\ sRecv'.file = f /\ sRecv'.pos = 0
    BY <1>4, <1>13 DEF Targets
  <2> HIDE DEF sums, yes
  <2>5. /\ link # "up" => toV' = toV
        /\ link = "up" /\ old = NoFile => toV' = <<yes>>
        /\ link = "up" /\ old # NoFile => toV' = <<sums, yes>>
    <3>1. /\ <<>> \o <<yes>> = <<yes>> /\ <<sums>> \o <<yes>> = <<sums, yes>>
          /\ <<>> \o <<sums, yes>> = <<sums, yes>>
      <4>1. <<sums, yes>> \in Seq({sums, yes})
        OBVIOUS
      <4>2. <<>> \o <<sums, yes>> = <<sums, yes>>
        BY <4>1, ConcatEmptySeq
      <4>3. QED
        BY <4>2, Singles
    <3>2. QED
      BY <1>7, <1>13, <3>1 DEF Answers
  <2>6. toV' \in Seq(ToViewer)
    <3>1. <<yes>> \in Seq(ToViewer)
      BY <2>2
    <3>2. old # NoFile => <<sums, yes>> \in Seq(ToViewer)
      BY <2>2, <2>3
    <3>3. QED
      BY <2>5, <3>1, <3>2, ServerVars
  <2>7. TypeOK'
    BY <1>1, <1>3, <2>1, <2>4, <2>6, ServerVars, ServerTypes
  <2>8. UploadGrows'
    <3>1. <<>> \in Seq(ToServer) /\ Len(<<>>) = 0
      BY EmptySeq
    <3>2. \A i \in 1 .. Len(<<>>) : <<>>[i].type \notin {"packet", "eof"}
      BY <3>1
    <3>3. Brings(f, 0, temp'[f], toS')
      <4> DEFINE t == temp'[f]
      <4>1. t \in Stored
        BY <2>1
      <4> HIDE DEF t
      <4>2. Brings(f, 0, t, <<>>)
        BY <1>4, <3>1, <3>2, <4>1, BringsStart
      <4>3. QED
        BY <1>3, <4>2 DEF t
    <3>4. QED
      BY <1>4, <2>1, <2>4, <3>3 DEF UploadGrows
  <2>9. Phase'
    <3>1. CASE ~Cut
      <4>1. f = vSend.file /\ link = "up" /\ InUpload'
        BY <1>4, <1>7, <1>11, <3>1
      <4>2. \/ vSend.sums \in {<<>>, temp'[f]} /\ toV' = <<yes>>
            \/ vSend.sums = <<>> /\ toV' = <<Msg("sums", temp'[f]), yes>>
        BY <1>7, <2>1, <2>5, <3>1, <4>1 DEF sums
      <4>3. Accepting'
        BY <1>3, <1>6, <1>7, <2>4, <3>1, <4>1, <4>2 DEF Accepting, yes
      <4>4. QED
        BY <1>1, <4>1, <4>3 DEF Phase
    <3>2. QED
      BY <1>8, <1>11, <2>5, <3>1
  <2>10. QED
    BY <1>6, <1>9, <2>7, <2>8, <2>9 DEF Inductive
<1>14. QED
  BY <1>2, <1>12, <1>13

LEMMA RequestedIs ==
    ASSUME Inductive, inSync, toS # <<>>, Head(toS).type = "request"
    PROVE  /\ Head(toS).arg \in Sent(Downloads) /\ Head(toS).arg \in Files
           /\ Requesting \/ Cut
           /\ zip = NoFile
<1>1. Requesting \/ Cut
  BY HeadAsked
<1>2. CASE Requesting
  <2>1. PICK f \in Sent(Downloads) : Ends(toS, {Refused}, Msg("request", f))
    BY <1>2 DEF Requesting
  <2>2. Head(toS) = Msg("request", f) \/ Head(toS) = Refused
    BY <2>1, Receivers, EndsRead
  <2>3. Head(toS).arg = f
    BY <2>2, MsgIs, RefusedIs
  <2>4. QED
    BY <1>2, <2>3, FileFacts DEF Requesting
<1>3. CASE Cut
  <2>1. Head(toS) \notin Unread(sSend.file)
    BY DEF Unread
  <2>2. \E f \in Sent(Downloads) : Head(toS) = Msg("request", f)
    BY <1>3, <2>1, HeadAsked, MsgIs
  <2>3. QED
    BY <1>3, <2>2, MsgIs, FileFacts DEF Cut
<1>4. QED
  BY <1>1, <1>2, <1>3

LEMMA ServeRequestKeeps ==
    ASSUME Inductive, ServeRequest
    PROVE  Inductive'
<1> DEFINE f == Arg(toS)
<1>1. /\ inSync /\ toS # <<>> /\ Head(toS).type = "request" /\ toS' = Tail(toS)
      /\ UNCHANGED <<viewer, enabled, sRecv, toV, link, lists, disk>>
  BY DEF ServeRequest, Serves, Is
<1>2. f \in Sent(Downloads) /\ f \in Files /\ (Requesting \/ Cut) /\ zip = NoFile
  BY <1>1, RequestedIs DEF Arg
<1>3. zip' = f /\ sSend' = [sSend EXCEPT !.file = f] /\ UNCHANGED inSync
  BY <1>2 DEF ServeRequest
<1>4. toS' = <<>> /\ toS' \in Seq(ToServer)
  BY <1>1, HeadAsked
<1> HIDE DEF f
<1>5. sSend' \in Sources /\ sSend'.file = f
  <2>1. sSend \in Sources
    BY ServerVars
  <2>2. QED
    BY <1>2, <1>3, <2>1 DEF Sources
<1>6. UNCHANGED temp /\ UNCHANGED final
  BY <1>1 DEF disk
<1>7. TypeOK'
  BY <1>1, <1>2, <1>3, <1>4, <1>5, <1>6, ServerVars, ServerTypes
<1>8. FileIntact'
  BY <1>6 DEF Inductive, FileIntact
<1>9. UploadGrows'
  BY <1>1, <1>6, UploadKept DEF Other
<1>10. DownloadGrows'
  BY <1>1, <1>6, ViewerVars, DownloadKept DEF Other
<1>11. Phase'
  <2>1. CASE Cut
    BY <1>1, <1>2, <1>3, <1>4, <2>1, CutRead DEF Phase
  <2>2. CASE Requesting /\ ~Cut
    <3>1. link = "up"
      BY <1>1, <2>2 DEF Inductive, Phase
    <3>2. InDownload'
      BY <1>1, <2>2, ViewerVars DEF InDownload, Requesting
    <3>3. Zipping'
      BY <1>1, <1>2, <1>3, <1>4, <1>5, <2>2, <3>2, ViewerVars DEF Zipping, Requesting
    <3>4. QED
      BY <1>1, <3>1, <3>3 DEF Phase
  <2>3. QED
    BY <1>2, <2>1, <2>2
<1>12. QED
  BY <1>1, <1>7, <1>8, <1>9, <1>10, <1>11, ViewerVars DEF Inductive

LEMMA CompressFolderKeeps ==
    ASSUME Inductive, CompressFolder
    PROVE  Inductive'
<1>1. /\ inSync /\ zip # NoFile /\ zip' = NoFile
      /\ sSend' = [sSend EXCEPT !.sums = <<>>, !.at = 0]
      /\ UNCHANGED <<viewer, enabled, sRecv, toS, link, lists, inSync, disk>>
  BY DEF CompressFolder
<1>2. PICK ok \in BOOLEAN : Answers(<<Msg("header", [file |-> zip, ok |-> ok])>>)
  <2>1. PICK unopened \in Fails("open") :
           Answers(<<Msg("header", [file |-> zip, ok |-> ~unopened])>>)
    BY DEF CompressFolder
  <2>2. (unopened = TRUE \/ unopened = FALSE) => (~unopened) \in BOOLEAN
    BY Zenon
  <2>3. unopened = TRUE \/ unopened = FALSE
    BY DEF Fails
  <2>4. QED
    BY <2>1, <2>2, <2>3
<1> DEFINE m == Msg("header", [file |-> zip, ok |-> ok])
<1>3. (Zipping /\ link = "up") \/ Cut
  BY <1>1 DEF Inductive, Phase, Resting, Offering, Accepting, Uploading, InUpload, Requesting,
              Announcing, Opening, Receiving, Unanswered
<1>4. zip \in Sent(Downloads) /\ zip \in Files /\ toS = <<>>
  BY <1>1, <1>3, FileFacts DEF Zipping, Cut
<1>5. m \in ToViewer /\ m.type = "header"
  BY <1>4, ToViewerHas, MsgIs
<1>6. Answers(<<m>>)
  BY <1>2
<1> HIDE DEF m
<1>7. /\ toV' \in Seq(ToViewer) /\ Other(toV, toV', ToViewer)
      /\ link = "up" => toV' = Append(toV, m)
      /\ link # "up" => toV' = toV
  BY <1>5, <1>6, AnswersIs
<1>8. sSend' \in Sources /\ sSend'.file = sSend.file /\ sSend'.sums = <<>> /\ sSend'.at = 0
  <2>1. sSend \in Sources /\ <<>> \in Stored
    BY ServerVars, EmptyStored
  <2>2. QED
    BY <1>1, <2>1 DEF Sources
<1>9. UNCHANGED temp /\ UNCHANGED final
  BY <1>1 DEF disk
<1>10. TypeOK'
  BY <1>1, <1>7, <1>8, <1>9, ServerVars, ServerTypes
<1>11. FileIntact'
  BY <1>9 DEF Inductive, FileIntact
<1>12. UploadGrows'
  BY <1>1, <1>9, UploadKept DEF Other
<1>13. DownloadGrows'
  BY <1>1, <1>7, <1>9, ViewerVars, DownloadKept
<1>14. Phase'
  <2>1. CASE Cut
    <3>1. toV' = <<>>
      BY <1>7, <2>1 DEF Cut
    <3>2. toS' \in Seq(Unread(sSend'.file))
      BY <1>1, <1>4, EmptySeq
    <3>3. Cut'
      BY <1>1, <2>1, <3>1, <3>2, ViewerVars DEF Cut
    <3>4. QED
      BY <3>3 DEF Phase
  <2>2. CASE Zipping /\ link = "up"
    <3>1. InDownload'
      BY <1>1, <2>2, ViewerVars DEF InDownload, Zipping
    <3>2. Ends(toV', Stray, m)
      <4>1. toV \in Seq(Stray)
        BY <2>2 DEF Zipping
      <4>2. Ends(Append(toV, m), Stray, m)
        BY <4>1, EndsAppend
      <4>3. QED
        BY <1>7, <2>2, <4>2
    <3>3. sSend'.file = zip
      BY <1>8, <2>2 DEF Zipping
    <3>4. \E b \in BOOLEAN : Ends(toV', Stray, Msg("header", [file |-> sSend'.file, ok |-> b]))
      BY <3>2, <3>3 DEF m
    <3>5. Announcing'
      BY <1>1, <1>4, <1>8, <2>2, <3>1, <3>3, <3>4, ViewerVars DEF Announcing, Zipping
    <3>6. QED
      BY <1>1, <2>2, <3>5 DEF Phase
  <2>3. QED
    BY <1>3, <2>1, <2>2
<1>15. QED
  BY <1>1, <1>10, <1>11, <1>12, <1>13, <1>14, ViewerVars DEF Inductive


LEMMA ServeChecksumsKeeps ==
    ASSUME Inductive, ServeChecksums
    PROVE  Inductive'
<1> DEFINE sums == Arg(toS)
<1>1. /\ inSync /\ toS # <<>> /\ Head(toS).type = "sums" /\ toS' = Tail(toS)
      /\ sSend' = [sSend EXCEPT !.sums = sums]
      /\ UNCHANGED <<viewer, enabled, sRecv, zip, toV, link, lists, inSync, disk>>
  BY DEF ServeChecksums, Serves, Is
<1>2. /\ Opening \/ Cut
      /\ Head(toS) \in ToServer /\ toS' \in Seq(ToServer)
  BY <1>1, HeadAsked
<1>3. sums \in Stored
  BY <1>1, <1>2, ToServerIs DEF Arg
<1>4. UNCHANGED temp /\ UNCHANGED final
  BY <1>1 DEF disk
<1>5. CASE Opening /\ ~Cut
  <2>1. ~(toS = <<Msg("header", TRUE)>>)
    <3>1. ASSUME NEW b \in BOOLEAN, toS = <<Msg("header", b)>>
          PROVE  Head(toS).type = "header"
      BY <3>1, MsgIs
    <3>2. QED
      BY <1>1, <3>1
  <2>2. sSend.sums = <<>> /\ toS = <<Msg("sums", temp[vRecv.file]), Msg("header", TRUE)>>
    BY <1>5, <2>1 DEF Opening
  <2>3. sums = temp[vRecv.file] /\ toS' = <<Msg("header", TRUE)>>
    <3> DEFINE m == Msg("sums", temp[vRecv.file])
               h == Msg("header", TRUE)
    <3>1. m.arg = temp[vRecv.file]
      BY MsgIs
    <3>2. toS = <<m, h>>
      BY <2>2
    <3> HIDE DEF m, h
    <3>3. Head(toS) = m /\ Tail(toS) = <<h>>
      BY <3>2, Singles
    <3>4. QED
      BY <1>1, <3>1, <3>3 DEF Arg, h
  <2> HIDE DEF sums
  <2>4. sSend' \in Sources /\ sSend'.file = sSend.file /\ sSend'.at = sSend.at
        /\ sSend'.sums = sums
    <3>1. sSend \in Sources
      BY ServerVars
    <3>2. QED
      BY <1>1, <1>3, <3>1 DEF Sources
  <2>5. TypeOK'
    BY <1>1, <1>2, <1>4, <2>4, ServerVars, ServerTypes
  <2>6. UploadGrows' /\ DownloadGrows' /\ FileIntact'
    BY <1>1, <1>4, ViewerVars, UploadKept, DownloadKept DEF Other, Inductive, FileIntact
  <2>7. InDownload'
    BY <1>1, <1>5, ViewerVars DEF Opening, InDownload
  <2>8. Opening'
    BY <1>1, <1>4, <1>5, <2>3, <2>4, <2>7, ViewerVars DEF Opening
  <2>9. link = "up"
    BY <1>1, <1>5 DEF Inductive, Phase
  <2>10. QED
    BY <1>1, <2>5, <2>6, <2>8, <2>9, ViewerVars DEF Inductive, Phase
<1>6. CASE Cut
  <2> HIDE DEF sums
  <2>1. sSend' \in Sources /\ sSend'.file = sSend.file
    <3>1. sSend \in Sources
      BY ServerVars
    <3>2. QED
      BY <1>1, <1>3, <3>1 DEF Sources
  <2>2. TypeOK'
    BY <1>1, <1>2, <1>4, <2>1, ServerVars, ServerTypes
  <2>3. UploadGrows' /\ DownloadGrows' /\ FileIntact'
    BY <1>1, <1>4, ViewerVars, UploadKept, DownloadKept DEF Other, Inductive, FileIntact
  <2>4. Phase'
    BY <1>1, <1>6, <2>1, CutRead DEF Phase
  <2>5. QED
    BY <1>1, <2>2, <2>3, <2>4, ViewerVars DEF Inductive
<1>7. QED
  BY <1>2, <1>5, <1>6

\* The viewer does not want the file.
LEMMA RefusalKeeps ==
    ASSUME Inductive, inSync, toS # <<>>, Head(toS).type = "header", ~Head(toS).arg,
           toS' = Tail(toS), UNCHANGED toV, UNCHANGED sSend,
           UNCHANGED <<viewer, enabled, sRecv, zip, link, lists, inSync, disk>>
    PROVE  Inductive'
<1>1. /\ (Head(toS) = Refused /\ (Resting \/ Requesting)) \/ Cut
      /\ toS' \in Seq(ToServer)
  BY HeadAsked
<1>2. UNCHANGED temp /\ UNCHANGED final
  BY DEF disk
<1>3. toS \in Seq(ToServer) /\ toV \in Seq(ToViewer) /\ deletes \in Nat
  BY ServerVars
<1>4. TypeOK'
  BY <1>1, <1>2, ServerVars, ServerTypes
<1>5. UploadGrows' /\ DownloadGrows' /\ FileIntact'
  BY <1>2, ViewerVars, UploadKept, DownloadKept DEF Other, Inductive, FileIntact
<1>6. Phase'
  <2>1. CASE Cut
    BY <2>1, CutRead DEF Phase
  <2>2. CASE ~Cut
    <3>1. link = "up" /\ link' = "up"
      BY <2>2 DEF Inductive, Phase
    <3>2. CASE Resting
      <4>1. Known(toS', toV', deletes')
        BY <1>3, <3>2, ViewerVars, KnownOther DEF Resting
      <4>2. QED
        BY <3>1, <3>2, <4>1, SeqHead, ViewerVars DEF Resting, Phase
    <3>3. CASE Requesting
      <4>1. PICK f \in Sent(Downloads) : Ends(toS, {Refused}, Msg("request", f))
        BY <3>3 DEF Requesting
      <4>2. Ends(toS', {Refused}, Msg("request", f))
        <5>1. Head(toS) # Msg("request", f)
          BY MsgIs
        <5>2. QED
          BY <1>3, <4>1, <5>1, EndsRead
      <4>3. InDownload'
        BY <3>3, ViewerVars DEF InDownload, Requesting
      <4>4. QED
        BY <3>1, <3>3, <4>2, <4>3, ViewerVars DEF Requesting, Phase
    <3>4. QED
      BY <1>1, <2>2, <3>2, <3>3
  <2>3. QED
    BY <2>1, <2>2
<1>7. QED
  BY <1>4, <1>5, <1>6, ViewerVars DEF Inductive

LEMMA ServeHeaderKeeps ==
    ASSUME Inductive, ServeHeader
    PROVE  Inductive'
<1> DEFINE n == Len(Content[sSend.file])
           eof == Msg("eof", sSend.file)
           all == Append(Blocks0(sSend), eof)
           at == Longer(sSend.at, IF n < Len(sSend.sums) THEN n ELSE Len(sSend.sums))
<1>1. /\ inSync /\ toS # <<>> /\ Head(toS).type = "header" /\ toS' = Tail(toS)
      /\ UNCHANGED <<viewer, enabled, sRecv, zip, link, lists, inSync, disk>>
  BY DEF ServeHeader, Serves, Is
<1>2. CASE ~Head(toS).arg
  <2>1. UNCHANGED toV /\ UNCHANGED sSend
    BY <1>2 DEF ServeHeader, Arg
  <2>2. QED
    BY <1>1, <1>2, <2>1, RefusalKeeps
<1>3. CASE Head(toS).arg
  <2>1. Answers(all) /\ sSend' = [sSend EXCEPT !.at = at]
    BY <1>3 DEF ServeHeader, Arg, Blocks0
  <2>2. /\ (Opening /\ Tail(toS) = <<>>) \/ Cut
        /\ toS' \in Seq(ToServer) /\ Head(toS) \in ToServer
    BY <1>1, <1>3, HeadAsked, RefusedIs
  <2>3. sSend.file \in Files /\ sSend \in [file : Files, sums : Stored, at : Nat]
    <3>1. sSend \in Sources
      BY ServerVars
    <3>2. CASE Opening
      <4>1. vRecv.running /\ sSend.file = vRecv.file
        BY <3>2 DEF Opening
      <4>2. QED
        BY <3>1, <4>1, Receivers DEF Sources
    <3>3. CASE Cut
      <4>1. Head(toS) \in Unread(sSend.file)
        BY <1>1, <3>3, HeadAsked, MsgIs
      <4>2. QED
        BY <1>1, <1>3, <3>1, <4>1 DEF Unread, Sources
    <3>4. QED
      BY <2>2, <3>2, <3>3
  <2>4. sSend' \in Sources /\ sSend'.file = sSend.file
    <3>1. n \in Nat /\ Len(sSend.sums) \in Nat /\ sSend.at \in Nat
      BY <2>3, ContentFacts, StoredFacts
    <3>2. at \in Nat
      BY <3>1 DEF Longer
    <3> HIDE DEF at
    <3>3. QED
      BY <2>1, <2>3, <3>2 DEF Sources
  <2> HIDE DEF at, n
  <2>5. /\ Blocks0(sSend) \in Seq(Packets)
        /\ \A t \in Stored : sSend.at = 0 /\ sSend.sums \in {<<>>, t} =>
              Brings(sSend.file, 0, t, all)
    BY <2>3, WholeFile
  <2>6. eof \in ToViewer /\ eof \in Stray /\ Packets \subseteq ToViewer /\ Packets \subseteq Stray
    <3>1. eof \in ToViewer /\ eof.type = "eof"
      BY <2>3, ToViewerHas, MsgIs
    <3>2. Packets \subseteq ToViewer /\ \A p \in Packets : p.type = "packet"
      BY DEF Packets, ToViewer
    <3> HIDE DEF eof
    <3>3. QED
      BY <3>1, <3>2 DEF Stray, Told
  <2> HIDE DEF eof
  <2>7. all \in Seq(ToViewer) /\ all \in Seq(Stray)
    <3>1. Blocks0(sSend) \in Seq(ToViewer) /\ Blocks0(sSend) \in Seq(Stray)
      BY <2>5, <2>6, SeqMonotonic
    <3>2. QED
      BY <2>6, <3>1, AppendProperties
  <2> HIDE DEF all
  <2>8. UNCHANGED temp /\ UNCHANGED final
    BY <1>1 DEF disk
  <2>9. UploadGrows' /\ FileIntact'
    BY <1>1, <2>8, UploadKept DEF Other, Inductive, FileIntact
  <2>10. CASE Opening /\ Tail(toS) = <<>> /\ ~Cut
    <3>1. link = "up" /\ toV = <<>> /\ toS' = <<>>
      BY <1>1, <2>10 DEF Inductive, Phase, Opening
    <3>2. toV' = all
      <4>1. toV' = <<>> \o all
        BY <2>1, <3>1 DEF Answers
      <4>2. QED
        BY <2>7, <4>1, ConcatEmptySeq
    <3>3. TypeOK'
      BY <1>1, <2>2, <2>4, <2>7, <2>8, <3>2, ServerVars, ServerTypes
    <3>4. /\ vRecv.running /\ ~vRecv.error /\ vRecv.pos = 0 /\ sSend.file = vRecv.file
          /\ sSend.at = 0 /\ sSend.sums \in {<<>>, temp[vRecv.file]}
      <4>1. toS # <<Msg("sums", temp[vRecv.file]), Msg("header", TRUE)>>
        <5> DEFINE m == Msg("sums", temp[vRecv.file])
                   h == Msg("header", TRUE)
        <5>1. m.type = "sums"
          BY MsgIs
        <5> HIDE DEF m, h
        <5>2. Head(<<m, h>>) = m
          BY Singles
        <5>3. toS # <<m, h>>
          BY <1>1, <5>1, <5>2
        <5>4. QED
          BY <5>3 DEF m, h
      <4>2. QED
        BY <2>10, <4>1 DEF Opening
    <3>5. DownloadGrows'
      <4>1. vRecv.file \in Sent(Downloads) /\ temp[vRecv.file] \in Stored
        BY <3>4, Receivers
      <4>2. Brings(vRecv.file, 0, temp[vRecv.file], all)
        <5> DEFINE t == temp[vRecv.file]
        <5>1. t \in Stored /\ sSend.sums \in {<<>>, t}
          BY <3>4, <4>1
        <5> HIDE DEF t
        <5>2. Brings(sSend.file, 0, t, all)
          BY <2>5, <3>4, <5>1
        <5>3. QED
          BY <3>4, <5>2 DEF t
      <4>3. QED
        BY <1>1, <2>8, <3>2, <3>4, <4>1, <4>2, ViewerVars DEF DownloadGrows
    <3>6. Receiving'
      <4>1. InDownload'
        BY <1>1, <2>10, ViewerVars DEF Opening, InDownload
      <4>2. toV' \in Seq(Told({"packet", "eof", "access", "drives"}))
        <5>1. Stray \subseteq Told({"packet", "eof", "access", "drives"})
          BY DEF Stray, Told
        <5>2. QED
          BY <2>7, <3>2, <5>1, SeqMonotonic
      <4>3. toS' \in Seq(Asked({"abort", "drives"}))
        BY <3>1, EmptySeq
      <4>4. QED
        BY <1>1, <2>7, <2>10, <3>1, <3>2, <3>4, <4>1, <4>2, <4>3, ViewerVars
           DEF Opening, Receiving
    <3>7. QED
      BY <1>1, <2>9, <3>1, <3>3, <3>5, <3>6, ViewerVars DEF Inductive, Phase
  <2>11. CASE Cut
    <3>1. toV' = toV
      BY <2>1, <2>11 DEF Answers, Cut
    <3>2. TypeOK'
      BY <1>1, <2>2, <2>4, <2>8, <3>1, ServerVars, ServerTypes
    <3>3. DownloadGrows'
      BY <1>1, <2>8, <3>1, ViewerVars, DownloadKept DEF Other
    <3>4. Phase'
      BY <1>1, <2>4, <2>11, <3>1, CutRead DEF Phase
    <3>5. QED
      BY <1>1, <2>9, <3>2, <3>3, <3>4, ViewerVars DEF Inductive
  <2>12. QED
    BY <2>2, <2>10, <2>11
<1>4. QED
  BY <1>2, <1>3

\* A message that is refused is gone.
LEMMA ServeRefusedKeeps ==
    ASSUME Inductive, ServeRefused
    PROVE  Inductive'
<1>1. /\ ~enabled /\ inSync /\ toS # <<>> /\ toS' = Tail(toS)
      /\ UNCHANGED <<viewer, enabled, sRecv, zip, toV, link, lists, disk>>
  BY DEF ServeRefused, Serves, Is
<1>2. \/ Head(toS).type = "offer" /\ inSync' = FALSE /\ UNCHANGED sSend
      \/ Head(toS).type = "packet" /\ inSync' = (Arg(toS) = Same) /\ UNCHANGED sSend
      \/ /\ Head(toS).type = "request" /\ sSend' = [sSend EXCEPT !.file = Arg(toS)]
         /\ UNCHANGED inSync
      \/ Head(toS).type \in {"eof", "drives", "dir", "command"} /\ UNCHANGED <<inSync, sSend>>
  BY DEF ServeRefused, Serves, Is
<1>3. Head(toS).type = "request" => Arg(toS) \in Files
  BY <1>1, RequestedIs DEF Arg
<1>4. inSync' \in BOOLEAN /\ sSend' \in Sources
  <2>1. inSync' \in BOOLEAN
    <3>1. inSync' = inSync \/ inSync' = FALSE \/ inSync' = (Arg(toS) = Same)
      BY <1>2
    <3>2. inSync \in BOOLEAN
      BY ServerVars
    <3>3. QED
      BY <3>1, <3>2, Zenon
  <2>2. sSend' \in Sources
    BY <1>2, <1>3, ServerVars DEF Sources
  <2>3. QED
    BY <2>1, <2>2
<1>5. UNCHANGED temp /\ UNCHANGED final /\ toS' \in Seq(ToServer)
  BY <1>1, HeadAsked DEF disk
<1>6. TypeOK'
  BY <1>1, <1>4, <1>5, ServerVars, ServerTypes
<1>7. FileIntact' /\ UploadGrows'
  BY <1>1, <1>5 DEF Inductive, FileIntact, UploadGrows, Fed
<1>8. DownloadGrows'
  BY <1>1, <1>5, ViewerVars, DownloadKept DEF Other
<1>9. inSync' => Phase'
  <2> SUFFICES ASSUME inSync' PROVE Phase'
    OBVIOUS
  <2>1. CASE Head(toS).type \in {"packet", "eof"}
    BY <1>1, <1>2, <2>1, StrayServed
  <2>2. CASE Head(toS).type = "request"
    <3>1. (Requesting \/ Cut) /\ toS' = <<>>
      BY <1>1, <2>2, HeadAsked
    <3>2. CASE Cut
      BY <1>1, <3>1, <3>2, CutRead DEF Phase
    <3>3. CASE Requesting /\ ~Cut
      <4>1. InDownload'
        BY <1>1, <3>3, ViewerVars DEF InDownload, Requesting
      <4>2. Unanswered' /\ link' = "up"
        BY <1>1, <3>1, <3>3, <4>1, ViewerVars DEF Unanswered, Requesting, Inductive, Phase
      <4>3. QED
        BY <4>2 DEF Phase
    <3>4. QED
      BY <3>1, <3>2, <3>3
  <2>3. CASE Head(toS).type \in {"drives", "dir", "command"}
    <3>1. UNCHANGED sSend
      BY <1>2, <2>3
    <3>2. Resting \/ Receiving \/ Cut
      BY <1>1, <2>3, HeadAsked
    <3>3. CASE Cut
      BY <1>1, <3>1, <3>3, CutRead DEF Phase
    <3>4. CASE Resting /\ ~Cut
      <4>1. Known(toS', toV', deletes')
        BY <1>1, <3>4, ServerVars, ViewerVars, KnownOther DEF Resting
      <4>2. Resting' /\ link' = "up"
        BY <1>1, <3>4, <4>1, SeqHead, ViewerVars DEF Resting, Inductive, Phase
      <4>3. QED
        BY <4>2 DEF Phase
    <3>5. CASE Receiving /\ ~Cut
      <4>1. InDownload'
        BY <1>1, <3>5, ViewerVars DEF InDownload, Receiving
      <4>2. toS' \in Seq(Asked({"abort", "drives"})) /\ abort
        BY <1>1, <3>5, SeqHead DEF Receiving
      <4>3. Receiving' /\ link' = "up"
        BY <1>1, <3>5, <4>1, <4>2, ViewerVars DEF Receiving, Inductive, Phase
      <4>4. QED
        BY <4>3 DEF Phase
    <3>6. QED
      BY <3>2, <3>3, <3>4, <3>5
  <2>4. QED
    BY <1>2, <2>1, <2>2, <2>3
<1>10. QED
  BY <1>1, <1>6, <1>7, <1>8, <1>9, ViewerVars DEF Inductive

LEMMA ServerLosesClientKeeps ==
    ASSUME Inductive, ServerLosesClient
    PROVE  Inductive'
<1>1. /\ link = "down" /\ toS = <<>> /\ zip = NoFile /\ sSend' = NoSource /\ sRecv' = NoTarget
      /\ link' = "up" /\ UNCHANGED <<viewer, enabled, zip, toS, toV, inSync, lists>>
  BY DEF ServerLosesClient
<1>2. UNCHANGED disk \/ (sRecv.running /\ Finish(sRecv, TRUE, FALSE))
  BY DEF ServerLosesClient
<1>3. /\ temp' \in [Files -> Stored \cup {NoFile}] /\ final' = final
      /\ vRecv.running => temp'[vRecv.file] = temp[vRecv.file]
  <2>1. CASE UNCHANGED disk
    BY <2>1, ServerVars DEF disk
  <2>2. CASE sRecv.running /\ Finish(sRecv, TRUE, FALSE)
    <3>1. ASSUME NEW error \in BOOLEAN, NEW discard \in BOOLEAN, error = TRUE, discard = FALSE
          PROVE  /\ temp' \in [Files -> Stored \cup {NoFile}] /\ final' = final
                 /\ \A g \in Files : g # sRecv.file => temp'[g] = temp[g]
      <4>1. Finish(sRecv, error, discard) /\ error
        BY <2>2, <3>1
      <4>2. CASE sRecv.file # NoFile
        BY <2>2, <4>1, <4>2, ServerVars, Receivers, FinishIs
      <4>3. CASE sRecv.file = NoFile
        BY <4>1, <4>3, ServerVars, FileFacts, FinishNothing
      <4>4. QED
        BY <4>2, <4>3
    <3>2. /\ temp' \in [Files -> Stored \cup {NoFile}] /\ final' = final
          /\ \A g \in Files : g # sRecv.file => temp'[g] = temp[g]
      BY <3>1
    <3>3. QED
      BY <2>2, <3>2, Receivers
  <2>3. QED
    BY <1>2, <2>1, <2>2
<1>4. sSend' \in Sources /\ sRecv' \in Targets /\ ~sRecv'.running
  BY <1>1, EmptyStored DEF NoSource, NoTarget, Sources, Targets
<1>5. TypeOK'
  BY <1>1, <1>3, <1>4, ServerVars, ServerTypes
<1>6. FileIntact' /\ UploadGrows'
  BY <1>3, <1>4 DEF Inductive, FileIntact, UploadGrows, Fed
<1>7. DownloadGrows'
  BY <1>1, <1>3, ViewerVars, DownloadKept DEF Other
<1>8. inSync => Phase'
  <2> SUFFICES ASSUME inSync PROVE Phase'
    OBVIOUS
  <2>1. Cut
    BY <1>1 DEF Inductive, Phase
  <2>2. toS' = <<>> /\ toV' = <<>>
    BY <1>1, <2>1 DEF Cut
  <2>3. Known(toS', toV', deletes')
    <3>1. deletes' \in Nat
      BY <1>1, ServerVars, ViewerVars
    <3>2. <<>> \in Seq(ToServer) /\ <<>> \in Seq(ToViewer) /\ Len(<<>>) = 0
      BY EmptySeq
    <3>3. (\A i \in 1 .. Len(<<>>) : <<>>[i].type # "command")
          /\ \A i \in 1 .. Len(<<>>) : <<>>[i].type # "return"
      BY <3>2
    <3>4. Known(<<>>, <<>>, deletes')
      BY <3>1, <3>2, <3>3, KnownNone
    <3>5. QED
      BY <2>2, <3>4
  <2>4. Resting'
    BY <1>1, <2>1, <2>2, <2>3, EmptySeq, ViewerVars DEF Resting, Cut
  <2>5. QED
    BY <1>1, <2>4 DEF Phase
<1>9. QED
  BY <1>1, <1>5, <1>6, <1>7, <1>8, ViewerVars DEF Inductive


-----------------------------------------------------------------------------
(* The user. *)

\* The user starts something only when nothing is under way.
LEMMA FreeIs ==
    ASSUME Inductive, OneAtATime, Free
    PROVE  /\ inSync /\ link = "up" /\ toS = <<>> /\ toV = <<>> /\ Resting
           /\ ~vSend.running /\ ~vRecv.running /\ zip = NoFile /\ tick # "sending"
<1>1. /\ inSync /\ link = "up" /\ buttons /\ Len(toS) + Len(toV) <= 0
      /\ toS \in Seq(ToServer) /\ toV \in Seq(ToViewer)
  BY ServerVars DEF Free, OneAtATime
<1>2. Len(toS) \in Nat /\ Len(toV) \in Nat
  BY <1>1, LenProperties
<1>3. Len(toS) = 0 /\ Len(toV) = 0
  BY <1>1, <1>2
<1>4. toS = <<>> /\ toV = <<>>
  BY <1>1, <1>3, EmptySeq
<1>5. Resting
  BY <1>1 DEF Inductive, Phase, Cut, Offering, Accepting, Uploading, InUpload, Requesting,
              Zipping, Announcing, Opening, Receiving, Unanswered, InDownload
<1>6. QED
  BY <1>1, <1>4, <1>5 DEF Resting, Inductive

LEMMA ViewerTypes ==
    ASSUME Inductive
    PROVE  /\ pending \in BOOLEAN /\ buttons \in BOOLEAN /\ remoteDir \in BOOLEAN
           /\ allowed \in BOOLEAN /\ abort \in BOOLEAN /\ aborted \in BOOLEAN
           /\ timerOn \in BOOLEAN /\ deletes \in 0 .. MaxDeletes /\ lists \in 0 .. MaxLists
           /\ list \in Seq(Files)
           /\ vSend \in Uploaders /\ vRecv \in Downloaders
           /\ tick \in {"idle", "sending", "ending"}
BY DEF Inductive, TypeOK, Uploaders, Downloaders

\* What the user asks for brings no part of a file.
LEMMA BringsNone ==
    ASSUME NEW f, NEW pos, NEW t, NEW p, Brings(f, pos, t, p), NEW q,
           \A i \in 1 .. Len(q) : q[i].type \notin {"packet", "eof"}
    PROVE  Brings(f, pos, t, q)
BY DEF Brings

LEMMA AsksKeeps ==
    ASSUME Inductive, OneAtATime, Free, NEW q,
           q \in Seq(Asked({"abort", "dir", "command"})), toS' = q,
           Known(q, <<>>, deletes'), deletes' \in 0 .. MaxDeletes,
           pending' \in BOOLEAN, remoteDir' \in BOOLEAN,
           UNCHANGED <<buttons, allowed, abort, aborted, list, sending, vRecv,
                       server, toV, link, lists, inSync, disk>>
    PROVE  Inductive'
<1>1. /\ inSync /\ link = "up" /\ toS = <<>> /\ toV = <<>> /\ Resting
      /\ ~vSend.running /\ ~vRecv.running /\ zip = NoFile /\ tick # "sending"
  BY FreeIs
<1>2. /\ UNCHANGED vSend /\ UNCHANGED timerOn /\ UNCHANGED tick
      /\ UNCHANGED enabled /\ UNCHANGED sSend /\ UNCHANGED sRecv /\ UNCHANGED zip
      /\ UNCHANGED temp /\ UNCHANGED final
  BY DEF sending, server, disk
<1>3. /\ Asked({"abort", "dir", "command"}) \subseteq ToServer
      /\ Asked({"abort", "dir", "command"})
            \subseteq Asked({"abort", "drives", "dir", "command", "packet", "eof"}) \cup {Refused}
  BY DEF Asked
<1>4. /\ q \in Seq(ToServer)
      /\ q \in Seq(Asked({"abort", "drives", "dir", "command", "packet", "eof"}) \cup {Refused})
  BY <1>3, SeqMonotonic
<1>5. TypeOK'
  BY <1>2, <1>4 DEF Inductive, TypeOK
<1>6. FileIntact'
  BY <1>2 DEF Inductive, FileIntact
<1>7. DownloadGrows'
  BY <1>1 DEF DownloadGrows
<1>8. UploadGrows'
  <2>1. \A i \in 1 .. Len(q) : q[i].type \notin {"packet", "eof"}
    BY ElementOfSeq DEF Asked
  <2>2. Fed => Brings(sRecv.file, sRecv.pos, temp[sRecv.file], q)
    BY <2>1, Receivers, BringsNone
  <2>3. QED
    BY <1>2, <2>2, Receivers DEF UploadGrows, Fed
<1>9. Resting'
  BY <1>1, <1>2, <1>4, EmptySeq DEF Resting
<1>10. QED
  BY <1>1, <1>2, <1>5, <1>6, <1>7, <1>8, <1>9 DEF Inductive, Phase

\* One message only.
LEMMA AskIs ==
    ASSUME Inductive, NEW m \in Asked({"abort", "dir", "command"}), m # Deletion
    PROVE  /\ Append(<<>>, m) \in Seq(Asked({"abort", "dir", "command"}))
           /\ Known(Append(<<>>, m), <<>>, deletes)
<1>1. <<>> \in Seq(Asked({"abort", "dir", "command"})) /\ <<>> \in Seq(ToServer)
      /\ <<>> \in Seq(ToViewer) /\ Len(<<>>) = 0
  BY EmptySeq
<1>2. m \in ToServer /\ deletes \in Nat
  BY ServerVars DEF Asked
<1>3. (\A i \in 1 .. Len(<<>>) : <<>>[i].type # "command")
      /\ \A i \in 1 .. Len(<<>>) : <<>>[i].type # "return"
  BY <1>1
<1>4. Known(<<>>, <<>>, deletes)
  BY <1>1, <1>2, <1>3, KnownNone
<1>5. Known(Append(<<>>, m), <<>>, deletes)
  BY <1>1, <1>2, <1>4, KnownOther
<1>6. QED
  BY <1>1, <1>5, AppendProperties

LEMMA OpenDialogKeeps ==
    ASSUME Inductive, OneAtATime, OpenDialog
    PROVE  Inductive'
<1> DEFINE m == Msg("abort", NoFile)
<1>1. /\ Free /\ pending' = TRUE /\ remoteDir' = FALSE /\ toS' = Append(toS, m)
      /\ UNCHANGED <<buttons, allowed, abort, aborted, deletes, list, sending, vRecv,
                     server, toV, link, lists, inSync, disk>>
  BY DEF OpenDialog
<1>2. pending' \in BOOLEAN /\ remoteDir' \in BOOLEAN
  BY <1>1, Zenon
<1>3. m \in Asked({"abort", "dir", "command"}) /\ m # Deletion
  BY ToServerHas, MsgIs DEF Asked, Deletion
<1> HIDE DEF m
<1>4. toS' = Append(<<>>, m) /\ deletes \in 0 .. MaxDeletes
  BY <1>1, FreeIs, ViewerTypes
<1>5. QED
  BY <1>1, <1>2, <1>3, <1>4, AskIs, AsksKeeps

LEMMA BrowseRemoteKeeps ==
    ASSUME Inductive, OneAtATime, BrowseRemote
    PROVE  Inductive'
<1> DEFINE m == Msg("dir", NoFile)
<1>1. /\ Free /\ pending' \in {TRUE, pending} /\ remoteDir' = TRUE /\ toS' = Append(toS, m)
      /\ UNCHANGED <<buttons, allowed, abort, aborted, deletes, list, sending, vRecv,
                     server, toV, link, lists, inSync, disk>>
  BY DEF BrowseRemote
<1>2. pending' \in BOOLEAN /\ remoteDir' \in BOOLEAN
  <2>1. remoteDir' \in BOOLEAN
    BY <1>1, Zenon
  <2>2. QED
    BY <1>1, <2>1, ViewerTypes
<1>3. m \in Asked({"abort", "dir", "command"}) /\ m # Deletion
  BY ToServerHas, MsgIs DEF Asked, Deletion
<1> HIDE DEF m
<1>4. toS' = Append(<<>>, m) /\ deletes \in 0 .. MaxDeletes
  BY <1>1, FreeIs, ViewerTypes
<1>5. QED
  BY <1>1, <1>2, <1>3, <1>4, AskIs, AsksKeeps

LEMMA RemoteCommandKeeps ==
    ASSUME Inductive, OneAtATime, RemoteCommand
    PROVE  Inductive'
<1> DEFINE m == Msg("command", "create")
<1>1. /\ Free /\ pending' = TRUE
      /\ UNCHANGED <<buttons, remoteDir, allowed, abort, aborted, list, sending, vRecv,
                     server, toV, link, lists, inSync, disk>>
  BY DEF RemoteCommand
<1>2. \/ toS' = Append(toS, m) /\ UNCHANGED deletes
      \/ \E n \in 1 .. MaxDeletes :
            deletes' = n /\ toS' = toS \o [i \in 1 .. n |-> Deletion]
  BY DEF RemoteCommand, Deletion
<1>3. pending' \in BOOLEAN
  BY <1>1, Zenon
<1>4. toS = <<>> /\ deletes \in 0 .. MaxDeletes /\ remoteDir' \in BOOLEAN
  BY <1>1, FreeIs, ViewerTypes
<1>5. CASE toS' = Append(toS, m) /\ UNCHANGED deletes
  <2>1. m \in Asked({"abort", "dir", "command"}) /\ m # Deletion
    <3>1. m \in ToServer /\ m.type = "command" /\ m.arg = "create" /\ Deletion.arg = "delete"
      BY ToServerHas, MsgIs DEF Deletion
    <3>2. m # Deletion
      BY <3>1
    <3>3. QED
      BY <3>1, <3>2 DEF Asked
  <2> HIDE DEF m
  <2>2. toS' = Append(<<>>, m)
    BY <1>4, <1>5
  <2>3. QED
    BY <1>1, <1>3, <1>4, <1>5, <2>1, <2>2, AskIs, AsksKeeps
<1>6. ASSUME NEW n \in 1 .. MaxDeletes, deletes' = n, toS' = toS \o [i \in 1 .. n |-> Deletion]
      PROVE  Inductive'
  <2> DEFINE q == [i \in 1 .. n |-> Deletion]
  <2>1. n \in Nat /\ n \in 0 .. MaxDeletes
    OBVIOUS
  <2>2. q \in Seq({Deletion}) /\ Known(q, <<>>, n)
    BY <2>1, KnownOrdered
  <2> HIDE DEF q
  <2>3. Deletion \in Asked({"abort", "dir", "command"})
    BY ToServerHas, MsgIs DEF Asked, Deletion
  <2>4. q \in Seq(Asked({"abort", "dir", "command"}))
    BY <2>2, <2>3, SeqMonotonic
  <2>5. toS' = q
    <3>1. toS' = <<>> \o q
      BY <1>4, <1>6 DEF q
    <3>2. QED
      BY <2>4, <3>1, ConcatEmptySeq
  <2>6. QED
    BY <1>1, <1>3, <1>4, <1>6, <2>1, <2>2, <2>4, <2>5, AsksKeeps
<1>7. QED
  BY <1>2, <1>5, <1>6

LEMMA AbortKeeps ==
    ASSUME Inductive, Abort
    PROVE  Inductive'
<1>1. /\ inSync /\ abort' = TRUE
      /\ UNCHANGED <<pending, buttons, remoteDir, allowed, aborted, deletes, list, sending, vRecv,
                     server, toS, toV, link, lists, inSync, disk>>
  BY DEF Abort
<1>2. /\ UNCHANGED vSend /\ UNCHANGED timerOn /\ UNCHANGED tick
      /\ UNCHANGED enabled /\ UNCHANGED sSend /\ UNCHANGED sRecv /\ UNCHANGED zip
      /\ UNCHANGED temp /\ UNCHANGED final
  BY <1>1 DEF sending, server, disk
<1>3. abort' \in BOOLEAN
  BY <1>1, Zenon
<1>4. TypeOK'
  BY <1>1, <1>2, <1>3 DEF Inductive, TypeOK
<1>5. Phase'
  BY <1>1, <1>2, PhaseSame DEF Inductive
<1>6. UploadGrows' /\ DownloadGrows' /\ FileIntact'
  BY <1>1, <1>2, FilesSame
<1>7. QED
  BY <1>1, <1>2, <1>4, <1>5, <1>6 DEF Inductive


LEMMA UploadKeeps ==
    ASSUME Inductive, OneAtATime, Upload
    PROVE  Inductive'
<1>1. /\ Free /\ lists < MaxLists /\ lists' = lists + 1
      /\ abort' = FALSE /\ aborted' = FALSE /\ buttons' = FALSE
      /\ UNCHANGED <<remoteDir, allowed, deletes, vRecv, server, toV, link, inSync, disk>>
  BY DEF Upload
<1>2. PICK files \in Uploads : OfferFrom(files, toS, "dialog")
  BY DEF Upload
<1>3. /\ inSync /\ link = "up" /\ toS = <<>> /\ toV = <<>> /\ Resting
      /\ ~vSend.running /\ ~vRecv.running /\ zip = NoFile /\ tick # "sending"
  BY <1>1, FreeIs
<1>4. /\ UNCHANGED enabled /\ UNCHANGED sSend /\ UNCHANGED sRecv /\ UNCHANGED zip
      /\ UNCHANGED temp /\ UNCHANGED final
  BY <1>1 DEF server, disk
<1>5. abort' \in BOOLEAN /\ aborted' \in BOOLEAN /\ buttons' \in BOOLEAN /\ ~buttons'
  BY <1>1, Zenon
<1>6. lists' \in 0 .. MaxLists
  BY <1>1, ViewerTypes
<1>7. files \in Seq(Sent(Uploads))
  BY FileFacts
<1>8. /\ pending' \in BOOLEAN /\ timerOn' \in BOOLEAN /\ vSend' \in Uploaders
      /\ vSend'.running = (vSend.running /\ "dialog" # "timer")
      /\ Offers(toS, "dialog") \/ Stops(toS, "dialog")
  BY <1>2, <1>7, OfferFromIs
<1>9. ~vSend'.running /\ tick' = tick
  BY <1>3, <1>8 DEF Offers, Stops
<1>10. /\ toS' \in Seq(ToServer) /\ list' \in Seq(Files)
       /\ tick' \in {"idle", "sending", "ending"}
       /\ (Resting \/ Offering)'
  <2>1. toS \in Seq(Asked({"abort", "packet", "eof"})) /\ toS \in Seq(Asked({"packet", "eof"}))
    BY <1>3, EmptySeq
  <2>2. UNCHANGED <<vRecv, zip, deletes>> /\ toV' = <<>> /\ link' = "up"
    BY <1>1, <1>3, <1>4
  <2>3. QED
    BY <1>3, <1>5, <1>8, <1>9, <2>1, <2>2, OfferFromLeads
<1>11. TypeOK'
  BY <1>1, <1>4, <1>5, <1>6, <1>8, <1>10 DEF Inductive, TypeOK, Uploaders
<1>12. FileIntact' /\ DownloadGrows'
  BY <1>1, <1>3, <1>4 DEF Inductive, FileIntact, DownloadGrows
<1>13. UploadGrows'
  <2>1. Other(toS, toS', ToServer)
    BY <1>8, ToServerHas, MsgIs, FileFacts DEF Offers, Stops, Other
  <2>2. QED
    BY <1>4, <2>1, UploadKept
<1>14. QED
  BY <1>1, <1>3, <1>9, <1>10, <1>11, <1>12, <1>13 DEF Inductive, Phase

LEMMA DownloadKeeps ==
    ASSUME Inductive, OneAtATime, Download
    PROVE  Inductive'
<1>1. /\ Free /\ lists < MaxLists /\ lists' = lists + 1
      /\ pending' = TRUE /\ abort' = FALSE /\ aborted' = FALSE /\ buttons' = FALSE
      /\ UNCHANGED <<remoteDir, allowed, deletes, sending, vRecv, server, toV, link, inSync, disk>>
  BY DEF Download
<1>2. PICK files \in Downloads :
         list' = files /\ toS' = Append(toS, Msg("request", Head(files)))
  BY DEF Download
<1>3. /\ inSync /\ link = "up" /\ toS = <<>> /\ toV = <<>> /\ Resting
      /\ ~vSend.running /\ ~vRecv.running /\ zip = NoFile /\ tick # "sending"
  BY <1>1, FreeIs
<1>4. /\ UNCHANGED enabled /\ UNCHANGED sSend /\ UNCHANGED sRecv /\ UNCHANGED zip
      /\ UNCHANGED temp /\ UNCHANGED final
      /\ UNCHANGED vSend /\ UNCHANGED timerOn /\ UNCHANGED tick
  BY <1>1 DEF server, disk, sending
<1>5. /\ pending' \in BOOLEAN /\ abort' \in BOOLEAN /\ aborted' \in BOOLEAN
      /\ buttons' \in BOOLEAN /\ ~buttons'
  BY <1>1, Zenon
<1>6. lists' \in 0 .. MaxLists
  BY <1>1, ViewerTypes
<1> DEFINE f == Head(files)
           m == Msg("request", f)
<1>7. files \in Seq(Sent(Downloads)) /\ files # <<>> /\ f \in Sent(Downloads) /\ f \in Files
      /\ files \in Seq(Files)
  <2>1. files \in Seq(Sent(Downloads)) /\ files # <<>>
    BY FileFacts
  <2>2. QED
    BY <2>1, SeqHead, FileFacts, SeqMonotonic
<1>8. toS' = Append(<<>>, m) /\ m \in ToServer /\ m.type = "request"
  BY <1>2, <1>3, <1>7, ToServerHas, MsgIs
<1> HIDE DEF f
<1>9. Ends(toS', {Refused}, m) /\ toS' \in Seq(ToServer)
  <2>1. <<>> \in Seq({Refused}) /\ <<>> \in Seq(ToServer)
    BY EmptySeq
  <2> HIDE DEF m
  <2>2. QED
    BY <1>8, <2>1, EndsAppend, AppendProperties
<1>10. TypeOK'
  BY <1>1, <1>2, <1>4, <1>5, <1>6, <1>7, <1>9 DEF Inductive, TypeOK
<1>11. FileIntact' /\ DownloadGrows'
  BY <1>1, <1>3, <1>4 DEF Inductive, FileIntact, DownloadGrows
<1>12. UploadGrows'
  <2>1. Other(toS, toS', ToServer)
    BY <1>3, <1>8 DEF Other
  <2>2. QED
    BY <1>4, <2>1, UploadKept
<1>13. Requesting'
  <2>1. InDownload'
    BY <1>2, <1>3, <1>4, <1>5, <1>7 DEF InDownload
  <2>2. \E g \in Sent(Downloads) : Ends(toS', {Refused}, Msg("request", g))
    BY <1>7, <1>9
  <2>3. QED
    BY <1>1, <1>3, <1>4, <2>1, <2>2, EmptySeq DEF Requesting
<1>14. QED
  BY <1>1, <1>3, <1>4, <1>10, <1>11, <1>12, <1>13 DEF Inductive, Phase

\* What is under way to the server in any phase may be left unread by the viewer.
LEMMA UnderWay ==
    ASSUME Inductive, inSync, link = "up"
    PROVE  LET U == Unread(sSend.file)
           IN  /\ \/ toS \in Seq(U)
                  \/ \E f \in Sent(Uploads) : Ends(toS, U, Msg("offer", f))
                  \/ \E f \in Sent(Downloads) : Ends(toS, U, Msg("request", f))
               /\ zip # NoFile => toS = <<>> /\ zip \in Sent(Downloads)
<1> DEFINE U == Unread(sSend.file)
<1>1. toS \in Seq(ToServer)
  BY ServerVars
<1>2. Refused \in U
  BY ToServerHas, RefusedIs DEF Unread
<1>3. /\ Asked({"abort", "drives", "dir", "command", "packet", "eof"}) \cup {Refused} \subseteq U
      /\ Asked({"packet", "eof"}) \subseteq U /\ Asked({"packet"}) \subseteq U
      /\ Asked({"abort", "drives"}) \subseteq U /\ {Refused} \subseteq U
  BY <1>2 DEF Asked, Unread
<1>4. CASE Resting
  <2>1. toS \in Seq(U)
    BY <1>3, <1>4, SeqMonotonic DEF Resting
  <2>2. QED
    BY <1>4, <2>1 DEF Resting
<1>5. CASE Offering
  <2>1. Ends(toS, Asked({"packet", "eof"}), Msg("offer", vSend.file))
        /\ vSend.file \in Sent(Uploads) /\ zip = NoFile
    BY <1>5 DEF Offering, InUpload
  <2> HIDE DEF U
  <2>2. Ends(toS, U, Msg("offer", vSend.file))
    BY <1>1, <1>3, <2>1, EndsWithin
  <2>3. QED
    BY <2>1, <2>2 DEF U
<1>6. CASE Accepting \/ Zipping \/ Announcing \/ Unanswered
  <2>1. toS = <<>> /\ (zip # NoFile => zip \in Sent(Downloads))
    BY <1>6 DEF Accepting, InUpload, Zipping, Announcing, Unanswered
  <2>2. QED
    BY <2>1, EmptySeq
<1>7. CASE Uploading \/ Receiving
  <2>1. toS \in Seq(Asked({"packet"})) \/ toS \in Seq(Asked({"abort", "drives"}))
    BY <1>7 DEF Uploading, Receiving
  <2>2. toS \in Seq(U)
    BY <1>3, <2>1, SeqMonotonic
  <2>3. QED
    BY <1>7, <2>2 DEF Uploading, InUpload, Receiving
<1>8. CASE Requesting
  <2>1. PICK f \in Sent(Downloads) : Ends(toS, {Refused}, Msg("request", f))
    BY <1>8 DEF Requesting
  <2> HIDE DEF U
  <2>2. Ends(toS, U, Msg("request", f))
    BY <1>1, <1>3, <2>1, EndsWithin
  <2>3. QED
    BY <1>8, <2>2 DEF U, Requesting
<1>9. CASE Opening
  <2> DEFINE t == temp[vRecv.file]
             m == Msg("sums", t)
             h == Msg("header", TRUE)
  <2>1. sSend.file \in Files /\ t \in Stored
    BY <1>9, Receivers DEF Opening
  <2> HIDE DEF t
  <2>2. /\ m \in ToServer /\ m.type = "sums"
        /\ h \in ToServer /\ h.type = "header"
    BY <2>1, ToServerHas, MsgIs
  <2>3. toS = <<h>> \/ toS = <<m, h>>
    BY <1>9 DEF Opening, t
  <2> HIDE DEF m, h
  <2>4. m \in U /\ h \in U
    BY <2>1, <2>2 DEF Unread
  <2> HIDE DEF U
  <2>5. <<h>> \in Seq(U) /\ <<m, h>> \in Seq(U)
    BY <2>4
  <2>6. QED
    BY <1>9, <2>3, <2>5 DEF U, Opening
<1>10. QED
  BY <1>4, <1>5, <1>6, <1>7, <1>8, <1>9 DEF Inductive, Phase, Cut

LEMMA DisconnectKeeps ==
    ASSUME Inductive, Disconnect
    PROVE  Inductive'
<1> DEFINE U == Unread(sSend.file)
<1>1. /\ inSync /\ link = "up" /\ link' = "down" /\ toV' = <<>> /\ NewViewer
      /\ UNCHANGED <<server, inSync, lists, disk>>
  BY DEF Disconnect
<1>2. PICK k \in 0 .. Len(toS) : toS' = SubSeq(toS, 1, k)
  BY DEF Disconnect
<1>3. /\ UNCHANGED enabled /\ UNCHANGED sSend /\ UNCHANGED sRecv /\ UNCHANGED zip
      /\ UNCHANGED temp /\ UNCHANGED final
  BY <1>1 DEF server, disk
<1>4. toS \in Seq(ToServer) /\ toS' \in Seq(ToServer) /\ toV' \in Seq(ToViewer)
  BY <1>1, <1>2, ServerVars, SeqPrefix, EmptySeq
<1>5. /\ pending' \in BOOLEAN /\ buttons' \in BOOLEAN /\ remoteDir' \in BOOLEAN
      /\ allowed' \in BOOLEAN /\ abort' \in BOOLEAN /\ aborted' \in BOOLEAN
      /\ timerOn' \in BOOLEAN
  BY <1>1, Zenon DEF NewViewer
<1>6. /\ deletes' \in 0 .. MaxDeletes /\ list' \in Seq(Files)
      /\ vSend' = NotSending /\ vRecv' = NotReceiving /\ tick' = "idle"
  BY <1>1, EmptySeq DEF NewViewer
<1>7. /\ vSend' \in Uploaders /\ ~vSend'.running
      /\ vRecv' \in Downloaders /\ ~vRecv'.running
  BY <1>6, EmptyStored DEF NotSending, NotReceiving, Uploaders, Downloaders
<1>8. TypeOK'
  BY <1>1, <1>3, <1>4, <1>5, <1>6, <1>7 DEF Inductive, TypeOK, Uploaders, Downloaders
<1>9. FileIntact' /\ DownloadGrows'
  BY <1>3, <1>7 DEF Inductive, FileIntact, DownloadGrows
<1>10. UploadGrows'
  <2>1. Other(toS, toS', ToServer)
    BY <1>2 DEF Other
  <2>2. QED
    BY <1>3, <2>1, UploadKept
<1>11. \/ toS' \in Seq(U)
       \/ \E f \in Sent(Uploads) : Ends(toS', U, Msg("offer", f))
       \/ \E f \in Sent(Downloads) : Ends(toS', U, Msg("request", f))
  <2>1. CASE toS \in Seq(U)
    BY <1>2, <2>1, SeqPrefix
  <2> HIDE DEF U
  <2>2. ASSUME NEW f \in Sent(Uploads), Ends(toS, U, Msg("offer", f))
        PROVE  toS' \in Seq(U) \/ Ends(toS', U, Msg("offer", f))
    BY <1>2, <1>4, <2>2, EndsPrefix
  <2>3. ASSUME NEW f \in Sent(Downloads), Ends(toS, U, Msg("request", f))
        PROVE  toS' \in Seq(U) \/ Ends(toS', U, Msg("request", f))
    BY <1>2, <1>4, <2>3, EndsPrefix
  <2>4. \/ toS \in Seq(U)
        \/ \E f \in Sent(Uploads) : Ends(toS, U, Msg("offer", f))
        \/ \E f \in Sent(Downloads) : Ends(toS, U, Msg("request", f))
    BY <1>1, UnderWay DEF U
  <2>5. QED
    BY <2>1, <2>2, <2>3, <2>4
<1>12. zip' # NoFile => toS' = <<>> /\ zip' \in Sent(Downloads)
  <2>1. toS = <<>> => toS' = <<>>
    <3>1. ASSUME toS = <<>> PROVE toS' = <<>>
      <4>1. k = 0
        BY <1>2, <3>1, EmptySeq
      <4>2. Len(toS') = 0
        BY <1>2, <1>4, <4>1, SeqPrefix
      <4>3. QED
        BY <1>4, <4>2, EmptySeq
    <3>2. QED
      BY <3>1
  <2>2. QED
    BY <1>1, <1>3, <2>1, UnderWay
<1>13. Cut'
  BY <1>1, <1>3, <1>7, <1>11, <1>12 DEF Cut
<1>14. QED
  BY <1>6, <1>8, <1>9, <1>10, <1>13 DEF Inductive, Phase

LEMMA ChangePermissionKeeps ==
    ASSUME Inductive, NotGrantedAgain, ChangePermission
    PROVE  Inductive'
<1>1. /\ inSync /\ enabled' = ~enabled /\ enabled
      /\ UNCHANGED <<viewer, sSend, sRecv, zip, toS, toV, link, inSync, lists, disk>>
  BY DEF ChangePermission, NotGrantedAgain
<1>2. enabled' \in BOOLEAN /\ ~enabled'
  BY <1>1, Zenon
<1>3. UNCHANGED ui /\ UNCHANGED sending /\ UNCHANGED list /\ UNCHANGED vRecv
  BY <1>1 DEF viewer
<1>4. TypeOK'
  BY <1>1, <1>2, <1>3 DEF Inductive, TypeOK, ui, sending, disk
<1>5. Phase'
  BY <1>1, <1>2, <1>3, PhaseSame DEF Inductive, ui, sending, disk
<1>6. UploadGrows' /\ DownloadGrows' /\ FileIntact'
  BY <1>1, <1>2, <1>3, FilesSame DEF disk
<1>7. QED
  BY <1>1, <1>3, <1>4, <1>5, <1>6 DEF Inductive, sending


-----------------------------------------------------------------------------
(* The theorems. *)

LEMMA NothingKnown == Known(<<>>, <<>>, 0)
<1>1. <<>> \in Seq(ToServer) /\ <<>> \in Seq(ToViewer) /\ Len(<<>>) = 0 /\ 0 \in Nat
  BY EmptySeq
<1>2. (\A i \in 1 .. Len(<<>>) : <<>>[i].type # "command")
      /\ \A i \in 1 .. Len(<<>>) : <<>>[i].type # "return"
  BY <1>1
<1>3. QED
  BY <1>1, <1>2, KnownNone

LEMMA InductiveInit == Init => Inductive
<1> SUFFICES ASSUME Init PROVE Inductive
  OBVIOUS
<1>1. /\ pending \in BOOLEAN /\ buttons \in BOOLEAN /\ remoteDir \in BOOLEAN
      /\ allowed \in BOOLEAN /\ abort \in BOOLEAN /\ aborted \in BOOLEAN
      /\ timerOn \in BOOLEAN /\ inSync \in BOOLEAN
  BY Zenon DEF Init
<1>2. /\ enabled \in BOOLEAN /\ deletes = 0 /\ lists = 0 /\ list = <<>> /\ tick = "idle"
      /\ vSend = NotSending /\ vRecv = NotReceiving /\ sSend = NoSource /\ sRecv = NoTarget
      /\ zip = NoFile /\ toS = <<>> /\ toV = <<>> /\ link = "up"
      /\ temp \in [Files -> Stored \cup {NoFile}] /\ final = [f \in Files |-> NoFile]
  BY DEF Init
<1>3. /\ vSend \in Uploaders /\ ~vSend.running /\ vRecv \in Downloaders /\ ~vRecv.running
      /\ sSend \in Sources /\ sRecv \in Targets /\ ~sRecv.running
  BY <1>2, EmptyStored DEF NotSending, NotReceiving, NoSource, NoTarget, Uploaders, Downloaders,
                           Sources, Targets
<1>4. TypeOK
  BY <1>1, <1>2, <1>3, EmptySeq DEF TypeOK, Uploaders, Downloaders, Sources, Targets
<1>5. FileIntact /\ UploadGrows /\ DownloadGrows
  BY <1>2, <1>3 DEF FileIntact, UploadGrows, DownloadGrows, Fed
<1>6. Resting
  BY <1>2, <1>3, NothingKnown, EmptySeq DEF Resting
<1>7. QED
  BY <1>2, <1>4, <1>5, <1>6 DEF Inductive, Phase

LEMMA InductiveStep ==
    ASSUME OneAtATime, NotGrantedAgain, Inductive, [Next]_vars
    PROVE  Inductive'
<1>1. CASE Reading
  BY <1>1, TestPermissionKeeps, ListRemoteDrivesKeeps, ReceiveDirectoryKeeps, CommandFeedbackKeeps,
     ReceiveChecksumsKeeps, SendFileKeeps, ReceiveFileKeeps, ReceiveFileChunkKeeps,
     FinishFileReceptionKeeps DEF Reading
<1>2. CASE Serving
  BY <1>2, ServeOfferKeeps, ServePacketKeeps, ServeEndOfFileKeeps, ServeAbortKeeps,
     ServeRequestKeeps, ServeChecksumsKeeps, ServeHeaderKeeps, ServeDrivesKeeps,
     ServeDirectoryKeeps, ServeCommandKeeps, ServeRefusedKeeps, ServerLosesClientKeeps
  DEF Serving
<1>3. CASE Sending
  BY <1>3, TickKeeps, SendFileChunkKeeps, SendEndOfFileKeeps, UploadUnlocksKeeps DEF Sending
<1>4. CASE User
  BY <1>4, OpenDialogKeeps, UploadKeeps, DownloadKeeps, AbortKeeps, BrowseRemoteKeeps,
     RemoteCommandKeeps, DisconnectKeeps, ChangePermissionKeeps DEF User
<1>5. CASE UNCHANGED vars
  <2>1. /\ UNCHANGED ui /\ UNCHANGED sending /\ UNCHANGED server /\ UNCHANGED disk
        /\ UNCHANGED <<list, vRecv, toS, toV, link, inSync, lists>>
    BY <1>5 DEF vars, viewer
  <2>2. TypeOK'
    BY <2>1 DEF Inductive, TypeOK, ui, sending, server, disk
  <2>3. UploadGrows' /\ DownloadGrows' /\ FileIntact'
    BY <2>1, FilesSame DEF server, disk
  <2>4. inSync => Phase'
    BY <2>1, PhaseSame DEF Inductive, ui, sending, server, disk
  <2>5. QED
    BY <2>1, <2>2, <2>3, <2>4 DEF Inductive, sending
<1>6. QED
  BY <1>1, <1>2, <1>3, <1>4, <1>5, CompressFolderKeeps DEF Next

\* The inductive invariant: one transfer is under way at a time, in one of its phases, and
\* what the queue of a receiver holds is what its file still lacks.
THEOREM InductiveHolds ==
    ASSUME OneAtATime, NotGrantedAgain
    PROVE  Spec => []Inductive
<1>1. Inductive /\ [Next]_vars => Inductive'
  BY InductiveStep
<1>2. QED
  BY <1>1, InductiveInit, PTL DEF Spec

\* Every variable keeps its type; among others the count of the deletions that are not yet
\* answered (m_nDeleteCount) never falls below zero.
THEOREM FileTransferTypes ==
    ASSUME OneAtATime, NotGrantedAgain
    PROVE  Spec => []TypeOK
<1>1. Inductive => TypeOK
  BY DEF Inductive
<1>2. QED
  BY <1>1, InductiveHolds, PTL

\* A file appears under its own name only when it is complete, whatever blocks were spared
\* and whichever transfer before it broke off.
THEOREM FileIntactHolds ==
    ASSUME OneAtATime, NotGrantedAgain
    PROVE  Spec => []FileIntact
<1>1. Inductive => FileIntact
  BY DEF Inductive
<1>2. QED
  BY <1>1, InductiveHolds, PTL


-----------------------------------------------------------------------------
(* What was received of an interrupted transfer. *)

\* The end of a reception: the file is complete, or what there is of it stays.
LEMMA FinishSpares ==
    ASSUME Inductive, Inductive', NEW recv, recv.file \in Files, temp[recv.file] \in Stored,
           recv.pos \in Nat, NEW error \in BOOLEAN, NEW discard \in BOOLEAN,
           Finish(recv, error, discard), NEW f \in Files, temp[f] # NoFile, temp'[f] = NoFile
    PROVE  final'[f] = Content[f] \/ (error /\ discard)
<1>1. /\ temp \in [Files -> Stored \cup {NoFile}] /\ final \in [Files -> Stored \cup {NoFile}]
  BY ServerVars
<1>2. /\ \A g \in Files : g # recv.file => temp'[g] = temp[g]
      /\ ~error => final'[recv.file] = Sized(temp[recv.file], recv.pos)
      /\ temp'[recv.file] = NoFile => ~error \/ discard
  BY <1>1, FinishIs
<1>3. f = recv.file /\ (~error \/ discard)
  BY <1>2
<1>4. CASE error
  BY <1>3, <1>4
<1>5. CASE ~error
  <2>1. final'[f] = Sized(temp[f], recv.pos)
    BY <1>2, <1>3, <1>5
  <2>2. Sized(temp[f], recv.pos) # NoFile
    <3> DEFINE blocks == Sized(temp[f], recv.pos)
    <3>1. blocks \in Stored
      BY <1>3, SizedIs
    <3> HIDE DEF blocks
    <3>2. blocks # NoFile
      BY <3>1
    <3>3. QED
      BY <3>2 DEF blocks
  <2>3. final'[f] \in {NoFile, Content[f]}
    BY DEF Inductive, FileIntact
  <2>4. QED
    BY <2>1, <2>2, <2>3
<1>6. QED
  BY <1>4, <1>5

LEMMA StoresSpares ==
    ASSUME Inductive, NEW recv, recv.file \in Files, temp[recv.file] \in Stored,
           recv.pos \in Nat, recv.pos <= Len(temp[recv.file]),
           NEW packet \in Blocks \cup {Same}, Stores(recv, packet), NEW f \in Files,
           temp[f] # NoFile
    PROVE  temp'[f] # NoFile
<1>1. CASE packet = Same
  BY <1>1 DEF Stores
<1>2. CASE packet # Same
  <2> DEFINE u == Written(temp[recv.file], recv.pos, packet)
  <2>1. temp' = [temp EXCEPT ![recv.file] = u]
    BY <1>2 DEF Stores
  <2>2. u \in Stored
    <3> DEFINE t == temp[recv.file]
    <3>1. t \in Stored /\ packet \in Blocks /\ recv.pos <= Len(t)
      BY <1>2
    <3> HIDE DEF t
    <3>2. Written(t, recv.pos, packet) \in Stored
      BY <3>1, WrittenIs
    <3>3. QED
      BY <3>2 DEF t
  <2> HIDE DEF u
  <2>3. temp \in [Files -> Stored \cup {NoFile}] /\ u # NoFile
    BY <2>2, ServerVars
  <2>4. QED
    BY <2>1, <2>3
<1>3. QED
  BY <1>1, <1>2

LEMMA PartialSpared ==
    ASSUME Inductive, Inductive', Next, NEW f \in Files, temp[f] # NoFile, temp'[f] = NoFile
    PROVE  final'[f] = Content[f] \/ Is(toS, "abort") \/ abort
<1>1. ASSUME NEW recv, recv.file \in Files, temp[recv.file] \in Stored, recv.pos \in Nat,
             NEW error \in BOOLEAN, NEW discard \in BOOLEAN, Finish(recv, error, discard)
      PROVE  final'[f] = Content[f] \/ discard
  BY <1>1, FinishSpares
<1>2. ASSUME NEW g \in Files, temp' = Opened(g)
      PROVE  FALSE
  <2>1. NoFile \notin Stored
    OBVIOUS
  <2>2. Opened(g)[g] \in Stored /\ (g # f => Opened(g)[f] = temp[f])
    BY OpenedIs
  <2>3. QED
    BY <1>2, <2>1, <2>2
<1>3. ASSUME UNCHANGED temp PROVE FALSE
  BY <1>3
<1>4. ASSUME NEW recv, recv.file \in Files, temp[recv.file] \in Stored, recv.pos \in Nat,
             recv.pos <= Len(temp[recv.file]), NEW packet \in Blocks \cup {Same}, Stores(recv, packet)
      PROVE  FALSE
  BY <1>4, StoresSpares
<1>5. /\ sRecv.running => \/ sRecv.file = NoFile
                          \/ /\ sRecv.file \in Files /\ temp[sRecv.file] \in Stored
                             /\ sRecv.pos \in Nat
                             /\ enabled => sRecv.pos <= Len(temp[sRecv.file])
      /\ vRecv.running => /\ vRecv.file \in Files /\ temp[vRecv.file] \in Stored
                          /\ vRecv.pos \in Nat
                          /\ ~vRecv.error => vRecv.pos <= Len(temp[vRecv.file])
      /\ vRecv.error \in BOOLEAN /\ abort \in BOOLEAN
      /\ toS \in Seq(ToServer) /\ toV \in Seq(ToViewer)
  BY Receivers, ViewerTypes DEF Brings, Fed
<1>5a. /\ temp \in [Files -> Stored \cup {NoFile}] /\ final \in [Files -> Stored \cup {NoFile}]
       /\ NoFile \notin Files
  BY ServerVars, FileFacts
<1>5b. ASSUME sRecv.file = NoFile, NEW error, NEW discard, Finish(sRecv, error, discard)
       PROVE  FALSE
  BY <1>3, <1>5a, <1>5b, FinishNothing
<1>5c. ASSUME sRecv.file = NoFile, NEW packet, Stores(sRecv, packet)
       PROVE  FALSE
  BY <1>3, <1>5a, <1>5c, StoresNothing
<1>6. CASE ReceiveFile
  <2>1. UNCHANGED temp \/ temp' = Opened(Arg(toV).file)
    BY <1>6 DEF ReceiveFile
  <2>2. Arg(toV).file \in Files
    BY <1>5, <1>6, SeqHead, ToViewerIs DEF ReceiveFile, Reads, Is, Arg
  <2>3. QED
    BY <1>2, <1>3, <2>1, <2>2
<1>7. CASE ReceiveFileChunk
  <2>1. Arg(toV) \in Blocks \cup {Same}
    BY <1>5, <1>7, SeqHead, ToViewerIs DEF ReceiveFileChunk, Reads, Is, Arg
  <2>2. CASE ~vRecv.running
    BY <1>3, <1>7, <2>2 DEF ReceiveFileChunk, disk
  <2>3. CASE vRecv.running /\ vRecv.error
    <3>1. ASSUME NEW error \in BOOLEAN, error = TRUE PROVE final'[f] = Content[f] \/ abort
      <4>1. Finish(vRecv, error, abort)
        BY <1>7, <2>3, <3>1 DEF ReceiveFileChunk
      <4>2. QED
        BY <1>1, <1>5, <2>3, <4>1
    <3>2. QED
      BY <3>1
  <2>4. CASE vRecv.running /\ ~vRecv.error
    <3>1. UNCHANGED temp \/ Stores(vRecv, Arg(toV))
      BY <1>7, <2>4 DEF ReceiveFileChunk, StoreChunk
    <3>2. QED
      BY <1>3, <1>4, <1>5, <2>1, <2>4, <3>1
  <2>5. QED
    BY <2>2, <2>3, <2>4
<1>8. CASE FinishFileReception
  <2>1. CASE vRecv.running
    <3>1. Finish(vRecv, vRecv.error, abort)
      BY <1>8, <2>1 DEF FinishFileReception
    <3>2. QED
      BY <1>1, <1>5, <2>1, <3>1
  <2>2. CASE ~vRecv.running
    BY <1>3, <1>8, <2>2 DEF FinishFileReception, disk
  <2>3. QED
    BY <2>1, <2>2
<1>9. CASE ServeOffer
  <2>1. UNCHANGED temp \/ temp' = Opened(Arg(toS))
    BY <1>9 DEF ServeOffer
  <2>2. Arg(toS) \in Files
    BY <1>5, <1>9, SeqHead, ToServerIs DEF ServeOffer, Serves, Is, Arg
  <2>3. QED
    BY <1>2, <1>3, <2>1, <2>2
<1>10. CASE ServePacket
  <2>1. Arg(toS) \in Blocks \cup {Same}
    BY <1>5, <1>10, SeqHead, ToServerIs DEF ServePacket, Serves, Is, Arg
  <2>2. CASE ~sRecv.running
    BY <1>3, <1>10, <2>2 DEF ServePacket, disk
  <2>3. CASE sRecv.running
    <3>1. Finish(sRecv, TRUE, FALSE) \/ Stores(sRecv, Arg(toS))
      BY <1>10, <2>3 DEF ServePacket
    <3>2. ASSUME NEW error \in BOOLEAN, NEW discard \in BOOLEAN, error = TRUE, discard = FALSE,
                 Finish(sRecv, TRUE, FALSE)
          PROVE  final'[f] = Content[f]
      <4>1. Finish(sRecv, error, discard)
        BY <3>2
      <4>2. QED
        BY <1>1, <1>5, <1>5b, <2>3, <3>2, <4>1
    <3>3. enabled
      BY <1>10 DEF ServePacket
    <3>4. QED
      BY <1>4, <1>5, <1>5c, <2>1, <2>3, <3>1, <3>2, <3>3
  <2>4. QED
    BY <2>2, <2>3
<1>11. CASE ServeEndOfFile
  <2>1. CASE sRecv.running
    <3>1. ASSUME NEW error \in BOOLEAN, NEW discard \in BOOLEAN, error = FALSE, discard = FALSE
          PROVE  final'[f] = Content[f]
      <4>1. Finish(sRecv, error, discard)
        BY <1>11, <2>1, <3>1 DEF ServeEndOfFile
      <4>2. QED
        BY <1>1, <1>5, <1>5b, <2>1, <3>1, <4>1
    <3>2. QED
      BY <3>1
  <2>2. CASE ~sRecv.running
    BY <1>3, <1>11, <2>2 DEF ServeEndOfFile, disk
  <2>3. QED
    BY <2>1, <2>2
<1>12. CASE ServeAbort
  BY <1>12 DEF ServeAbort, Serves
<1>13. CASE ServerLosesClient
  <2>1. CASE UNCHANGED disk
    BY <1>3, <2>1 DEF disk
  <2>2. CASE sRecv.running /\ Finish(sRecv, TRUE, FALSE)
    <3>1. ASSUME NEW error \in BOOLEAN, NEW discard \in BOOLEAN, error = TRUE, discard = FALSE
          PROVE  final'[f] = Content[f]
      <4>1. Finish(sRecv, error, discard)
        BY <2>2, <3>1
      <4>2. QED
        BY <1>1, <1>5, <1>5b, <2>2, <3>1, <4>1
    <3>2. QED
      BY <3>1
  <2>3. QED
    BY <1>13, <2>1, <2>2 DEF ServerLosesClient
<1>14. CASE \/ TestPermission \/ ListRemoteDrives \/ ReceiveDirectory \/ CommandFeedback
            \/ ReceiveChecksums \/ SendFile
  BY <1>3, <1>14 DEF TestPermission, ListRemoteDrives, ReceiveDirectory, CommandFeedback,
                     ReceiveChecksums, SendFile, disk
<1>15. CASE \/ ServeRequest \/ ServeChecksums \/ ServeHeader \/ ServeDrives \/ ServeDirectory
            \/ ServeCommand \/ ServeRefused \/ CompressFolder
  BY <1>3, <1>15 DEF ServeRequest, ServeChecksums, ServeHeader, ServeDrives, ServeDirectory,
                     ServeCommand, ServeRefused, CompressFolder, disk
<1>16. CASE Sending
  BY <1>3, <1>16 DEF Sending, Tick, SendFileChunk, SendEndOfFile, UploadUnlocks, disk
<1>17. CASE User
  BY <1>3, <1>17 DEF User, OpenDialog, Upload, Download, Abort, BrowseRemote, RemoteCommand,
                     Disconnect, ChangePermission, disk
<1>18. QED
  BY <1>6, <1>7, <1>8, <1>9, <1>10, <1>11, <1>12, <1>13, <1>14, <1>15, <1>16, <1>17
     DEF Next, Reading, Serving

\* What was received of a file is lost only by the user's abort or because the file is complete.
THEOREM PartialKeptHolds ==
    ASSUME OneAtATime, NotGrantedAgain
    PROVE  Spec => PartialKept
<1> DEFINE Spares == \A f \in Files :
                        temp[f] # NoFile /\ temp'[f] = NoFile
                           => \/ final'[f] = Content[f]
                              \/ Is(toS, "abort") \/ abort
<1>1. ASSUME Inductive, Inductive', [Next]_vars
      PROVE  [Spares]_vars
  <2>1. CASE Next
    <3>1. Spares
      BY <1>1, <2>1, PartialSpared
    <3>2. QED
      BY <3>1
  <2>2. CASE UNCHANGED vars
    BY <2>2
  <2>3. QED
    BY <1>1, <2>1, <2>2
<1>2. QED
  BY <1>1, InductiveHolds, PTL DEF Spec, PartialKept


-----------------------------------------------------------------------------
(* Where no write fails, both sides stay in step. *)

WritesSucceed == "write" \notin Faults

\* A queue after a message was read, or one was sent that is no part of a file, or the rest
\* was lost.
Passed(q, r, T) == Other(q, r, T) \/ (q # <<>> /\ r = Tail(q))

LEMMA BusyPassed ==
    ASSUME NEW T, NEW q \in Seq(T), NEW r, NEW recv, NEW recv2, Busy(q, recv), Passed(q, r, T),
           recv.running /\ recv.file # NoFile => recv2.running /\ recv2.file # NoFile
    PROVE  Busy(r, recv2)
<1>1. Len(q) \in Nat
  BY LenProperties
<1>2. CASE r = q
  BY <1>2 DEF Busy
<1>3. CASE q # <<>> /\ r = Tail(q)
  <2>1. Len(r) = Len(q) - 1 /\ \A i \in 1 .. Len(q) - 1 : r[i] = q[i + 1]
    BY <1>3, HeadTailProperties
  <2>2. \A i \in 1 .. Len(r) : i + 1 \in 1 .. Len(q) /\ r[i] = q[i + 1]
    BY <1>1, <2>1
  <2>3. QED
    BY <2>2 DEF Busy
<1>4. ASSUME NEW m \in T, m.type \notin {"packet", "eof"}, r = Append(q, m)
      PROVE  Busy(r, recv2)
  <2>1. /\ Len(r) = Len(q) + 1 /\ r[Len(q) + 1] = m
        /\ \A i \in 1 .. Len(q) : r[i] = q[i]
    BY <1>4, AppendProperties
  <2>2. \A i \in 1 .. Len(r) : i \in 1 .. Len(q) \/ r[i] = m
    BY <1>1, <2>1
  <2>3. QED
    BY <1>4, <2>1, <2>2 DEF Busy
<1>5. ASSUME NEW k \in 0 .. Len(q), r = SubSeq(q, 1, k)
      PROVE  Busy(r, recv2)
  <2>1. /\ Len(r) = k
        /\ \A i \in 1 .. k : i \in 1 .. Len(q) /\ r[i] = q[i]
    BY <1>1, <1>5, SubSeqProperties, ElementOfSeq
  <2>2. QED
    BY <2>1 DEF Busy
<1>6. QED
  BY <1>2, <1>3, <1>4, <1>5 DEF Passed, Other

LEMMA BusyNone ==
    ASSUME NEW q, NEW recv, \A i \in 1 .. Len(q) : q[i].type \notin {"packet", "eof"}
    PROVE  Busy(q, recv)
BY DEF Busy

LEMMA BusyEmpty == \A recv : Busy(<<>>, recv)
<1>1. Len(<<>>) = 0
  BY EmptySeq
<1>2. QED
  BY <1>1 DEF Busy

LEMMA BusyHead ==
    ASSUME NEW T, NEW q \in Seq(T), NEW recv, Busy(q, recv), q # <<>>,
           Head(q).type \in {"packet", "eof"}
    PROVE  recv.running /\ recv.file # NoFile
<1>1. 1 \in 1 .. Len(q) /\ Head(q) = q[1]
  BY HeadTailProperties, LenProperties, EmptySeq
<1>2. QED
  BY <1>1 DEF Busy

\* A step that begins and ends no reception: what the viewer's and what the server's side
\* have of it, and both.
LEMMA ViewerKept ==
    ASSUME Inductive, ViewerInStep, inSync' => inSync, Passed(toV, toV', ToViewer),
           UNCHANGED vRecv
    PROVE  ViewerInStep'
<1>1. ASSUME inSync' PROVE Busy(toV', vRecv') /\ (vRecv'.running => ~vRecv'.error)
  <2>1. Busy(toV, vRecv) /\ toV \in Seq(ToViewer) /\ (vRecv.running => ~vRecv.error)
    BY <1>1, ServerVars DEF ViewerInStep
  <2>2. Busy(toV', vRecv')
    BY <2>1, BusyPassed
  <2>3. QED
    BY <2>1, <2>2
<1>2. QED
  BY <1>1 DEF ViewerInStep

LEMMA ServerKept ==
    ASSUME Inductive, ServerInStep, enabled' => enabled, inSync => inSync',
           Passed(toS, toS', ToServer), UNCHANGED sRecv, vSend'.running => vSend.running
    PROVE  ServerInStep'
<1>1. ASSUME enabled'
      PROVE  /\ inSync' /\ Busy(toS', sRecv')
             /\ vSend'.running => sRecv'.running /\ sRecv'.file # NoFile
  <2>1. /\ inSync /\ Busy(toS, sRecv) /\ toS \in Seq(ToServer)
        /\ vSend.running => sRecv.running /\ sRecv.file # NoFile
    BY <1>1, ServerVars DEF ServerInStep
  <2>2. Busy(toS', sRecv')
    BY <2>1, BusyPassed
  <2>3. QED
    BY <2>1, <2>2
<1>2. QED
  BY <1>1 DEF ServerInStep

LEMMA InStepKept ==
    ASSUME Inductive, InStep, UNCHANGED inSync, UNCHANGED enabled,
           Passed(toS, toS', ToServer), Passed(toV, toV', ToViewer),
           UNCHANGED sRecv, UNCHANGED vRecv, vSend'.running => vSend.running
    PROVE  InStep'
BY ViewerKept, ServerKept DEF InStep

\* A file that is received exists.
LEMMA ViewerReceives ==
    ASSUME Inductive, vRecv.running
    PROVE  vRecv.file # NoFile
BY Receivers, FileFacts

\* What the server answers with one message.
LEMMA AnsweredInStep ==
    ASSUME Inductive, InStep, toS # <<>>, toS' = Tail(toS) \/ toS' = toS, NEW m \in ToViewer,
           m.type \notin {"packet", "eof"}, Answers(<<m>>), UNCHANGED viewer,
           UNCHANGED inSync, UNCHANGED enabled, UNCHANGED sRecv
    PROVE  InStep'
<1>1. Other(toV, toV', ToViewer)
  BY AnswersIs
<1>2. Passed(toS, toS', ToServer) /\ Passed(toV, toV', ToViewer)
  BY <1>1 DEF Passed, Other
<1>3. QED
  BY <1>2, ViewerVars, InStepKept

LEMMA ReadingInStep ==
    ASSUME Inductive, InStep,
           TestPermission \/ ListRemoteDrives \/ ReceiveDirectory \/ CommandFeedback
              \/ ReceiveChecksums
    PROVE  InStep'
<1> DEFINE drives == Msg("drives", NoFile)
           dir == Msg("dir", NoFile)
<1>1. /\ drives \in ToServer /\ drives.type = "drives"
      /\ dir \in ToServer /\ dir.type = "dir"
  BY ToServerHas, MsgIs
<1>2. /\ toV # <<>> /\ toV' = Tail(toV) /\ UNCHANGED inSync
      /\ UNCHANGED server /\ UNCHANGED vRecv
      /\ toS' \in {toS, Append(toS, drives), Append(toS, dir)}
  BY DEF TestPermission, ListRemoteDrives, ReceiveDirectory, CommandFeedback, ReceiveChecksums,
         Reads, Is
<1>3. vSend'.running = vSend.running
  <2>1. CASE ReceiveChecksums
    <3>1. vSend \in Uploaders /\ vSend' = [vSend EXCEPT !.sums = Arg(toV)]
      BY <2>1, ViewerTypes DEF ReceiveChecksums
    <3>2. QED
      BY <3>1 DEF Uploaders
  <2>2. CASE TestPermission \/ ListRemoteDrives \/ ReceiveDirectory \/ CommandFeedback
    BY <2>2 DEF TestPermission, ListRemoteDrives, ReceiveDirectory, CommandFeedback, sending
  <2>3. QED
    BY <2>1, <2>2
<1> HIDE DEF drives, dir
<1>4. Passed(toS, toS', ToServer) /\ Passed(toV, toV', ToViewer)
  BY <1>1, <1>2 DEF Passed, Other
<1>5. UNCHANGED sRecv /\ UNCHANGED enabled
  BY <1>2 DEF server
<1>6. QED
  BY <1>2, <1>3, <1>4, <1>5, InStepKept

\* What the next file, or the end of a list, sends.
LEMMA OffersPassed ==
    ASSUME Inductive, NEW files \in Seq(Sent(Uploads)),
           NEW thread \in {"dialog", "reader", "timer"}, OfferFrom(files, toS, thread)
    PROVE  Passed(toS, toS', ToServer) /\ (vSend'.running => vSend.running)
<1>1. /\ vSend'.running = (vSend.running /\ thread # "timer")
      /\ Offers(toS, thread) \/ Stops(toS, thread)
  BY OfferFromIs
<1>2. Other(toS, toS', ToServer)
  BY <1>1, ToServerHas, MsgIs, FileFacts DEF Offers, Stops, Other
<1>3. QED
  BY <1>1, <1>2 DEF Passed

LEMMA SendFileInStep ==
    ASSUME Inductive, InStep, SendFile
    PROVE  InStep'
<1>1. /\ inSync /\ link = "up" /\ toV # <<>> /\ Head(toV).type = "accept" /\ toV' = Tail(toV)
      /\ \/ /\ Head(toV).arg
            /\ vSend' = [vSend EXCEPT !.running = TRUE, !.eof = FALSE, !.pos = 0]
            /\ UNCHANGED toS
         \/ OfferFrom(After(list, 1), toS, "reader")
      /\ UNCHANGED vRecv /\ UNCHANGED server /\ UNCHANGED inSync
  BY DEF SendFile, Reads, Is, Arg
<1>2. Accepting /\ toV \in Seq(ToViewer)
  BY <1>1, HeadTold, ServerVars
<1>3. Passed(toV, toV', ToViewer) /\ UNCHANGED sRecv /\ UNCHANGED enabled
  BY <1>1 DEF Passed, server
<1>4. CASE OfferFrom(After(list, 1), toS, "reader")
  <2>1. list \in Seq(Sent(Uploads))
    BY <1>2 DEF Accepting, InUpload
  <2>2. After(list, 1) \in Seq(Sent(Uploads))
    BY <2>1, AfterIs
  <2>3. Passed(toS, toS', ToServer) /\ (vSend'.running => vSend.running)
    BY <1>4, <2>2, OffersPassed
  <2>4. QED
    BY <1>1, <1>3, <2>3, InStepKept
<1>5. CASE Head(toV).arg /\ UNCHANGED toS
  <2>1. toV # <<Msg("accept", FALSE)>>
    <3>1. ASSUME NEW b \in BOOLEAN, toV = <<Msg("accept", b)>> PROVE b
      BY <1>5, <3>1, MsgIs
    <3>2. QED
      BY <3>1
  <2>2. sRecv.running /\ sRecv.file # NoFile
    BY <1>2, <2>1, FileFacts DEF Accepting, InUpload
  <2>3. ViewerInStep'
    BY <1>1, <1>3, ViewerKept DEF InStep
  <2>4. Busy(toS', sRecv')
    BY <1>2, <1>5, BusyEmpty DEF Accepting
  <2>5. ServerInStep'
    BY <1>1, <1>3, <2>2, <2>4 DEF ServerInStep
  <2>6. QED
    BY <2>3, <2>5 DEF InStep
<1>6. QED
  BY <1>1, <1>4, <1>5

\* The next request, or the end of a list of downloads.
LEMMA RequestPassed ==
    ASSUME Inductive, InDownload, NEW queue \in Seq(ToServer), NEW recv, Busy(queue, recv),
           RequestNextFile(queue)
    PROVE  Busy(toS', recv)
<1>1. list \in Seq(Sent(Downloads))
  BY DEF InDownload
<1>2. CASE toS' = queue
  BY <1>2
<1>3. CASE Len(list) > 1 /\ toS' = Append(queue, Msg("request", list[2]))
  <2> DEFINE m == Msg("request", list[2])
  <2>1. Len(list) \in Nat /\ 2 \in 1 .. Len(list)
    BY <1>1, <1>3, LenProperties
  <2>2. list[2] \in Sent(Downloads)
    BY <1>1, <2>1, ElementOfSeq
  <2>3. list[2] \in Files
    BY <2>2, FileFacts
  <2>4. m \in ToServer /\ m.type = "request"
    BY <2>3, ToServerHas, MsgIs
  <2> HIDE DEF m
  <2>5. Passed(queue, toS', ToServer)
    BY <1>3, <2>4 DEF Passed, Other, m
  <2>6. QED
    BY <2>5, BusyPassed
<1>4. QED
  BY <1>2, <1>3 DEF RequestNextFile


LEMMA ReceiveFileInStep ==
    ASSUME Inductive, InStep, ReceiveFile
    PROVE  InStep'
<1>1. /\ inSync /\ link = "up" /\ toV # <<>> /\ Head(toV).type = "header" /\ toV' = Tail(toV)
      /\ UNCHANGED sending /\ UNCHANGED server /\ UNCHANGED inSync
  BY DEF ReceiveFile, Reads, Is
<1>2. Announcing /\ toV' = <<>>
  BY <1>1, HeadTold
<1>3. toS = <<>> /\ InDownload /\ ~vRecv.running /\ ~vSend.running
  BY <1>2 DEF Announcing, InDownload
<1>4. UNCHANGED sRecv /\ UNCHANGED vSend
  BY <1>1 DEF sending, server
<1>5. Busy(toV', vRecv')
  BY <1>2, BusyEmpty
<1> DEFINE old == temp[Arg(toV).file]
           sums == Msg("sums", old)
           h == Msg("header", TRUE)
<1>6. \/ /\ toS' = toS \o (IF old = NoFile THEN <<>> ELSE <<sums>>) \o <<h>>
         /\ vRecv' = [running |-> TRUE, error |-> FALSE, file |-> Arg(toV).file, pos |-> 0]
      \/ /\ vRecv' = [vRecv EXCEPT !.error = TRUE]
         /\ RequestNextFile(toS) \/ RequestNextFile(Append(toS, Refused))
  BY DEF ReceiveFile, Refused
<1>7. CASE /\ toS' = toS \o (IF old = NoFile THEN <<>> ELSE <<sums>>) \o <<h>>
           /\ vRecv' = [running |-> TRUE, error |-> FALSE, file |-> Arg(toV).file, pos |-> 0]
  <2>1. sums.type = "sums" /\ h.type = "header"
    BY MsgIs
  <2> HIDE DEF old, sums, h
  <2>2. toS' = <<h>> \/ toS' = <<sums, h>>
    <3>1. <<>> \o <<>> = <<>>
      BY EmptySeq, ConcatEmptySeq
    <3>2. <<>> \o <<sums>> = <<sums>> /\ <<sums>> \o <<h>> = <<sums, h>> /\ <<>> \o <<h>> = <<h>>
      BY Singles
    <3>3. QED
      BY <1>3, <1>7, <3>1, <3>2
  <2>3. \A i \in 1 .. Len(toS') : toS'[i].type \notin {"packet", "eof"}
    BY <2>1, <2>2
  <2>4. Busy(toS', sRecv')
    BY <2>3, BusyNone
  <2>5. QED
    BY <1>1, <1>3, <1>4, <1>5, <1>7, <2>4 DEF InStep, ViewerInStep, ServerInStep
<1>8. ASSUME NEW queue \in {toS, Append(toS, Refused)}, RequestNextFile(queue),
             vRecv' = [vRecv EXCEPT !.error = TRUE]
      PROVE  InStep'
  <2>1. Refused \in ToServer /\ Refused.type = "header"
    BY ToServerHas, RefusedIs
  <2>2. toS \in Seq(ToServer) /\ queue \in Seq(ToServer) /\ Passed(toS, queue, ToServer)
    <3>1. toS \in Seq(ToServer)
      BY ServerVars
    <3>2. Append(toS, Refused) \in Seq(ToServer)
      BY <2>1, <3>1, AppendProperties
    <3>3. Passed(toS, queue, ToServer)
      BY <1>8, <2>1 DEF Passed, Other
    <3>4. QED
      BY <1>8, <3>1, <3>2, <3>3
  <2>3. Busy(queue, sRecv)
    BY <1>3, <2>2, BusyEmpty, BusyPassed
  <2>4. Busy(toS', sRecv)
    BY <1>3, <1>8, <2>2, <2>3, RequestPassed
  <2>5. ~vRecv'.running
    BY <1>3, <1>8, ViewerTypes DEF Downloaders
  <2>6. QED
    BY <1>1, <1>3, <1>4, <1>5, <2>4, <2>5 DEF InStep, ViewerInStep, ServerInStep
<1>9. QED
  BY <1>6, <1>7, <1>8

LEMMA ReceiveFileChunkInStep ==
    ASSUME Inductive, InStep, ReceiveFileChunk, WritesSucceed
    PROVE  InStep'
<1> DEFINE m == Msg("abort", NoFile)
<1>1. /\ inSync /\ toV # <<>> /\ Head(toV).type = "packet" /\ toV' = Tail(toV)
      /\ UNCHANGED sending /\ UNCHANGED server
  BY DEF ReceiveFileChunk, Reads, Is
<1>2. toS \in Seq(ToServer) /\ toV \in Seq(ToViewer)
  BY ServerVars
<1>3. vRecv.running /\ vRecv.file # NoFile /\ ~vRecv.error
  BY <1>1, <1>2, BusyHead DEF InStep, ViewerInStep
<1>4. StoreChunk(FALSE)
  BY <1>3 DEF ReceiveFileChunk, WritesSucceed, Fails
<1>5. /\ vRecv' = [vRecv EXCEPT !.pos = @ + 1, !.error = @ \/ FALSE]
      /\ toS' \in {toS, Append(toS, m)} /\ UNCHANGED inSync
  BY <1>4 DEF StoreChunk
<1>6. vRecv'.running /\ vRecv'.file # NoFile /\ ~vRecv'.error
  BY <1>3, <1>5, ViewerTypes DEF Downloaders
<1>7. m \in ToServer /\ m.type = "abort"
  BY ToServerHas, MsgIs
<1> HIDE DEF m
<1>8. Passed(toS, toS', ToServer) /\ Passed(toV, toV', ToViewer)
  BY <1>1, <1>5, <1>7 DEF Passed, Other
<1>9. UNCHANGED sRecv /\ UNCHANGED vSend /\ UNCHANGED enabled
  BY <1>1 DEF sending, server
<1>10. ServerInStep'
  BY <1>5, <1>8, <1>9, ServerKept DEF InStep
<1>11. Busy(toV', vRecv')
  BY <1>6 DEF Busy
<1>12. QED
  BY <1>6, <1>10, <1>11 DEF InStep, ViewerInStep

LEMMA FinishFileReceptionInStep ==
    ASSUME Inductive, InStep, FinishFileReception
    PROVE  InStep'
<1>1. /\ inSync /\ link = "up" /\ toV # <<>> /\ Head(toV).type = "eof" /\ toV' = Tail(toV)
      /\ UNCHANGED sending /\ UNCHANGED server /\ UNCHANGED inSync
  BY DEF FinishFileReception, Reads, Is
<1>2. toS \in Seq(ToServer) /\ toV \in Seq(ToViewer)
  BY ServerVars
<1>3. vRecv.running /\ ~vRecv.error
  BY <1>1, <1>2, BusyHead DEF InStep, ViewerInStep
<1>4. vRecv' = [vRecv EXCEPT !.running = FALSE] /\ RequestNextFile(toS)
  BY <1>3 DEF FinishFileReception
<1>5. Receiving
  BY <1>1, <1>3, HeadTold DEF Resting, Requesting, Zipping, Announcing, Unanswered
<1>6. InDownload /\ ~vSend.running
  BY <1>5 DEF Receiving, InDownload
<1>7. UNCHANGED sRecv /\ UNCHANGED vSend /\ UNCHANGED enabled
  BY <1>1 DEF sending, server
<1>8. enabled => Busy(toS', sRecv')
  <2>1. ASSUME enabled PROVE Busy(toS', sRecv)
    BY <1>2, <1>4, <1>6, <2>1, RequestPassed DEF InStep, ServerInStep
  <2>2. QED
    BY <1>7, <2>1
<1>9. Busy(toV', vRecv')
  <2>1. \A i \in 1 .. Len(Tail(toV)) : Tail(toV)[i].type \notin {"packet", "eof"}
    BY <1>1, <1>2, <1>3, Receivers, BringsOther
  <2>2. QED
    BY <1>1, <2>1, BusyNone
<1>10. ~vRecv'.running
  BY <1>4, ViewerTypes DEF Downloaders
<1>11. QED
  BY <1>1, <1>6, <1>7, <1>8, <1>9, <1>10 DEF InStep, ViewerInStep, ServerInStep

LEMMA SendingInStep ==
    ASSUME Inductive, InStep, Sending
    PROVE  InStep'
<1>1. /\ UNCHANGED server /\ UNCHANGED vRecv /\ UNCHANGED toV /\ UNCHANGED inSync
      /\ tick = "sending" \/ (UNCHANGED vSend /\ UNCHANGED toS)
  BY DEF Sending, Tick, SendFileChunk, SendEndOfFile, UploadUnlocks
<1>2. UNCHANGED sRecv /\ UNCHANGED enabled
  BY <1>1 DEF server
<1>3. ViewerInStep'
  BY <1>1, ViewerKept DEF InStep, Passed, Other
<1>4. ServerInStep'
  <2>1. ASSUME tick = "sending", enabled PROVE inSync /\ sRecv.running /\ sRecv.file # NoFile
    BY <2>1 DEF Inductive, InStep, ServerInStep
  <2>2. CASE tick = "sending"
    <3>1. ASSUME enabled PROVE Busy(toS', sRecv')
      BY <1>2, <2>1, <2>2, <3>1 DEF Busy
    <3>2. QED
      BY <1>1, <1>2, <2>1, <2>2, <3>1 DEF ServerInStep
  <2>3. CASE UNCHANGED vSend /\ UNCHANGED toS
    BY <1>1, <1>2, <2>3, ServerKept DEF InStep, Passed, Other
  <2>4. QED
    BY <1>1, <2>2, <2>3
<1>5. QED
  BY <1>3, <1>4 DEF InStep

LEMMA ServeOfferInStep ==
    ASSUME Inductive, InStep, ServeOffer
    PROVE  InStep'
<1> DEFINE sums == Msg("sums", temp[Arg(toS)])
           yes == Msg("accept", TRUE)
           no == Msg("accept", FALSE)
<1>1. /\ inSync /\ toS # <<>> /\ Head(toS).type = "offer" /\ toS' = Tail(toS)
      /\ UNCHANGED viewer /\ UNCHANGED inSync
      /\ \/ Answers(<<no>>)
         \/ Answers((IF temp[Arg(toS)] = NoFile THEN <<>> ELSE <<sums>>) \o <<yes>>)
  BY DEF ServeOffer, AcceptOffer, Serves, Is
<1>2. no.type = "accept" /\ sums.type = "sums" /\ yes.type = "accept"
  BY MsgIs
<1> HIDE DEF sums, yes, no
<1>3. toV = <<>> /\ ~vSend.running /\ ~vRecv.running /\ toS' = <<>>
  <2>1. (Offering \/ Cut) /\ Tail(toS) = <<>>
    BY <1>1, HeadAsked
  <2>2. QED
    BY <1>1, <2>1 DEF Offering, InUpload, Cut
<1>4. toV' \in {<<>>, <<no>>, <<yes>>, <<sums, yes>>}
  <2>1. /\ <<>> \o <<yes>> = <<yes>> /\ <<sums>> \o <<yes>> = <<sums, yes>>
        /\ <<>> \o <<no>> = <<no>>
        /\ <<>> \o <<sums, yes>> = <<sums, yes>>
    <3>1. <<sums, yes>> \in Seq({sums, yes})
      OBVIOUS
    <3>2. <<>> \o <<sums, yes>> = <<sums, yes>>
      BY <3>1, ConcatEmptySeq
    <3>3. QED
      BY <3>2, Singles
  <2>2. QED
    BY <1>1, <1>3, <2>1 DEF Answers
<1>5. \A i \in 1 .. Len(toV') : toV'[i].type \notin {"packet", "eof"}
  <2>1. Len(<<>>) = 0
    BY EmptySeq
  <2>2. QED
    BY <1>2, <1>4, <2>1
<1>6. Busy(toV', vRecv') /\ Busy(toS', sRecv')
  BY <1>3, <1>5, BusyNone, BusyEmpty
<1>7. QED
  BY <1>1, <1>3, <1>6, ViewerVars DEF InStep, ViewerInStep, ServerInStep

LEMMA ServePacketInStep ==
    ASSUME Inductive, InStep, ServePacket, WritesSucceed
    PROVE  InStep'
<1>1. /\ inSync /\ enabled /\ toS # <<>> /\ Head(toS).type = "packet" /\ toS' = Tail(toS)
      /\ UNCHANGED viewer /\ UNCHANGED toV
  BY DEF ServePacket, Serves, Is
<1>2. toS \in Seq(ToServer) /\ sRecv \in Targets
  BY ServerVars
<1>3. sRecv.running /\ sRecv.file # NoFile
  BY <1>1, <1>2, BusyHead DEF InStep, ServerInStep
<1>4. sRecv' = [sRecv EXCEPT !.pos = @ + 1] /\ UNCHANGED inSync
  BY <1>3 DEF ServePacket, WritesSucceed, Fails
<1>5. sRecv'.running /\ sRecv'.file # NoFile
  BY <1>2, <1>3, <1>4 DEF Targets
<1>6. Busy(toS', sRecv')
  BY <1>5 DEF Busy
<1>7. ServerInStep'
  BY <1>1, <1>4, <1>5, <1>6 DEF ServerInStep
<1>8. ViewerInStep'
  BY <1>1, <1>4, ViewerVars, ViewerKept DEF InStep, Passed, Other
<1>9. QED
  BY <1>7, <1>8 DEF InStep

\* The server's reception ends, and nothing of the file is left.
LEMMA StopsInStep ==
    ASSUME Inductive, InStep, inSync, toS # <<>>, Head(toS).type \in {"eof", "abort"},
           toS' = Tail(toS), sRecv' = [sRecv EXCEPT !.running = FALSE], UNCHANGED viewer,
           UNCHANGED inSync, UNCHANGED enabled, Other(toV, toV', ToViewer)
    PROVE  InStep'
<1>1. toS \in Seq(ToServer) /\ toV \in Seq(ToViewer) /\ sRecv \in Targets
  BY ServerVars
<1>2. ~vSend.running
  <2>1. Resting \/ Offering \/ Receiving \/ Cut
    BY HeadAsked
  <2>2. QED
    BY <2>1 DEF Resting, Offering, Receiving, InDownload, Cut
<1>3. ASSUME enabled PROVE Busy(toS', sRecv')
  <2>1. CASE sRecv.running /\ sRecv.file # NoFile
    <3>1. /\ sRecv.file \in Files /\ sRecv.pos \in Nat
          /\ Brings(sRecv.file, sRecv.pos, temp[sRecv.file], toS)
      BY <1>3, <2>1, Receivers DEF Fed
    <3>2. \A i \in 1 .. Len(Tail(toS)) : Tail(toS)[i].type \notin {"packet", "eof"}
      BY <1>1, <3>1, BringsOther
    <3>3. QED
      BY <3>2, BusyNone
  <2>2. CASE ~(sRecv.running /\ sRecv.file # NoFile)
    BY <1>1, <1>3, <2>2, BusyPassed DEF InStep, ServerInStep, Passed
  <2>3. QED
    BY <2>1, <2>2
<1>4. ServerInStep'
  BY <1>2, <1>3, ViewerVars DEF ServerInStep
<1>5. ViewerInStep'
  BY ViewerVars, ViewerKept DEF InStep, Passed
<1>6. QED
  BY <1>4, <1>5 DEF InStep

LEMMA ServeStopsInStep ==
    ASSUME Inductive, InStep, ServeEndOfFile \/ ServeAbort
    PROVE  InStep'
<1>1. CASE ServeEndOfFile
  <2>1. /\ inSync /\ UNCHANGED enabled /\ toS # <<>> /\ Head(toS).type = "eof" /\ toS' = Tail(toS)
        /\ sRecv' = [sRecv EXCEPT !.running = FALSE]
        /\ UNCHANGED viewer /\ UNCHANGED inSync /\ UNCHANGED toV
    BY <1>1 DEF ServeEndOfFile, Serves, Is
  <2>2. QED
    BY <2>1, StopsInStep DEF Other
<1>2. CASE ServeAbort
  <2> DEFINE m == Msg("access", enabled)
  <2>1. /\ inSync /\ UNCHANGED enabled /\ toS # <<>> /\ Head(toS).type = "abort" /\ toS' = Tail(toS)
        /\ sRecv' = [sRecv EXCEPT !.running = FALSE]
        /\ UNCHANGED viewer /\ UNCHANGED inSync
        /\ UNCHANGED toV \/ Answers(<<m>>)
    BY <1>2 DEF ServeAbort, Serves, Is
  <2>2. m \in ToViewer /\ m.type = "access"
    BY ServerVars, ToViewerHas, MsgIs
  <2> HIDE DEF m
  <2>3. Other(toV, toV', ToViewer)
    <3>1. CASE UNCHANGED toV
      BY <3>1 DEF Other
    <3>2. CASE Answers(<<m>>)
      BY <2>2, <3>2, AnswersIs
    <3>3. QED
      BY <2>1, <3>1, <3>2
  <2>4. QED
    BY <2>1, <2>3, StopsInStep
<1>3. QED
  BY <1>1, <1>2


LEMMA ServingInStep ==
    ASSUME Inductive, InStep,
           ServeRequest \/ ServeChecksums \/ ServeDrives \/ ServeDirectory \/ ServeCommand
    PROVE  InStep'
<1>1. /\ inSync /\ toS # <<>> /\ toS' = Tail(toS) /\ UNCHANGED viewer
  BY DEF ServeRequest, ServeChecksums, ServeDrives, ServeDirectory, ServeCommand, Serves, Is
<1>2. UNCHANGED sRecv /\ UNCHANGED enabled
  BY DEF ServeRequest, ServeChecksums, ServeDrives, ServeDirectory, ServeCommand, server
<1>3. UNCHANGED inSync
  <2>1. CASE ServeRequest
    <3>1. Head(toS).type = "request"
      BY <2>1 DEF ServeRequest, Serves, Is
    <3>2. zip = NoFile
      BY <1>1, <3>1, RequestedIs
    <3>3. QED
      BY <2>1, <3>2 DEF ServeRequest
  <2>2. CASE ServeChecksums \/ ServeDrives \/ ServeDirectory \/ ServeCommand
    BY <2>2 DEF ServeChecksums, ServeDrives, ServeDirectory, ServeCommand
  <2>3. QED
    BY <2>1, <2>2
<1>4. Other(toV, toV', ToViewer)
  <2>1. CASE ServeRequest \/ ServeChecksums
    BY <2>1 DEF ServeRequest, ServeChecksums, Other
  <2>2. CASE ServeDrives
    <3> DEFINE m == Msg("drives", NoFile)
    <3>1. Answers(<<m>>) /\ m \in ToViewer /\ m.type = "drives"
      BY <2>2, ToViewerHas, MsgIs DEF ServeDrives
    <3> HIDE DEF m
    <3>2. QED
      BY <3>1, AnswersIs
  <2>3. CASE ServeDirectory
    <3>1. PICK unreadable \in Fails("media") : Answers(<<Msg("directory", ~unreadable)>>)
      BY <2>3 DEF ServeDirectory
    <3> DEFINE m == Msg("directory", ~unreadable)
    <3>2. (~unreadable) \in BOOLEAN
      <4>1. unreadable \in BOOLEAN
        BY DEF Fails
      <4>2. (unreadable = TRUE \/ unreadable = FALSE) => (~unreadable) \in BOOLEAN
        BY Zenon
      <4>3. QED
        BY <4>1, <4>2
    <3>3. Answers(<<m>>) /\ m \in ToViewer /\ m.type = "directory"
      BY <3>1, <3>2, ToViewerHas, MsgIs
    <3> HIDE DEF m
    <3>4. QED
      BY <3>3, AnswersIs
  <2>4. CASE ServeCommand
    <3>1. PICK ok \in BOOLEAN : Answers(<<Msg("return", [what |-> Arg(toS), ok |-> ok])>>)
      BY <2>4 DEF ServeCommand
    <3> DEFINE m == Msg("return", [what |-> Arg(toS), ok |-> ok])
    <3>2. toS \in Seq(ToServer) /\ Head(toS).type = "command"
      BY <2>4, ServerVars DEF ServeCommand, Serves, Is
    <3>3. Arg(toS) \in {"create", "delete"}
      BY <1>1, <3>2, SeqHead, ToServerIs DEF Arg
    <3>4. Answers(<<m>>) /\ m \in ToViewer /\ m.type = "return"
      BY <3>1, <3>3, ToViewerHas, MsgIs
    <3> HIDE DEF m
    <3>5. QED
      BY <3>4, AnswersIs
  <2>5. QED
    BY <2>1, <2>2, <2>3, <2>4
<1>5. Passed(toS, toS', ToServer) /\ Passed(toV, toV', ToViewer)
  BY <1>1, <1>4 DEF Passed
<1>6. QED
  BY <1>1, <1>2, <1>3, <1>5, ViewerVars, InStepKept

LEMMA CompressFolderInStep ==
    ASSUME Inductive, InStep, CompressFolder
    PROVE  InStep'
<1>1. /\ inSync /\ zip # NoFile
      /\ UNCHANGED <<viewer, enabled, sRecv, toS, link, lists, inSync, disk>>
  BY DEF CompressFolder
<1>2. PICK ok : Answers(<<Msg("header", [file |-> zip, ok |-> ok])>>) /\ ok \in BOOLEAN
  <2>1. PICK unopened \in Fails("open") :
           Answers(<<Msg("header", [file |-> zip, ok |-> ~unopened])>>)
    BY DEF CompressFolder
  <2>2. (unopened = TRUE \/ unopened = FALSE) => (~unopened) \in BOOLEAN
    BY Zenon
  <2>3. unopened = TRUE \/ unopened = FALSE
    BY DEF Fails
  <2>4. QED
    BY <2>1, <2>2, <2>3
<1> DEFINE m == Msg("header", [file |-> zip, ok |-> ok])
<1>3. zip \in Files
  BY <1>1, ServerVars
<1>4. m \in ToViewer /\ m.type = "header" /\ Answers(<<m>>)
  BY <1>2, <1>3, ToViewerHas, MsgIs
<1> HIDE DEF m
<1>5. Other(toV, toV', ToViewer)
  BY <1>4, AnswersIs
<1>6. Passed(toS, toS', ToServer) /\ Passed(toV, toV', ToViewer)
  BY <1>1, <1>5 DEF Passed, Other
<1>7. QED
  BY <1>1, <1>6, ViewerVars, InStepKept

LEMMA ServeHeaderInStep ==
    ASSUME Inductive, InStep, ServeHeader
    PROVE  InStep'
<1>1. /\ inSync /\ toS # <<>> /\ Head(toS).type = "header" /\ toS' = Tail(toS)
      /\ UNCHANGED <<viewer, enabled, sRecv, zip, link, lists, inSync, disk>>
      /\ link = "up" \/ UNCHANGED toV
      /\ Head(toS).arg \/ UNCHANGED toV
  BY DEF ServeHeader, Serves, Is, Answers, Arg
<1>2. Passed(toS, toS', ToServer)
  BY <1>1 DEF Passed
<1>3. CASE UNCHANGED toV
  <2>1. Passed(toV, toV', ToViewer)
    BY <1>3 DEF Passed, Other
  <2>2. QED
    BY <1>1, <1>2, <2>1, ViewerVars, InStepKept
<1>4. CASE Head(toS).arg /\ link = "up"
  <2>1. Opening
    BY <1>1, <1>4, HeadAsked, RefusedIs DEF Cut
  <2>2. vRecv.running /\ vRecv.file # NoFile /\ ~vRecv.error /\ ~vSend.running
    BY <2>1, ViewerReceives DEF Opening, InDownload
  <2>3. Busy(toV', vRecv')
    BY <1>1, <2>2, ViewerVars DEF Busy
  <2>4. ServerInStep'
    BY <1>1, <1>2, ViewerVars, ServerKept DEF InStep
  <2>5. QED
    BY <1>1, <2>2, <2>3, <2>4, ViewerVars DEF InStep, ViewerInStep
<1>5. QED
  BY <1>1, <1>3, <1>4

LEMMA ServerLosesClientInStep ==
    ASSUME Inductive, InStep, ServerLosesClient
    PROVE  InStep'
<1>1. /\ link = "down" /\ toS = <<>> /\ sRecv' = NoTarget
      /\ UNCHANGED <<viewer, enabled, zip, toS, toV, inSync, lists>>
  BY DEF ServerLosesClient
<1>2. ViewerInStep'
  BY <1>1, ViewerVars, ViewerKept DEF InStep, Passed, Other
<1>3. ServerInStep'
  <2>1. inSync => ~vSend.running
    BY <1>1 DEF Inductive, Phase, Cut
  <2>2. Busy(toS', sRecv')
    BY <1>1, BusyEmpty
  <2>3. QED
    BY <1>1, <2>1, <2>2, ViewerVars DEF InStep, ServerInStep
<1>4. QED
  BY <1>2, <1>3 DEF InStep

\* What is refused loses the step only where the server may not receive.
LEMMA ServeRefusedInStep ==
    ASSUME Inductive, InStep, ServeRefused
    PROVE  InStep'
<1>1. /\ ~enabled /\ UNCHANGED enabled /\ UNCHANGED viewer /\ UNCHANGED toV /\ inSync
  BY DEF ServeRefused, Serves
<1>2. ViewerInStep'
  BY <1>1, ViewerVars, ViewerKept DEF InStep, Passed, Other
<1>3. ServerInStep'
  BY <1>1 DEF ServerInStep
<1>4. QED
  BY <1>2, <1>3 DEF InStep

LEMMA ChangePermissionInStep ==
    ASSUME Inductive, NotGrantedAgain, InStep, ChangePermission
    PROVE  InStep'
<1>1. /\ enabled /\ enabled' = ~enabled /\ UNCHANGED viewer /\ UNCHANGED toV /\ inSync
      /\ UNCHANGED inSync
  BY DEF ChangePermission, NotGrantedAgain
<1>2. ViewerInStep'
  BY <1>1, ViewerVars, ViewerKept DEF InStep, Passed, Other
<1>3. ~enabled'
  BY <1>1
<1>4. ServerInStep'
  BY <1>3 DEF ServerInStep
<1>5. QED
  BY <1>2, <1>4 DEF InStep

LEMMA UserInStep ==
    ASSUME Inductive, OneAtATime, NotGrantedAgain, InStep, User
    PROVE  InStep'
<1>1. CASE OpenDialog \/ BrowseRemote \/ Download \/ Abort
  <2>1. /\ UNCHANGED sending /\ UNCHANGED server /\ UNCHANGED vRecv /\ UNCHANGED toV
        /\ UNCHANGED inSync
    BY <1>1 DEF OpenDialog, BrowseRemote, Download, Abort
  <2>2. Other(toS, toS', ToServer)
    <3>1. CASE OpenDialog
      <4>1. toS' = Append(toS, Msg("abort", NoFile))
        BY <3>1 DEF OpenDialog
      <4>2. QED
        BY <4>1, ToServerHas, MsgIs DEF Other
    <3>2. CASE BrowseRemote
      <4>1. toS' = Append(toS, Msg("dir", NoFile))
        BY <3>2 DEF BrowseRemote
      <4>2. QED
        BY <4>1, ToServerHas, MsgIs DEF Other
    <3>3. CASE Download
      <4>1. PICK files \in Downloads : toS' = Append(toS, Msg("request", Head(files)))
        BY <3>3 DEF Download
      <4>2. files \in Seq(Sent(Downloads)) /\ files # <<>>
        BY FileFacts
      <4>3. Head(files) \in Files
        BY <4>2, SeqHead, FileFacts
      <4>4. QED
        BY <4>1, <4>3, ToServerHas, MsgIs DEF Other
    <3>4. CASE Abort
      BY <3>4 DEF Abort, Other
    <3>5. QED
      BY <1>1, <3>1, <3>2, <3>3, <3>4
  <2>3. Passed(toS, toS', ToServer) /\ Passed(toV, toV', ToViewer)
    BY <2>1, <2>2 DEF Passed, Other
  <2>4. UNCHANGED sRecv /\ UNCHANGED vSend /\ UNCHANGED enabled
    BY <2>1 DEF sending, server
  <2>5. QED
    BY <2>1, <2>3, <2>4, InStepKept
<1>2. CASE Upload
  <2>1. /\ Free /\ UNCHANGED server /\ UNCHANGED vRecv /\ UNCHANGED toV /\ UNCHANGED inSync
    BY <1>2 DEF Upload
  <2>2. PICK files \in Uploads : OfferFrom(files, toS, "dialog")
    BY <1>2 DEF Upload
  <2>3. Passed(toS, toS', ToServer) /\ (vSend'.running => vSend.running)
    BY <2>2, FileFacts, OffersPassed
  <2>4. Passed(toV, toV', ToViewer) /\ UNCHANGED sRecv /\ UNCHANGED enabled
    BY <2>1 DEF Passed, Other, server
  <2>5. QED
    BY <2>1, <2>3, <2>4, InStepKept
<1>3. CASE RemoteCommand
  <2>1. /\ Free /\ UNCHANGED sending /\ UNCHANGED server /\ UNCHANGED vRecv /\ UNCHANGED toV
        /\ UNCHANGED inSync
    BY <1>3 DEF RemoteCommand
  <2>2. /\ toS = <<>> /\ toV = <<>> /\ ~vSend.running /\ ~vRecv.running
    BY <2>1, FreeIs
  <2>3. \A i \in 1 .. Len(toS') : toS'[i].type \notin {"packet", "eof"}
    <3> DEFINE m == Msg("command", "create")
    <3>1. m \in ToServer /\ m.type = "command" /\ Deletion \in ToServer
          /\ Deletion.type = "command"
      BY ToServerHas, MsgIs DEF Deletion
    <3>2. \/ toS' = Append(toS, m)
          \/ \E n \in 1 .. MaxDeletes : toS' = toS \o [i \in 1 .. n |-> Deletion]
      BY <1>3 DEF RemoteCommand, Deletion
    <3> HIDE DEF m
    <3>3. CASE toS' = Append(toS, m)
      <4>1. toS' = <<m>>
        BY <2>2, <3>3, Singles
      <4>2. QED
        BY <3>1, <4>1
    <3>4. ASSUME NEW n \in 1 .. MaxDeletes, toS' = toS \o [i \in 1 .. n |-> Deletion]
          PROVE  \A i \in 1 .. Len(toS') : toS'[i].type \notin {"packet", "eof"}
      <4> DEFINE q == [i \in 1 .. n |-> Deletion]
      <4>1. q \in Seq({Deletion})
        BY KnownOrdered
      <4> HIDE DEF q
      <4>2. toS' = q
        <5>1. toS' = <<>> \o q
          BY <2>2, <3>4 DEF q
        <5>2. QED
          BY <4>1, <5>1, ConcatEmptySeq
      <4>3. \A i \in 1 .. Len(q) : q[i] \in {Deletion}
        BY <4>1, ElementOfSeq
      <4>4. QED
        BY <3>1, <4>2, <4>3
    <3>5. QED
      BY <3>2, <3>3, <3>4
  <2>4. Busy(toS', sRecv')
    BY <2>3, BusyNone
  <2>5. UNCHANGED vSend /\ inSync
    BY <2>1, FreeIs DEF sending
  <2>6. Busy(toV', vRecv')
    BY <2>1, <2>2, BusyEmpty
  <2>7. QED
    BY <2>1, <2>2, <2>4, <2>5, <2>6 DEF InStep, ViewerInStep, ServerInStep
<1>4. CASE Disconnect
  <2>1. /\ inSync /\ toV' = <<>> /\ vSend' = NotSending /\ vRecv' = NotReceiving
        /\ UNCHANGED server
        /\ UNCHANGED inSync /\ \E k \in 0 .. Len(toS) : toS' = SubSeq(toS, 1, k)
    BY <1>4 DEF Disconnect, NewViewer
  <2>2. ~vSend'.running /\ ~vRecv'.running /\ UNCHANGED sRecv /\ UNCHANGED enabled
    BY <2>1 DEF NotSending, NotReceiving, server
  <2>3. Passed(toS, toS', ToServer)
    BY <2>1 DEF Passed, Other
  <2>4. ServerInStep'
    BY <2>1, <2>2, <2>3, ServerKept DEF InStep
  <2>5. Busy(toV', vRecv')
    BY <2>1, BusyEmpty
  <2>6. QED
    BY <2>2, <2>4, <2>5 DEF InStep, ViewerInStep
<1>5. QED
  BY <1>1, <1>2, <1>3, <1>4, ChangePermissionInStep DEF User

LEMMA InStepStep ==
    ASSUME OneAtATime, WritesSucceed, NotGrantedAgain, Inductive, InStep, [Next]_vars
    PROVE  InStep'
<1>1. CASE Reading
  BY <1>1, ReadingInStep, SendFileInStep, ReceiveFileInStep, ReceiveFileChunkInStep,
     FinishFileReceptionInStep DEF Reading
<1>2. CASE Serving
  BY <1>2, ServingInStep, ServeOfferInStep, ServePacketInStep, ServeStopsInStep,
     ServeHeaderInStep, ServerLosesClientInStep, ServeRefusedInStep DEF Serving
<1>3. CASE UNCHANGED vars
  <2>1. /\ UNCHANGED sending /\ UNCHANGED server /\ UNCHANGED <<vRecv, toS, toV, inSync>>
    BY <1>3 DEF vars, viewer
  <2>2. UNCHANGED sRecv /\ UNCHANGED vSend /\ UNCHANGED enabled
    BY <2>1 DEF sending, server
  <2>3. QED
    BY <2>1, <2>2, InStepKept DEF Passed, Other
<1>4. QED
  BY <1>1, <1>2, <1>3, CompressFolderInStep, SendingInStep, UserInStep DEF Next

\* Where no write fails and the permission, once withdrawn, is not granted again: whoever is
\* told of a block or of the end of a file is receiving it, the server as long as it may.
LEMMA InStepHolds ==
    ASSUME OneAtATime, WritesSucceed, NotGrantedAgain
    PROVE  Spec => []InStep
<1>1. Init => InStep
  <2> SUFFICES ASSUME Init PROVE InStep
    OBVIOUS
  <2>1. inSync /\ toS = <<>> /\ toV = <<>> /\ vSend = NotSending /\ vRecv = NotReceiving
    BY DEF Init
  <2>2. QED
    BY <2>1, BusyEmpty DEF InStep, ViewerInStep, ServerInStep, NotSending, NotReceiving
<1>2. Inductive /\ InStep /\ [Next]_vars => InStep'
  BY InStepStep
<1>3. QED
  BY <1>1, <1>2, InductiveHolds, PTL DEF Spec


-----------------------------------------------------------------------------
(* Who is told of the end of a file. *)

LEMMA NotShorter ==
    ASSUME NEW T, NEW q \in Seq(T), q # <<>>
    PROVE  q # Tail(q) /\ \A m \in T : Append(q, m) # Tail(q)
<1> DEFINE t == Tail(q)  n == Len(q)  k == Len(t)
<1>1. n \in Nat /\ k = n - 1
  BY HeadTailProperties, LenProperties
<1>2. k # n /\ k # n + 1
  <2> HIDE DEF n, k
  <2>1. QED
    BY <1>1
<1>3. q # t
  <2>1. q = t => n = k
    <3> HIDE DEF t
    <3>1. QED
      BY Zenon DEF n, k
  <2>2. QED
    BY <2>1, <1>2, Zenon
<1>4. ASSUME NEW m \in T PROVE Append(q, m) # t
  <2> DEFINE a == Append(q, m)
  <2>1. Len(a) = n + 1
    BY AppendProperties
  <2>2. a = t => Len(a) = k
    <3> HIDE DEF t, a
    <3>1. QED
      BY Zenon DEF k
  <2>3. a # t
    <3> HIDE DEF t, a, n, k
    <3>1. QED
      BY <2>1, <2>2, <1>2, Zenon
  <2>4. QED
    BY <2>3 DEF a
<1>5. QED
  BY <1>3, <1>4 DEF t

\* The server reads it.
LEMMA ServedWhole ==
    ASSUME OneAtATime, Inductive, InStep, Next, Is(toS, "eof"), toS' = Tail(toS), link' = link,
           enabled
    PROVE  final'[Arg(toS)] = Content[Arg(toS)]
<1>1. /\ inSync /\ toS # <<>> /\ Head(toS).type = "eof" /\ toS \in Seq(ToServer)
  BY ServerVars DEF Is, InStep, ServerInStep
<1>2. toS' # toS /\ \A m \in ToServer : toS' # Append(toS, m)
  BY <1>1, NotShorter
<1>3. Resting \/ Offering \/ Cut
  BY <1>1, HeadAsked
<1>4. CASE ServeEndOfFile
  <2>1. sRecv.running /\ sRecv.file # NoFile
    BY <1>1, BusyHead DEF InStep, ServerInStep
  <2>2. Finish(sRecv, FALSE, FALSE)
    BY <1>4, <2>1 DEF ServeEndOfFile
  <2>3. /\ sRecv.file \in Files /\ temp[sRecv.file] \in Stored /\ sRecv.pos \in Nat
        /\ Brings(sRecv.file, sRecv.pos, temp[sRecv.file], toS)
    BY <2>1, Receivers DEF Fed
  <2>4. Arg(toS) = sRecv.file /\ Sized(temp[sRecv.file], sRecv.pos) = Content[sRecv.file]
    BY <1>1, <2>3, BringsEnd
  <2>5. ASSUME NEW error \in BOOLEAN, NEW discard \in BOOLEAN, error = FALSE, discard = FALSE
        PROVE  final'[sRecv.file] = Sized(temp[sRecv.file], sRecv.pos)
    <3>1. Finish(sRecv, error, discard)
      BY <2>2, <2>5
    <3>2. QED
      BY <2>3, <2>5, <3>1, ServerVars, FinishIs
  <2>6. QED
    BY <2>4, <2>5
<1>5. CASE Serving /\ ~ServeEndOfFile
  BY <1>1, <1>5 DEF Serving, ServeOffer, ServePacket, ServeAbort, ServeRequest, ServeChecksums,
                    ServeHeader, ServeDrives, ServeDirectory, ServeCommand, ServeRefused,
                    ServerLosesClient, Serves, Is
<1>6. CASE Reading
  <2>1. CASE TestPermission \/ ListRemoteDrives \/ ReceiveDirectory \/ CommandFeedback
    <3> DEFINE drives == Msg("drives", NoFile)
               dir == Msg("dir", NoFile)
    <3>1. drives \in ToServer /\ dir \in ToServer
      BY ToServerHas
    <3>2. toS' \in {toS, Append(toS, drives), Append(toS, dir)}
      BY <2>1 DEF TestPermission, ListRemoteDrives, ReceiveDirectory, CommandFeedback
    <3> HIDE DEF drives, dir
    <3>3. QED
      BY <1>2, <3>1, <3>2
  <2>2. CASE ReceiveChecksums
    BY <1>2, <2>2 DEF ReceiveChecksums
  <2>3. CASE SendFile
    <3>1. link = "up" /\ toV # <<>> /\ Head(toV).type = "accept"
      BY <2>3 DEF SendFile, Reads, Is
    <3>2. Accepting
      BY <1>1, <3>1, HeadTold
    <3>3. QED
      BY <1>1, <3>2 DEF Accepting
  <2>4. CASE ReceiveFile
    <3>1. link = "up" /\ toV # <<>> /\ Head(toV).type = "header"
      BY <2>4 DEF ReceiveFile, Reads, Is
    <3>2. Announcing
      BY <1>1, <3>1, HeadTold
    <3>3. QED
      BY <1>1, <3>2 DEF Announcing
  <2>5. CASE ReceiveFileChunk \/ FinishFileReception
    <3>1. link = "up" /\ toV # <<>> /\ Head(toV).type \in {"packet", "eof"}
      BY <2>5 DEF ReceiveFileChunk, FinishFileReception, Reads, Is
    <3>2. vRecv.running
      BY <1>1, <3>1, ServerVars, BusyHead DEF InStep, ViewerInStep
    <3>3. QED
      BY <1>3, <3>1, <3>2 DEF Resting, Offering, InUpload, Cut
  <2>6. QED
    BY <1>6, <2>1, <2>2, <2>3, <2>4, <2>5 DEF Reading
<1>7. CASE CompressFolder
  BY <1>2, <1>7 DEF CompressFolder
<1>8. CASE Sending
  <2>1. ~vSend.running
    BY <1>3 DEF Resting, Offering, Cut
  <2>2. tick # "sending"
    BY <2>1 DEF Inductive
  <2>3. UNCHANGED toS
    BY <1>8, <2>2 DEF Sending, Tick, SendFileChunk, SendEndOfFile, UploadUnlocks
  <2>4. QED
    BY <1>2, <2>3
<1>9. CASE User
  <2>1. ~Free
    BY <1>1, FreeIs
  <2>2. Abort \/ Disconnect \/ ChangePermission
    BY <1>9, <2>1 DEF User, OpenDialog, Upload, Download, BrowseRemote, RemoteCommand
  <2>3. QED
    BY <1>2, <2>2 DEF Abort, Disconnect, ChangePermission
<1>10. QED
  BY <1>4, <1>5, <1>6, <1>7, <1>8, <1>9 DEF Next

\* The viewer reads it.
LEMMA ReadWhole ==
    ASSUME OneAtATime, Inductive, InStep, Next, Is(toV, "eof"), toV' = Tail(toV), link' = link
    PROVE  final'[Arg(toV)] = Content[Arg(toV)]
<1>1. /\ toV # <<>> /\ Head(toV).type = "eof" /\ toV \in Seq(ToViewer)
  BY ServerVars DEF Is
<1>2. toV' # toV /\ \A m \in ToViewer : toV' # Append(toV, m)
  BY <1>1, NotShorter
<1>3. ASSUME NEW m \in ToViewer, Answers(<<m>>) PROVE FALSE
  <2>1. toV' = Append(toV, m) \/ toV' = toV
    BY <1>3, AnswersIs
  <2>2. QED
    BY <1>2, <2>1
<1>4. CASE FinishFileReception
  <2>1. vRecv.running /\ ~vRecv.error /\ vRecv.error \in BOOLEAN
    <3>1. inSync
      BY <1>4 DEF FinishFileReception, Reads
    <3>2. QED
      BY <1>1, <3>1, BusyHead, Receivers DEF InStep, ViewerInStep
  <2>2. Finish(vRecv, vRecv.error, abort) /\ abort \in BOOLEAN
    BY <1>4, <2>1, ViewerTypes DEF FinishFileReception
  <2>3. /\ vRecv.file \in Files /\ temp[vRecv.file] \in Stored /\ vRecv.pos \in Nat
        /\ Brings(vRecv.file, vRecv.pos, temp[vRecv.file], toV)
    BY <2>1, Receivers
  <2>4. Arg(toV) = vRecv.file /\ Sized(temp[vRecv.file], vRecv.pos) = Content[vRecv.file]
    BY <1>1, <2>3, BringsEnd
  <2>5. final'[vRecv.file] = Sized(temp[vRecv.file], vRecv.pos)
    BY <2>1, <2>2, <2>3, ServerVars, FinishIs
  <2>6. QED
    BY <2>4, <2>5
<1>5. CASE Reading /\ ~FinishFileReception
  BY <1>1, <1>5 DEF Reading, TestPermission, ListRemoteDrives, ReceiveDirectory,
                    CommandFeedback, ReceiveChecksums, SendFile, ReceiveFile, ReceiveFileChunk,
                    Reads, Is
<1>6. CASE ServeOffer
  <2>1. inSync /\ toS # <<>> /\ Head(toS).type = "offer"
    BY <1>6 DEF ServeOffer, Serves, Is
  <2>2. Offering \/ Cut
    BY <1>1, <2>1, HeadAsked
  <2>3. QED
    BY <1>1, <2>2 DEF Offering, Cut
<1>7. CASE ServeHeader
  <2>1. inSync /\ toS # <<>> /\ Head(toS).type = "header" /\ (Head(toS).arg \/ UNCHANGED toV)
    BY <1>7 DEF ServeHeader, Serves, Is, Arg
  <2>2. CASE Head(toS).arg
    <3>1. Opening \/ Cut
      BY <1>1, <2>1, <2>2, HeadAsked, RefusedIs
    <3>2. QED
      BY <1>1, <3>1 DEF Opening, Cut
  <2>3. QED
    BY <1>2, <2>1, <2>2
<1>8. CASE \/ ServePacket \/ ServeEndOfFile \/ ServeRequest \/ ServeChecksums
           \/ ServeRefused \/ ServerLosesClient
  BY <1>2, <1>8 DEF ServePacket, ServeEndOfFile, ServeRequest, ServeChecksums, ServeRefused,
                    ServerLosesClient
<1>9. CASE ServeAbort
  <2> DEFINE m == Msg("access", enabled)
  <2>1. m \in ToViewer
    BY ServerVars, ToViewerHas
  <2>2. UNCHANGED toV \/ Answers(<<m>>)
    BY <1>9 DEF ServeAbort
  <2> HIDE DEF m
  <2>3. QED
    BY <1>2, <1>3, <2>1, <2>2
<1>10. CASE ServeDrives
  <2>1. Answers(<<Msg("drives", NoFile)>>)
    BY <1>10 DEF ServeDrives
  <2>2. QED
    BY <1>3, <2>1, ToViewerHas
<1>11. CASE ServeDirectory
  <2>1. PICK unreadable \in Fails("media") : Answers(<<Msg("directory", ~unreadable)>>)
    BY <1>11 DEF ServeDirectory
  <2>2. (~unreadable) \in BOOLEAN
    <3>1. unreadable \in BOOLEAN
      BY DEF Fails
    <3>2. (unreadable = TRUE \/ unreadable = FALSE) => (~unreadable) \in BOOLEAN
      BY Zenon
    <3>3. QED
      BY <3>1, <3>2
  <2>3. QED
    BY <1>3, <2>1, <2>2, ToViewerHas
<1>12. CASE ServeCommand
  <2>1. PICK ok \in BOOLEAN : Answers(<<Msg("return", [what |-> Arg(toS), ok |-> ok])>>)
    BY <1>12 DEF ServeCommand
  <2>2. toS # <<>> /\ Head(toS).type = "command" /\ toS \in Seq(ToServer)
    BY <1>12, ServerVars DEF ServeCommand, Serves, Is
  <2>3. Arg(toS) \in {"create", "delete"}
    BY <2>2, SeqHead, ToServerIs DEF Arg
  <2>4. QED
    BY <1>3, <2>1, <2>3, ToViewerHas
<1>13. CASE CompressFolder
  <2>1. PICK unopened \in Fails("open") :
           Answers(<<Msg("header", [file |-> zip, ok |-> ~unopened])>>)
    BY <1>13 DEF CompressFolder
  <2>2. (~unopened) \in BOOLEAN
    <3>1. unopened \in BOOLEAN
      BY DEF Fails
    <3>2. (unopened = TRUE \/ unopened = FALSE) => (~unopened) \in BOOLEAN
      BY Zenon
    <3>3. QED
      BY <3>1, <3>2
  <2>3. zip \in Files
    BY <1>13, ServerVars DEF CompressFolder
  <2>4. QED
    BY <1>3, <2>1, <2>2, <2>3, ToViewerHas
<1>14. CASE Sending
  BY <1>2, <1>14 DEF Sending, Tick, SendFileChunk, SendEndOfFile, UploadUnlocks
<1>15. CASE User
  BY <1>2, <1>15 DEF User, OpenDialog, Upload, Download, Abort, BrowseRemote, RemoteCommand,
                     Disconnect, ChangePermission
<1>16. QED
  BY <1>4, <1>5, <1>6, <1>7, <1>8, <1>9, <1>10, <1>11, <1>12, <1>13, <1>14, <1>15
     DEF Next, Serving

\* A receiver that is told of the end of a file has it all.
THEOREM EndOfFileCompletesHolds ==
    ASSUME OneAtATime, WritesSucceed, NotGrantedAgain
    PROVE  Spec => EndOfFileCompletes
<1> DEFINE Completes ==
              \A queue \in {"toS", "toV"} :
                 LET q == IF queue = "toS" THEN toS ELSE toV
                     r == IF queue = "toS" THEN toS' ELSE toV'
                 IN  Is(q, "eof") /\ r = Tail(q) /\ link' = link /\ (queue = "toS" => enabled)
                        => final'[Arg(q)] = Content[Arg(q)]
<1>1. ASSUME Inductive, InStep, [Next]_vars
      PROVE  [Completes]_vars
  <2>1. CASE Next
    <3>1. Is(toS, "eof") /\ toS' = Tail(toS) /\ link' = link /\ enabled
             => final'[Arg(toS)] = Content[Arg(toS)]
      BY <1>1, <2>1, ServedWhole
    <3>2. Is(toV, "eof") /\ toV' = Tail(toV) /\ link' = link
             => final'[Arg(toV)] = Content[Arg(toV)]
      BY <1>1, <2>1, ReadWhole
    <3>3. Completes
      BY <3>1, <3>2
    <3>4. QED
      BY <3>3
  <2>2. CASE UNCHANGED vars
    BY <2>2
  <2>3. QED
    BY <1>1, <2>1, <2>2
<1>2. QED
  BY <1>1, InductiveHolds, InStepHolds, PTL DEF Spec, EndOfFileCompletes
=============================================================================
