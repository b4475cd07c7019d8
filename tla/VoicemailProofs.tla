-------------------------- MODULE VoicemailProofs ---------------------------
(***************************************************************************)
(* Proofs about Voicemail, for any number of calls, any frames, any length *)
(* of a message and any segment size: first what the formats compute, then *)
(* the invariant of the recorder, the mailbox and the phone.               *)
(***************************************************************************)
EXTENDS Voicemail, InductionLemmas, SequenceTheorems

(* Formats. *)

Byte == [n : Nat, of : Frame \cup {None}]

\* pos[i] is where the first i frames end in the stored bytes.
Positions(frames, data, pos) ==
  /\ pos \in [0 .. Len(frames) -> Nat] /\ pos[0] = 0 /\ pos[Len(frames)] = Len(data)
  /\ \A i \in 1 .. Len(frames) :
       /\ pos[i] = pos[i - 1] + 1 + frames[i].len /\ pos[i] =< Len(data)
       /\ data[pos[i - 1] + 1] = Length(frames[i])
       /\ \A k \in 1 .. frames[i].len : data[pos[i - 1] + 1 + k] = Payload(frames[i])

\* Concatenation, element by element.
LEMMA Joined ==
  ASSUME NEW S, NEW d, d \in Seq(S), NEW p, p \in Seq(S)
  PROVE  /\ d \o p \in Seq(S) /\ Len(d) \in Nat /\ Len(p) \in Nat
         /\ Len(d \o p) = Len(d) + Len(p)
         /\ \A i \in 1 .. Len(d) : (d \o p)[i] = d[i]
         /\ \A i \in 1 .. Len(p) : (d \o p)[Len(d) + i] = p[i]
BY ConcatProperties

\* A frame takes its length and its payload.
LEMMA PacketShape ==
  ASSUME NEW f \in Frame
  PROVE  /\ f.len \in Nat \ {0}
         /\ Packet(f) \in Seq(Byte) /\ Len(Packet(f)) = 1 + f.len
         /\ Packet(f)[1] = Length(f)
         /\ \A k \in 1 .. f.len : Packet(f)[1 + k] = Payload(f)
<1>1. f.len \in Nat \ {0}
  BY VoicemailAssumption
<1>2. Length(f) \in Byte /\ Payload(f) \in Byte
  BY <1>1 DEF Length, Payload, Byte
<1> DEFINE p == [k \in 1 .. f.len |-> Payload(f)]
<1>3. p \in Seq(Byte) /\ Len(p) = f.len
  BY <1>1, <1>2
<1>4. <<Length(f)>> \in Seq(Byte) /\ Len(<<Length(f)>>) = 1 /\ <<Length(f)>>[1] = Length(f)
  BY <1>2
<1>5. \A k \in 1 .. f.len : p[k] = Payload(f)
  OBVIOUS
<1>6. Packet(f) = <<Length(f)>> \o p
  BY DEF Packet
<1> HIDE DEF p
<1> QED BY <1>1, <1>3, <1>4, <1>5, <1>6

\* SerializeFrames is a chain of prefixes, each a packet longer than the one before.
LEMMA SerializeChain ==
  ASSUME NEW frames \in Seq(Frame), frames # <<>>
  PROVE  \E fl : /\ fl[1] = Packet(frames[1])
                 /\ \A i \in 1 .. Len(frames) - 1 : fl[i + 1] = fl[i] \o Packet(frames[i + 1])
                 /\ SerializeFrames(frames) = fl[Len(frames)]
<1> DEFINE m == Len(frames)
           chunks == [i \in DOMAIN frames |-> Packet(frames[i])]
           Link(fl, i) == IF i = 1 THEN chunks[i] ELSE fl[i - 1] \o chunks[i]
           Chain(fl) == fl = [i \in 1 .. Len(chunks) |-> Link(fl, i)]
<1>1. m \in Nat \ {0} /\ DOMAIN frames = 1 .. m /\ \A i \in 1 .. m : frames[i] \in Frame
  BY EmptySeq
<1>2. chunks \in Seq(Seq(Byte)) /\ Len(chunks) = m /\ \A i \in 1 .. m : chunks[i] = Packet(frames[i])
  BY <1>1, PacketShape
<1>3. \E fl : Chain(fl)
  <2> DEFINE I == 1 .. m
             V == Seq(Byte)
             rank == [i \in I |-> i]
             stop == {1}
             F == [i \in I |-> [s \in V |-> s \o chunks[i]]]
             next == [i \in I |-> i - 1]
  <2>1. rank \in [I -> 0 .. m] /\ \A i \in I : chunks[i] \in V
    BY <1>1, <1>2, PacketShape
  <2>2. F \in [I -> [V -> V]]
    <3>1. \A i \in I : \A s \in V : s \o chunks[i] \in V
      BY <2>1, ConcatProperties
    <3> HIDE DEF chunks, V
    <3> QED BY <3>1
  <2>3. Descends(I, stop, next, rank)
    BY <1>1 DEF Descends
  <2>4. PICK fl \in [I -> V] : Recurses(fl, I, stop, chunks, F, next)
    <3> HIDE DEF I, V, rank, stop, F, next, chunks
    <3> QED BY <1>1, <2>1, <2>2, <2>3, RankedRecursion, Zenon
  <2>5. ASSUME NEW i \in I, i # 1 PROVE fl[i] = fl[i - 1] \o chunks[i]
    <3>1. i - 1 \in I
      BY <1>1, <2>5
    <3>a. fl[i - 1] \in V
      <4> HIDE DEF V, I
      <4> QED BY <2>4, <3>1
    <3>2. fl[i] = F[i][fl[i - 1]]
      BY <2>4, <2>5, <3>1 DEF Recurses
    <3> HIDE DEF chunks, V
    <3> QED BY <3>1, <3>2, <3>a
  <2>6. fl[1] = chunks[1]
    <3>1. 1 \in I /\ 1 \in stop
      BY <1>1
    <3> HIDE DEF I, stop, chunks, F, next, V
    <3> QED BY <2>4, <3>1 DEF Recurses
  <2> HIDE DEF chunks
  <2> QED BY <1>2, <2>4, <2>5, <2>6
<1>4. SerializeFrames(frames) = (CHOOSE fl : Chain(fl))[m]
  BY <1>1, <1>2 DEF SerializeFrames, FlattenSeq
<1>5. Chain(CHOOSE fl : Chain(fl))
  <2> HIDE DEF Chain
  <2> QED BY <1>3
<1>6. PICK fl : Chain(fl) /\ SerializeFrames(frames) = fl[m]
  <2> HIDE DEF Chain
  <2> QED BY <1>4, <1>5
<1>7. /\ fl[1] = Packet(frames[1])
      /\ \A i \in 1 .. m - 1 : fl[i + 1] = fl[i] \o Packet(frames[i + 1])
  <2>1. fl[1] = chunks[1] /\ \A i \in 1 .. m - 1 : fl[i + 1] = fl[i] \o chunks[i + 1]
    <3>1. \A i \in 1 .. m : fl[i] = Link(fl, i)
      <4> HIDE DEF Link, chunks
      <4> QED BY <1>2, <1>6, Zenon
    <3>2. 1 \in 1 .. m /\ \A i \in 1 .. m - 1 : i + 1 \in 1 .. m /\ i + 1 # 1 /\ i + 1 - 1 = i
      BY <1>1
    <3>3. fl[1] = chunks[1]
      BY <3>1, <3>2, Zenon
    <3>4. ASSUME NEW i \in 1 .. m - 1 PROVE fl[i + 1] = fl[i] \o chunks[i + 1]
      <4> DEFINE x == i + 1
      <4>1. x \in 1 .. m /\ x # 1 /\ x - 1 = i
        BY <1>1
      <4> HIDE DEF x
      <4>2. fl[x] = fl[x - 1] \o chunks[x]
        <5> HIDE DEF chunks, m
        <5> QED BY <3>1, <4>1, Zenon
      <4> HIDE DEF Link, chunks, m
      <4>3. fl[x] = fl[i] \o chunks[x]
        BY <4>1, <4>2
      <4> QED BY <4>3 DEF x
    <3> HIDE DEF chunks
    <3> QED BY <3>3, <3>4
  <2>2. 1 \in 1 .. m /\ \A i \in 1 .. m - 1 : i + 1 \in 1 .. m
    BY <1>1
  <2> HIDE DEF chunks, m
  <2> QED BY <1>2, <2>1, <2>2
<1> QED BY <1>6, <1>7

\* Where each frame is in the stored bytes.
LEMMA SerializePositions ==
  ASSUME NEW frames \in Seq(Frame), frames # <<>>
  PROVE  /\ SerializeFrames(frames) \in Seq(Byte)
         /\ \E pos : Positions(frames, SerializeFrames(frames), pos)
<1> DEFINE m == Len(frames)
<1>1. PICK fl : /\ fl[1] = Packet(frames[1])
                /\ \A i \in 1 .. m - 1 : fl[i + 1] = fl[i] \o Packet(frames[i + 1])
                /\ SerializeFrames(frames) = fl[m]
  BY SerializeChain
<1>2. m \in Nat \ {0} /\ \A i \in 1 .. m : frames[i] \in Frame
  BY EmptySeq
<1> DEFINE pos == [i \in 0 .. m |-> IF i = 0 THEN 0 ELSE Len(fl[i])]
           PieceAt(i, a, d) == /\ a \in Nat /\ pos[i] = a + 1 + frames[i].len /\ pos[i] =< Len(d)
                               /\ d[a + 1] = Length(frames[i])
                               /\ \A k \in 1 .. frames[i].len : d[a + 1 + k] = Payload(frames[i])
           Piece(i, d) == PieceAt(i, pos[i - 1], d)
           Done(j) == fl[j] \in Seq(Byte) /\ \A i \in 1 .. j : Piece(i, fl[j])
           T == {k \in Nat : k + 1 =< m => Done(k + 1)}
<1>3. pos[0] = 0 /\ \A i \in 1 .. m : pos[i] = Len(fl[i])
  BY <1>2
<1> HIDE DEF pos
<1>4. Done(1)
  <2>1. frames[1] \in Frame /\ 1 \in 1 .. m
    BY <1>2
  <2>2. /\ fl[1] \in Seq(Byte) /\ Len(fl[1]) = 1 + frames[1].len /\ frames[1].len \in Nat
        /\ fl[1][1] = Length(frames[1])
        /\ \A k \in 1 .. frames[1].len : fl[1][1 + k] = Payload(frames[1])
    BY <1>1, <2>1, PacketShape
  <2>3. pos[0] = 0 /\ pos[1] = 1 + frames[1].len
    BY <1>3, <2>1, <2>2
  <2>4. Piece(1, fl[1])
    BY <2>2, <2>3
  <2> HIDE DEF Piece
  <2> QED BY <2>2, <2>4
<1>5. ASSUME NEW j \in Nat, 1 =< j, j + 1 =< m, Done(j) PROVE Done(j + 1)
  <2> DEFINE f == frames[j + 1]
             d == fl[j]
             p == Packet(f)
  <2>1. j \in 1 .. m - 1 /\ j + 1 \in 1 .. m /\ j \in 1 .. m /\ f \in Frame /\ j + 1 - 1 = j
    BY <1>2, <1>5
  <2>2. fl[j + 1] = d \o p
    BY <1>1, <2>1
  <2>3. /\ p \in Seq(Byte) /\ Len(p) = 1 + f.len /\ f.len \in Nat \ {0}
        /\ p[1] = Length(f) /\ \A k \in 1 .. f.len : p[1 + k] = Payload(f)
    BY <2>1, PacketShape
  <2>4. d \in Seq(Byte) /\ pos[j] = Len(d) /\ pos[j + 1] = Len(d \o p)
    BY <1>3, <1>5, <2>1, <2>2
  <2> HIDE DEF d, p, f
  <2>5. /\ d \o p \in Seq(Byte) /\ Len(d) \in Nat /\ Len(d \o p) = Len(d) + Len(p)
        /\ \A i \in 1 .. Len(d) : (d \o p)[i] = d[i]
        /\ \A i \in 1 .. Len(p) : (d \o p)[Len(d) + i] = p[i]
    <3>1. d \in Seq(Byte) /\ p \in Seq(Byte)
      BY <2>3, <2>4
    <3> QED BY <3>1, Joined
  <2>6. Piece(j + 1, d \o p)
    <3>1. Len(d) \in Nat /\ pos[j + 1] = Len(d) + 1 + f.len
      <4>1. pos[j + 1] = Len(d) + (1 + f.len)
        BY <2>3, <2>4, <2>5, Zenon
      <4>2. Len(d) \in Nat /\ f.len \in Nat
        BY <2>3, <2>5
      <4> HIDE DEF Piece, Done, T
      <4> QED BY <4>1, <4>2
    <3>2. (d \o p)[Len(d) + 1] = Length(f)
      BY <2>3, <2>5
    <3>3. \A k \in 1 .. f.len : (d \o p)[Len(d) + 1 + k] = Payload(f)
      <4>1. ASSUME NEW k \in 1 .. f.len PROVE (d \o p)[Len(d) + 1 + k] = Payload(f)
        <5>1. 1 + k \in 1 .. Len(p) /\ Len(d) + (1 + k) = Len(d) + 1 + k
          BY <2>3, <3>1
        <5> QED BY <2>3, <2>5, <5>1
      <4> QED BY <4>1
    <3>4. pos[j + 1] =< Len(d \o p) /\ pos[j] \in Nat /\ pos[j + 1] = pos[j] + 1 + f.len
      BY <2>3, <2>4, <2>5, <3>1
    <3>5. PieceAt(j + 1, Len(d), d \o p)
      BY <2>4, <3>2, <3>3, <3>4 DEF f
    <3>6. pos[j + 1 - 1] = Len(d)
      BY <2>1, <2>4
    <3> HIDE DEF PieceAt
    <3> QED BY <3>5, <3>6
  <2>7. ASSUME NEW i \in 1 .. j PROVE Piece(i, d \o p)
    <3>1. Piece(i, d) /\ frames[i].len \in Nat
      <4>1. i \in 1 .. m
        BY <1>5, <2>1
      <4> HIDE DEF Piece
      <4> QED BY <1>2, <1>5, <4>1, PacketShape DEF d
    <3>2. /\ Len(d) \in Nat /\ Len(p) \in Nat /\ pos[i - 1] \in Nat /\ frames[i].len \in Nat
          /\ pos[i - 1] + 1 + frames[i].len =< Len(d) /\ pos[i] =< Len(d)
      BY <2>3, <2>4, <3>1
    <3>3. pos[i] =< Len(d \o p)
      BY <2>5, <3>1, <3>2
    <3>4. (d \o p)[pos[i - 1] + 1] = d[pos[i - 1] + 1]
      <4>1. pos[i - 1] + 1 \in 1 .. Len(d)
        BY <3>1, <3>2
      <4> QED BY <2>5, <4>1
    <3>5. ASSUME NEW k \in 1 .. frames[i].len
          PROVE  (d \o p)[pos[i - 1] + 1 + k] = d[pos[i - 1] + 1 + k]
      <4>1. pos[i - 1] + 1 + k \in 1 .. Len(d)
        <5> HIDE DEF Piece, Done
        <5> QED BY <3>2
      <4> QED BY <2>5, <4>1
    <3> QED BY <3>1, <3>3, <3>4, <3>5
  <2>8. \A i \in 1 .. j + 1 : i \in 1 .. j \/ i = j + 1
    BY <1>5
  <2> HIDE DEF Piece
  <2> QED BY <2>2, <2>5, <2>6, <2>7, <2>8
<1>6. \A j \in 1 .. m : Done(j)
  <2>1. 0 \in T
    BY <1>4
  <2>2. ASSUME NEW k \in T PROVE k + 1 \in T
    <3>1. k \in Nat /\ (k + 1 =< m => Done(k + 1))
      BY <2>2
    <3>2. k + 2 =< m => Done(k + 2)
      <4>1. ASSUME k + 2 =< m PROVE Done(k + 2)
        <5>1. k + 1 =< m /\ k + 1 \in Nat /\ 1 =< k + 1 /\ k + 1 + 1 = k + 2
          BY <1>2, <3>1, <4>1
        <5>2. Done(k + 1)
          BY <3>1, <5>1
        <5> HIDE DEF Done
        <5> QED BY <1>5, <4>1, <5>1, <5>2
      <4> QED BY <4>1
    <3> HIDE DEF Done
    <3> QED BY <3>1, <3>2
  <2>3. T = Nat
    <3>1. T \in SUBSET Nat
      OBVIOUS
    <3> HIDE DEF T
    <3> QED BY <2>1, <2>2, <3>1, NumberInduction
  <2>4. ASSUME NEW j \in 1 .. m PROVE Done(j)
    <3>1. j - 1 \in Nat /\ j - 1 + 1 = j /\ j =< m
      BY <1>2
    <3>2. j - 1 \in T
      BY <2>3, <3>1
    <3> HIDE DEF Done
    <3> QED BY <3>1, <3>2
  <2> HIDE DEF Done
  <2> QED BY <2>4
<1>7. Done(m)
  <2>1. m \in 1 .. m
    BY <1>2
  <2> HIDE DEF Done, m
  <2> QED BY <1>6, <2>1
<1>8. pos \in [0 .. m -> Nat]
  <2>1. ASSUME NEW i \in 1 .. m PROVE Len(fl[i]) \in Nat
    <3>1. fl[i] \in Seq(Byte)
      BY <1>6
    <3> QED BY <3>1
  <2>2. \A i \in 0 .. m : (IF i = 0 THEN 0 ELSE Len(fl[i])) \in Nat
    BY <1>2, <2>1
  <2> HIDE DEF m
  <2> QED BY <2>2 DEF pos
<1>9. Positions(frames, fl[m], pos)
  <2>1. pos[m] = Len(fl[m])
    BY <1>2, <1>3
  <2> QED BY <1>3, <1>7, <1>8, <2>1 DEF Positions
<1> QED BY <1>1, <1>7, <1>9

\* DeserializeFrames reads back what SerializeFrames has written.
LEMMA ReadBack ==
  ASSUME NEW frames \in Seq(Frame), NEW data \in Seq(Byte), NEW pos, Positions(frames, data, pos)
  PROVE  DeserializeFrames(data) = frames
<1> DEFINE N == Len(data)
           m == Len(frames)
           Jump(o) == o + 1 + data[o + 1].n
           Halts(o) == o = N \/ Jump(o) > N
           Body(g, o) == IF Halts(o) THEN <<>> ELSE <<data[o + 2].of>> \o g[Jump(o)]
           Reads(g) == g = [o \in 0 .. N |-> Body(g, o)]
<1>1. N \in Nat /\ m \in Nat /\ \A o \in 0 .. N : o # N => data[o + 1] \in Byte /\ data[o + 1].n \in Nat
  <2>1. N \in Nat /\ m \in Nat /\ \A i \in 1 .. N : data[i] \in Byte
    OBVIOUS
  <2>2. \A i \in 1 .. N : data[i].n \in Nat
    BY <2>1 DEF Byte
  <2>3. \A o \in 0 .. N : o # N => o + 1 \in 1 .. N
    BY <2>1
  <2> QED BY <2>1, <2>2, <2>3
<1>2. \E g : Reads(g)
  <2> DEFINE I == 0 .. N
             V == Seq({data[o + 2].of : o \in I})
             rank == [o \in I |-> N - o]
             stop == {o \in I : Halts(o)}
             base == [o \in I |-> <<>>]
             F == [o \in I |-> [s \in V |-> <<data[o + 2].of>> \o s]]
             next == [o \in I |-> Jump(o)]
  <2>1. rank \in [I -> 0 .. N] /\ \A o \in I : base[o] \in V
    BY <1>1
  <2>2. F \in [I -> [V -> V]]
    <3>1. ASSUME NEW o \in I, NEW s \in V PROVE <<data[o + 2].of>> \o s \in V
      <4>1. \A S : \A x \in S : <<x>> \in Seq(S)
        OBVIOUS
      <4>2. <<data[o + 2].of>> \in V
        BY <4>1
      <4> QED BY <4>2, ConcatProperties
    <3> HIDE DEF I, V
    <3> QED BY <3>1
  <2>3. Descends(I, stop, next, rank)
    <3>1. ASSUME NEW o \in I \ stop PROVE next[o] \in I /\ rank[next[o]] < rank[o]
      <4>1. o \in Nat /\ o # N /\ o < N /\ data[o + 1].n \in Nat /\ Jump(o) =< N
        BY <1>1
      <4>2. Jump(o) \in I /\ N - Jump(o) < N - o
        BY <1>1, <4>1
      <4>3. next[o] = Jump(o) /\ rank[o] = N - o
        OBVIOUS
      <4>4. rank[Jump(o)] = N - Jump(o)
        <5> HIDE DEF Jump
        <5> QED BY <4>2
      <4> QED BY <4>2, <4>3, <4>4
    <3> HIDE DEF I, stop, next, rank
    <3> QED BY <3>1 DEF Descends
  <2>4. PICK g \in [I -> V] : Recurses(g, I, stop, base, F, next)
    <3> HIDE DEF I, V, rank, stop, base, F, next
    <3> QED BY <1>1, <2>1, <2>2, <2>3, RankedRecursion, Zenon
  <2>5. ASSUME NEW o \in I PROVE g[o] = Body(g, o)
    <3>1. g[o] = IF o \in stop THEN base[o] ELSE F[o][g[next[o]]]
      <4> HIDE DEF I, V, stop, base, F, next
      <4> QED BY <2>4 DEF Recurses
    <3>2. CASE Halts(o)
      <4>1. o \in stop /\ base[o] = <<>>
        BY <3>2
      <4> HIDE DEF I, V, stop, base, F, next, Halts
      <4> QED BY <3>1, <3>2, <4>1
    <3>3. CASE ~Halts(o)
      <4>1. o \notin stop /\ next[o] = Jump(o)
        BY <3>3
      <4>2. next[o] \in I
        <5> HIDE DEF I, stop, next, rank
        <5> QED BY <2>3, <4>1 DEF Descends
      <4>3. g[next[o]] \in V
        <5> HIDE DEF I, V, next
        <5> QED BY <2>4, <4>2
      <4>4. F[o][g[next[o]]] = <<data[o + 2].of>> \o g[next[o]]
        <5> HIDE DEF I, V, next
        <5> QED BY <4>3
      <4> HIDE DEF I, V, stop, base, F, next, Halts, Jump
      <4> QED BY <3>1, <3>3, <4>1, <4>4
    <3> HIDE DEF Body, Halts
    <3> QED BY <3>2, <3>3
  <2> HIDE DEF Body
  <2> QED BY <2>4, <2>5
<1>3. DeserializeFrames(data) = (CHOOSE g : Reads(g))[0]
  BY DEF DeserializeFrames
<1>4. PICK g : Reads(g) /\ DeserializeFrames(data) = g[0]
  <2> HIDE DEF Reads
  <2> QED BY <1>2, <1>3
<1>5. \A o \in 0 .. N : g[o] = Body(g, o)
  <2> HIDE DEF Body
  <2> QED BY <1>4, Zenon
<1> HIDE DEF Reads, Body
<1> DEFINE Rest(i) == SubSeq(frames, i + 1, m)
           T == {k \in Nat : k =< m => g[pos[m - k]] = Rest(m - k)}
<1>6. \A i \in 0 .. m : pos[i] \in Nat
  BY DEF Positions
<1>7. 0 \in T
  <2>1. pos[m] = N /\ N \in 0 .. N
    BY <1>1 DEF Positions
  <2>2. g[N] = <<>>
    BY <1>5, <2>1 DEF Body
  <2>3. Rest(m) = <<>>
    BY <1>1, SubSeqEmpty
  <2>4. m - 0 = m
    BY <1>1
  <2> HIDE DEF Rest
  <2> QED BY <2>1, <2>2, <2>3, <2>4
<1>8. ASSUME NEW i \in 1 .. m, g[pos[i]] = Rest(i) PROVE g[pos[i - 1]] = Rest(i - 1)
  <2> DEFINE o == pos[i - 1]
             f == frames[i]
  <2>1. i - 1 \in 0 .. m /\ i \in 0 .. m /\ f \in Frame /\ f.len \in Nat \ {0}
    BY <1>1, PacketShape
  <2>2. /\ o \in Nat /\ pos[i] = o + 1 + f.len /\ pos[i] =< N
        /\ data[o + 1] = Length(f) /\ data[o + 1 + 1] = Payload(f)
    <3>1. 1 \in 1 .. f.len
      BY <2>1
    <3>2. o \in Nat
      BY <1>6, <2>1
    <3> QED BY <3>1, <3>2 DEF Positions
  <2>3. data[o + 1].n = f.len /\ data[o + 2].of = f
    <3>1. o + 2 = o + 1 + 1
      BY <2>2
    <3>2. data[o + 2] = Payload(f)
      BY <2>2, <3>1
    <3> QED BY <2>2, <3>2 DEF Length, Payload
  <2>4. Jump(o) = pos[i] /\ ~Halts(o) /\ o \in 0 .. N
    <3>1. Jump(o) = o + 1 + f.len
      <4> HIDE DEF o, f
      <4> QED BY <2>3
    <3>2. Jump(o) = pos[i]
      <4> HIDE DEF Jump, o, f
      <4> QED BY <2>2, <3>1
    <3>3. o \in Nat /\ N \in Nat /\ f.len \in Nat /\ o + 1 + f.len =< N
      <4> HIDE DEF o, f, N
      <4> QED BY <1>1, <2>1, <2>2
    <3>4. o \in 0 .. N /\ o # N /\ ~(o + 1 + f.len > N)
      <4> HIDE DEF o, f, N
      <4> QED BY <3>3
    <3> HIDE DEF Jump, o, f, N
    <3> QED BY <3>1, <3>2, <3>4
  <2>5. g[o] = <<f>> \o Rest(i)
    <3>1. g[o] = <<data[o + 2].of>> \o g[Jump(o)]
      <4> HIDE DEF Halts, Jump, Rest, o
      <4> QED BY <1>5, <2>4 DEF Body
    <3> HIDE DEF Rest, o, f, Jump
    <3> QED BY <1>8, <2>3, <2>4, <3>1
  <2>6. SubSeq(frames, i, m) = <<f>> \o Rest(i)
    <3>1. m \in i .. Len(frames)
      BY <1>1
    <3> QED BY <3>1, SubSeqRecursiveFirst
  <2>7. Rest(i - 1) = SubSeq(frames, i, m)
    BY <1>1
  <2> QED BY <2>5, <2>6, <2>7
<1>9. ASSUME NEW k \in T PROVE k + 1 \in T
  <2>1. k \in Nat /\ (k =< m => g[pos[m - k]] = Rest(m - k))
    BY <1>9
  <2>2. ASSUME k + 1 =< m PROVE g[pos[m - (k + 1)]] = Rest(m - (k + 1))
    <3>1. k =< m /\ m - k \in 1 .. m /\ m - (k + 1) = m - k - 1
      BY <1>1, <2>1, <2>2
    <3>2. g[pos[m - k]] = Rest(m - k)
      BY <2>1, <3>1
    <3> DEFINE i == m - k
    <3>3. i \in 1 .. m /\ g[pos[i]] = Rest(i) /\ m - (k + 1) = i - 1
      BY <3>1, <3>2
    <3> HIDE DEF i, Rest
    <3>4. g[pos[i - 1]] = Rest(i - 1)
      BY <1>8, <3>3
    <3> QED BY <3>3, <3>4
  <2>3. k + 1 \in Nat
    BY <2>1
  <2> HIDE DEF Rest
  <2> QED BY <2>2, <2>3
<1>10. m \in T
  <2>1. T \in SUBSET Nat
    OBVIOUS
  <2> HIDE DEF T
  <2>2. T = Nat
    BY <1>7, <1>9, <2>1, NumberInduction
  <2> QED BY <1>1, <2>2
<1>11. g[pos[0]] = Rest(0)
  <2>1. m - m = 0 /\ m =< m
    BY <1>1
  <2> HIDE DEF Rest
  <2> QED BY <1>10, <2>1
<1>12. pos[0] = 0 /\ Rest(0) = frames
  BY SubSeqFull DEF Positions
<1> QED BY <1>4, <1>11, <1>12

\* TrimSilence of a message with a loud frame: the frames up to the last loud one.
LEMMA Trimmed ==
  ASSUME NEW frames \in Seq(Frame)
  PROVE  LET kept == TrimSilence(frames) IN
         kept # <<>> =>
           /\ kept \in Seq(Frame) /\ Len(kept) \in 1 .. Len(frames)
           /\ \A i \in 1 .. Len(kept) : kept[i] = frames[i]
           /\ ~frames[Len(kept)].silent
           /\ \A i \in Len(kept) + 1 .. Len(frames) : frames[i].silent
<1> DEFINE m == Len(frames)
           keep == {i \in DOMAIN frames : ~frames[i].silent}
           last == CHOOSE i \in keep : \A j \in keep : j =< i
<1>1. m \in Nat /\ DOMAIN frames = 1 .. m /\ \A i \in 1 .. m : frames[i] \in Frame
  OBVIOUS
<1>2. CASE keep = {}
  BY <1>2 DEF TrimSilence
<1>3. CASE keep # {}
  <2>1. keep \in SUBSET (1 .. m)
    BY <1>1
  <2>2. \E i \in keep : \A j \in keep : j =< i
    <3> HIDE DEF keep, m
    <3> QED BY <1>1, <1>3, <2>1, MaxIsElement
  <2>3. last \in keep /\ \A j \in keep : j =< last
    <3> HIDE DEF keep
    <3> QED BY <2>2
  <2>4. TrimSilence(frames) = SubSeq(frames, 1, last)
    BY <1>3 DEF TrimSilence
  <2>5. last \in 1 .. m /\ ~frames[last].silent
    BY <1>1, <2>3
  <2>6. \A i \in last + 1 .. m : i \in 1 .. m /\ ~(i =< last)
    BY <1>1, <2>5
  <2>7. \A i \in last + 1 .. m : frames[i].silent
    <3> HIDE DEF last
    <3> QED BY <1>1, <2>3, <2>6
  <2> HIDE DEF last, keep, m
  <2>8. /\ SubSeq(frames, 1, last) \in Seq(Frame) /\ Len(SubSeq(frames, 1, last)) = last
        /\ \A i \in 1 .. last : SubSeq(frames, 1, last)[i] = frames[i]
    BY <1>1, <2>5 DEF m
  <2> QED BY <2>4, <2>5, <2>7, <2>8 DEF m
<1> QED BY <1>2, <1>3

\* The length of the packet a segment table describes, as PageIsWhole adds it up.
PacketLength(s) == FoldSeq(LAMBDA n, sum : n + sum, 0, s)

\* FoldSeq adds up q full segments and the one after them, in whatever order.
LEMMA SumOfSegments ==
  ASSUME NEW q \in Nat, NEW r \in Nat, NEW full \in Nat, NEW s \in [1 .. q + 1 -> Nat],
         \A i \in 1 .. q : s[i] = full, s[q + 1] = r
  PROVE  PacketLength(s) = q * full + r
<1> DEFINE D == 1 .. q + 1
           Pick(t) == CHOOSE x \in t : TRUE
           Iterates(g) == g = [t \in SUBSET D |->
                                 IF t = {} THEN 0 ELSE s[Pick(t)] + g[t \ {Pick(t)}]]
           F == [i \in D |-> [sum \in Nat |-> s[i] + sum]]
           ch == [t \in (SUBSET D) \ {{}} |-> Pick(t)]
           Part(t) == Cardinality(t \cap (1 .. q)) * full + (IF q + 1 \in t THEN r ELSE 0)
<1>1. IsFiniteSet(D) /\ IsFiniteSet(1 .. q)
  BY FS_Interval
<1>2. \A t \in (SUBSET D) \ {{}} : Pick(t) \in t /\ Pick(t) \in D
  OBVIOUS
<1> HIDE DEF Pick
<1>3. \E g : Iterates(g)
  <2>1. F \in [D -> [Nat -> Nat]]
    OBVIOUS
  <2>2. Chooses(ch, D)
    BY <1>2 DEF Chooses
  <2>3. PICK g \in [SUBSET D -> Nat] : IsFold(g, D, 0, F, ch)
    <3> HIDE DEF D, F, ch
    <3>1. 0 \in Nat
      OBVIOUS
    <3> QED BY <1>1, <2>1, <2>2, <3>1, SubsetRecursion, Zenon
  <2>4. ASSUME NEW t \in SUBSET D, t # {}
        PROVE  g[t] = s[Pick(t)] + g[t \ {Pick(t)}]
    <3>1. ch[t] = Pick(t) /\ Pick(t) \in D /\ g[t \ {Pick(t)}] \in Nat
      BY <1>2, <2>3, <2>4
    <3>2. g[t] = F[Pick(t)][g[t \ {Pick(t)}]]
      <4> HIDE DEF D, F, ch
      <4> QED BY <2>3, <2>4, <3>1 DEF IsFold
    <3> HIDE DEF D, ch, Iterates
    <3> QED BY <3>1, <3>2
  <2>5. g = [t \in SUBSET D |-> IF t = {} THEN 0 ELSE s[Pick(t)] + g[t \ {Pick(t)}]]
    <3> HIDE DEF D, F, ch
    <3> QED BY <2>3, <2>4 DEF IsFold
  <2> QED BY <2>5
<1>4. ASSUME NEW g, Iterates(g) PROVE g[D] = q * full + r
  <2> DEFINE G == {t \in SUBSET D : g[t] = Part(t)}
  <2>1. {} \in G
    <3>1. {} \cap (1 .. q) = {} /\ Cardinality({}) = 0 /\ q + 1 \notin {}
      BY FS_EmptySet
    <3>2. Part({}) = 0
      BY <3>1
    <3>3. g[{}] = 0
      BY <1>4
    <3> HIDE DEF Part, D
    <3> QED BY <3>2, <3>3
  <2>2. ASSUME NEW t \in (SUBSET D) \ {{}} PROVE \E x \in t : t \ {x} \in G => t \in G
    <3> DEFINE x == Pick(t)
               u == t \ {x}
    <3>1. x \in t /\ x \in D /\ u \in SUBSET D
      BY <1>2
    <3>2. g[t] = s[x] + g[u]
      BY <1>4, <2>2
    <3> HIDE DEF x
    <3>3. s[x] + Part(u) = Part(t)
      <4>1. IsFiniteSet(t \cap (1 .. q)) /\ IsFiniteSet(u \cap (1 .. q))
        BY <1>1, FS_Subset
      <4>2. CASE x = q + 1
        <5>1. t \cap (1 .. q) = u \cap (1 .. q) /\ q + 1 \in t /\ q + 1 \notin u
          BY <3>1, <4>2
        <5>2. Cardinality(u \cap (1 .. q)) \in Nat
          BY <4>1, FS_CardinalityType
        <5> DEFINE c == Cardinality(u \cap (1 .. q))
        <5>3. c * full \in Nat
          <6> HIDE DEF c
          <6> QED BY <5>2 DEF c
        <5>4. Part(u) = c * full + 0 /\ Part(t) = c * full + r
          BY <5>1
        <5> HIDE DEF c, Part, u
        <5> DEFINE p == c * full
        <5> HIDE DEF p
        <5> QED BY <4>2, <5>3, <5>4 DEF p
      <4>3. CASE x # q + 1
        <5>1. x \in 1 .. q /\ s[x] = full
          BY <3>1, <4>3
        <5>2. /\ u \cap (1 .. q) = (t \cap (1 .. q)) \ {x} /\ x \in t \cap (1 .. q)
              /\ (q + 1 \in t <=> q + 1 \in u)
          BY <3>1, <4>3, <5>1
        <5> DEFINE c == Cardinality(u \cap (1 .. q))
                   d == Cardinality(t \cap (1 .. q))
                   e == IF q + 1 \in t THEN r ELSE 0
        <5>3. c \in Nat /\ d \in Nat /\ d = c + 1
          <6>1. c \in Nat /\ d \in Nat /\ c = d - 1
            <7>1. IsFiniteSet(t \cap (1 .. q)) /\ x \in t \cap (1 .. q)
              BY <4>1, <5>2
            <7>2. Cardinality((t \cap (1 .. q)) \ {x}) = Cardinality(t \cap (1 .. q)) - 1
              <8> HIDE DEF u
              <8> QED BY <7>1, FS_RemoveElement
            <7> HIDE DEF u
            <7> QED BY <4>1, <5>2, <7>2, FS_CardinalityType
          <6> HIDE DEF c, d
          <6> QED BY <6>1
        <5>4. Part(u) = c * full + e /\ Part(t) = d * full + e /\ e \in Nat
          BY <5>2
        <5> HIDE DEF c, d, e, Part, u
        <5>5. d * full = c * full + full /\ c * full \in Nat
          BY <5>3
        <5> QED BY <5>1, <5>3, <5>4, <5>5
      <4> QED BY <4>2, <4>3
    <3>4. u \in G => t \in G
      <4> HIDE DEF Part, D
      <4> QED BY <3>1, <3>2, <3>3
    <3> HIDE DEF G
    <3> QED BY <3>1, <3>4
  <2>3. G = SUBSET D
    <3>1. G \in SUBSET (SUBSET D)
      OBVIOUS
    <3> HIDE DEF G, D
    <3> QED BY <1>1, <2>1, <2>2, <3>1, SubsetInduction
  <2>4. Part(D) = q * full + r
    <3>1. D \cap (1 .. q) = 1 .. q /\ q + 1 \in D
      OBVIOUS
    <3>2. Cardinality(1 .. q) = q
      BY FS_Interval
    <3> HIDE DEF D
    <3> QED BY <3>1, <3>2
  <2>5. D \in G
    <3> HIDE DEF G
    <3> QED BY <2>3
  <2> HIDE DEF Part
  <2> QED BY <2>4, <2>5
<1>5. PacketLength(s) = (CHOOSE g : Iterates(g))[D]
  BY DEF PacketLength, FoldSeq, FoldFunction, FoldFunctionOnSet, MapThenFoldSet, Pick
<1> HIDE DEF Iterates
<1>6. Iterates(CHOOSE g : Iterates(g))
  BY <1>3
<1> QED BY <1>4, <1>5, <1>6

\* The segments of a page are numbers.
LEMMA SegmentsAreNumbers ==
  ASSUME NEW f \in Frame
  PROVE  SegmentTable(f.len) \in Seq(Nat)
<1> DEFINE q == f.len \div SegMax
           r == f.len % SegMax
<1>1. f.len \in Nat /\ SegMax \in Nat /\ SegMax > 0
  BY VoicemailAssumption
<1>2. q \in Nat /\ r \in Nat
  BY <1>1
<1>3. SegmentTable(f.len) = [i \in 1 .. q + 1 |-> IF i * SegMax =< f.len THEN SegMax ELSE r]
  BY DEF SegmentTable
<1> HIDE DEF q, r
<1> QED BY <1>1, <1>2, <1>3

\* A page of BuildOgg.
PageOf(frames, i) ==
  [segs |-> SegmentTable(frames[i].len), frame |-> frames[i], granule |-> i, last |-> i = Len(frames)]

\* It is a record of its type, with the frame and its table.
LEMMA PageShape ==
  ASSUME NEW frames \in Seq(Frame), NEW i \in 1 .. Len(frames)
  PROVE  /\ PageOf(frames, i) \in [segs : Seq(Nat), frame : Frame, granule : Nat, last : BOOLEAN]
         /\ PageOf(frames, i).frame = frames[i]
         /\ PageOf(frames, i).segs = SegmentTable(frames[i].len)
<1> DEFINE last == i = Len(frames)
           segs == SegmentTable(frames[i].len)
<1>1. last \in BOOLEAN /\ frames[i] \in Frame /\ i \in Nat /\ segs \in Seq(Nat)
  BY SegmentsAreNumbers
<1>2. PageOf(frames, i) = [segs |-> segs, frame |-> frames[i], granule |-> i, last |-> last]
  BY Zenon DEF PageOf
<1> HIDE DEF last, segs
<1>3. /\ PageOf(frames, i) \in [segs : Seq(Nat), frame : Frame, granule : Nat, last : BOOLEAN]
      /\ PageOf(frames, i).frame = frames[i] /\ PageOf(frames, i).segs = segs
  BY <1>1, <1>2
<1> QED BY <1>3 DEF segs

\* The table of a page: the segments of its table are the payload, and only the last of
\* them is not full.
LEMMA PagesAreWhole ==
  ASSUME NEW page, page.frame \in Frame, page.segs = SegmentTable(page.frame.len)
  PROVE  PageIsWhole(page)
<1> DEFINE len == page.frame.len
           q == len \div SegMax
           r == len % SegMax
           s == SegmentTable(len)
<1>1. len \in Nat /\ SegMax \in Nat /\ SegMax > 0
  BY VoicemailAssumption
<1>2. q \in Nat /\ r \in Nat /\ r < SegMax /\ len = q * SegMax + r
  <2> HIDE DEF len
  <2> QED BY <1>1
<1>3. ASSUME NEW i \in 1 .. q + 1 PROVE i * SegMax =< len <=> i # q + 1
  <2>1. CASE i = q + 1
    <3>1. i * SegMax = q * SegMax + SegMax
      <4> HIDE DEF len, q
      <4> QED BY <1>1, <1>2, <2>1
    <3> HIDE DEF len, q, r
    <3> DEFINE p == q * SegMax
    <3>2. p \in Nat
      BY <1>1, <1>2
    <3> HIDE DEF p
    <3>3. i * SegMax = p + SegMax /\ len = p + r
      BY <1>2, <3>1 DEF p
    <3> QED BY <1>1, <1>2, <2>1, <3>2, <3>3
  <2>2. CASE i # q + 1
    <3> HIDE DEF len, q, r
    <3>1. i \in Nat /\ i =< q /\ q - i \in Nat
      BY <1>2, <2>2
    <3>2. q * SegMax = i * SegMax + (q - i) * SegMax /\ (q - i) * SegMax \in Nat /\ i * SegMax \in Nat
      BY <1>1, <1>2, <3>1
    <3>3. i * SegMax =< len
      <4> DEFINE a == q * SegMax
                 b == i * SegMax
                 d == (q - i) * SegMax
      <4>1. a = b + d /\ d \in Nat /\ b \in Nat /\ len = a + r
        BY <1>2, <3>2
      <4> HIDE DEF a, b, d
      <4>2. b =< len
        BY <1>2, <4>1
      <4> QED BY <4>2 DEF b
    <3> QED BY <2>2, <3>3
  <2> QED BY <2>1, <2>2
<1> HIDE DEF q, r
<1>4. s = [i \in 1 .. q + 1 |-> IF i * SegMax =< len THEN SegMax ELSE r]
  BY DEF SegmentTable, q, r
<1>5. s = [i \in 1 .. q + 1 |-> IF i # q + 1 THEN SegMax ELSE r]
  BY <1>3, <1>4
<1> HIDE DEF s, len
<1>6. /\ s \in [1 .. q + 1 -> Nat] /\ (\A i \in 1 .. q : s[i] = SegMax) /\ s[q + 1] = r
      /\ s \in Seq(Nat) /\ Len(s) = q + 1
  BY <1>1, <1>2, <1>5
<1>7. PacketLength(s) = q * SegMax + r
  BY <1>1, <1>2, <1>6, SumOfSegments
<1>8. {i \in DOMAIN s : s[i] < SegMax} = {Len(s)}
  <2>1. DOMAIN s = 1 .. q + 1 /\ \A i \in 1 .. q + 1 : s[i] < SegMax <=> i = q + 1
    BY <1>1, <1>2, <1>5
  <2> QED BY <1>2, <1>6, <2>1
<1>9. page.segs = s /\ page.frame.len = len
  BY DEF s, len
<1> QED BY <1>2, <1>7, <1>8, <1>9 DEF PageIsWhole, PacketLength

-----------------------------------------------------------------------------
(* The invariant. *)

QueuesOK == ask \in Seq(Request) /\ reply \in Seq(Reply)

\* The secret of this run of the exchange, if it has one, is the stored one.
SecretIsStored == (master # None => master = setting) /\ (~up => master = None)

\* A recorder that is at work has an exchange it works in, with voicemail.
RecordersRun == \A c \in Call : rec[c].at \notin {"new", "over"} => up /\ master # None

\* The session is in the map, or one of the two that end it is about to close it, or it
\* has been closed, at most one of the three; a call not yet taken is in none of them.
EndedOnce ==
  \A c \in Call :
    /\ c \in calls => closes[c] = 0 /\ rec[c].at # "closing" /\ hangup[c] # "closing"
    /\ rec[c].at = "closing" => closes[c] = 0 /\ hangup[c] # "closing"
    /\ hangup[c] = "closing" => closes[c] = 0
    /\ closes[c] =< 1
    /\ rec[c].at = "new" => closes[c] = 0 /\ hangup[c] = "no" /\ c \notin svc \cup calls

\* Where a recorder is that has come past its StoreMessage.
PastStoring == {"thanking", "ending", "closing", "reporting", "over"}

\* The bytes are what a recorder that heard the frames stores.
Heard(blob, frames) == \E kept \in Kept(frames) : kept # <<>> /\ blob = SerializeFrames(kept)

\* A row of the mailbox is what its recorder heard, sealed with the stored secret.
StoredIsHeard ==
  \A c \in Call : mailbox[c] # None =>
    /\ rec[c].at \in PastStoring
    /\ Heard(mailbox[c].blob, rec[c].frames)
    /\ mailbox[c].key = setting /\ setting # None

Inv == TypeOK /\ QueuesOK /\ SecretIsStored /\ RecordersRun /\ EndedOnce /\ StoredIsHeard

\* The invariant holds at the start.
LEMMA InitInv == Init => Inv
<1> SUFFICES ASSUME Init PROVE Inv
  OBVIOUS
<1> USE VoicemailAssumption DEF Init
<1>1. NoRec \in [at : Recorder, frames : Seq(Frame)] /\ NoRec.at = "new" /\ Len(NoRec.frames) = 0
  BY DEF NoRec, Recorder
<1>2. TypeOK
  <2>1. {MaxFrames, MaxCrashes, MaxTaps, MaxDrops} \subseteq Nat
    OBVIOUS
  <2>2. left \in [crash : 0 .. MaxCrashes, tap : 0 .. MaxTaps, drop : 0 .. MaxDrops]
    BY <2>1
  <2>3. /\ rec \in [Call -> [at : Recorder, frames : Seq(Frame)]]
        /\ \A c \in Call : Len(rec[c].frames) =< MaxFrames
    BY <1>1, <2>1
  <2>4. /\ \A i \in DOMAIN ask : ask[i] \in Request
        /\ \A i \in DOMAIN reply : reply[i] \in Reply
    OBVIOUS
  <2>5. /\ hangup \in [Call -> {"no", "ending", "closing", "done"}] /\ closes \in [Call -> Nat]
        /\ mailbox \in [Call -> Message \cup {None}]
    OBVIOUS
  <2> QED BY <2>2, <2>3, <2>4, <2>5 DEF TypeOK
<1>3. QueuesOK /\ SecretIsStored /\ StoredIsHeard
  BY DEF QueuesOK, SecretIsStored, StoredIsHeard
<1>4. RecordersRun /\ EndedOnce
  BY <1>1 DEF RecordersRun, EndedOnce
<1> QED BY <1>2, <1>3, <1>4 DEF Inv

\* What At changes.
LEMMA Moved ==
  ASSUME TypeOK, NEW c \in Call, NEW place \in Recorder, At(c, place)
  PROVE  /\ rec' \in [Call -> [at : Recorder, frames : Seq(Frame)]]
         /\ rec'[c].at = place
         /\ \A d \in Call : rec'[d].frames = rec[d].frames /\ (d # c => rec'[d] = rec[d])
BY DEF TypeOK, At

\* A step of the recorder of c that leaves the mailbox and the hangup alone keeps the
\* invariant if it runs in an exchange, does not go back before the storing and keeps
\* the session ended once.
LEMMA RecorderMoves ==
  ASSUME Inv, NEW c \in Call, NEW place \in Recorder, At(c, place), up, master # None,
         UNCHANGED <<up, setting, master, hangup, mailbox, notify, phone, left>>,
         rec[c].at \in PastStoring => place \in PastStoring,
         calls' \subseteq Call, svc' \subseteq Call, told' \subseteq Call,
         closes' \in [Call -> Nat], EndedOnce'
  PROVE  Inv'
<1>1. /\ rec' \in [Call -> [at : Recorder, frames : Seq(Frame)]]
      /\ rec'[c].at = place
      /\ \A d \in Call : rec'[d].frames = rec[d].frames /\ (d # c => rec'[d] = rec[d])
  BY Moved DEF Inv
<1>2. TypeOK'
  BY <1>1 DEF Inv, TypeOK, phone
<1>3. QueuesOK' /\ SecretIsStored' /\ RecordersRun'
  BY DEF Inv, QueuesOK, SecretIsStored, RecordersRun, phone
<1>4. StoredIsHeard'
  <2> SUFFICES ASSUME NEW d \in Call, mailbox[d] # None
               PROVE  /\ rec'[d].at \in PastStoring
                      /\ Heard(mailbox[d].blob, rec'[d].frames)
                      /\ mailbox[d].key = setting /\ setting # None
    BY DEF StoredIsHeard
  <2>1. /\ rec[d].at \in PastStoring
        /\ Heard(mailbox[d].blob, rec[d].frames)
        /\ mailbox[d].key = setting /\ setting # None
    BY DEF Inv, StoredIsHeard
  <2>2. rec'[d].frames = rec[d].frames /\ rec'[d].at \in PastStoring
    BY <1>1, <2>1
  <2> QED BY <2>1, <2>2
<1> QED BY <1>2, <1>3, <1>4 DEF Inv

\* A recorder at work is in an exchange that runs and has voicemail.
LEMMA RunsInExchange ==
  ASSUME Inv, NEW c \in Call, rec[c].at \notin {"new", "over"} PROVE up /\ master # None
BY DEF Inv, RecordersRun

\* The recorder's steps up to the storing, one that fails, and the thanks.
LEMMA TakesTheCall ==
  ASSUME Inv, NEW c \in Call,
         \/ HandleCall(c) \/ HandleCallFails(c) \/ Answered(c) \/ StartRecording(c)
         \/ GreetingPlayed(c) \/ CallerGone(c) \/ Thank(c)
         \/ StoreFails(c) \/ GoOnUnstored(c)
  PROVE  Inv'
<1> USE DEF PastStoring, Recorder
<1>0. TypeOK /\ EndedOnce
  BY DEF Inv
<1>1. CASE HandleCall(c)
  <2>1. At(c, "added") /\ up /\ master # None
    BY <1>1 DEF HandleCall
  <2>2. EndedOnce'
    BY <1>0, <1>1, <2>1, Moved DEF HandleCall, EndedOnce, TypeOK
  <2> QED BY <1>0, <1>1, <2>1, <2>2, RecorderMoves DEF HandleCall, TypeOK
<1>2. CASE HandleCallFails(c)
  <2>1. At(c, "over") /\ up /\ master # None
    BY <1>2, RunsInExchange DEF HandleCallFails
  <2>2. EndedOnce'
    BY <1>0, <1>2, <2>1, Moved DEF HandleCallFails, EndedOnce, TypeOK
  <2> QED BY <1>0, <1>2, <2>1, <2>2, RecorderMoves DEF HandleCallFails, TypeOK
<1>3. CASE Answered(c)
  <2>1. At(c, "answered") /\ up /\ master # None
    BY <1>3, RunsInExchange DEF Answered
  <2>2. EndedOnce'
    BY <1>0, <1>3, <2>1, Moved DEF Answered, EndedOnce, TypeOK
  <2> QED BY <1>0, <1>3, <2>1, <2>2, RecorderMoves DEF Answered, TypeOK
<1>4. CASE \/ StartRecording(c) \/ GreetingPlayed(c) \/ CallerGone(c) \/ Thank(c)
           \/ StoreFails(c) \/ GoOnUnstored(c)
  <2>1. PICK place \in Recorder : At(c, place) /\ place \notin {"new", "closing"}
                                  /\ (rec[c].at = "thanking" => place = "ending")
    BY <1>4 DEF StartRecording, GreetingPlayed, CallerGone, Thank, StoreFails, GoOnUnstored, AfterStoring
  <2>2. /\ UNCHANGED <<up, setting, master, calls, svc, hangup, closes, told, mailbox, notify, phone, left>>
        /\ rec[c].at \in {"answered", "greeting", "recording", "storing", "unstored", "thanking"}
    BY <1>4 DEF StartRecording, GreetingPlayed, CallerGone, Thank, StoreFails, GoOnUnstored, AfterStoring
  <2>3. up /\ master # None
    BY <2>2, RunsInExchange
  <2>4. EndedOnce'
    <3>1. rec'[c].at = place /\ \A d \in Call : d # c => rec'[d] = rec[d]
      BY <1>0, <2>1, Moved
    <3>2. calls' = calls /\ svc' = svc /\ hangup' = hangup /\ closes' = closes
      BY <2>2
    <3> QED BY <1>0, <2>1, <2>2, <3>1, <3>2 DEF EndedOnce
  <2>5. /\ calls' \subseteq Call /\ svc' \subseteq Call /\ told' \subseteq Call
        /\ closes' \in [Call -> Nat]
    BY <1>0, <2>2 DEF TypeOK
  <2>6. rec[c].at \in PastStoring => place \in PastStoring
    BY <2>1, <2>2
  <2>7. UNCHANGED <<up, setting, master, hangup, mailbox, notify, phone, left>>
    BY <2>2
  <2> HIDE DEF PastStoring, Recorder
  <2> QED BY <2>1, <2>3, <2>4, <2>5, <2>6, <2>7, RecorderMoves
<1> QED BY <1>1, <1>2, <1>3, <1>4

\* The recorder ends the call: only the one that takes the session out of the map closes it.
LEMMA EndsTheCall ==
  ASSUME Inv, NEW c \in Call, SelfEnd(c) \/ SelfClose(c) \/ ReportSelfEnd(c)
  PROVE  Inv'
<1> USE DEF PastStoring, Recorder
<1>0. TypeOK /\ EndedOnce
  BY DEF Inv
<1>1. CASE SelfEnd(c)
  <2> DEFINE place == IF c \in calls THEN "closing" ELSE "reporting"
  <2>1. At(c, place) /\ place \in Recorder /\ up /\ master # None
    BY <1>1, RunsInExchange DEF SelfEnd
  <2> HIDE DEF place
  <2>2. EndedOnce'
    <3>1. place # "new" /\ (place = "closing" => c \in calls)
      BY DEF place
    <3> QED BY <1>0, <1>1, <2>1, <3>1, Moved DEF SelfEnd, TakeCall, EndedOnce, TypeOK
  <2>3. place \in PastStoring
    BY DEF place
  <2> QED BY <1>0, <1>1, <2>1, <2>2, <2>3, RecorderMoves DEF SelfEnd, TakeCall, TypeOK
<1>2. CASE SelfClose(c)
  <2>1. At(c, "reporting") /\ up /\ master # None
    BY <1>2, RunsInExchange DEF SelfClose
  <2>2. /\ closes' \in [Call -> Nat] /\ closes'[c] = closes[c] + 1
        /\ \A d \in Call \ {c} : closes'[d] = closes[d]
    BY <1>0, <1>2 DEF SelfClose, TypeOK
  <2>3. EndedOnce'
    BY <1>0, <1>2, <2>1, <2>2, Moved DEF SelfClose, EndedOnce, TypeOK
  <2> QED BY <1>0, <1>2, <2>1, <2>2, <2>3, RecorderMoves DEF SelfClose, TypeOK
<1>3. CASE ReportSelfEnd(c)
  <2>1. At(c, "over") /\ up /\ master # None
    BY <1>3, RunsInExchange DEF ReportSelfEnd
  <2>2. EndedOnce'
    BY <1>0, <1>3, <2>1, Moved DEF ReportSelfEnd, EndedOnce, TypeOK
  <2> QED BY <1>0, <1>3, <2>1, <2>2, RecorderMoves DEF ReportSelfEnd, TypeOK
<1> QED BY <1>1, <1>2, <1>3

\* The caller's side ends the call.
LEMMA HangsUp ==
  ASSUME Inv, NEW c \in Call, Hangup(c) \/ HangupEnds(c) \/ HangupCloses(c)
  PROVE  Inv'
<1> USE DEF Inv
<1>0. UNCHANGED <<up, setting, master, rec, told, mailbox, notify, phone, left>>
  BY DEF Hangup, HangupEnds, HangupCloses
<1>1. QueuesOK' /\ SecretIsStored' /\ RecordersRun' /\ StoredIsHeard'
  BY <1>0 DEF QueuesOK, SecretIsStored, RecordersRun, StoredIsHeard, phone
<1>2. CASE Hangup(c)
  <2>1. TypeOK'
    BY <1>0, <1>2 DEF Hangup, TypeOK, phone
  <2>2. EndedOnce'
    BY <1>0, <1>2 DEF Hangup, EndedOnce, TypeOK
  <2> QED BY <1>1, <2>1, <2>2
<1>3. CASE HangupEnds(c)
  <2>1. TypeOK'
    BY <1>0, <1>3 DEF HangupEnds, TakeCall, TypeOK, phone
  <2>2. EndedOnce'
    BY <1>0, <1>3 DEF HangupEnds, TakeCall, EndedOnce, TypeOK
  <2> QED BY <1>1, <2>1, <2>2
<1>4. CASE HangupCloses(c)
  <2>1. TypeOK'
    BY <1>0, <1>4 DEF HangupCloses, TypeOK, phone
  <2>2. EndedOnce'
    BY <1>0, <1>4 DEF HangupCloses, EndedOnce, TypeOK
  <2> QED BY <1>1, <2>1, <2>2
<1> QED BY <1>2, <1>3, <1>4

\* An audio packet is kept, up to the limit.
LEMMA Records ==
  ASSUME Inv, NEW c \in Call, NEW f \in Frame, Record(c, f)
  PROVE  Inv'
<1> USE DEF Inv
<1>0. UNCHANGED <<up, setting, master, calls, svc, hangup, closes, told, mailbox, notify, phone, left>>
  BY DEF Record
<1>1. /\ rec[c].at = "recording" /\ up /\ master # None /\ rec[c].frames \in Seq(Frame) /\ Len(rec[c].frames) < MaxFrames
  BY RunsInExchange DEF Record, TypeOK
<1>2. /\ rec' \in [Call -> [at : Recorder, frames : Seq(Frame)]]
      /\ rec'[c].frames = Append(rec[c].frames, f) /\ rec'[c].at \in {"recording", "storing"}
      /\ \A d \in Call : d # c => rec'[d] = rec[d]
  <2> DEFINE a == IF Len(rec[c].frames) + 1 = MaxFrames THEN "storing" ELSE rec[c].at
             fs == Append(rec[c].frames, f)
  <2>1. a \in {"recording", "storing"} /\ fs \in Seq(Frame)
    BY <1>1
  <2>2. rec' = [rec EXCEPT ![c].frames = fs, ![c].at = a]
    BY DEF Record, TypeOK
  <2> HIDE DEF a, fs
  <2>3. rec' \in [Call -> [at : Recorder, frames : Seq(Frame)]]
    BY <2>1, <2>2 DEF TypeOK, Recorder
  <2>4. rec'[c].frames = fs /\ rec'[c].at = a /\ \A d \in Call : d # c => rec'[d] = rec[d]
    BY <2>2 DEF TypeOK
  <2> QED BY <2>1, <2>3, <2>4 DEF fs
<1>3. Len(rec'[c].frames) =< MaxFrames
  BY <1>1, <1>2, VoicemailAssumption
<1>4. TypeOK'
  BY <1>0, <1>2, <1>3 DEF TypeOK, phone
<1>5. QueuesOK' /\ SecretIsStored' /\ RecordersRun'
  BY <1>0, <1>1 DEF QueuesOK, SecretIsStored, RecordersRun, phone
<1>6. EndedOnce'
  BY <1>0, <1>1, <1>2 DEF EndedOnce
<1>7. StoredIsHeard'
  <2>1. mailbox[c] = None
    BY <1>1 DEF StoredIsHeard, PastStoring
  <2> SUFFICES ASSUME NEW d \in Call, mailbox[d] # None
               PROVE  /\ rec'[d].at \in PastStoring
                      /\ Heard(mailbox[d].blob, rec'[d].frames)
                      /\ mailbox[d].key = setting /\ setting # None
    BY <1>0 DEF StoredIsHeard
  <2>2. rec'[d] = rec[d]
    BY <1>2, <2>1
  <2> QED BY <2>2 DEF StoredIsHeard
<1> QED BY <1>4, <1>5, <1>6, <1>7

\* A message that is stored is what was heard, under the stored secret.
LEMMA Stores ==
  ASSUME Inv, NEW c \in Call, StoreMessage(c)
  PROVE  Inv'
<1> USE DEF Inv
<1> DEFINE place == AfterStoring(c)
<1>0. UNCHANGED <<up, setting, master, calls, svc, hangup, closes, told, phone, left>>
  BY DEF StoreMessage
<1>1. /\ rec[c].at = "storing" /\ up /\ master # None /\ rec[c].frames \in Seq(Frame)
      /\ place \in Recorder /\ place \in PastStoring \ {"closing"} /\ At(c, place)
  BY RunsInExchange DEF StoreMessage, TypeOK, AfterStoring, Recorder, PastStoring
<1>2. /\ rec' \in [Call -> [at : Recorder, frames : Seq(Frame)]]
      /\ rec'[c].at = place
      /\ \A d \in Call : rec'[d].frames = rec[d].frames /\ (d # c => rec'[d] = rec[d])
  <2> HIDE DEF place
  <2> QED BY <1>1, Moved
<1>3. master = setting /\ setting \in Secret /\ setting # None
  BY <1>1, VoicemailAssumption DEF SecretIsStored, TypeOK
<1>a. PICK frames \in Kept(rec[c].frames) :
        \/ frames = <<>> /\ UNCHANGED <<mailbox, notify>>
        \/ /\ frames # <<>>
           /\ mailbox' = [mailbox EXCEPT ![c] = Sealed(frames)]
           /\ notify' = notify \cup {c}
  BY DEF StoreMessage
<1>4. frames # <<>> => /\ mailbox' = [mailbox EXCEPT ![c] = Sealed(frames)]
                       /\ notify' = notify \cup {c}
                       /\ Sealed(frames) \in Message
  <2>1. ASSUME frames # <<>> PROVE SerializeFrames(frames) \in Seq(Byte)
    <3>1. frames \in Seq(Frame)
      BY <1>1, <1>a, <2>1, Trimmed DEF Kept
    <3> QED BY <2>1, <3>1, SerializePositions
  <2> QED BY <1>3, <1>a, <2>1 DEF Sealed, Message, Byte
<1>5. frames = <<>> => mailbox' = mailbox /\ notify' = notify
  BY <1>a
<1> HIDE DEF place
<1>6. mailbox' \in [Call -> Message \cup {None}] /\ notify' \subseteq Call
  BY <1>4, <1>5 DEF TypeOK
<1>7. TypeOK'
  BY <1>0, <1>2, <1>6 DEF TypeOK, phone
<1>8. QueuesOK' /\ SecretIsStored' /\ RecordersRun'
  BY <1>0, <1>1 DEF QueuesOK, SecretIsStored, RecordersRun, phone
<1>9. EndedOnce'
  BY <1>0, <1>1, <1>2 DEF EndedOnce, PastStoring
<1>10. StoredIsHeard'
  <2> SUFFICES ASSUME NEW d \in Call, mailbox'[d] # None
               PROVE  /\ rec'[d].at \in PastStoring
                      /\ Heard(mailbox'[d].blob, rec'[d].frames)
                      /\ mailbox'[d].key = setting /\ setting # None
    BY <1>0 DEF StoredIsHeard
  <2>1. mailbox[c] = None
    BY <1>1 DEF StoredIsHeard, PastStoring
  <2>2. CASE d # c
    <3>1. mailbox'[d] = mailbox[d] /\ rec'[d] = rec[d]
      BY <1>2, <1>4, <1>5, <2>2 DEF TypeOK
    <3> QED BY <3>1 DEF StoredIsHeard
  <2>3. CASE d = c
    <3>1. frames # <<>> /\ mailbox'[c] = Sealed(frames)
      BY <1>4, <1>5, <2>1, <2>3 DEF TypeOK
    <3>2. mailbox'[c].blob = SerializeFrames(frames) /\ mailbox'[c].key = setting
      BY <1>3, <3>1 DEF Sealed
    <3>3. rec'[c].at \in PastStoring /\ rec'[c].frames = rec[c].frames
      BY <1>1, <1>2
    <3>4. Heard(mailbox'[c].blob, rec'[c].frames)
      BY <1>a, <3>1, <3>2, <3>3 DEF Heard
    <3> QED BY <1>3, <2>3, <3>2, <3>3, <3>4
  <2> QED BY <2>2, <2>3
<1> QED BY <1>7, <1>8, <1>9, <1>10

\* A start takes the stored secret, or stores a new one when no message has been sealed,
\* or goes on without one.
LEMMA Starts ==
  ASSUME Inv, EnsureMasterSecret
  PROVE  Inv'
<1> USE DEF Inv
<1>0. UNCHANGED <<rec, calls, svc, hangup, closes, told, mailbox, notify, phone, left>>
  BY DEF EnsureMasterSecret, session
<1>1. /\ ~up /\ master = None /\ up' = TRUE /\ setting' \in Secret \cup {None}
      /\ (setting # None => setting' = setting) /\ master' \in {None, setting'}
  BY VoicemailAssumption DEF EnsureMasterSecret, TypeOK, SecretIsStored
<1>2. TypeOK'
  BY <1>0, <1>1 DEF TypeOK, phone
<1>3. \A c \in Call : rec[c].at \in {"new", "over"}
  BY <1>1 DEF RecordersRun
<1>4. QueuesOK' /\ SecretIsStored' /\ RecordersRun' /\ EndedOnce'
  BY <1>0, <1>1, <1>3 DEF QueuesOK, SecretIsStored, RecordersRun, EndedOnce, phone
<1>5. StoredIsHeard'
  BY <1>0, <1>1 DEF StoredIsHeard
<1> QED BY <1>2, <1>4, <1>5

\* The bounds only go down.
LEMMA Spent ==
  ASSUME TypeOK, NEW what \in {"crash", "tap", "drop"}, Spend(what)
  PROVE  left' \in [crash : 0 .. MaxCrashes, tap : 0 .. MaxTaps, drop : 0 .. MaxDrops]
<1>1. {MaxCrashes, MaxTaps, MaxDrops} \subseteq Nat
  BY VoicemailAssumption
<1> QED BY <1>1 DEF TypeOK, Spend

\* A crash leaves the rows and what was heard for them.
LEMMA Crashes ==
  ASSUME Inv, Crash
  PROVE  Inv'
<1> USE DEF Inv
<1>0. UNCHANGED <<setting, closes, told, mailbox, view>> /\ up' = FALSE /\ master' = None
  BY DEF Crash
<1>1. /\ rec' \in [Call -> [at : Recorder, frames : Seq(Frame)]]
      /\ \A c \in Call : /\ rec'[c].at \in {"new", "over"} /\ Len(rec'[c].frames) =< MaxFrames
                         /\ (rec'[c].at = "new" <=> rec[c].at = "new")
                         /\ (rec[c].at # "new" => rec'[c].frames = rec[c].frames)
  <2>1. NoRec \in [at : Recorder, frames : Seq(Frame)] /\ Len(NoRec.frames) = 0 /\ NoRec.at = "new"
    BY DEF NoRec, Recorder
  <2>2. MaxFrames \in Nat
    BY VoicemailAssumption
  <2>3. \A c \in Call :
          /\ rec'[c] = IF rec[c].at = "new" THEN NoRec ELSE [rec[c] EXCEPT !.at = "over"]
          /\ rec[c] \in [at : Recorder, frames : Seq(Frame)] /\ Len(rec[c].frames) =< MaxFrames
    BY DEF Crash, TypeOK
  <2>4. ASSUME NEW c \in Call
        PROVE  /\ rec'[c] \in [at : Recorder, frames : Seq(Frame)]
               /\ rec'[c].at \in {"new", "over"} /\ Len(rec'[c].frames) =< MaxFrames
               /\ (rec'[c].at = "new" <=> rec[c].at = "new")
               /\ (rec[c].at # "new" => rec'[c].frames = rec[c].frames)
    <3>1. CASE rec[c].at = "new"
      <4>1. rec'[c] = NoRec
        BY <2>3, <3>1
      <4>2. Len(NoRec.frames) =< MaxFrames
        BY <2>1, <2>2
      <4> QED BY <2>1, <3>1, <4>1, <4>2
    <3>2. CASE rec[c].at # "new"
      <4>1. rec'[c] = [rec[c] EXCEPT !.at = "over"]
        BY <2>3, <3>2
      <4>2. rec'[c] = [at |-> "over", frames |-> rec[c].frames]
        BY <2>3, <4>1
      <4> QED BY <2>3, <3>2, <4>2 DEF Recorder
    <3> QED BY <3>1, <3>2
  <2>5. rec' = [c \in Call |-> rec'[c]]
    BY DEF Crash
  <2> QED BY <2>4, <2>5
<1>2. /\ hangup' \in [Call -> {"no", "done"}] /\ \A c \in Call : hangup[c] = "no" => hangup'[c] = "no"
      /\ calls' = {} /\ svc' = {} /\ notify' = {} /\ online' = FALSE /\ ask' = <<>> /\ reply' = <<>>
  BY DEF Crash
<1>3. left' \in [crash : 0 .. MaxCrashes, tap : 0 .. MaxTaps, drop : 0 .. MaxDrops]
  BY Spent DEF Crash
<1>4. TypeOK'
  <2>1. hangup' \in [Call -> {"no", "ending", "closing", "done"}]
    BY <1>2
  <2>2. /\ \A i \in DOMAIN ask' : ask'[i] \in Request
        /\ \A i \in DOMAIN reply' : reply'[i] \in Reply
    BY <1>2
  <2>3. /\ setting' \in Secret \cup {None} /\ closes' \in [Call -> Nat] /\ told' \subseteq Call
        /\ mailbox' \in [Call -> Message \cup {None}] /\ view' \subseteq Call
    BY <1>0 DEF TypeOK
  <2> QED BY <1>0, <1>1, <1>2, <1>3, <2>1, <2>2, <2>3 DEF TypeOK
<1>5. QueuesOK' /\ SecretIsStored' /\ RecordersRun'
  BY <1>0, <1>1, <1>2 DEF QueuesOK, SecretIsStored, RecordersRun
<1>6. EndedOnce'
  BY <1>0, <1>1, <1>2 DEF EndedOnce
<1>7. StoredIsHeard'
  <2> SUFFICES ASSUME NEW d \in Call, mailbox[d] # None
               PROVE  /\ rec'[d].at \in PastStoring
                      /\ Heard(mailbox[d].blob, rec'[d].frames)
                      /\ mailbox[d].key = setting /\ setting # None
    BY <1>0 DEF StoredIsHeard
  <2>1. rec[d].at # "new"
    BY DEF StoredIsHeard, PastStoring
  <2>2. rec'[d].frames = rec[d].frames /\ rec'[d].at = "over"
    BY <1>1, <2>1
  <2> QED BY <2>2 DEF StoredIsHeard, PastStoring
<1> QED BY <1>4, <1>5, <1>6, <1>7

\* Steps that change no session and no row.
LEMMA PhoneMoves ==
  ASSUME Inv, UNCHANGED <<up, setting, master, session, mailbox>>,
         notify' \subseteq Call, online' \in BOOLEAN, view' \subseteq Call,
         ask' \in Seq(Request), reply' \in Seq(Reply),
         left' \in [crash : 0 .. MaxCrashes, tap : 0 .. MaxTaps, drop : 0 .. MaxDrops]
  PROVE  Inv'
<1> USE DEF Inv, session
<1>1. /\ \A i \in DOMAIN ask' : ask'[i] \in Request
      /\ \A i \in DOMAIN reply' : reply'[i] \in Reply
  OBVIOUS
<1>2. TypeOK'
  BY <1>1 DEF TypeOK
<1>3. QueuesOK' /\ SecretIsStored' /\ RecordersRun' /\ EndedOnce' /\ StoredIsHeard'
  BY DEF QueuesOK, SecretIsStored, RecordersRun, EndedOnce, StoredIsHeard
<1> QED BY <1>2, <1>3

\* The recipient's connection, and what is sent and received over it.
LEMMA PhoneInv ==
  ASSUME Inv, \/ Connect \/ Drop \/ PhoneReceives \/ \E c \in Call : NotifyVoicemailStored(c)
              \/ \E c \in Call, what \in {"delete", "read"} : Tap(c, what)
  PROVE  Inv'
<1>0. TypeOK /\ QueuesOK
  BY DEF Inv
<1> DEFINE Bounds == [crash : 0 .. MaxCrashes, tap : 0 .. MaxTaps, drop : 0 .. MaxDrops]
<1>a. /\ notify \subseteq Call /\ online \in BOOLEAN /\ view \subseteq Call /\ left \in Bounds
      /\ ask \in Seq(Request) /\ reply \in Seq(Reply)
  BY <1>0 DEF TypeOK, QueuesOK
<1>b. [do |-> "list"] \in Request /\ [is |-> "event"] \in Reply
  BY DEF Request, Reply
<1>1. CASE Connect
  <2>1. <<[do |-> "list"]>> \in Seq(Request)
    BY <1>b
  <2> QED BY <1>1, <1>a, <2>1, PhoneMoves DEF Connect
<1>2. CASE Drop
  <2>1. left' \in Bounds
    BY <1>0, <1>2, Spent DEF Drop
  <2>2. <<>> \in Seq(Request) /\ <<>> \in Seq(Reply)
    OBVIOUS
  <2>3. /\ online' = FALSE /\ ask' = <<>> /\ reply' = <<>>
        /\ UNCHANGED <<up, setting, master, session, mailbox, notify, view>>
    BY <1>2 DEF Drop
  <2> HIDE DEF Bounds
  <2>4. notify' \subseteq Call /\ online' \in BOOLEAN /\ view' \subseteq Call
    BY <1>a, <2>3
  <2> QED BY <2>1, <2>2, <2>3, <2>4, PhoneMoves DEF Bounds
<1>3. CASE PhoneReceives
  <2>1. Head(reply) \in Reply /\ Tail(reply) \in Seq(Reply)
    BY <1>3, <1>a DEF PhoneReceives
  <2>2. Head(reply).is = "list" => Head(reply).ids \subseteq Call
    BY <2>1 DEF Reply
  <2>3. Append(ask, [do |-> "list"]) \in Seq(Request)
    BY <1>a, <1>b
  <2>4. ask' \in Seq(Request) /\ view' \subseteq Call /\ reply' \in Seq(Reply)
    BY <1>3, <1>a, <2>1, <2>2, <2>3 DEF PhoneReceives
  <2>5. UNCHANGED <<up, setting, master, session, mailbox, notify, online, left>>
    BY <1>3 DEF PhoneReceives
  <2> QED BY <1>a, <2>4, <2>5, PhoneMoves
<1>4. ASSUME NEW c \in Call, NotifyVoicemailStored(c) PROVE Inv'
  <2>1. Append(reply, [is |-> "event"]) \in Seq(Reply)
    BY <1>a, <1>b
  <2>2. reply' \in Seq(Reply) /\ notify' \subseteq Call
    BY <1>4, <1>a, <2>1 DEF NotifyVoicemailStored
  <2>3. UNCHANGED <<up, setting, master, session, mailbox, online, ask, view, left>>
    BY <1>4 DEF NotifyVoicemailStored
  <2> QED BY <1>a, <2>2, <2>3, PhoneMoves
<1>5. ASSUME NEW c \in Call, NEW what \in {"delete", "read"}, Tap(c, what) PROVE Inv'
  <2>1. left' \in Bounds
    BY <1>0, <1>5, Spent DEF Tap
  <2>2. [do |-> what, id |-> c] \in Request
    BY DEF Request
  <2>3. Append(ask, [do |-> what, id |-> c]) \in Seq(Request)
    BY <1>a, <2>2
  <2>4. ask' \in Seq(Request) /\ view' \subseteq Call
    BY <1>5, <1>a, <2>3 DEF Tap
  <2>5. UNCHANGED <<up, setting, master, session, mailbox, notify, online, reply>>
    BY <1>5 DEF Tap
  <2> QED BY <1>a, <2>1, <2>4, <2>5, PhoneMoves
<1> QED BY <1>1, <1>2, <1>3, <1>4, <1>5

\* A request lists, deletes or marks rows; a row that stays keeps its sound and its key.
LEMMA RequestInv ==
  ASSUME Inv, HandleRequest
  PROVE  Inv'
<1> USE DEF Inv
<1> DEFINE r == Head(ask)
<1>0. UNCHANGED <<up, setting, master, session, notify, online, view, left>> /\ ask' = Tail(ask)
  BY DEF HandleRequest
<1>1. r \in Request /\ Tail(ask) \in Seq(Request) /\ reply \in Seq(Reply)
  BY DEF HandleRequest, QueuesOK
<1>2. CASE r.do = "list"
  <2>1. PICK e \in {[is |-> "list", ids |-> ListVoicemailMeta], [is |-> "error"]} :
          mailbox' = mailbox /\ reply' = Append(reply, e)
    BY <1>2 DEF HandleRequest
  <2>2. [is |-> "list", ids |-> ListVoicemailMeta] \in Reply /\ [is |-> "error"] \in Reply
    BY DEF Reply, ListVoicemailMeta, Messages
  <2>3. reply' \in Seq(Reply)
    BY <1>1, <2>1, <2>2
  <2> QED BY <1>0, <1>1, <2>1, <2>3, PhoneMoves DEF TypeOK
<1>3. CASE r.do # "list"
  <2>1. r.do \in {"delete", "read"} /\ r.id \in Call
    BY <1>1, <1>3 DEF Request
  <2>2. /\ reply' = reply /\ mailbox' \in [Call -> Message \cup {None}]
        /\ \A d \in Call : mailbox'[d] # None =>
             mailbox[d] # None /\ mailbox'[d].blob = mailbox[d].blob /\ mailbox'[d].key = mailbox[d].key
    <3>1. mailbox \in [Call -> Message \cup {None}]
      BY DEF TypeOK
    <3>2. CASE r.do = "delete"
      BY <2>1, <3>1, <3>2 DEF HandleRequest, DeleteVoicemail
    <3>3. CASE r.do = "read"
      <4> DEFINE m == IF mailbox[r.id] = None THEN mailbox[r.id] ELSE [mailbox[r.id] EXCEPT !.read = TRUE]
      <4>1. reply' = reply /\ mailbox' \in {mailbox, [mailbox EXCEPT ![r.id] = m]}
        BY <2>1, <3>1, <3>3 DEF HandleRequest, MarkListened
      <4>2. mailbox[r.id] # None => mailbox[r.id] \in Message
        BY <2>1, <3>1
      <4>3. /\ m \in Message \cup {None}
            /\ m # None => mailbox[r.id] # None /\ m.blob = mailbox[r.id].blob /\ m.key = mailbox[r.id].key
        BY <4>2 DEF Message
      <4> HIDE DEF m, r
      <4> QED BY <2>1, <3>1, <4>1, <4>3
    <3> QED BY <2>1, <3>2, <3>3
  <2>3. UNCHANGED <<rec, calls, svc, hangup, closes, told>>
    BY <1>0 DEF session
  <2>4. QueuesOK' /\ SecretIsStored' /\ RecordersRun' /\ EndedOnce'
    BY <1>0, <1>1, <2>2, <2>3 DEF QueuesOK, SecretIsStored, RecordersRun, EndedOnce
  <2>5. StoredIsHeard'
    BY <1>0, <2>2, <2>3 DEF StoredIsHeard
  <2>6. TypeOK'
    <3>1. /\ \A i \in DOMAIN ask' : ask'[i] \in Request
          /\ \A i \in DOMAIN reply' : reply'[i] \in Reply
      BY <2>4 DEF QueuesOK
    <3> QED BY <1>0, <2>2, <2>3, <3>1 DEF TypeOK
  <2> QED BY <2>4, <2>5, <2>6
<1> QED BY <1>2, <1>3

\* Every step keeps the invariant.
LEMMA StepInv == Inv /\ [Next]_vars => Inv'
<1> SUFFICES ASSUME Inv, [Next]_vars PROVE Inv'
  OBVIOUS
<1>1. CASE UNCHANGED vars
  BY <1>1, PhoneMoves DEF vars, phone, Inv, TypeOK, QueuesOK
<1>2. ASSUME NEW c \in Call,
             \/ HandleCall(c) \/ RecorderStep(c) \/ StartRecording(c) \/ Hangup(c) \/ HangupEnds(c)
             \/ HangupCloses(c) \/ NotifyVoicemailStored(c)
             \/ \E f \in Frame : Record(c, f)
             \/ \E what \in {"delete", "read"} : Tap(c, what)
      PROVE  Inv'
  BY <1>2, TakesTheCall, EndsTheCall, HangsUp, Records, Stores, PhoneInv DEF RecorderStep
<1>3. CASE EnsureMasterSecret \/ Crash \/ Connect \/ Drop \/ HandleRequest \/ PhoneReceives
  BY <1>3, Starts, Crashes, PhoneInv, RequestInv
<1> QED BY <1>1, <1>2, <1>3 DEF Next

\* The invariant holds in every state.
THEOREM Invariant == Spec => []Inv
BY InitInv, StepInv, PTL DEF Spec

\* The recorder, the table and the phone's queues have their types.
THEOREM TypeCorrect == Spec => []TypeOK
<1>1. Inv => TypeOK
  BY DEF Inv
<1> QED BY <1>1, Invariant, PTL

\* done is closed at most once for each session, whatever the order of the recorder that
\* reaches its limit and the caller who hangs up: EndCall takes the session out of the
\* map under l.mu, and only who found it closes it.
THEOREM SessionsCloseOnce == Spec => []ClosedOnce
<1>1. Inv => ClosedOnce
  BY DEF Inv, EndedOnce, ClosedOnce
<1> QED BY <1>1, Invariant, PTL

\* Every stored message plays, in the run that recorded it and in every later one that has
\* voicemail, as the frames that were heard, except for silence at the end, each in a page
\* that is one whole packet: for every message length, frame size and segment size.
THEOREM MessagesAlwaysPlay == Spec => []MessagesPlay
<1>1. ASSUME Inv, master # None, NEW c \in Messages
      PROVE  LET pages == HandleVoicemailGet(c)
                 spoken == rec[c].frames IN
             /\ pages # None /\ Len(pages) \in 1 .. Len(spoken)
             /\ \A i \in DOMAIN pages : pages[i].frame = spoken[i] /\ PageIsWhole(pages[i])
             /\ \A i \in Len(pages) + 1 .. Len(spoken) : spoken[i].silent
  <2> DEFINE spoken == rec[c].frames
             Page == [segs : Seq(Nat), frame : Frame, granule : Nat, last : BOOLEAN]
  <2>a. /\ c \in Call /\ mailbox[c] # None /\ spoken \in Seq(Frame)
        /\ Heard(mailbox[c].blob, spoken) /\ mailbox[c].key = master
    BY <1>1 DEF Messages, Inv, StoredIsHeard, SecretIsStored, TypeOK
  <2>1. PICK kept \in Kept(spoken) : kept # <<>> /\ mailbox[c].blob = SerializeFrames(kept)
    BY <2>a DEF Heard
  <2> DEFINE pages == BuildOgg(kept)
  <2>2. /\ kept \in Seq(Frame) /\ Len(kept) \in 1 .. Len(spoken)
        /\ \A i \in 1 .. Len(kept) : kept[i] = spoken[i]
        /\ \A i \in Len(kept) + 1 .. Len(spoken) : spoken[i].silent
    <3>1. CASE kept = TrimSilence(spoken)
      BY <2>a, <2>1, <3>1, Trimmed
    <3>2. CASE kept = spoken
      <4>1. Len(spoken) \in Nat \ {0}
        BY <2>a, <2>1, <3>2, EmptySeq
      <4> QED BY <2>a, <3>2, <4>1
    <3> QED BY <2>1, <3>1, <3>2 DEF Kept
  <2>3. DeserializeFrames(mailbox[c].blob) = kept
    <3>1. /\ SerializeFrames(kept) \in Seq(Byte)
          /\ \E pos : Positions(kept, SerializeFrames(kept), pos)
      BY <2>1, <2>2, SerializePositions
    <3> QED BY <2>1, <2>2, <3>1, ReadBack
  <2>4. HandleVoicemailGet(c) = pages
    BY <2>a, <2>1, <2>3 DEF HandleVoicemailGet, GetVoicemail, RenderOgg
  <2>5. DOMAIN kept = 1 .. Len(kept) /\ Len(kept) \in Nat /\ \A i \in 1 .. Len(kept) : kept[i] \in Frame
    BY <2>2
  <2>6. pages = [i \in 1 .. Len(kept) |-> PageOf(kept, i)]
    BY <2>5 DEF BuildOgg, PageOf
  <2>7. ASSUME NEW i \in 1 .. Len(kept)
        PROVE  pages[i] \in Page /\ pages[i].frame = spoken[i] /\ PageIsWhole(pages[i])
    <3> HIDE DEF pages, spoken, Page
    <3>1. pages[i] = PageOf(kept, i) /\ kept[i] = spoken[i] /\ kept[i] \in Frame
      BY <2>2, <2>5, <2>6
    <3>2. /\ pages[i] \in Page /\ pages[i].frame = kept[i]
          /\ pages[i].segs = SegmentTable(kept[i].len)
      BY <2>2, <3>1, PageShape DEF Page
    <3> QED BY <3>1, <3>2, PagesAreWhole
  <2>8. pages \in Seq(Page) /\ Len(pages) = Len(kept)
    <3> HIDE DEF pages, Page
    <3>1. \A i \in 1 .. Len(kept) : PageOf(kept, i) \in Page
      BY <2>6, <2>7
    <3> QED BY <2>5, <2>6, <3>1
  <2>9. pages # None
    <3>1. None \notin Seq(Page)
      BY VoicemailAssumption
    <3> HIDE DEF pages, Page
    <3> QED BY <2>8, <3>1
  <2>10. DOMAIN pages = 1 .. Len(kept)
    <3> HIDE DEF pages
    <3> QED BY <2>6
  <2> HIDE DEF pages, spoken, Page
  <2>11. /\ pages # None /\ Len(pages) \in 1 .. Len(spoken)
         /\ \A i \in DOMAIN pages : pages[i].frame = spoken[i] /\ PageIsWhole(pages[i])
         /\ \A i \in Len(pages) + 1 .. Len(spoken) : spoken[i].silent
    BY <2>2, <2>7, <2>8, <2>9, <2>10
  <2> QED BY <2>4, <2>11, Zenon DEF spoken
<1>2. Inv => MessagesPlay
  BY <1>1 DEF MessagesPlay
<1> QED BY <1>2, Invariant, PTL
=============================================================================
