---------------------------- MODULE ShmRing_proofs ----------------------------
(***************************************************************************)
(* Proofs about ShmRing, for every capacity and every set of messages.      *)
(*                                                                          *)
(* S lists the offsets at which the entries begin, and at its end the       *)
(* writer's head: entry k lies at S[k] .. S[k + 1] - 1 of the stream.  Both *)
(* published pointers are elements of S, so that a reader between two       *)
(* entries is at the beginning of one, and the window from the reader's     *)
(* tail to the writer's head is no longer than the ring, so that the cells  *)
(* in it are at different positions.                                        *)
(***************************************************************************)
EXTENDS ShmRing, TLAPS, SequenceTheorems

USE DEF whead

Laid(S) ==
  /\ Len(S) = Len(sent) + 1
  /\ S[1] = 0 /\ S[Len(sent) + 1] = Len(stream)
  /\ \A i, j \in 1 .. Len(S) : i <= j => S[i] <= S[j]
  /\ \A k \in 1 .. Len(sent) :
       /\ S[k + 1] = S[k] + Size[sent[k]]
       /\ \A i \in 1 .. Size[sent[k]] : stream[S[k] + i] = <<sent[k], i>>

Published == Len(sent) - Len(heads)   \* number of entries head has passed

HeadsInv(S) ==
  /\ Published \in Nat
  /\ head = S[Published + 1]
  /\ \A j \in 1 .. Len(heads) : heads[j] = S[Published + 1 + j]

ReaderInv(S) ==
  /\ Len(received) <= Published
  /\ rtail = S[Len(received) + 1]
  /\ rpc = "idle" => got = <<>>
  /\ rpc = "reading" =>
       /\ Len(received) < Published
       /\ Len(got) <= Size[sent[Len(received) + 1]]
       /\ \A i \in 1 .. Len(got) : got[i] = <<sent[Len(received) + 1], i>>

StoresInv ==
  /\ NoOverrun
  /\ tail <= rtail
  /\ \A j \in 1 .. Len(tails) : tails[j] <= rtail
  /\ \A o \in left : head <= o
  /\ \A o \in rtail .. whead - 1 : o \notin left => mem[Pos(o)] = stream[o + 1]

RingInv ==
  /\ RingTypeOK
  /\ StoresInv
  /\ \E S \in Seq(Nat) : Laid(S) /\ HeadsInv(S) /\ ReaderInv(S)
-----------------------------------------------------------------------------
(* Arithmetic and contents.                                                  *)

LEMMA PosInRing ==
  ASSUME NEW o \in Nat
  PROVE  Pos(o) \in 0 .. Capacity - 1
BY CapacityAssumption DEF Pos

\* Offsets less than a ring apart are at different positions.
LEMMA PosApart ==
  ASSUME NEW a \in Nat, NEW b \in Nat, a # b, a - b < Capacity, b - a < Capacity
  PROVE  Pos(a) # Pos(b)
<1>1. SUFFICES ASSUME NEW x \in Nat, NEW y \in Nat, x < y, y - x < Capacity,
                      Pos(x) = Pos(y)
               PROVE  FALSE
  <2>1. a < b \/ b < a
    OBVIOUS
  <2> QED BY <1>1, <2>1
<1> DEFINE qx == x \div Capacity
           qy == y \div Capacity
<1>2. /\ qx \in Int /\ qy \in Int /\ Capacity \in Nat /\ Capacity > 0
      /\ x = Capacity * qx + Pos(x)
      /\ y = Capacity * qy + Pos(y)
      /\ Pos(x) \in Int /\ Pos(y) \in Int
  BY CapacityAssumption DEF Pos
<1> HIDE DEF qx, qy
<1>3. y - x = Capacity * (qy - qx)
  BY <1>1, <1>2
<1>4. qy - qx >= 1 => Capacity * (qy - qx) >= Capacity
  BY <1>2
<1>5. qy - qx <= 0 => Capacity * (qy - qx) <= 0
  BY <1>2
<1> QED BY <1>1, <1>2, <1>3, <1>4, <1>5

LEMMA OffsetInEntry ==
  ASSUME NEW a \in Nat, NEW z \in Nat, NEW w \in Nat, a + z <= w, NEW i \in 1 .. z
  PROVE  a + i - 1 \in 0 .. w - 1 /\ (a + i - 1) + 1 = a + i
OBVIOUS

LEMMA CellFacts ==
  ASSUME NEW m \in Messages
  PROVE  /\ Size[m] \in Nat \ {0}
         /\ Len(Entry(m)) = Size[m]
         /\ Entry(m) \in Seq(Contents \ {Blank})
         /\ \A i \in 1 .. Size[m] : Entry(m)[i] = <<m, i>>
         /\ \A i \in 1 .. Size[m] : <<m, i>> \in Contents \ {Blank}
         /\ \A i \in 1 .. Size[m] : Cells(<<m, i>>) = Size[m]
<1>1. Size[m] \in Nat \ {0}
  BY SizeAssumption
<1>2. \A i : <<m, i>> # Blank /\ <<m, i>>[1] = m
  <2> TAKE i
  <2>1. Len(<<m, i>>) = 2 /\ Len(Blank) = 0
    BY DEF Blank
  <2> QED BY <2>1
<1>3. \A i \in 1 .. Size[m] : <<m, i>> \in Contents \ {Blank}
  BY <1>2 DEF Contents
<1>4. \A i : Cells(<<m, i>>) = Size[m]
  BY <1>2 DEF Cells
<1>5. Entry(m) \in Seq(Contents \ {Blank}) /\ Len(Entry(m)) = Size[m]
  BY <1>1, <1>3 DEF Entry
<1>6. \A i \in 1 .. Size[m] : Entry(m)[i] = <<m, i>>
  BY DEF Entry
<1> QED BY <1>1, <1>3, <1>4, <1>5, <1>6

LEMMA TypeFacts ==
  ASSUME RingTypeOK
  PROVE  /\ whead \in Nat /\ head \in Nat /\ tail \in Nat /\ rtail \in Nat
         /\ Len(sent) \in Nat /\ Len(received) \in Nat /\ Len(heads) \in Nat
         /\ Len(got) \in Nat /\ Len(tails) \in Nat
         /\ DOMAIN stream = 1 .. whead
         /\ \A k \in 1 .. Len(sent) : sent[k] \in Messages /\ Size[sent[k]] \in Nat \ {0}
         /\ \A o \in 0 .. whead - 1 : stream[o + 1] \in Contents \ {Blank}
         /\ Capacity \in Nat \ {0}
BY CapacityAssumption, SizeAssumption DEF RingTypeOK

\* The entry the reader is in lies between its tail and head.
LEMMA NextEntry ==
  ASSUME RingInv, NEW S \in Seq(Nat), Laid(S), HeadsInv(S), ReaderInv(S),
         Len(received) < Published
  PROVE  LET k == Len(received) + 1
         IN /\ k \in 1 .. Len(sent) /\ sent[k] \in Messages
            /\ Size[sent[k]] \in Nat \ {0}
            /\ S[k + 1] = rtail + Size[sent[k]] /\ S[k + 1] <= head
            /\ \A i \in 1 .. Size[sent[k]] :
                 stream[rtail + i] = <<sent[k], i>>
<1> DEFINE k == Len(received) + 1
<1>1. /\ k \in 1 .. Len(sent) /\ k + 1 \in 1 .. Len(S) /\ Published + 1 \in 1 .. Len(S)
      /\ k <= Published /\ Published \in Nat
  <2>1. Len(received) \in Nat /\ Len(sent) \in Nat /\ Len(heads) \in Nat
    BY TypeFacts DEF RingInv
  <2>2. Len(S) = Len(sent) + 1 /\ Published \in Nat
    BY DEF Laid, HeadsInv
  <2>3. Published <= Len(sent)
    BY <2>1 DEF Published
  <2> QED BY <2>1, <2>2, <2>3
<1>2. sent[k] \in Messages /\ Size[sent[k]] \in Nat \ {0}
  BY <1>1, TypeFacts DEF RingInv
<1>3. rtail = S[k] /\ head = S[Published + 1]
  BY DEF ReaderInv, HeadsInv
<1>4. S[k + 1] <= S[Published + 1]
  BY <1>1 DEF Laid
<1> QED BY <1>1, <1>2, <1>3, <1>4 DEF Laid
-----------------------------------------------------------------------------
(* The steps.                                                                *)

LEMMA RingInit == Init => RingInv
<1> SUFFICES ASSUME Init PROVE RingInv
  OBVIOUS
<1>1. RingTypeOK
  <2>1. Blank \in Contents
    BY DEF Contents
  <2> QED BY <2>1, CapacityAssumption DEF Init, RingTypeOK
<1>2. StoresInv
  BY CapacityAssumption DEF Init, StoresInv, NoOverrun
<1>3. <<0>> \in Seq(Nat) /\ Len(<<0>>) = 1 /\ <<0>>[1] = 0
  OBVIOUS
<1>4. Laid(<<0>>) /\ HeadsInv(<<0>>) /\ ReaderInv(<<0>>)
  BY <1>3 DEF Init, Laid, HeadsInv, ReaderInv, Published
<1> QED BY <1>1, <1>2, <1>3, <1>4 DEF RingInv

LEMMA WriteKeepsInv ==
  ASSUME RingInv, NEW m \in Messages, Write(m)
  PROVE  RingInv'
<1> PICK S \in Seq(Nat) : Laid(S) /\ HeadsInv(S) /\ ReaderInv(S)
  BY DEF RingInv
<1>1. /\ Capacity - (whead - tail) >= Size[m]
      /\ sent' = Append(sent, m)
      /\ stream' = stream \o Entry(m)
      /\ left' = left \cup (whead .. whead + Size[m] - 1)
      /\ heads' = Append(heads, whead + Size[m])
      /\ UNCHANGED <<mem, head, tail, rtail, tails, rpc, got, received>>
  BY DEF Write, Available, reader
<1>2. RingTypeOK /\ Size[m] \in Nat \ {0} /\ whead \in Nat
  BY CellFacts, TypeFacts DEF RingInv
<1>3. /\ stream' \in Seq(Contents \ {Blank}) /\ Len(stream') = whead + Size[m]
      /\ \A o \in 0 .. whead - 1 : stream'[o + 1] = stream[o + 1]
      /\ \A i \in 1 .. Size[m] : stream'[whead + i] = <<m, i>>
  <2>1. /\ stream \in Seq(Contents \ {Blank}) /\ Entry(m) \in Seq(Contents \ {Blank})
        /\ Len(Entry(m)) = Size[m]
    BY <1>2, CellFacts DEF RingTypeOK
  <2>2. /\ stream' \in Seq(Contents \ {Blank}) /\ Len(stream') = whead + Size[m]
        /\ \A i \in 1 .. whead + Size[m] :
             stream'[i] = IF i <= whead THEN stream[i] ELSE Entry(m)[i - whead]
    BY <1>1, <2>1, ConcatProperties
  <2>3. ASSUME NEW i \in 1 .. Size[m] PROVE stream'[whead + i] = <<m, i>>
    <3>1. whead + i \in 1 .. whead + Size[m] /\ ~(whead + i <= whead) /\ (whead + i) - whead = i
      BY <1>2
    <3> QED BY <2>2, <3>1, CellFacts
  <2>4. ASSUME NEW o \in 0 .. whead - 1 PROVE stream'[o + 1] = stream[o + 1]
    <3>1. o + 1 \in 1 .. whead + Size[m] /\ o + 1 <= whead
      BY <1>2
    <3> QED BY <2>2, <3>1
  <2> QED BY <2>2, <2>3, <2>4
<1>4. /\ sent' \in Seq(Messages) /\ Len(sent') = Len(sent) + 1
      /\ \A k \in 1 .. Len(sent) : sent'[k] = sent[k]
      /\ sent'[Len(sent) + 1] = m
      /\ heads' \in Seq(Nat) /\ Len(heads') = Len(heads) + 1
      /\ \A j \in 1 .. Len(heads) : heads'[j] = heads[j]
      /\ heads'[Len(heads) + 1] = whead + Size[m]
  BY <1>1, <1>2 DEF RingTypeOK
<1> PICK T : T = Append(S, whead + Size[m])
  OBVIOUS
<1>5. /\ T \in Seq(Nat) /\ Len(T) = Len(S) + 1
      /\ \A i \in 1 .. Len(S) : T[i] = S[i] /\ S[i] \in Nat /\ S[i] <= whead
      /\ T[Len(S) + 1] = whead + Size[m]
      /\ Len(S) = Len(sent) + 1 /\ Len(sent) \in Nat
  <2>1. Len(S) = Len(sent) + 1 /\ Len(sent) \in Nat /\ Len(S) \in Nat
    BY <1>2, TypeFacts DEF Laid
  <2>2. \A i \in 1 .. Len(S) : S[i] \in Nat /\ S[i] <= whead
    <3> TAKE i \in 1 .. Len(S)
    <3>1. Len(sent) + 1 \in 1 .. Len(S) /\ i <= Len(sent) + 1
      BY <2>1
    <3>2. S[i] <= S[Len(sent) + 1]
      BY <3>1 DEF Laid
    <3> QED BY <3>2 DEF Laid
  <2>3. whead + Size[m] \in Nat
    BY <1>2
  <2> QED BY <2>1, <2>2, <2>3
<1>6. RingTypeOK'
  <2>1. left' \subseteq 0 .. Len(stream') - 1
    <3> SUFFICES ASSUME NEW o \in left' PROVE o \in 0 .. Len(stream') - 1
      OBVIOUS
    <3>1. o \in 0 .. whead - 1 \/ o \in whead .. whead + Size[m] - 1
      BY <1>1, <1>2 DEF RingTypeOK
    <3> QED BY <1>2, <1>3, <3>1
  <2> QED BY <1>1, <1>2, <1>3, <1>4, <2>1 DEF RingTypeOK
<1>7. StoresInv'
  <2>1. NoOverrun'
    <3>1. /\ rtail <= head /\ head <= whead /\ whead - rtail <= Capacity /\ tail <= rtail
          /\ rtail \in Nat /\ head \in Nat /\ tail \in Nat /\ Capacity \in Nat
      BY <1>2, TypeFacts DEF RingInv, StoresInv, NoOverrun
    <3>2. rtail <= head /\ head <= whead + Size[m] /\ (whead + Size[m]) - rtail <= Capacity
      BY <1>1, <1>2, <3>1
    <3> QED BY <1>1, <1>3, <3>2 DEF NoOverrun
  <2>2. \A o \in left' : head' <= o
    BY <1>1, <1>2, TypeFacts DEF RingInv, StoresInv, NoOverrun
  <2>3. ASSUME NEW o \in rtail' .. Len(stream') - 1, o \notin left'
        PROVE  mem'[Pos(o)] = stream'[o + 1]
    <3>1. o \in rtail .. whead - 1 /\ o \in 0 .. whead - 1 /\ o \notin left
      <4>1. rtail \in Nat
        BY <1>2, TypeFacts
      <4>2. /\ o \in rtail .. whead + Size[m] - 1 /\ o \notin left
            /\ o \notin whead .. whead + Size[m] - 1
        <5>1. rtail' = rtail /\ Len(stream') = whead + Size[m]
          BY <1>1, <1>3
        <5>2. o \notin left /\ o \notin whead .. whead + Size[m] - 1
          BY <1>1, <2>3
        <5>3. o \in rtail' .. Len(stream') - 1
          OBVIOUS
        <5> QED BY <1>2, <4>1, <5>1, <5>2, <5>3
      <4> QED BY <1>2, <4>1, <4>2
    <3> QED BY <1>1, <1>3, <3>1 DEF RingInv, StoresInv
  <2> QED BY <1>1, <2>1, <2>2, <2>3 DEF RingInv, StoresInv
<1>8. Laid(T)'
  <2>1. \A i, j \in 1 .. Len(T) : i <= j => T[i] <= T[j]
    <3> SUFFICES ASSUME NEW i \in 1 .. Len(T), NEW j \in 1 .. Len(T), i <= j
                 PROVE  T[i] <= T[j]
      OBVIOUS
    <3>1. CASE j = Len(S) + 1
      <4>1. T[i] <= whead + Size[m]
        BY <1>2, <1>5
      <4> QED BY <1>5, <3>1, <4>1
    <3>2. CASE j \in 1 .. Len(S)
      <4>1. i \in 1 .. Len(S)
        BY <3>2
      <4> QED BY <1>5, <3>2, <4>1 DEF Laid
    <3> QED BY <1>5, <3>1, <3>2
  <2>2. ASSUME NEW k \in 1 .. Len(sent')
        PROVE  /\ T[k + 1] = T[k] + Size[sent'[k]]
               /\ \A i \in 1 .. Size[sent'[k]] : stream'[T[k] + i] = <<sent'[k], i>>
    <3>1. CASE k = Len(sent) + 1
      <4>1. /\ T[k + 1] = whead + Size[m] /\ T[k] = S[Len(sent) + 1] /\ sent'[k] = m
        BY <1>4, <1>5, <3>1
      <4>2. T[k] = whead
        BY <4>1 DEF Laid
      <4> QED BY <1>3, <4>1, <4>2
    <3>2. CASE k \in 1 .. Len(sent)
      <4>1. /\ T[k] = S[k] /\ T[k + 1] = S[k + 1] /\ sent'[k] = sent[k]
            /\ S[k] \in Nat /\ S[k + 1] <= whead /\ Size[sent[k]] \in Nat
            /\ S[k + 1] = S[k] + Size[sent[k]]
        <5>1. k \in 1 .. Len(S) /\ k + 1 \in 1 .. Len(S)
          BY <1>5, <3>2
        <5>2. Size[sent[k]] \in Nat
          BY <1>2, <3>2, TypeFacts
        <5> QED BY <1>4, <1>5, <3>2, <5>1, <5>2 DEF Laid
      <4>2. ASSUME NEW i \in 1 .. Size[sent[k]]
            PROVE  stream'[S[k] + i] = <<sent[k], i>>
        <5>1. S[k] + i - 1 \in 0 .. whead - 1 /\ (S[k] + i - 1) + 1 = S[k] + i
          <6>1. S[k] + Size[sent[k]] <= whead
            BY <4>1
          <6>2. S[k] \in Nat /\ Size[sent[k]] \in Nat /\ whead \in Nat
            BY <1>2, <4>1
          <6> QED BY <6>1, <6>2, OffsetInEntry
        <5>2. stream'[S[k] + i] = stream[S[k] + i]
          BY <1>3, <5>1
        <5> QED BY <3>2, <5>2 DEF Laid
      <4> QED BY <4>1, <4>2
    <3>3. k = Len(sent) + 1 \/ k \in 1 .. Len(sent)
      BY <1>4, <1>5
    <3> QED BY <3>1, <3>2, <3>3
  <2>3. Len(T) = Len(sent') + 1 /\ T[1] = 0 /\ T[Len(sent') + 1] = Len(stream')
    BY <1>3, <1>4, <1>5 DEF Laid
  <2> QED BY <2>1, <2>2, <2>3 DEF Laid
<1>9. Published' = Published /\ Published \in Nat /\ Published <= Len(sent) /\ Len(heads) \in Nat
  BY <1>2, <1>4, TypeFacts DEF Published, HeadsInv
<1>10. HeadsInv(T)'
  <2>1. head' = T[Published' + 1]
    BY <1>1, <1>5, <1>9 DEF HeadsInv
  <2>2. ASSUME NEW j \in 1 .. Len(heads') PROVE heads'[j] = T[Published' + 1 + j]
    <3>1. CASE j = Len(heads) + 1
      <4>1. Published + 1 + j = Len(S) + 1
        BY <1>5, <1>9, <3>1 DEF Published
      <4> QED BY <1>4, <1>5, <1>9, <3>1, <4>1
    <3>2. CASE j \in 1 .. Len(heads)
      <4>1. Published + 1 + j \in 1 .. Len(S)
        BY <1>5, <1>9, <3>2 DEF Published
      <4> QED BY <1>4, <1>5, <1>9, <3>2, <4>1 DEF HeadsInv
    <3>3. j = Len(heads) + 1 \/ j \in 1 .. Len(heads)
      BY <1>4, <1>9
    <3> QED BY <3>1, <3>2, <3>3
  <2> QED BY <1>9, <2>1, <2>2 DEF HeadsInv
<1>11. ReaderInv(T)'
  <2>1. Len(received) \in Nat /\ Len(received) + 1 \in 1 .. Len(S)
    <3>1. Len(received) \in Nat /\ Len(received) <= Published
      BY <1>2, TypeFacts DEF ReaderInv
    <3> QED BY <1>5, <1>9, <3>1
  <2>2. Len(received) < Published => sent'[Len(received) + 1] = sent[Len(received) + 1]
    <3>1. Len(received) < Published => Len(received) + 1 \in 1 .. Len(sent)
      BY <1>5, <1>9, <2>1
    <3> QED BY <1>4, <3>1
  <2> QED BY <1>1, <1>5, <1>9, <2>1, <2>2 DEF ReaderInv
<1>12. T \in Seq(Nat)
  BY <1>5
<1> QED BY <1>6, <1>7, <1>8, <1>10, <1>11, <1>12 DEF RingInv

\* Steps that leave the writer's stream alone keep the layout.
LEMMA LaidStays ==
  ASSUME NEW S, Laid(S), UNCHANGED <<sent, stream>>
  PROVE  Laid(S)'
BY DEF Laid

LEMMA CellLandsKeepsInv ==
  ASSUME RingInv, NEW o \in left, CellLands(o)
  PROVE  RingInv'
<1> PICK S \in Seq(Nat) : Laid(S) /\ HeadsInv(S) /\ ReaderInv(S)
  BY DEF RingInv
<1>1. /\ mem' = [mem EXCEPT ![Pos(o)] = stream[o + 1]]
      /\ left' = left \ {o}
      /\ UNCHANGED <<head, tail, stream, heads, sent, rtail, tails, rpc, got, received>>
  BY DEF CellLands, reader
<1>2. /\ o \in Nat /\ o < whead /\ head <= o /\ rtail <= o
      /\ whead - rtail <= Capacity /\ whead \in Nat /\ rtail \in Nat /\ Capacity \in Nat
  <2>1. o \in 0 .. whead - 1 /\ head <= o
    BY DEF RingInv, RingTypeOK, StoresInv
  <2> QED BY <2>1, TypeFacts DEF RingInv, StoresInv, NoOverrun
<1>3. RingTypeOK'
  <2>1. stream[o + 1] \in Contents
    BY <1>2, TypeFacts DEF RingInv
  <2> QED BY <1>1, <2>1 DEF RingInv, RingTypeOK
<1>4. StoresInv'
  <2>1. ASSUME NEW p \in rtail .. whead - 1, p \notin left'
        PROVE  mem'[Pos(p)] = stream[p + 1]
    <3>1. CASE p = o
      BY <1>1, <1>2, <3>1, PosInRing DEF RingInv, RingTypeOK
    <3>2. CASE p # o
      <4>1. Pos(p) # Pos(o) /\ p \in Nat
        BY <1>2, <3>2, PosApart
      <4>2. mem'[Pos(p)] = mem[Pos(p)]
        BY <1>1, <4>1, PosInRing DEF RingInv, RingTypeOK
      <4> QED BY <1>1, <2>1, <3>2, <4>2 DEF RingInv, StoresInv
    <3> QED BY <3>1, <3>2
  <2> QED BY <1>1, <2>1 DEF RingInv, StoresInv, NoOverrun
<1>5. HeadsInv(S)' /\ ReaderInv(S)'
  BY <1>1 DEF HeadsInv, ReaderInv, Published
<1> QED BY <1>1, <1>3, <1>4, <1>5, LaidStays DEF RingInv

LEMMA HeadLandsKeepsInv ==
  ASSUME RingInv, HeadLands
  PROVE  RingInv'
<1> PICK S \in Seq(Nat) : Laid(S) /\ HeadsInv(S) /\ ReaderInv(S)
  BY DEF RingInv
<1>1. /\ heads # <<>> /\ \A o \in left : o >= Head(heads)
      /\ head' = Head(heads) /\ heads' = Tail(heads)
      /\ UNCHANGED <<mem, tail, stream, left, sent, rtail, tails, rpc, got, received>>
  BY DEF HeadLands, reader
<1>2. /\ heads \in Seq(Nat) /\ Len(heads) \in Nat \ {0}
      /\ Head(heads) = heads[1] /\ heads[1] \in Nat
      /\ Tail(heads) \in Seq(Nat) /\ Len(Tail(heads)) = Len(heads) - 1
      /\ \A j \in 1 .. Len(heads) - 1 : Tail(heads)[j] = heads[j + 1]
  BY <1>1 DEF RingInv, RingTypeOK
<1>3. /\ Published' = Published + 1 /\ Published \in Nat /\ Published' <= Len(sent)
      /\ Len(S) = Len(sent) + 1 /\ Len(sent) \in Nat
  BY <1>1, <1>2, TypeFacts DEF RingInv, Published, HeadsInv, Laid
<1>4. /\ head' = S[Published + 2]
      /\ Published + 1 \in 1 .. Len(S) /\ Published + 2 \in 1 .. Len(S)
  <2>1. heads[1] = S[Published + 1 + 1]
    BY <1>2 DEF HeadsInv
  <2> QED BY <1>1, <1>2, <1>3, <2>1
<1>5. head <= head' /\ head' <= whead
  <2>1. /\ S[Published + 1] <= S[Published + 2]
        /\ S[Published + 2] <= S[Len(sent) + 1]
    BY <1>3, <1>4 DEF Laid
  <2> QED BY <1>4, <2>1 DEF HeadsInv, Laid
<1>6. RingTypeOK'
  BY <1>1, <1>2 DEF RingInv, RingTypeOK
<1>7. StoresInv'
  BY <1>1, <1>2, <1>5, TypeFacts DEF RingInv, RingTypeOK, StoresInv, NoOverrun
<1>8. HeadsInv(S)'
  <2>1. ASSUME NEW j \in 1 .. Len(heads') PROVE heads'[j] = S[Published' + 1 + j]
    <3>1. j + 1 \in 1 .. Len(heads) /\ heads'[j] = heads[j + 1]
      BY <1>1, <1>2
    <3>2. heads[j + 1] = S[Published + 1 + (j + 1)]
      BY <3>1 DEF HeadsInv
    <3> QED BY <1>3, <3>1, <3>2
  <2> QED BY <1>3, <1>4, <2>1 DEF HeadsInv
<1>9. ReaderInv(S)'
  <2>1. Len(received) \in Nat /\ Len(received') = Len(received)
    BY <1>1, TypeFacts DEF RingInv
  <2>2. Len(received) <= Published /\ Len(received) < Published => Len(received) < Published'
    BY <1>3, <2>1
  <2>3. Len(received) <= Published'
    BY <1>3, <2>1 DEF ReaderInv
  <2> QED BY <1>1, <2>1, <2>2, <2>3 DEF ReaderInv
<1> QED BY <1>1, <1>6, <1>7, <1>8, <1>9, LaidStays DEF RingInv

LEMMA ReadBeginsKeepsInv ==
  ASSUME RingInv, ReadBegins
  PROVE  RingInv'
<1> PICK S \in Seq(Nat) : Laid(S) /\ HeadsInv(S) /\ ReaderInv(S)
  BY DEF RingInv
<1>1. /\ rpc = "idle" /\ head - rtail >= 1 /\ rpc' = "reading"
      /\ UNCHANGED <<mem, head, tail, stream, left, heads, sent, rtail, tails, got, received>>
  BY DEF ReadBegins, writer
<1>2. RingTypeOK' /\ StoresInv' /\ HeadsInv(S)'
  BY <1>1 DEF RingInv, RingTypeOK, StoresInv, NoOverrun, HeadsInv, Published
<1>3. Len(received) < Published
  <2>1. Len(received) # Published
    BY <1>1, TypeFacts DEF RingInv, HeadsInv, ReaderInv
  <2> QED BY <2>1, TypeFacts DEF RingInv, HeadsInv, ReaderInv
<1>4. Len(got) = 0 /\ Size[sent[Len(received) + 1]] \in Nat
  BY <1>1, <1>3, NextEntry DEF ReaderInv
<1>5. ReaderInv(S)'
  BY <1>1, <1>3, <1>4 DEF ReaderInv, Published
<1> QED BY <1>1, <1>2, <1>5, LaidStays DEF RingInv

LEMMA ReadsCellKeepsInv ==
  ASSUME RingInv, ReadsCell
  PROVE  RingInv'
<1> PICK S \in Seq(Nat) : Laid(S) /\ HeadsInv(S) /\ ReaderInv(S)
  BY DEF RingInv
<1> DEFINE m == sent[Len(received) + 1]
<1>1. /\ rpc = "reading"
      /\ got # <<>> => Len(got) < Cells(got[1])
      /\ got' = Append(got, mem[Pos(rtail + Len(got))])
      /\ UNCHANGED <<mem, head, tail, stream, left, heads, sent, rtail, tails, rpc, received>>
  BY DEF ReadsCell, writer
<1>2. /\ Len(received) < Published /\ Len(got) <= Size[m]
      /\ \A i \in 1 .. Len(got) : got[i] = <<m, i>>
  BY <1>1 DEF ReaderInv
<1>3. /\ m \in Messages /\ Size[m] \in Nat \ {0} /\ rtail + Size[m] <= head
      /\ \A i \in 1 .. Size[m] : stream[rtail + i] = <<m, i>>
  BY <1>2, NextEntry
<1>4. got \in Seq(Contents \ {Blank}) /\ Len(got) \in Nat /\ rtail \in Nat /\ head <= whead
      /\ whead \in Nat /\ head \in Nat
  BY TypeFacts DEF RingInv, RingTypeOK, StoresInv, NoOverrun
<1>5. Len(got) < Size[m]
  <2>1. CASE got = <<>>
    BY <1>3, <2>1
  <2>2. CASE got # <<>>
    <3>1. got[1] = <<m, 1>> /\ 1 \in 1 .. Size[m]
      BY <1>2, <1>3, <1>4, <2>2
    <3> QED BY <1>1, <1>3, <2>2, <3>1, CellFacts
  <2> QED BY <2>1, <2>2
<1>6. mem[Pos(rtail + Len(got))] = <<m, Len(got) + 1>>
  <2>1. /\ rtail + Len(got) \in rtail .. whead - 1 /\ rtail + Len(got) < head
        /\ (rtail + Len(got)) + 1 = rtail + (Len(got) + 1)
        /\ Len(got) + 1 \in 1 .. Size[m]
    BY <1>3, <1>4, <1>5
  <2>2. rtail + Len(got) \notin left
    BY <1>4, <2>1 DEF RingInv, StoresInv, RingTypeOK
  <2>3. mem[Pos(rtail + Len(got))] = stream[(rtail + Len(got)) + 1]
    BY <2>1, <2>2 DEF RingInv, StoresInv
  <2> QED BY <1>3, <2>1, <2>3
<1>7. <<m, Len(got) + 1>> \in Contents \ {Blank}
  BY <1>3, <1>4, <1>5, CellFacts
<1>8. /\ got' \in Seq(Contents \ {Blank}) /\ Len(got') = Len(got) + 1
      /\ \A i \in 1 .. Len(got') : got'[i] = <<m, i>>
  <2>1. got' = Append(got, <<m, Len(got) + 1>>)
    BY <1>1, <1>6
  <2>2. /\ got' \in Seq(Contents \ {Blank}) /\ Len(got') = Len(got) + 1
        /\ \A i \in 1 .. Len(got) : got'[i] = got[i]
        /\ got'[Len(got) + 1] = <<m, Len(got) + 1>>
    BY <1>4, <1>7, <2>1
  <2>3. ASSUME NEW i \in 1 .. Len(got') PROVE got'[i] = <<m, i>>
    <3>1. i \in 1 .. Len(got) \/ i = Len(got) + 1
      BY <1>4, <2>2
    <3> QED BY <1>2, <2>2, <3>1
  <2> QED BY <2>2, <2>3
<1>9. RingTypeOK'
  BY <1>1, <1>8 DEF RingInv, RingTypeOK
<1>10. StoresInv' /\ HeadsInv(S)'
  BY <1>1 DEF RingInv, StoresInv, NoOverrun, HeadsInv, Published
<1>11. ReaderInv(S)'
  <2>1. Len(got') <= Size[m] /\ Published' = Published
    BY <1>1, <1>3, <1>4, <1>5, <1>8 DEF Published
  <2> QED BY <1>1, <1>2, <1>8, <2>1 DEF ReaderInv
<1> QED BY <1>1, <1>9, <1>10, <1>11, LaidStays DEF RingInv

\* What read() returns is the next entry, whole.
LEMMA ReturnsEntry ==
  ASSUME RingInv, ReadReturns
  PROVE  /\ Len(received) + 1 \in 1 .. Len(sent)
         /\ got = Entry(sent[Len(received) + 1])
<1> PICK S \in Seq(Nat) : Laid(S) /\ HeadsInv(S) /\ ReaderInv(S)
  BY DEF RingInv
<1> DEFINE m == sent[Len(received) + 1]
<1>1. /\ rpc = "reading" /\ got # <<>> /\ Len(got) = Cells(got[1])
      /\ Len(received) < Published
      /\ \A i \in 1 .. Len(got) : got[i] = <<m, i>>
  BY DEF ReadReturns, ReaderInv
<1>2. m \in Messages /\ Size[m] \in Nat \ {0} /\ Len(received) + 1 \in 1 .. Len(sent)
  BY <1>1, NextEntry
<1>3. got \in Seq(Contents \ {Blank}) /\ Len(got) \in Nat \ {0}
  BY <1>1 DEF RingInv, RingTypeOK
<1>4. Len(got) = Size[m]
  <2>1. got[1] = <<m, 1>> /\ 1 \in 1 .. Size[m]
    BY <1>1, <1>2, <1>3
  <2> QED BY <1>1, <1>2, <2>1, CellFacts
<1>5. got = [i \in 1 .. Len(got) |-> got[i]]
  BY <1>3
<1>6. got = Entry(m)
  BY <1>1, <1>4, <1>5 DEF Entry
<1> QED BY <1>2, <1>6

LEMMA ReadReturnsKeepsInv ==
  ASSUME RingInv, ReadReturns
  PROVE  RingInv'
<1> PICK S \in Seq(Nat) : Laid(S) /\ HeadsInv(S) /\ ReaderInv(S)
  BY DEF RingInv
<1> DEFINE m == sent[Len(received) + 1]
<1>1. /\ rpc = "reading" /\ rpc' = "idle" /\ got' = <<>>
      /\ received' = Append(received, got)
      /\ rtail' = rtail + Len(got) /\ tails' = Append(tails, rtail + Len(got))
      /\ UNCHANGED <<mem, head, tail, stream, left, heads, sent>>
  BY DEF ReadReturns, writer
<1>2. /\ got = Entry(m) /\ m \in Messages /\ Size[m] \in Nat \ {0} /\ Len(got) = Size[m]
      /\ Len(received) < Published
      /\ S[Len(received) + 2] = rtail + Size[m] /\ rtail + Size[m] <= head
  <2>1. Len(received) < Published /\ got = Entry(m)
    BY <1>1, ReturnsEntry DEF ReaderInv
  <2>2. m \in Messages /\ Size[m] \in Nat \ {0}
        /\ S[Len(received) + 1 + 1] = rtail + Size[m] /\ rtail + Size[m] <= head
    BY <2>1, NextEntry
  <2> QED BY <2>1, <2>2, CellFacts, TypeFacts DEF RingInv
<1>3. /\ received' \in Seq(Seq(Contents \ {Blank})) /\ Len(received') = Len(received) + 1
      /\ tails' \in Seq(Nat) /\ rtail' \in Nat /\ rtail <= rtail' /\ rtail' <= head
      /\ \A j \in 1 .. Len(tails') : tails'[j] <= rtail'
  <2>1. got \in Seq(Contents \ {Blank}) /\ rtail + Len(got) \in Nat /\ tails \in Seq(Nat)
        /\ received \in Seq(Seq(Contents \ {Blank})) /\ rtail \in Nat
    BY TypeFacts DEF RingInv, RingTypeOK
  <2>2. \A j \in 1 .. Len(tails) : tails[j] \in Nat /\ tails[j] <= rtail
    BY <2>1 DEF RingInv, StoresInv
  <2>3. /\ Len(tails') = Len(tails) + 1 /\ Len(tails) \in Nat
        /\ \A j \in 1 .. Len(tails) : tails'[j] = tails[j]
        /\ tails'[Len(tails) + 1] = rtail + Len(got)
        /\ tails' \in Seq(Nat)
    BY <1>1, <2>1
  <2>4. rtail' \in Nat /\ rtail <= rtail' /\ rtail' <= head
    BY <1>1, <1>2, <2>1
  <2>5. ASSUME NEW j \in 1 .. Len(tails') PROVE tails'[j] <= rtail'
    <3>1. j \in 1 .. Len(tails) \/ j = Len(tails) + 1
      BY <2>3
    <3>2. CASE j = Len(tails) + 1
      BY <1>1, <2>3, <2>4, <3>2
    <3>3. CASE j \in 1 .. Len(tails)
      <4>1. tails'[j] = tails[j] /\ tails[j] \in Nat /\ tails[j] <= rtail
        BY <2>2, <2>3, <3>3
      <4> QED BY <2>1, <2>4, <4>1
    <3> QED BY <3>1, <3>2, <3>3
  <2> QED BY <1>1, <2>1, <2>3, <2>4, <2>5
<1>4. RingTypeOK'
  BY <1>1, <1>3 DEF RingInv, RingTypeOK
<1>5. StoresInv'
  <2>1. NoOverrun' /\ tail' <= rtail'
    <3>1. /\ rtail \in Nat /\ head \in Nat /\ tail \in Nat /\ whead \in Nat /\ Capacity \in Nat
          /\ head <= whead /\ whead - rtail <= Capacity /\ tail <= rtail
      BY TypeFacts DEF RingInv, StoresInv, NoOverrun
    <3>2. rtail' <= head /\ whead - rtail' <= Capacity /\ tail <= rtail'
      BY <1>3, <3>1
    <3> QED BY <1>1, <3>1, <3>2 DEF NoOverrun
  <2>2. \A o \in rtail' .. whead - 1 : o \in rtail .. whead - 1
    BY <1>3, TypeFacts DEF RingInv
  <2> QED BY <1>1, <1>3, <2>1, <2>2 DEF RingInv, StoresInv
<1>6. HeadsInv(S)'
  BY <1>1 DEF HeadsInv, Published
<1>7. ReaderInv(S)'
  BY <1>1, <1>2, <1>3, TypeFacts DEF RingInv, ReaderInv, HeadsInv, Published
<1> QED BY <1>1, <1>4, <1>5, <1>6, <1>7, LaidStays DEF RingInv

LEMMA TailLandsKeepsInv ==
  ASSUME RingInv, TailLands
  PROVE  RingInv'
<1> PICK S \in Seq(Nat) : Laid(S) /\ HeadsInv(S) /\ ReaderInv(S)
  BY DEF RingInv
<1>1. /\ tails # <<>> /\ tail' = Head(tails) /\ tails' = Tail(tails)
      /\ UNCHANGED <<mem, head, stream, left, heads, sent, rtail, rpc, got, received>>
  BY DEF TailLands, writer
<1>2. /\ tail' \in Nat /\ tail' <= rtail /\ tails' \in Seq(Nat)
      /\ \A j \in 1 .. Len(tails') : tails'[j] <= rtail
  BY <1>1 DEF RingInv, RingTypeOK, StoresInv
<1>3. RingTypeOK'
  BY <1>1, <1>2 DEF RingInv, RingTypeOK
<1>4. StoresInv' /\ HeadsInv(S)' /\ ReaderInv(S)'
  BY <1>1, <1>2 DEF RingInv, StoresInv, NoOverrun, HeadsInv, ReaderInv, Published
<1> QED BY <1>1, <1>3, <1>4, LaidStays DEF RingInv

LEMMA RingStep == RingInv /\ [Next]_vars => RingInv'
<1> SUFFICES ASSUME RingInv, [Next]_vars PROVE RingInv'
  OBVIOUS
<1>1. CASE UNCHANGED vars
  <2> USE <1>1 DEF vars, writer, reader
  <2>1. RingTypeOK' /\ StoresInv'
    BY DEF RingInv, RingTypeOK, StoresInv, NoOverrun
  <2>2. \A S : Laid(S) /\ HeadsInv(S) /\ ReaderInv(S)
                 => Laid(S)' /\ HeadsInv(S)' /\ ReaderInv(S)'
    BY DEF Laid, HeadsInv, ReaderInv, Published
  <2> QED BY <2>1, <2>2 DEF RingInv
<1>2. CASE Next
  BY <1>2, WriteKeepsInv, CellLandsKeepsInv, HeadLandsKeepsInv, TailLandsKeepsInv,
     ReadBeginsKeepsInv, ReadsCellKeepsInv, ReadReturnsKeepsInv DEF Next, Lands, Reads
<1> QED BY <1>1, <1>2
-----------------------------------------------------------------------------
\* The inductive invariant: where each entry begins, and that the two pointers
\* and everything between them are where the stream says (shm_transport.py).
THEOREM RingInvariant == Spec => []RingInv
<1> QED BY RingInit, RingStep, PTL DEF Spec

\* Pointers, buffers and cells keep their types, and no blank cell is read
\* (shm_transport.py, RingBuffer).
THEOREM RingTypes == Spec => []RingTypeOK
<1>1. RingInv => RingTypeOK
  BY DEF RingInv
<1> QED BY <1>1, RingInvariant, PTL

\* Whatever is published and unread is in the ring as it was written, for every
\* capacity (RingBuffer.write and read).
THEOREM RingUnreadIsIntact == Spec => []UnreadIsIntact
<1>1. RingInv => UnreadIsIntact
  <2> SUFFICES ASSUME RingInv, NEW o \in rtail .. head - 1
               PROVE  mem[Pos(o)] = stream[o + 1]
    BY DEF UnreadIsIntact
  <2>1. o \in rtail .. whead - 1 /\ o < head /\ head \in Nat
    BY TypeFacts DEF RingInv, StoresInv, NoOverrun
  <2>2. o \notin left
    BY <2>1, TypeFacts DEF RingInv, StoresInv, RingTypeOK
  <2> QED BY <2>1, <2>2 DEF RingInv, StoresInv
<1> QED BY <1>1, RingInvariant, PTL

\* The writer never laps the reader (RingBuffer._available_write).
THEOREM RingNoOverrun == Spec => []NoOverrun
<1>1. RingInv => NoOverrun
  BY DEF RingInv, StoresInv
<1> QED BY <1>1, RingInvariant, PTL

\* Reader and writer keep clear of each other (RingBuffer.write and read).
THEOREM RingStaysSafe == Spec => []RingIsSafe
<1> QED BY RingUnreadIsIntact, RingNoOverrun, PTL DEF RingIsSafe

\* The ring implements a first-in first-out channel of whole messages, for
\* every capacity, every message size and every order in which the stores
\* come out (RingBuffer.write and read).
THEOREM RingImplementsFifo == Spec => FifoSpec
<1> DEFINE bar == [k \in 1 .. Len(sent) |-> Entry(sent[k])]
<1>1. Init => Channel!Init
  BY DEF Init, Channel!Init
<1>2. RingInv /\ [Next]_vars => [Channel!Next]_Channel!chanVars
  <2> SUFFICES ASSUME RingInv, [Next]_vars
               PROVE  Channel!Next \/ (bar' = bar /\ received' = received)
    BY DEF Channel!chanVars
  <2>1. ASSUME NEW m \in Messages, Write(m) PROVE Channel!Next
    <3>1. /\ sent' = Append(sent, m) /\ received' = received /\ sent \in Seq(Messages)
      BY <2>1 DEF Write, reader, RingInv, RingTypeOK
    <3>2. bar' = Append(bar, Entry(m))
      <4>1. /\ Len(sent') = Len(sent) + 1 /\ Len(sent) \in Nat
            /\ \A k \in 1 .. Len(sent) : sent'[k] = sent[k]
            /\ sent'[Len(sent) + 1] = m
        BY <3>1
      <4>2. /\ Len(bar) = Len(sent)
            /\ Append(bar, Entry(m)) =
                 [k \in 1 .. Len(sent) + 1 |-> IF k = Len(sent) + 1 THEN Entry(m) ELSE bar[k]]
        BY <4>1
      <4>3. bar' = [k \in 1 .. Len(sent) + 1 |-> Entry(sent'[k])]
        BY <4>1
      <4>4. ASSUME NEW k \in 1 .. Len(sent) + 1
            PROVE  Entry(sent'[k]) = IF k = Len(sent) + 1 THEN Entry(m) ELSE bar[k]
        <5>1. k \in 1 .. Len(sent) \/ k = Len(sent) + 1
          BY <4>1
        <5>2. CASE k = Len(sent) + 1
          <6>1. sent'[k] = m
            BY <4>1, <5>2
          <6> QED BY <5>2, <6>1
        <5>3. CASE k \in 1 .. Len(sent)
          <6>1. sent'[k] = sent[k] /\ bar[k] = Entry(sent[k]) /\ k # Len(sent) + 1
            BY <4>1, <5>3
          <6> QED BY <6>1
        <5> QED BY <5>1, <5>2, <5>3
      <4> QED BY <4>2, <4>3, <4>4
    <3>3. Channel!Put(Entry(m))
      BY <3>1, <3>2 DEF Channel!Put
    <3> QED BY <2>1, <3>3 DEF Channel!Next
  <2>2. ASSUME ReadReturns PROVE Channel!Next
    <3>1. /\ received' = Append(received, got) /\ sent' = sent
          /\ Len(received) + 1 \in 1 .. Len(sent)
          /\ got = Entry(sent[Len(received) + 1])
      BY <2>2, ReturnsEntry DEF ReadReturns, writer
    <3>2. /\ Len(bar) = Len(sent) /\ Len(received) \in Nat /\ Len(sent) \in Nat
          /\ bar[Len(received) + 1] = got
      BY <3>1, TypeFacts DEF RingInv
    <3>3. Channel!Get
      BY <3>1, <3>2 DEF Channel!Get
    <3> QED BY <3>3 DEF Channel!Next
  <2>3. ASSUME UNCHANGED <<sent, received>> PROVE bar' = bar /\ received' = received
    BY <2>3
  <2> QED BY <2>1, <2>2, <2>3 DEF Next, Lands, Reads, CellLands, HeadLands, TailLands,
          ReadBegins, ReadsCell, vars, writer, reader
<1> QED BY <1>1, <1>2, RingInvariant, PTL DEF Spec, FifoSpec, Channel!Spec-----------------------------------------------------------------------------
(* What the channel promises, of the ring itself.                            *)

\* What the reader has got is a beginning of what was written, entry for entry
\* and cell for cell.
ReadsWhatWasWritten ==
  /\ Len(received) <= Len(sent)
  /\ \A k \in 1 .. Len(received) : received[k] = Entry(sent[k])

\* No entry is lost, repeated, torn or put out of order, whatever the order in
\* which the stores of the two processes come out (shm_transport.py,
\* RingBuffer.read).
THEOREM RingDeliversInOrder == Spec => []ReadsWhatWasWritten
<1>1. Init => ReadsWhatWasWritten
  BY DEF Init, ReadsWhatWasWritten
<1>2. RingInv /\ ReadsWhatWasWritten /\ [Next]_vars => ReadsWhatWasWritten'
  <2> SUFFICES ASSUME RingInv, ReadsWhatWasWritten, [Next]_vars
               PROVE  ReadsWhatWasWritten'
    OBVIOUS
  <2>1. /\ sent \in Seq(Messages) /\ received \in Seq(Seq(Contents \ {Blank}))
        /\ Len(sent) \in Nat /\ Len(received) \in Nat
    BY TypeFacts DEF RingInv, RingTypeOK
  <2>2. ASSUME NEW m \in Messages, Write(m) PROVE ReadsWhatWasWritten'
    <3>1. received' = received /\ sent' = Append(sent, m)
      BY <2>2 DEF Write, reader
    <3>2. Len(sent') = Len(sent) + 1 /\ \A k \in 1 .. Len(sent) : sent'[k] = sent[k]
      BY <2>1, <3>1
    <3>3. ASSUME NEW k \in 1 .. Len(received) PROVE received[k] = Entry(sent'[k])
      <4>1. k \in 1 .. Len(sent) /\ received[k] = Entry(sent[k])
        BY <2>1 DEF ReadsWhatWasWritten
      <4> QED BY <3>2, <4>1
    <3> QED BY <2>1, <3>1, <3>2, <3>3 DEF ReadsWhatWasWritten
  <2>3. CASE ReadReturns
    <3>1. /\ sent' = sent /\ received' = Append(received, got)
          /\ Len(received) + 1 \in 1 .. Len(sent)
          /\ got = Entry(sent[Len(received) + 1])
      BY <2>3, ReturnsEntry DEF ReadReturns, writer
    <3>2. got \in Seq(Contents \ {Blank})
      BY DEF RingInv, RingTypeOK
    <3>3. /\ Len(received') = Len(received) + 1
          /\ received'[Len(received) + 1] = got
          /\ \A k \in 1 .. Len(received) : received'[k] = received[k]
      BY <2>1, <3>1, <3>2
    <3>4. ASSUME NEW k \in 1 .. Len(received') PROVE received'[k] = Entry(sent[k])
      <4>1. CASE k \in 1 .. Len(received)
        BY <3>3, <4>1 DEF ReadsWhatWasWritten
      <4>2. CASE k = Len(received) + 1
        BY <3>1, <3>3, <4>2
      <4> QED BY <2>1, <3>3, <4>1, <4>2
    <3>5. \A k \in 1 .. Len(received') : received'[k] = Entry(sent'[k])
      BY <3>1, <3>4
    <3> QED BY <2>1, <3>1, <3>3, <3>5 DEF ReadsWhatWasWritten
  <2>4. CASE UNCHANGED <<sent, received>>
    BY <2>4 DEF ReadsWhatWasWritten
  <2> QED BY <2>2, <2>3, <2>4 DEF Next, Lands, Reads, CellLands, HeadLands, TailLands,
          ReadBegins, ReadsCell, vars, writer, reader
<1> QED BY <1>1, <1>2, RingInvariant, PTL DEF Spec
=============================================================================
