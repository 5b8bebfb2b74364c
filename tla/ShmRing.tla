------------------------------- MODULE ShmRing -------------------------------
(***************************************************************************)
(* One direction of the shared-memory transport (ipc/shm_transport.py,      *)
(* RingBuffer): a ring in memory that two processes map, one writing and    *)
(* one reading it without a lock.                                           *)
(*                                                                          *)
(* Memory is counted in cells of 8 bytes, the unit entries are padded to; a *)
(* message is its number of cells, the length word included.  Offsets grow  *)
(* for ever and `offset & mask` is `offset % Capacity`, the capacity being  *)
(* a power of two.                                                          *)
(*                                                                          *)
(* Each process sees its own stores at once and the other's as the          *)
(* processor lets them out: in program order (x86-TSO), except that the     *)
(* cells of one entry are copied by memcpy, in any order.  An 8-byte store  *)
(* of head or tail is one store.                                            *)
(***************************************************************************)
EXTENDS Integers, Sequences

CONSTANTS
  Capacity,   \* cells of the ring
  Messages,   \* messages the writer may be given
  Size,       \* message -> cells of its entry
  MaxWrites   \* bound on the writes

ASSUME CapacityAssumption == Capacity \in Nat \ {0} /\ MaxWrites \in Nat
ASSUME SizeAssumption == Size \in [Messages -> Nat \ {0}]

Blank == <<>>                                    \* a cell never written
Entry(m) == [i \in 1 .. Size[m] |-> <<m, i>>]    \* length word, payload, pad

VARIABLES
  mem,     \* the ring, as both processes see it once stores are out
  head,    \* the header's head, likewise
  tail,    \* the header's tail, likewise
  stream,  \* every cell the writer has stored, by offset
  left,    \* offsets the writer has stored that are not out yet
  heads,   \* values of head the writer has stored that are not out yet
  rtail,   \* the reader's own view of tail
  tails,   \* values of tail the reader has stored that are not out yet
  rpc,     \* the reader is in read(), past the wait, or not
  got,     \* cells it has read
  sent, received   \* the messages write() has accepted, the entries read()

writer == <<stream, left, heads, sent>>
reader == <<rtail, tails, rpc, got, received>>
vars == <<mem, head, tail, writer, reader>>

whead == Len(stream)      \* the writer's own view of head
Pos(offset) == offset % Capacity
Contents == {Blank} \cup UNION {{<<m, i>> : i \in 1 .. Size[m]} : m \in Messages}

\* Cells the entry takes whose first cell, with the length word, is `cell`.
Cells(cell) == IF cell = Blank THEN 1 ELSE Size[cell[1]]

RingTypeOK ==
  /\ mem \in [0 .. Capacity - 1 -> Contents]
  /\ head \in Nat /\ tail \in Nat /\ rtail \in Nat
  /\ stream \in Seq(Contents \ {Blank})
  /\ left \subseteq 0 .. whead - 1
  /\ heads \in Seq(Nat) /\ tails \in Seq(Nat)
  /\ rpc \in {"idle", "reading"}
  /\ got \in Seq(Contents \ {Blank})
  /\ sent \in Seq(Messages)
  /\ received \in Seq(Seq(Contents \ {Blank}))

Init ==
  /\ mem = [c \in 0 .. Capacity - 1 |-> Blank]
  /\ head = 0 /\ tail = 0 /\ rtail = 0
  /\ stream = <<>> /\ left = {} /\ heads = <<>> /\ tails = <<>>
  /\ rpc = "idle" /\ got = <<>>
  /\ sent = <<>> /\ received = <<>>
-----------------------------------------------------------------------------
(***************************************************************************)
(* write(): the wait for room, the entry, then the new head.  A message     *)
(* that finds no room until the timeout is refused; nothing changes.        *)
(***************************************************************************)

\* Mutant: a full ring still has room for one cell.
OneCellMore == Capacity - (whead - tail) + 1

Available == Capacity - (whead - tail)

Write(m) ==
  /\ Len(sent) < MaxWrites
  /\ Available >= Size[m]
  /\ sent' = Append(sent, m)
  /\ stream' = stream \o Entry(m)
  /\ left' = left \cup (whead .. whead + Size[m] - 1)
  /\ heads' = Append(heads, whead + Size[m])
  /\ UNCHANGED <<mem, head, tail, reader>>

\* A cell of the oldest entry under way becomes visible.
CellLands(o) ==
  /\ o \in left
  /\ heads # <<>> /\ o < Head(heads)
  /\ mem' = [mem EXCEPT ![Pos(o)] = stream[o + 1]]
  /\ left' = left \ {o}
  /\ UNCHANGED <<head, tail, stream, heads, sent, reader>>

\* Mutant: head is published before the data.
HeadOvertakes ==
  /\ heads # <<>>
  /\ head' = Head(heads)
  /\ heads' = Tail(heads)
  /\ UNCHANGED <<mem, tail, stream, left, sent, reader>>

\* Then head does.
HeadLands ==
  /\ heads # <<>>
  /\ \A o \in left : o >= Head(heads)
  /\ head' = Head(heads)
  /\ heads' = Tail(heads)
  /\ UNCHANGED <<mem, tail, stream, left, sent, reader>>
-----------------------------------------------------------------------------
(***************************************************************************)
(* read(): the wait for a length word, the cells, then the new tail.        *)
(***************************************************************************)

\* Mutant: the reader waits for more than the shortest entry.
WaitsForMore ==
  /\ rpc = "idle"
  /\ head - rtail > 1
  /\ rpc' = "reading"
  /\ UNCHANGED <<mem, head, tail, writer, rtail, tails, got, received>>

ReadBegins ==
  /\ rpc = "idle"
  /\ head - rtail >= 1
  /\ rpc' = "reading"
  /\ UNCHANGED <<mem, head, tail, writer, rtail, tails, got, received>>

ReadsCell ==
  /\ rpc = "reading"
  /\ got # <<>> => Len(got) < Cells(got[1])
  /\ got' = Append(got, mem[Pos(rtail + Len(got))])
  /\ UNCHANGED <<mem, head, tail, writer, rtail, tails, rpc, received>>

\* Mutant: the tail skips the length word and the payload, not the padding.
ForgetsPadding ==
  /\ rpc = "reading"
  /\ got # <<>>
  /\ Len(got) = Cells(got[1])
  /\ received' = Append(received, got)
  /\ LET payload == IF Len(got) > 2 THEN Len(got) - 1 ELSE Len(got)
     IN rtail' = rtail + payload /\ tails' = Append(tails, rtail + payload)
  /\ rpc' = "idle"
  /\ got' = <<>>
  /\ UNCHANGED <<mem, head, tail, writer>>

ReadReturns ==
  /\ rpc = "reading"
  /\ got # <<>>
  /\ Len(got) = Cells(got[1])
  /\ received' = Append(received, got)
  /\ rtail' = rtail + Len(got)
  /\ tails' = Append(tails, rtail + Len(got))
  /\ rpc' = "idle"
  /\ got' = <<>>
  /\ UNCHANGED <<mem, head, tail, writer>>

TailLands ==
  /\ tails # <<>>
  /\ tail' = Head(tails)
  /\ tails' = Tail(tails)
  /\ UNCHANGED <<mem, head, writer, rtail, rpc, got, received>>

Lands == (\E o \in left : CellLands(o)) \/ HeadLands \/ TailLands
Reads == ReadsCell \/ ReadReturns

Next == (\E m \in Messages : Write(m)) \/ Lands \/ ReadBegins \/ Reads

\* Stores come out, and a reader inside read() goes on.  Nobody need call
\* write() or read().
Fairness == WF_vars(Lands) /\ WF_vars(Reads)

Spec == Init /\ [][Next]_vars /\ Fairness
-----------------------------------------------------------------------------
(***************************************************************************)
(* Properties.                                                              *)
(***************************************************************************)

\* What has been published and not yet read is in the ring as it was written:
\* neither published before it was out nor overwritten by a writer that has
\* wrapped around, however stale the head and the tail either side sees
\* (shm_transport.py, RingBuffer.write and read).
UnreadIsIntact ==
  \A o \in rtail .. head - 1 : mem[Pos(o)] = stream[o + 1]

\* The writer is never more than a ring ahead of what the reader has finished,
\* its unpublished stores included (shm_transport.py, _available_write).
NoOverrun == rtail <= head /\ head <= whead /\ whead - rtail <= Capacity

\* Reader and writer keep clear of each other.
RingIsSafe == UnreadIsIntact /\ NoOverrun

\* The ring implements the channel: whole messages, in order, each once
\* (shm_transport.py, "full ring causes the writer to block rather than drop").
Channel == INSTANCE Fifo
  WITH Messages <- {Entry(m) : m \in Messages},
       sent <- [k \in 1 .. Len(sent) |-> Entry(sent[k])]
FifoSpec == Channel!Spec

\* If the reader calls read() again and again, every message accepted arrives:
\* no stale head or tail keeps it waiting (shm_transport.py, _wait_ready).
EverythingArrives ==
  WF_vars(ReadBegins)
    => \A n \in 1 .. MaxWrites : Len(sent) >= n ~> Len(received) >= n
=============================================================================
