---------------------------- MODULE DeviceProofs ----------------------------
(* Proofs about Device, for every depth of the channel and of the ring, every *)
(* size of the buffers and any number of packets.                             *)
EXTENDS Device, SequenceTheorems, TLAPS

Packet == [id : Nat \ {0}, len : {n \in Lengths : n <= MaxPacket}]
Delivered == [id : Nat \ {0}, whole : BOOLEAN]

(* Types, and which thread and task can be where.                             *)
TypeInv ==
  /\ platform \in {"windows", "linux", "macos"}
  /\ arrived \in 0..MaxArrivals
  /\ ring \in Seq(Packet) /\ Len(ring) <= RingSize
  /\ queue \in Seq(Packet) /\ Len(queue) <= QueueDepth
  /\ got \in Seq(Delivered)
  /\ session \in {"up", "down"} /\ reader \in {"recv", "send", "exited"}
  /\ task \in {"runnable", "waiting", "ended"}
  /\ IF reader = "send" THEN held \in Packet ELSE held = NoPacket
  /\ ~Windows => queue = <<>> /\ reader = "exited"
  /\ eof \in BOOLEAN /\ ready \in BOOLEAN

(* A device that ends has reported everything before; a task that waits has   *)
(* nothing to return.                                                         *)
EndInv ==
  /\ eof => Windows /\ task = "ended" /\ reader = "exited" /\ session = "down" /\ queue = <<>>
  /\ Windows /\ Alive /\ reader = "exited" => session = "down"
  /\ ~Windows /\ ring # <<>> => ready
  /\ NoLostWakeup

IdSet(packets) == {packets[i].id : i \in DOMAIN packets}
Below(S, T) == \A m \in S, n \in T : m < n
Sorted(packets) == \A i, j \in DOMAIN packets : i < j => packets[i].id < packets[j].id

HeldIds == IF reader = "send" THEN {held.id} ELSE {}

(* The stations of the pipeline are in order, each by itself and with the     *)
(* ones behind it, and hold what arrived and was not dropped.                 *)
Ordered ==
  /\ Sorted(got) /\ Sorted(queue) /\ Sorted(ring)
  /\ Below(IdSet(got), IdSet(queue) \cup HeldIds \cup IdSet(ring))
  /\ Below(IdSet(queue), HeldIds \cup IdSet(ring))
  /\ Below(HeldIds, IdSet(ring))

Accounted ==
  /\ IdSet(got) \cup IdSet(queue) \cup HeldIds \cup IdSet(ring) = 1..arrived \ (lost \cup large)
  /\ lost \cup large \subseteq 1..arrived

OrderInv == Alive \/ eof => Ordered /\ Accounted

WholeInv == \A i \in DOMAIN got : got[i].whole

GotInv == IdSet(got) \subseteq 1..arrived

DeviceInv == TypeInv /\ EndInv /\ OrderInv /\ WholeInv /\ GotInv /\ WriteReports

-----------------------------------------------------------------------------
(* The end of a sorted sequence: what Append adds to it.                      *)
LEMMA AppendIds ==
  ASSUME NEW S, \A p \in S : p.id \in Nat, NEW s \in Seq(S), NEW e \in S
  PROVE  /\ Append(s, e) \in Seq(S) /\ Len(Append(s, e)) = Len(s) + 1
         /\ IdSet(Append(s, e)) = IdSet(s) \cup {e.id}
         /\ Sorted(s) /\ Below(IdSet(s), {e.id}) => Sorted(Append(s, e))
<1>. DEFINE t == Append(s, e)
<1>1. /\ t \in Seq(S) /\ Len(t) = Len(s) + 1
      /\ DOMAIN s = 1..Len(s) /\ DOMAIN t = 1..(Len(s) + 1) /\ Len(s) \in Nat
      /\ \A i \in 1..Len(s) : t[i] = s[i]
      /\ t[Len(s) + 1] = e
  BY AppendProperties, LenProperties
<1>. HIDE DEF t
<1>2. IdSet(t) = IdSet(s) \cup {e.id}
  BY <1>1 DEF IdSet
<1>3. ASSUME Sorted(s), Below(IdSet(s), {e.id}), NEW i \in DOMAIN t, NEW j \in DOMAIN t, i < j
      PROVE  t[i].id < t[j].id
  <2>1. i \in DOMAIN s /\ t[i] = s[i]
    BY <1>1, <1>3
  <2>2. CASE j = Len(s) + 1
    BY <1>1, <1>3, <2>1, <2>2 DEF Below, IdSet
  <2>3. CASE j # Len(s) + 1
    BY <1>1, <1>3, <2>1, <2>3 DEF Sorted
  <2>. QED
    BY <2>2, <2>3
<1>. QED
  BY <1>1, <1>2, <1>3 DEF t, Sorted

(* The front of a sorted sequence: what Head and Tail take from it.           *)
LEMMA TailIds ==
  ASSUME NEW S, \A p \in S : p.id \in Nat, NEW s \in Seq(S), s # <<>>
  PROVE  /\ Head(s) \in S /\ Tail(s) \in Seq(S) /\ Len(Tail(s)) = Len(s) - 1
         /\ IdSet(s) = {Head(s).id} \cup IdSet(Tail(s))
         /\ Sorted(s) => Sorted(Tail(s)) /\ Below({Head(s).id}, IdSet(Tail(s)))
<1>. DEFINE t == Tail(s)
<1>1. /\ Head(s) \in S /\ t \in Seq(S) /\ Len(t) = Len(s) - 1 /\ Len(s) \in Nat \ {0}
      /\ DOMAIN s = 1..Len(s) /\ DOMAIN t = 1..(Len(s) - 1)
      /\ \A i \in 1..(Len(s) - 1) : t[i] = s[i + 1]
      /\ Head(s) = s[1]
  BY HeadTailProperties, LenProperties, EmptySeq
<1>. HIDE DEF t
<1>2. IdSet(s) = {Head(s).id} \cup IdSet(t)
  <2>1. ASSUME NEW i \in DOMAIN s PROVE s[i].id \in {Head(s).id} \cup IdSet(t)
    <3>1. CASE i = 1
      BY <1>1, <3>1
    <3>2. CASE i # 1
      <4>1. i - 1 \in DOMAIN t /\ t[i - 1] = s[i]
        BY <1>1, <3>2
      <4>. QED
        BY <4>1 DEF IdSet
    <3>. QED
      BY <3>1, <3>2
  <2>2. ASSUME NEW i \in DOMAIN t PROVE t[i].id \in IdSet(s)
    <3>1. i + 1 \in DOMAIN s /\ t[i] = s[i + 1]
      BY <1>1
    <3>. QED
      BY <3>1 DEF IdSet
  <2>3. Head(s).id \in IdSet(s)
    BY <1>1 DEF IdSet
  <2>. QED
    BY <2>1, <2>2, <2>3 DEF IdSet
<1>3. ASSUME Sorted(s) PROVE Sorted(t) /\ Below({Head(s).id}, IdSet(t))
  <2>1. ASSUME NEW i \in DOMAIN t, NEW j \in DOMAIN t, i < j PROVE t[i].id < t[j].id
    <3>1. i + 1 \in DOMAIN s /\ j + 1 \in DOMAIN s /\ i + 1 < j + 1
      BY <1>1, <2>1
    <3>. QED
      BY <1>1, <1>3, <3>1, Zenon DEF Sorted
  <2>2. ASSUME NEW j \in DOMAIN t PROVE Head(s).id < t[j].id
    <3>1. 1 \in DOMAIN s /\ j + 1 \in DOMAIN s /\ 1 < j + 1
      BY <1>1
    <3>. QED
      BY <1>1, <1>3, <3>1 DEF Sorted
  <2>. QED
    BY <2>1, <2>2 DEF Sorted, Below, IdSet
<1>. QED
  BY <1>1, <1>2, <1>3 DEF t

(* Writes, and steps that change nothing, leave the read side alone.          *)
LEMMA WriteFrame ==
  ASSUME \/ \E buf \in Buffers : PollWriteWindows(buf) \/ PollWriteLinux(buf) \/ PollWriteMacos(buf)
         \/ Congestion
         \/ UNCHANGED vars
  PROVE  UNCHANGED <<platform, readVars>>
  BY DEF PollWriteWindows, PollWriteLinux, PollWriteMacos, Checked, Accepted, Wrote,
         Congestion, vars

(* Packets and deliveries have numbers, and a packet fits MAX_PACKET.         *)
LEMMA PacketFacts ==
  /\ \A p \in Packet : p.id \in Nat /\ p.id # 0 /\ p.len \in Nat /\ p.len <= MaxPacket /\ p # NoPacket
  /\ \A d \in Delivered : d.id \in Nat
<1>1. ASSUME NEW p \in Packet
      PROVE  p.id \in Nat /\ p.id # 0 /\ p.len \in Nat /\ p.len <= MaxPacket
  BY DeviceAssumption, Zenon DEF Packet
<1>2. NoPacket.id = 0
  BY DEF NoPacket
<1>3. \A p \in Packet : p # NoPacket
  BY <1>1, <1>2
<1>4. \A d \in Delivered : d.id \in Nat
  BY DEF Delivered
<1>. QED
  BY <1>1, <1>3, <1>4

(* The packet that arrives has the next number.                               *)
LEMMA ArrivalFacts ==
  ASSUME TypeInv, NEW len \in Lengths \ {0}, len <= MaxPacket, Arrive(len)
  PROVE  [id |-> arrived', len |-> len] \in Packet
<1>1. arrived' \in Nat \ {0}
  BY DeviceAssumption DEF TypeInv, Arrive
<1>. QED
  BY <1>1 DEF Packet

(* What a read of either kind makes of a packet: it is dropped as too large,  *)
(* or delivered, whole.                                                       *)
LEMMA DeliverFacts ==
  ASSUME TypeInv, NEW p \in Packet, NEW n,
         n = p.len \/ n = Stripped(p), Deliver(p, n)
  PROVE  \/ large' = large \cup {p.id} /\ task' = "runnable" /\ got' = got
         \/ /\ got' = Append(got, [id |-> p.id, whole |-> TRUE])
            /\ large' = large /\ task' = task
<1>1. n = p.len
  BY PacketFacts, DeviceAssumption DEF TypeInv, Stripped, Received, HeaderLen
<1>. QED
  BY <1>1, Zenon DEF Deliver

-----------------------------------------------------------------------------
(* The buffers keep their bounds: blocking_send waits for room in the channel *)
(* and the driver for room in the ring.                                       *)
LEMMA TypeStep == TypeInv /\ [Next]_vars => TypeInv'
<1>. SUFFICES ASSUME TypeInv, [Next]_vars PROVE TypeInv'
  OBVIOUS
<1>. USE DEF TypeInv, Windows
<1>1. ASSUME UNCHANGED <<platform, readVars>> PROVE TypeInv'
  BY <1>1 DEF readVars
<1>2. ASSUME NEW len \in Lengths \ {0}, len <= MaxPacket, Arrive(len) PROVE TypeInv'
  <2>1. PICK p \in Packet : p = [id |-> arrived', len |-> len]
    BY <1>2, ArrivalFacts, Zenon
  <2>2. CASE Len(ring) < RingSize
    <3>0. ring' = Append(ring, p)
      BY <1>2, <2>1, <2>2 DEF Arrive
    <3>1. ring' \in Seq(Packet) /\ Len(ring') = Len(ring) + 1 /\ Len(ring) \in Nat
      BY <3>0, AppendProperties, LenProperties
    <3>. QED
      BY <1>2, <2>2, <3>1, DeviceAssumption DEF Arrive
  <2>3. CASE ~ (Len(ring) < RingSize)
    BY <1>2, <2>3, DeviceAssumption DEF Arrive
  <2>. QED
    BY <2>2, <2>3
<1>3. CASE Shutdown
  BY <1>3 DEF Shutdown
<1>4. CASE DropDevice
  BY <1>4, DeviceAssumption, EmptySeq DEF DropDevice
<1>5. CASE Receive
  <2>1. CASE ring # <<>> /\ reader' = "send" /\ held' = Head(ring) /\ ring' = Tail(ring)
             /\ UNCHANGED task
    <3>1. Head(ring) \in Packet /\ Tail(ring) \in Seq(Packet) /\ Len(Tail(ring)) = Len(ring) - 1
      BY <2>1, HeadTailProperties
    <3>2. Len(ring) \in Nat
      BY LenProperties
    <3>. QED
      BY <1>5, <2>1, <3>1, <3>2, DeviceAssumption DEF Receive
  <2>2. CASE reader' = "exited" /\ task' = Woken /\ UNCHANGED <<held, ring>>
    BY <1>5, <2>2 DEF Receive, Woken
  <2>. QED
    BY <1>5, <2>1, <2>2 DEF Receive
<1>6. CASE Send
  <2>1. CASE Alive
    <3>1. queue' \in Seq(Packet) /\ Len(queue') = Len(queue) + 1 /\ Len(queue) \in Nat
      BY <1>6, <2>1, AppendProperties, LenProperties DEF Send
    <3>. QED
      BY <1>6, <2>1, <3>1, DeviceAssumption DEF Send, Woken
  <2>2. CASE ~Alive
    BY <1>6, <2>2 DEF Send
  <2>. QED
    BY <2>1, <2>2
<1>. DEFINE Got == /\ got' \in Seq(Delivered)
                   /\ task' \in {"runnable", "waiting", "ended"}
<1>7. ASSUME NEW p \in Packet, NEW n, n = p.len \/ n = Stripped(p), Deliver(p, n) PROVE Got
  <2>1. [id |-> p.id, whole |-> TRUE] \in Delivered
    BY DEF Packet, Delivered
  <2>. QED
    <3>1. CASE got' = Append(got, [id |-> p.id, whole |-> TRUE]) /\ task' = task
      BY <2>1, <3>1, AppendProperties
    <3>2. CASE got' = got /\ task' = "runnable"
      BY <3>2
    <3>. QED
      BY <1>7, <3>1, <3>2, DeliverFacts
<1>8. CASE PollReadWindows
  <2>1. CASE queue # <<>>
    <3>1. Head(queue) \in Packet /\ Tail(queue) \in Seq(Packet) /\ Len(Tail(queue)) = Len(queue) - 1
      BY <2>1, HeadTailProperties
    <3>2. Got
      BY <1>7, <1>8, <2>1, <3>1 DEF PollReadWindows
    <3>3. Len(queue) \in Nat
      BY LenProperties
    <3>4. queue' = Tail(queue) /\ Len(queue') <= QueueDepth
      BY <1>8, <2>1, <3>1, <3>3, DeviceAssumption DEF PollReadWindows
    <3>. QED
      BY <1>8, <2>1, <3>1, <3>2, <3>4, Zenon DEF PollReadWindows
  <2>2. CASE queue = <<>>
    BY <1>8, <2>2, Zenon DEF PollReadWindows
  <2>. QED
    BY <2>1, <2>2
<1>9. CASE ReadTurn /\ ~Windows
  <2>1. CASE ring # <<>> /\ Deliver(Head(ring), Stripped(Head(ring))) /\ ring' = Tail(ring)
             /\ UNCHANGED ready
    <3>1. Head(ring) \in Packet /\ Tail(ring) \in Seq(Packet) /\ Len(Tail(ring)) = Len(ring) - 1
      BY <2>1, HeadTailProperties
    <3>2. Got
      BY <1>7, <2>1, <3>1
    <3>3. Len(ring) \in Nat
      BY LenProperties
    <3>4. Len(ring') <= RingSize
      BY <2>1, <3>1, <3>3, DeviceAssumption
    <3>. QED
      BY <1>9, <2>1, <3>1, <3>2, <3>4, Zenon DEF ReadTurn
  <2>2. CASE UNCHANGED <<ring, got>>
    BY <1>9, <2>2, Zenon DEF ReadTurn, Deliver
  <2>. QED
    BY <1>9, <2>1, <2>2 DEF ReadTurn
<1>. QED
  BY <1>1, <1>2, <1>3, <1>4, <1>5, <1>6, <1>8, <1>9, WriteFrame
     DEF Next, Reading, PollReadLinux, PollReadMacos

(* Whoever makes something readable wakes the task: the arrival of a packet,  *)
(* a send on the channel, the reader's exit, and the drop of a packet.        *)
LEMMA EndStep == TypeInv /\ EndInv /\ [Next]_vars => EndInv'
<1>. SUFFICES ASSUME TypeInv, EndInv, [Next]_vars PROVE EndInv'
  OBVIOUS
<1>. USE DEF TypeInv, EndInv, NoLostWakeup, Windows, Alive
<1>1. ASSUME UNCHANGED <<platform, readVars>> PROVE EndInv'
  BY <1>1 DEF readVars
<1>2. ASSUME NEW len \in Lengths \ {0}, Arrive(len) PROVE EndInv'
  <2>1. ring = <<>> => Len(ring) < RingSize
    BY EmptySeq, DeviceAssumption
  <2>. QED
    BY <1>2, <2>1, Zenon DEF Arrive
<1>3. CASE Shutdown
  BY <1>3 DEF Shutdown
<1>4. CASE DropDevice
  BY <1>4 DEF DropDevice
<1>5. CASE Receive
  BY <1>5 DEF Receive, Woken
<1>6. CASE Send
  BY <1>6 DEF Send, Woken
<1>7. CASE PollReadWindows
  BY <1>7 DEF PollReadWindows, Deliver
<1>8. CASE ReadTurn /\ ~Windows
  <2>1. ring = <<>> \/ ready
    BY <1>8
  <2>. QED
    BY <1>8, <2>1 DEF ReadTurn, Deliver
<1>. QED
  BY <1>1, <1>2, <1>3, <1>4, <1>5, <1>6, <1>7, <1>8, WriteFrame
     DEF Next, Reading, PollReadLinux, PollReadMacos

(* Whatever is handed over is whole, behind a header or not.                  *)
LEMMA WholeStep == TypeInv /\ WholeInv /\ [Next]_vars => WholeInv'
<1>. SUFFICES ASSUME TypeInv, WholeInv, [Next]_vars PROVE WholeInv'
  OBVIOUS
<1>1. CASE got' = got
  BY <1>1 DEF WholeInv
<1>2. ASSUME NEW p \in Packet, NEW n, n = p.len \/ n = Stripped(p), Deliver(p, n)
      PROVE  WholeInv'
  <2>1. CASE got' = Append(got, [id |-> p.id, whole |-> TRUE])
    <3>1. PICK d \in Delivered : d = [id |-> p.id, whole |-> TRUE]
      BY Zenon DEF Packet, Delivered
    <3>2. got \in Seq(Delivered) /\ got' = Append(got, d) /\ d.whole
      BY <2>1, <3>1 DEF TypeInv
    <3>3. /\ DOMAIN got' = 1..(Len(got) + 1) /\ DOMAIN got = 1..Len(got) /\ Len(got) \in Nat
          /\ \A i \in 1..Len(got) : got'[i] = got[i]
          /\ got'[Len(got) + 1] = d
      BY <3>2, AppendProperties, LenProperties
    <3>. QED
      BY <3>2, <3>3 DEF WholeInv
  <2>. QED
    BY <1>1, <1>2, <2>1, DeliverFacts
<1>3. CASE PollReadWindows
  BY <1>1, <1>2, <1>3, HeadTailProperties DEF PollReadWindows, TypeInv
<1>4. CASE ReadTurn
  BY <1>1, <1>2, <1>4, HeadTailProperties DEF ReadTurn, TypeInv
<1>. QED
  BY <1>1, <1>3, <1>4, WriteFrame, Zenon
     DEF Next, Reading, PollReadLinux, PollReadMacos, Arrive, Shutdown, DropDevice, Receive, Send,
         readVars

(* A packet moves from the front of one station to the end of the next, is    *)
(* added at the end of the last, or is dropped on its way to the first.       *)
LEMMA OrderStep == TypeInv /\ EndInv /\ OrderInv /\ [Next]_vars => OrderInv'
<1>. SUFFICES ASSUME TypeInv, EndInv, OrderInv, [Next]_vars, (Alive \/ eof)'
              PROVE  Ordered' /\ Accounted'
  BY DEF OrderInv
<1>. USE DEF Ordered, Accounted
<1>0. (\A p \in Packet : p.id \in Nat) /\ (\A d \in Delivered : d.id \in Nat)
  BY PacketFacts
<1>1. ASSUME UNCHANGED <<platform, readVars>> PROVE Ordered' /\ Accounted'
  BY <1>1 DEF readVars, OrderInv, Alive, HeldIds
<1>2. ASSUME NEW len \in Lengths \ {0}, len <= MaxPacket, Arrive(len)
      PROVE  Ordered' /\ Accounted'
  <2>1. /\ Ordered /\ Accounted /\ arrived \in Nat /\ arrived' = arrived + 1
        /\ UNCHANGED <<got, queue, reader, held, large>>
    BY <1>2 DEF OrderInv, Arrive, EndInv, Alive, TypeInv
  <2>2. HeldIds' = HeldIds
    BY <2>1 DEF HeldIds
  <2>3. CASE Len(ring) < RingSize
    <3>1. PICK p \in Packet : p = [id |-> arrived', len |-> len]
      BY <1>2, ArrivalFacts, Zenon
    <3>2. ring' = Append(ring, p) /\ lost' = lost /\ p.id = arrived + 1
      BY <1>2, <2>1, <2>3, <3>1 DEF Arrive
    <3>3. Below(IdSet(ring), {p.id})
      BY <2>1, <3>2 DEF Below
    <3>4. IdSet(ring') = IdSet(ring) \cup {p.id} /\ Sorted(ring')
      BY <1>0, <2>1, <3>2, <3>3, AppendIds DEF TypeInv
    <3>5. /\ Below(IdSet(got), {p.id}) /\ Below(IdSet(queue), {p.id}) /\ Below(HeldIds, {p.id})
          /\ 1..arrived' \ (lost \cup large) = (1..arrived \ (lost \cup large)) \cup {p.id}
      BY <2>1, <3>2 DEF Below
    <3>. QED
      BY <2>1, <2>2, <3>2, <3>4, <3>5 DEF Below
  <2>4. CASE ~ (Len(ring) < RingSize)
    BY <1>2, <2>1, <2>2, <2>4 DEF Arrive
  <2>. QED
    BY <2>3, <2>4
<1>3. CASE Shutdown
  BY <1>3 DEF Shutdown, OrderInv, Alive, HeldIds
<1>4. CASE DropDevice
  BY <1>4 DEF DropDevice, EndInv, Alive
<1>5. CASE Receive
  <2>1. Ordered /\ Accounted
    BY <1>5 DEF OrderInv, Receive, EndInv, Alive, Woken
  <2>2. UNCHANGED <<got, queue, arrived, lost, large>> /\ HeldIds = {}
    BY <1>5 DEF Receive, HeldIds
  <2>3. CASE ring # <<>> /\ reader' = "send" /\ held' = Head(ring) /\ ring' = Tail(ring)
    <3>1. /\ HeldIds' = {Head(ring).id} /\ IdSet(ring) = {Head(ring).id} \cup IdSet(ring')
          /\ Sorted(ring') /\ Below({Head(ring).id}, IdSet(ring'))
      BY <1>0, <2>1, <2>3, TailIds, Zenon DEF TypeInv, HeldIds
    <3>. QED
      BY <2>1, <2>2, <3>1 DEF Below
  <2>4. CASE reader' = "exited" /\ UNCHANGED <<held, ring>>
    BY <2>1, <2>2, <2>4 DEF HeldIds
  <2>. QED
    BY <1>5, <2>3, <2>4 DEF Receive
<1>6. CASE Send
  <2>1. /\ Alive /\ queue' = Append(queue, held) /\ reader = "send" /\ reader' = "recv"
        /\ UNCHANGED <<got, ring, arrived, lost, large>>
    BY <1>6 DEF Send, EndInv, Alive
  <2>2. Ordered /\ Accounted /\ HeldIds = {held.id} /\ HeldIds' = {} /\ held \in Packet
    BY <2>1 DEF OrderInv, HeldIds, TypeInv
  <2>3. Below(IdSet(queue), {held.id})
    BY <2>2 DEF Below
  <2>4. IdSet(queue') = IdSet(queue) \cup {held.id} /\ Sorted(queue')
    BY <1>0, <2>1, <2>2, <2>3, AppendIds DEF TypeInv
  <2>. QED
    BY <2>1, <2>2, <2>4 DEF Below
<1>7. ASSUME NEW s \in Seq(Packet), s # <<>>, NEW rest, rest = IdSet(Tail(s)), NEW n,
             n = Head(s).len \/ n = Stripped(Head(s)), Deliver(Head(s), n), Ordered, Accounted,
             Sorted(s), Below(IdSet(got), IdSet(s))
      PROVE  /\ Sorted(got')
             /\ \/ IdSet(got') = IdSet(got) \cup {Head(s).id} /\ large' = large
                \/ IdSet(got') = IdSet(got) /\ large' = large \cup {Head(s).id}
             /\ IdSet(s) = {Head(s).id} \cup rest /\ Sorted(Tail(s)) /\ Below({Head(s).id}, rest)
             /\ Head(s).id \in Nat
  <2>1. /\ Head(s) \in Packet /\ IdSet(s) = {Head(s).id} \cup rest
        /\ Sorted(Tail(s)) /\ Below({Head(s).id}, rest)
    BY <1>0, <1>7, TailIds
  <2>2. CASE got' = Append(got, [id |-> Head(s).id, whole |-> TRUE]) /\ large' = large
    <3>1. PICK d \in Delivered : d = [id |-> Head(s).id, whole |-> TRUE]
      BY <2>1, Zenon DEF Packet, Delivered
    <3>2. d.id = Head(s).id /\ got' = Append(got, d) /\ got \in Seq(Delivered)
      BY <2>2, <3>1 DEF TypeInv
    <3>3. Below(IdSet(got), {d.id})
      BY <1>7, <2>1, <3>2 DEF Below
    <3>4. IdSet(got') = IdSet(got) \cup {d.id} /\ Sorted(got')
      BY <1>0, <1>7, <3>2, <3>3, AppendIds
    <3>. QED
      BY <1>0, <2>1, <2>2, <3>2, <3>4, Zenon
  <2>3. CASE large' = large \cup {Head(s).id} /\ got' = got
    BY <1>0, <1>7, <2>1, <2>3
  <2>. QED
    BY <1>7, <2>1, <2>2, <2>3, DeliverFacts
<1>8. CASE PollReadWindows
  <2>1. Ordered /\ Accounted /\ UNCHANGED <<ring, reader, held, arrived, lost>> /\ HeldIds' = HeldIds
    BY <1>8 DEF PollReadWindows, OrderInv, Alive, HeldIds
  <2>2. CASE queue # <<>>
    <3>1. queue' = Tail(queue) /\ Deliver(Head(queue), Head(queue).len) /\ queue \in Seq(Packet)
      BY <1>8, <2>2 DEF PollReadWindows, TypeInv
    <3>2. Below(IdSet(got), IdSet(queue))
      BY <2>1 DEF Below
    <3>3. /\ Sorted(got')
          /\ \/ IdSet(got') = IdSet(got) \cup {Head(queue).id} /\ large' = large
             \/ IdSet(got') = IdSet(got) /\ large' = large \cup {Head(queue).id}
          /\ IdSet(queue) = {Head(queue).id} \cup IdSet(queue') /\ Sorted(queue')
          /\ Below({Head(queue).id}, IdSet(queue'))
      BY <1>7, <2>1, <2>2, <3>1, <3>2, Zenon
    <3>. QED
      BY <2>1, <3>3 DEF Below
  <2>3. CASE queue = <<>>
    BY <1>8, <2>1, <2>3, Zenon DEF PollReadWindows
  <2>. QED
    BY <2>2, <2>3
<1>9. CASE ReadTurn /\ ~Windows
  <2>1. /\ Ordered /\ Accounted /\ UNCHANGED <<queue, reader, held, arrived, lost>>
        /\ HeldIds = {} /\ HeldIds' = {} /\ queue = <<>>
    BY <1>9 DEF ReadTurn, OrderInv, Alive, HeldIds, TypeInv
  <2>2. IdSet(queue) = {}
    BY <2>1 DEF IdSet
  <2>3. CASE ring # <<>> /\ ring' = Tail(ring) /\ Deliver(Head(ring), Stripped(Head(ring)))
    <3>1. ring \in Seq(Packet) /\ Below(IdSet(got), IdSet(ring))
      BY <2>1 DEF Below, TypeInv
    <3>2. /\ Sorted(got')
          /\ \/ IdSet(got') = IdSet(got) \cup {Head(ring).id} /\ large' = large
             \/ IdSet(got') = IdSet(got) /\ large' = large \cup {Head(ring).id}
          /\ IdSet(ring) = {Head(ring).id} \cup IdSet(ring') /\ Sorted(ring')
          /\ Below({Head(ring).id}, IdSet(ring'))
      BY <1>7, <2>1, <2>3, <3>1, Zenon
    <3>. QED
      BY <2>1, <2>2, <3>2 DEF Below
  <2>4. CASE UNCHANGED <<ring, got, large>>
    BY <2>1, <2>4
  <2>. QED
    BY <1>9, <2>3, <2>4 DEF ReadTurn
<1>. QED
  BY <1>1, <1>2, <1>3, <1>4, <1>5, <1>6, <1>8, <1>9, WriteFrame
     DEF Next, Reading, PollReadLinux, PollReadMacos, Windows

(* Only a task that is alive, and stays so, is handed anything.               *)
LEMMA GotStep == TypeInv /\ OrderInv' /\ GotInv /\ [Next]_vars => GotInv'
<1>. SUFFICES ASSUME TypeInv, OrderInv', GotInv, [Next]_vars PROVE GotInv'
  OBVIOUS
<1>0. arrived \in Nat
  BY DeviceAssumption DEF TypeInv
<1>1. arrived' = arrived \/ arrived' = arrived + 1
  BY WriteFrame, Zenon
     DEF Next, Reading, PollReadLinux, PollReadMacos, PollReadWindows, ReadTurn, Arrive, Shutdown,
         DropDevice, Receive, Send, readVars
<1>2. CASE got' = got
  BY <1>0, <1>1, <1>2 DEF GotInv
<1>3. CASE got' # got
  <2>1. PollReadWindows \/ ReadTurn
    BY <1>3, WriteFrame, Zenon
       DEF Next, Reading, PollReadLinux, PollReadMacos, Arrive, Shutdown, DropDevice, Receive, Send,
           readVars
  <2>2. task = "runnable" /\ (\E p, n : Deliver(p, n))
    BY <1>3, <2>1 DEF PollReadWindows, ReadTurn
  <2>3. task' = "runnable"
    BY <1>3, <2>2 DEF Deliver
  <2>. QED
    BY <2>3 DEF OrderInv, Accounted, Alive, GotInv
<1>. QED
  BY <1>2, <1>3

(* Lengths are numbers, and a failure is not a length.                        *)
LEMMA BufferFacts ==
  Header \in Nat /\ (\A buf \in Buffers : buf.len \in Nat) /\ ~ (Failed > 0)
<1>1. \A buf \in Buffers : buf.len \in Nat
  BY DeviceAssumption, Zenon DEF Buffers
<1>2. ~ (Failed > 0)
  BY DEF Failed
<1>. QED
  BY <1>1, <1>2, DeviceAssumption

(* poll_write reports the packet it was given, on each platform.              *)
LEMMA WriteStep == TypeInv /\ WriteReports /\ [Next]_vars => WriteReports'
<1>. SUFFICES ASSUME TypeInv, WriteReports, [Next]_vars PROVE WriteReports'
  OBVIOUS
<1>1. CASE UNCHANGED <<platform, wrote>>
  BY <1>1 DEF WriteReports, Windows, HeaderLen
<1>2. ASSUME NEW buf \in Buffers, NEW frame, NEW result, Wrote(buf, frame, result),
             \/ result \in {buf.len, Failed} /\ frame = NoFrame /\ (result > 0 => Windows)
             \/ result = buf.len /\ frame.len = buf.len + HeaderLen
                /\ (platform = "macos" => <<buf.version, frame.family>> \in {<<4, 2>>, <<6, 30>>})
      PROVE  WriteReports'
  <2>1. /\ wrote' = [buf |-> buf, frame |-> frame, result |-> result]
        /\ platform' = platform /\ buf.len \in Nat
    BY <1>2, DeviceAssumption, Zenon DEF Wrote, Buffers
  <2>2. wrote'.buf = buf /\ wrote'.frame = frame /\ wrote'.result = result
    BY <2>1
  <2>3. Windows' = Windows /\ HeaderLen' = HeaderLen
    BY <2>1 DEF Windows, HeaderLen
  <2>4. result \in {buf.len, Failed} /\ (result = Failed => frame = NoFrame)
    BY <1>2, <2>1 DEF Failed
  <2>5. /\ result > 0 => \/ Windows /\ frame = NoFrame
                        \/ frame.len = buf.len + HeaderLen
        /\ platform = "macos" /\ frame # NoFrame =>
             <<buf.version, frame.family>> \in {<<4, 2>>, <<6, 30>>}
    BY <1>2
  <2>. QED
    BY <2>1, <2>2, <2>3, <2>4, <2>5 DEF WriteReports
<1>3. ASSUME NEW buf \in Buffers, NEW refused, Checked(buf, refused) PROVE WriteReports'
  BY <1>2, <1>3, BufferFacts DEF Checked
<1>4. ASSUME NEW buf \in Buffers, Accepted(buf), platform = "macos" => ~Versionless(buf)
      PROVE  WriteReports'
  <2>1. /\ Frame(buf).len = buf.len + HeaderLen /\ Reported(Frame(buf)) = buf.len
    BY BufferFacts DEF Frame, Reported, HeaderLen
  <2>2. platform = "macos" => <<buf.version, Frame(buf).family>> \in {<<4, 2>>, <<6, 30>>}
    BY <1>4 DEF Frame, Versionless, FamilyOf
  <2>. QED
    BY <1>2, <1>4, <2>1, <2>2 DEF Accepted
<1>5. ASSUME NEW buf \in Buffers, PollWriteWindows(buf) PROVE WriteReports'
  BY <1>2, <1>3, <1>4, <1>5 DEF PollWriteWindows, Windows
<1>6. ASSUME NEW buf \in Buffers, PollWriteLinux(buf) \/ PollWriteMacos(buf) PROVE WriteReports'
  BY <1>2, <1>3, <1>4, <1>6, BufferFacts DEF PollWriteLinux, PollWriteMacos
<1>. QED
  BY <1>1, <1>5, <1>6, Zenon
     DEF Next, Reading, PollReadLinux, PollReadMacos, PollReadWindows, ReadTurn, Arrive, Shutdown,
         DropDevice, Receive, Send, Congestion, writeVars, vars

(* The invariant is inductive.                                                *)
THEOREM DeviceInvariant == Spec => []DeviceInv
<1>1. Init => DeviceInv
  <2>. SUFFICES ASSUME Init PROVE DeviceInv
    OBVIOUS
  <2>1. IdSet(<<>>) = {} /\ 1..0 = {}
    BY DEF IdSet
  <2>2. TypeInv
    <3>1. <<>> \in Seq(Packet) /\ <<>> \in Seq(Delivered) /\ Len(<<>>) = 0
      BY EmptySeq
    <3>2. arrived \in 0..MaxArrivals /\ 0 <= RingSize /\ 0 <= QueueDepth
      BY DeviceAssumption DEF Init
    <3>3. platform \in {"windows", "linux", "macos"}
      BY DeviceAssumption DEF Init
    <3>. QED
      BY <3>1, <3>2, <3>3, Zenon DEF Init, TypeInv, Windows
  <2>3. OrderInv
    BY <2>1 DEF Init, OrderInv, Ordered, Accounted, Sorted, Below, HeldIds, Windows
  <2>4. EndInv /\ WholeInv /\ GotInv
    BY <2>1 DEF Init, EndInv, NoLostWakeup, WholeInv, GotInv
  <2>5. WriteReports
    BY DEF Init, WriteReports, NoFrame, Failed
  <2>. QED
    BY <2>2, <2>3, <2>4, <2>5 DEF DeviceInv
<1>2. DeviceInv /\ [Next]_vars => DeviceInv'
  BY TypeStep, EndStep, OrderStep, WholeStep, GotStep, WriteStep DEF DeviceInv
<1>. QED
  BY <1>1, <1>2, PTL DEF Spec

-----------------------------------------------------------------------------
(* The numbers of packets in order, one station behind another.               *)
LEMMA ConcatSorted ==
  ASSUME NEW s \in Seq(Nat), NEW t \in Seq(Nat),
         \A i, j \in DOMAIN s : i < j => s[i] < s[j],
         \A i, j \in DOMAIN t : i < j => t[i] < t[j],
         Below(Range(s), Range(t))
  PROVE  /\ s \o t \in Seq(Nat)
         /\ \A i, j \in DOMAIN (s \o t) : i < j => (s \o t)[i] < (s \o t)[j]
         /\ Range(s \o t) = Range(s) \cup Range(t)
<1>. DEFINE u == s \o t
<1>1. /\ u \in Seq(Nat) /\ Len(s) \in Nat /\ Len(t) \in Nat
      /\ DOMAIN s = 1..Len(s) /\ DOMAIN t = 1..Len(t) /\ DOMAIN u = 1..(Len(s) + Len(t))
      /\ \A i \in DOMAIN u : u[i] = IF i <= Len(s) THEN s[i] ELSE t[i - Len(s)]
  BY ConcatProperties, LenProperties
<1>. HIDE DEF u
<1>2. ASSUME NEW i \in DOMAIN u
      PROVE  \/ i \in DOMAIN s /\ u[i] = s[i]
             \/ i - Len(s) \in DOMAIN t /\ u[i] = t[i - Len(s)] /\ i > Len(s)
  BY <1>1
<1>3. ASSUME NEW i \in DOMAIN u, NEW j \in DOMAIN u, i < j PROVE u[i] < u[j]
  <2>1. CASE j <= Len(s)
    BY <1>1, <1>3, <2>1
  <2>2. CASE i > Len(s)
    <3>1. i \in Nat /\ j \in Nat /\ Len(s) \in Nat /\ j > Len(s)
      BY <1>1, <1>3, <2>2
    <3>2. i \notin DOMAIN s /\ j \notin DOMAIN s
      BY <1>1, <2>2, <3>1
    <3>3. i - Len(s) \in DOMAIN t /\ u[i] = t[i - Len(s)]
      BY <1>2, <3>2
    <3>4. j - Len(s) \in DOMAIN t /\ u[j] = t[j - Len(s)]
      BY <1>2, <3>2
    <3>5. i - Len(s) < j - Len(s)
      BY <1>3, <3>1
    <3>. QED
      BY <3>3, <3>4, <3>5
  <2>3. CASE i <= Len(s) /\ j > Len(s)
    <3>1. i \in DOMAIN s /\ j \notin DOMAIN s
      BY <1>1, <2>3
    <3>2. u[i] = s[i] /\ s[i] \in Range(s)
      BY <1>1, <2>3, <3>1 DEF Range
    <3>3. j - Len(s) \in DOMAIN t /\ u[j] = t[j - Len(s)]
      BY <1>2, <3>1
    <3>4. u[j] \in Range(t)
      BY <3>3 DEF Range
    <3>. QED
      BY <3>2, <3>4 DEF Below
  <2>. QED
    BY <1>1, <2>1, <2>2, <2>3
<1>4. Range(u) = Range(s) \cup Range(t)
  <2>1. \A i \in DOMAIN s : i \in DOMAIN u /\ u[i] = s[i]
    BY <1>1
  <2>2. ASSUME NEW i \in DOMAIN t PROVE i + Len(s) \in DOMAIN u /\ u[i + Len(s)] = t[i]
    <3>1. i \in Nat /\ i >= 1 /\ i <= Len(t) /\ Len(s) \in Nat
      BY <1>1
    <3>2. i + Len(s) \in DOMAIN u /\ ~ (i + Len(s) <= Len(s)) /\ (i + Len(s)) - Len(s) = i
      BY <1>1, <3>1
    <3>. QED
      BY <1>1, <3>2
  <2>. QED
    BY <1>2, <2>1, <2>2 DEF Range
<1>. QED
  BY <1>1, <1>3, <1>4 DEF u

(* The numbers of a station.                                                  *)
LEMMA IdsFacts ==
  ASSUME NEW S, \A p \in S : p.id \in Nat, NEW s \in Seq(S), Sorted(s)
  PROVE  /\ Ids(s) \in Seq(Nat) /\ Range(Ids(s)) = IdSet(s)
         /\ \A i, j \in DOMAIN Ids(s) : i < j => Ids(s)[i] < Ids(s)[j]
<1>1. DOMAIN s = 1..Len(s) /\ Len(s) \in Nat /\ \A i \in DOMAIN s : s[i].id \in Nat
  BY LenProperties, ElementOfSeq
<1>2. DOMAIN Ids(s) = DOMAIN s /\ \A i \in DOMAIN s : Ids(s)[i] = s[i].id
  BY DEF Ids
<1>3. Ids(s) \in [1..Len(s) -> Nat]
  BY <1>1 DEF Ids
<1>4. Ids(s) \in Seq(Nat)
  BY <1>1, <1>3
<1>. QED
  BY <1>2, <1>4 DEF Range, IdSet, Sorted

(* The station invariants give the order of the whole pipeline.               *)
LEMMA PipelineInOrder == DeviceInv => InOrderOnce
<1>. SUFFICES ASSUME DeviceInv, Alive \/ eof PROVE InOrderOnce
  BY DEF InOrderOnce
<1>. DEFINE H == IF held = NoPacket THEN <<>> ELSE <<held.id>>
            GQ == Ids(got) \o Ids(queue)
            GQH == GQ \o H
<1>0. (\A p \in Packet : p.id \in Nat /\ p # NoPacket) /\ (\A d \in Delivered : d.id \in Nat)
  BY PacketFacts
<1>1. TypeInv /\ Ordered /\ Accounted /\ WholeInv
  BY DEF DeviceInv, OrderInv
<1>2. /\ Ids(got) \in Seq(Nat) /\ Range(Ids(got)) = IdSet(got)
      /\ \A i, j \in DOMAIN Ids(got) : i < j => Ids(got)[i] < Ids(got)[j]
  BY <1>0, <1>1, IdsFacts DEF TypeInv, Ordered
<1>3. /\ Ids(queue) \in Seq(Nat) /\ Range(Ids(queue)) = IdSet(queue)
      /\ \A i, j \in DOMAIN Ids(queue) : i < j => Ids(queue)[i] < Ids(queue)[j]
  BY <1>0, <1>1, IdsFacts DEF TypeInv, Ordered
<1>4. /\ Ids(ring) \in Seq(Nat) /\ Range(Ids(ring)) = IdSet(ring)
      /\ \A i, j \in DOMAIN Ids(ring) : i < j => Ids(ring)[i] < Ids(ring)[j]
  BY <1>0, <1>1, IdsFacts DEF TypeInv, Ordered
<1>5. /\ H \in Seq(Nat) /\ Range(H) = HeldIds
      /\ \A i, j \in DOMAIN H : i < j => H[i] < H[j]
  <2>1. CASE reader = "send"
    <3>1. H = <<held.id>> /\ held.id \in Nat /\ HeldIds = {held.id}
      BY <1>0, <1>1, <2>1 DEF TypeInv, HeldIds
    <3>. QED
      BY <3>1 DEF Range
  <2>2. CASE reader # "send"
    <3>1. H = <<>> /\ HeldIds = {}
      BY <1>1, <2>2 DEF TypeInv, HeldIds
    <3>. QED
      BY <3>1, EmptySeq DEF Range
  <2>. QED
    BY <2>1, <2>2
<1>. HIDE DEF H
<1>6. /\ GQ \in Seq(Nat) /\ Range(GQ) = IdSet(got) \cup IdSet(queue)
      /\ \A i, j \in DOMAIN GQ : i < j => GQ[i] < GQ[j]
  <2>1. Below(IdSet(got), IdSet(queue))
    BY <1>1 DEF Ordered, Below
  <2>. QED
    BY <1>2, <1>3, <2>1, ConcatSorted
<1>. HIDE DEF GQ
<1>7. /\ GQH \in Seq(Nat) /\ Range(GQH) = IdSet(got) \cup IdSet(queue) \cup HeldIds
      /\ \A i, j \in DOMAIN GQH : i < j => GQH[i] < GQH[j]
  <2>1. Below(IdSet(got) \cup IdSet(queue), HeldIds)
    BY <1>1 DEF Ordered, Below
  <2>. QED
    BY <1>5, <1>6, <2>1, ConcatSorted, Zenon
<1>. HIDE DEF GQH
<1>8. /\ Range(GQH \o Ids(ring)) = IdSet(got) \cup IdSet(queue) \cup HeldIds \cup IdSet(ring)
      /\ \A i, j \in DOMAIN (GQH \o Ids(ring)) :
           i < j => (GQH \o Ids(ring))[i] < (GQH \o Ids(ring))[j]
  <2>1. Below(IdSet(got) \cup IdSet(queue) \cup HeldIds, IdSet(ring))
    BY <1>1 DEF Ordered, Below
  <2>. QED
    BY <1>4, <1>7, <2>1, ConcatSorted, Zenon
<1>9. Pipeline = GQH \o Ids(ring)
  BY DEF Pipeline, GQH, GQ, H
<1>. QED
  BY <1>1, <1>8, <1>9 DEF InOrderOnce, Accounted, WholeInv

(* None of the buffers between the driver and the netstack exceeds its        *)
(* capacity, for any READ_QUEUE_DEPTH.                                        *)
THEOREM BuffersBounded == Spec => []TypeOK
<1>1. DeviceInv => TypeOK
  BY PacketFacts DEF DeviceInv, TypeInv, GotInv, IdSet, TypeOK
<1>. QED
  BY <1>1, DeviceInvariant, PTL

(* One IP packet per read: whole, once, in the order of arrival, through the  *)
(* reader thread and the channel or straight from the fd.                     *)
THEOREM PacketsInOrder == Spec => []InOrderOnce
  BY PipelineInOrder, DeviceInvariant, PTL

(* poll_read never returns Pending over something it could have returned.     *)
THEOREM WakeupsKept == Spec => []NoLostWakeup
<1>1. DeviceInv => NoLostWakeup
  BY DEF DeviceInv, EndInv
<1>. QED
  BY <1>1, DeviceInvariant, PTL

(* The end of the device is read after the last packet of the channel.        *)
THEOREM EndComesLast == Spec => []EofIsLast
<1>1. DeviceInv => EofIsLast
  BY DEF DeviceInv, EndInv, EofIsLast
<1>. QED
  BY <1>1, DeviceInvariant, PTL

(* poll_write reports the packet's length, frames it for its family, and      *)
(* sends nothing when it fails.                                               *)
THEOREM WritesReported == Spec => []WriteReports
<1>1. DeviceInv => WriteReports
  BY DEF DeviceInv
<1>. QED
  BY <1>1, DeviceInvariant, PTL
=============================================================================
