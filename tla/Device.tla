------------------------------- MODULE Device -------------------------------
(* TunDevice of device.rs: one IP packet per read and per write, between the  *)
(* adapter's driver and the netstack's task.                                  *)
(*                                                                            *)
(*   Windows  ring -> reader thread -> bounded channel -> poll_read           *)
(*   Linux    device queue -> poll_read, driven by readiness of the fd        *)
(*   macOS    the same, each packet behind a header of AF_HEADER_LEN bytes    *)
(*                                                                            *)
(* The driver, tokio's channel and reactor, and the netstack's use of the     *)
(* device are external. A packet that arrives is its number in the order of   *)
(* arrival and its length.                                                    *)
EXTENDS Integers, Sequences, Functions

CONSTANTS
  Platforms,
  RingSize,     \* packets the driver holds
  Header,       \* AF_HEADER_LEN
  Lengths,      \* lengths of packets
  QueueDepth,   \* READ_QUEUE_DEPTH
  Room,         \* the netstack's read buffer
  MaxPacket,    \* MAX_PACKET
  MaxArrivals,  \* bound: packets that arrive
  MaxWrites     \* bound: packets the netstack writes

ASSUME DeviceAssumption ==
  /\ Platforms \subseteq {"windows", "linux", "macos"}
  /\ {RingSize, QueueDepth, Room, MaxPacket, Header} \subseteq Nat \ {0}
  /\ Lengths \subseteq Nat
  /\ MaxArrivals \in Nat /\ MaxWrites \in Nat

NoFrame == [family |-> 0, len |-> 0]
Failed == -1
NoPacket == [id |-> 0, len |-> 0]

VARIABLES
  platform,
  arrived,      \* number of packets that have arrived
  ring,         \* the packets the driver holds
  session,      \* "up", or "down" once the adapter is closed
  reader,       \* the reader thread: "recv", "send" or "exited"
  held,         \* the packet the reader thread is sending
  queue,        \* the channel
  ready,        \* the readiness AsyncFd has cached
  task,         \* the netstack: "runnable", "waiting", "ended"
  got,          \* the packets handed to the netstack, and whether whole
  eof,          \* the device has reported its end
  lost,         \* ghost: packets that found the ring full
  large,        \* ghost: packets larger than the read buffer
  writable,     \* the driver takes another packet
  writes,       \* number of writes so far
  wrote         \* the last write: the buffer, what the driver got, the result

readVars == <<arrived, ring, session, reader, held, queue, ready, task, got, eof,
              lost, large>>
writeVars == <<writable, writes, wrote>>
vars == <<platform, readVars, writeVars>>

Windows == platform = "windows"
Alive == task # "ended"

-----------------------------------------------------------------------------
(* The driver. A packet that finds the ring full is lost; any other makes the *)
(* fd readable, which wakes a waiting task.                                   *)
Arrive(len) ==
  /\ arrived < MaxArrivals /\ session = "up"
  /\ arrived' = arrived + 1
  /\ IF Len(ring) < RingSize
     THEN /\ ring' = Append(ring, [id |-> arrived', len |-> len])
          /\ ready' = ~Windows
          /\ task' = IF ~Windows /\ task = "waiting" THEN "runnable" ELSE task
          /\ UNCHANGED lost
     ELSE lost' = lost \cup {arrived'} /\ UNCHANGED <<ring, ready, task>>
  /\ UNCHANGED <<platform, session, reader, held, queue, got, eof, large, writeVars>>

(* Teardown closes the session on Windows; elsewhere the device's own         *)
(* descriptor keeps the interface.                                            *)
Shutdown ==
  /\ Windows /\ session = "up"
  /\ session' = "down"
  /\ UNCHANGED <<platform, arrived, ring, reader, held, queue, ready, task, got, eof,
                 lost, large, writeVars>>

(* The netstack ends and drops the device, and with it the channel's receiver *)
DropDevice ==
  /\ Alive
  /\ task' = "ended"
  /\ queue' = <<>>
  /\ UNCHANGED <<platform, arrived, ring, session, reader, held, ready, got, eof,
                 lost, large, writeVars>>

Woken == IF task = "waiting" THEN "runnable" ELSE task

-----------------------------------------------------------------------------
(* The Windows reader thread. receive_blocking fails once the session is down *)
(* (the ring may still be drained before it notices).                         *)
Receive ==
  /\ Windows /\ reader = "recv"
  /\ \/ /\ ring # <<>>
        /\ reader' = "send" /\ held' = Head(ring) /\ ring' = Tail(ring)
        /\ UNCHANGED task
     \/ /\ session = "down"
        /\ reader' = "exited" /\ task' = Woken
        /\ UNCHANGED <<held, ring>>
  /\ UNCHANGED <<platform, arrived, session, queue, ready, got, eof, lost, large, writeVars>>

(* Mutant: a packet that finds the channel full is dropped. *)
SendOrDrop ==
  /\ Windows /\ reader = "send"
  /\ \/ /\ Alive
        /\ queue' = IF Len(queue) < QueueDepth THEN Append(queue, held) ELSE queue
        /\ reader' = "recv" /\ task' = Woken
     \/ /\ ~Alive
        /\ reader' = "exited"
        /\ UNCHANGED <<queue, task>>
  /\ held' = NoPacket
  /\ UNCHANGED <<platform, arrived, ring, session, ready, got, eof, lost, large, writeVars>>

(* Mutant: the channel has no bound. *)
SendUnbounded ==
  /\ Windows /\ reader = "send"
  /\ \/ /\ Alive
        /\ queue' = Append(queue, held)
        /\ reader' = "recv" /\ task' = Woken
     \/ /\ ~Alive
        /\ reader' = "exited"
        /\ UNCHANGED <<queue, task>>
  /\ held' = NoPacket
  /\ UNCHANGED <<platform, arrived, ring, session, ready, got, eof, lost, large, writeVars>>

(* Mutant: the send does not notice that the receiver is gone. *)
SendForever ==
  /\ Windows /\ reader = "send" /\ Alive /\ Len(queue) < QueueDepth
  /\ queue' = Append(queue, held)
  /\ reader' = "recv" /\ task' = Woken
  /\ held' = NoPacket
  /\ UNCHANGED <<platform, arrived, ring, session, ready, got, eof, lost, large, writeVars>>

(* blocking_send waits for room, and fails when the receiver is gone.         *)
Send ==
  /\ Windows /\ reader = "send"
  /\ \/ /\ Alive /\ Len(queue) < QueueDepth
        /\ queue' = Append(queue, held)
        /\ reader' = "recv" /\ task' = Woken
     \/ /\ ~Alive
        /\ reader' = "exited"
        /\ UNCHANGED <<queue, task>>
  /\ held' = NoPacket
  /\ UNCHANGED <<platform, arrived, ring, session, ready, got, eof, lost, large, writeVars>>

-----------------------------------------------------------------------------
(* Mutant: nobody wakes the task after the drop. *)
DeliverSilent(p, n) ==
  IF n > Room
  THEN large' = large \cup {p.id} /\ task' = "waiting" /\ UNCHANGED got
  ELSE /\ got' = Append(got, [id |-> p.id, whole |-> n = p.len])
       /\ UNCHANGED <<large, task>>

(* A packet of which n bytes are at hand. One that does not fit is dropped,   *)
(* and the task asks to be polled again; any other is copied out.             *)
Deliver(p, n) ==
  IF n > Room
  THEN large' = large \cup {p.id} /\ task' = "runnable" /\ UNCHANGED got
  ELSE /\ got' = Append(got, [id |-> p.id, whole |-> n = p.len])
       /\ UNCHANGED <<large, task>>

PollReadWindows ==
  /\ Windows /\ task = "runnable"
  /\ \/ /\ queue # <<>>
        /\ queue' = Tail(queue) /\ Deliver(Head(queue), Head(queue).len)
        /\ UNCHANGED eof
     \/ /\ queue = <<>> /\ reader = "exited"
        /\ eof' = TRUE /\ task' = "ended"
        /\ UNCHANGED <<queue, got, large>>
     \/ /\ queue = <<>> /\ reader # "exited"
        /\ task' = "waiting"
        /\ UNCHANGED <<queue, got, large, eof>>
  /\ UNCHANGED <<platform, arrived, ring, session, reader, held, ready, lost, writeVars>>

(* What a read of the fd returns of a packet, and where its bytes begin.      *)
HeaderLen == IF platform = "macos" THEN Header ELSE 0

Received(p) ==
  LET frame   == HeaderLen + p.len
      scratch == HeaderLen + MaxPacket
  IN IF frame < scratch THEN frame ELSE scratch

Stripped(p) == Received(p) - HeaderLen

(* One turn of the loop: without readiness the task waits; a read that would  *)
(* block clears the readiness; an error of either, or a read shorter than the *)
(* header, ends the netstack.                                                 *)
ReadTurn ==
  /\ task = "runnable"
  /\ \/ /\ ~ready
        /\ task' = "waiting"
        /\ UNCHANGED <<ring, ready, got, large>>
     \/ /\ ready /\ ring = <<>>
        /\ ready' = FALSE
        /\ UNCHANGED <<ring, task, got, large>>
     \/ /\ ready /\ ring # <<>>
        /\ ring' = Tail(ring) /\ Deliver(Head(ring), Stripped(Head(ring)))
        /\ UNCHANGED ready
     \/ /\ ready
        /\ task' = "ended"
        /\ UNCHANGED <<ring, ready, got, large>>
  /\ UNCHANGED <<platform, arrived, session, reader, held, queue, eof, lost, writeVars>>

PollReadLinux == platform = "linux" /\ ReadTurn

PollReadMacos == platform = "macos" /\ ReadTurn

-----------------------------------------------------------------------------
(* poll_write, with a buffer of any length that begins with any version. The  *)
(* driver takes a whole packet or nothing.                                    *)
FamilyOf(version) == IF version = 4 THEN 2 ELSE 30

(* macOS needs a byte to tell the version from, and asks for a header's worth. *)
Versionless(buf) == buf.len < Header \/ buf.version \notin {4, 6}

Frame(buf) ==
  [family |-> IF platform = "macos" THEN FamilyOf(buf.version) ELSE 0,
   len    |-> HeaderLen + buf.len]

(* Mutant: the header is counted. *)
ReportedOfFrame(frame) == frame.len

Reported(frame) == frame.len - HeaderLen

Wrote(buf, frame, result) ==
  /\ writes < MaxWrites
  /\ writes' = writes + 1
  /\ wrote' = [buf |-> buf, frame |-> frame, result |-> result]
  /\ UNCHANGED <<platform, readVars, writable>>

Checked(buf, refused) ==
  \/ buf.len = 0 /\ Wrote(buf, NoFrame, 0)
  \/ buf.len > 0 /\ refused /\ Wrote(buf, NoFrame, Failed)

Accepted(buf) == writable /\ session = "up" /\ Wrote(buf, Frame(buf), Reported(Frame(buf)))

(* A packet for which the send ring has no room is dropped.                   *)
PollWriteWindows(buf) ==
  /\ Windows /\ Alive
  /\ \/ Checked(buf, buf.len > MaxPacket)
     \/ /\ buf.len \in 1..MaxPacket
        /\ \/ Accepted(buf)
           \/ ~(writable /\ session = "up") /\ Wrote(buf, NoFrame, buf.len)

PollWriteLinux(buf) ==
  /\ platform = "linux" /\ Alive
  /\ \/ Checked(buf, buf.len > MaxPacket)
     \/ buf.len \in 1..MaxPacket /\ (Accepted(buf) \/ Wrote(buf, NoFrame, Failed))

PollWriteMacos(buf) ==
  /\ platform = "macos" /\ Alive
  /\ \/ Checked(buf, buf.len > MaxPacket \/ Versionless(buf))
     \/ /\ buf.len \in 1..MaxPacket /\ ~Versionless(buf)
        /\ Accepted(buf) \/ Wrote(buf, NoFrame, Failed)

(* The driver's send side fills and empties. On Unix a write that would block *)
(* waits for the next turn.                                                   *)
Congestion ==
  /\ writable' = ~writable
  /\ UNCHANGED <<platform, readVars, writes, wrote>>

-----------------------------------------------------------------------------
Buffers == [version : {4, 6, 0}, len : Lengths]

Init ==
  /\ platform \in Platforms
  /\ arrived = 0 /\ ring = <<>> /\ session = "up"
  /\ reader = IF Windows THEN "recv" ELSE "exited"
  /\ held = NoPacket /\ queue = <<>> /\ ready = FALSE
  /\ task = "runnable" /\ got = <<>> /\ eof = FALSE /\ lost = {} /\ large = {}
  /\ writable = TRUE /\ writes = 0
  /\ wrote = [buf |-> [version |-> 0, len |-> 0], frame |-> NoFrame, result |-> 0]

Reading == Receive \/ Send \/ PollReadWindows \/ PollReadLinux \/ PollReadMacos

Next ==
  \/ \E len \in Lengths \ {0} : len <= MaxPacket /\ Arrive(len)
  \/ Shutdown \/ DropDevice
  \/ Reading
  \/ \E buf \in Buffers : PollWriteWindows(buf) \/ PollWriteLinux(buf) \/ PollWriteMacos(buf)
  \/ Congestion

Spec == Init /\ [][Next]_vars

(* The reader thread and a task that has been woken are scheduled. Nothing is *)
(* assumed of the driver, of teardown or of the netstack's writes.            *)
FairSpec ==
  /\ Spec
  /\ WF_vars(Receive) /\ WF_vars(Send)
  /\ WF_vars(PollReadWindows) /\ WF_vars(PollReadLinux) /\ WF_vars(PollReadMacos)

-----------------------------------------------------------------------------
(* Packets on their way to the netstack are where device.rs keeps them, and   *)
(* none of its buffers exceeds its capacity.                                  *)
TypeOK ==
  /\ arrived \in 0..MaxArrivals
  /\ Len(ring) <= RingSize /\ Len(queue) <= QueueDepth
  /\ session \in {"up", "down"} /\ reader \in {"recv", "send", "exited"}
  /\ task \in {"runnable", "waiting", "ended"}
  /\ held # NoPacket <=> reader = "send"
  /\ \A i \in DOMAIN got : got[i].id \in 1..arrived

Ids(packets) == [i \in DOMAIN packets |-> packets[i].id]

(* The packets of the device in the order the netstack sees them.             *)
Pipeline ==
  Ids(got) \o Ids(queue) \o (IF held = NoPacket THEN <<>> ELSE <<held.id>>) \o Ids(ring)

(* "One IP packet per read": until the netstack drops the device, every       *)
(* packet that arrived is on its way or delivered, whole, once and in order.  *)
(* Only the driver loses packets, for want of room in its ring, and only a    *)
(* packet larger than the read buffer is dropped behind it.                   *)
InOrderOnce ==
  Alive \/ eof =>
    /\ \A i, j \in DOMAIN Pipeline : i < j => Pipeline[i] < Pipeline[j]
    /\ Range(Pipeline) = 1..arrived \ (lost \cup large)
    /\ \A i \in DOMAIN got : got[i].whole

(* poll_read never leaves the task asleep over something it could return: a   *)
(* queued packet, the end of the channel, or a readable fd. The drop of an    *)
(* oversized packet has to wake the task itself.                              *)
NoLostWakeup ==
  task = "waiting" =>
    /\ queue = <<>>
    /\ IF Windows THEN reader # "exited" ELSE ring = <<>>

(* The end of the device is reported after everything that was received: the  *)
(* channel is closed when the reader thread exits, and read to its end.       *)
EofIsLast == eof => reader = "exited" /\ queue = <<>>

(* The length poll_write reports is the packet's, without the header macOS    *)
(* puts before it; the frame the driver gets has the family of the packet's   *)
(* version; after an error nothing was sent, and only Windows drops silently. *)
WriteReports ==
  /\ wrote.result \in {wrote.buf.len, Failed}
  /\ wrote.result = Failed => wrote.frame = NoFrame
  /\ wrote.result > 0 =>
       \/ Windows /\ wrote.frame = NoFrame
       \/ wrote.frame.len = wrote.buf.len + HeaderLen
  /\ platform = "macos" /\ wrote.frame # NoFrame =>
       <<wrote.buf.version, wrote.frame.family>> \in {<<4, 2>>, <<6, 30>>}

(* ReaderHandle::join returns: once the session is down the reader thread     *)
(* exits, also when it was blocked on a full channel, because the netstack    *)
(* goes on reading or has dropped the receiver.                               *)
ReaderExits == session = "down" ~> reader = "exited"

(* Every packet is delivered or dropped, unless the device ends before.       *)
PacketsMove ==
  \A n \in 1..MaxArrivals :
    arrived >= n ~> \/ n \in Range(Ids(got)) \cup lost \cup large
                    \/ ~Alive \/ session = "down"
=============================================================================
