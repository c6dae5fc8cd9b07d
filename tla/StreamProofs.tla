---------------------------- MODULE StreamProofs ----------------------------
(***************************************************************************)
(* Theorems about CommandStream, for every table of message lengths, every *)
(* packet size and all contents of the payload, disconnections included.   *)
(***************************************************************************)
EXTENDS CommandStream, InductionProofs

(* A host that sends no '~', the command that stays in the receive buffer  *)
(* (see DriveControl).  The device knows it, and payload may look like it. *)
NoRestart == "~" \notin Commands

(* What the buffer holds between two iterations: a command that is still   *)
(* incomplete.                                                             *)
Waiting ==
  receive # << >> => /\ Head(receive).char \in Known
                     /\ Len(receive) < MessageLen[Head(receive).char]

(* What Message_Handling_Task finds after the next byte: at most a whole   *)
(* command, or a single byte that is none.                                 *)
Peeked ==
  receive # << >> => \/ /\ Head(receive).char \in Known
                        /\ Len(receive) <= MessageLen[Head(receive).char]
                     \/ Len(receive) = 1

StreamInv ==
  /\ StreamTypeOK
  /\ (~jammed /\ step = "upkeep") => Waiting
  /\ (~jammed /\ step = "messages") => Peeked

(* The endpoint and the buffers start empty.                               *)
LEMMA StreamInit == Init => StreamInv
<1> SUFFICES ASSUME Init PROVE StreamInv
  OBVIOUS
<1>1. outgoing \in Seq(Byte) /\ bank \in Seq(Byte) /\ receive \in Seq(Byte)
  BY EmptySeq DEF Init
<1>2. Len(outgoing) <= MaxOutgoing /\ Len(bank) <= PacketSize /\ Len(receive) <= Capacity
  <2>1. Len(outgoing) = 0 /\ Len(bank) = 0 /\ Len(receive) = 0
    BY EmptySeq DEF Init
  <2> QED BY <2>1, StreamAssumption
<1>3. Waiting /\ step = "upkeep"
  BY DEF Init, Waiting
<1>4. StreamTypeOK
  BY <1>1, <1>2 DEF Init, StreamTypeOK
<1> QED BY <1>3, <1>4 DEF StreamInv

(* A part of a sequence, and how long it is.                               *)
LEMMA Part ==
  ASSUME NEW S, NEW s \in Seq(S), NEW m \in 1 .. Len(s) + 1, NEW n \in m - 1 .. Len(s)
  PROVE  /\ SubSeq(s, m, n) \in Seq(S)
         /\ Len(SubSeq(s, m, n)) = n - m + 1
<1>1. \A i \in m .. n : s[i] \in S
  BY LenProperties, ElementOfSeq
<1> QED BY <1>1, SubSeqProperties, LenProperties

(* What the host writes is a sequence of bytes.                            *)
LEMMA MessageTyped ==
  ASSUME NEW c \in Commands, NEW len \in Nat \ {0},
         NEW payload \in [1 .. len - 1 -> PayloadChars]
  PROVE  Message(c, payload) \in Seq(Byte) /\ Len(Message(c, payload)) = len
<1> DEFINE rest == [i \in DOMAIN payload |-> [char |-> payload[i], first |-> FALSE]]
<1>1. <<[char |-> c, first |-> TRUE]>> \in Seq(Byte)
  BY DEF Byte
<1>2. rest \in [1 .. len - 1 -> Byte]
  BY DEF Byte
<1>3. rest \in Seq(Byte) /\ Len(rest) = len - 1
  BY <1>2
<1> HIDE DEF rest
<1>4. Message(c, payload) = <<[char |-> c, first |-> TRUE]>> \o rest
  BY DEF Message, rest
<1> QED BY <1>1, <1>3, <1>4, ConcatProperties

(* A write is a message: of the length of its command, if it is known.     *)
LEMMA WriteMessage ==
  ASSUME NEW c \in Commands, Write(c)
  PROVE  \E len \in Nat \ {0} : \E payload \in [1 .. len - 1 -> PayloadChars] :
            /\ c \in Known => len = MessageLen[c]
            /\ Len(outgoing) + len <= MaxOutgoing
            /\ outgoing' = outgoing \o Message(c, payload)
<1>1. PICK len \in IF c \in Known THEN {MessageLen[c]} ELSE 1 .. UnknownLen :
        \E payload \in [1 .. len - 1 -> PayloadChars] :
           Len(outgoing) + len <= MaxOutgoing /\ outgoing' = outgoing \o Message(c, payload)
  BY DEF Write
<1>2. len \in Nat \ {0} /\ (c \in Known => len = MessageLen[c])
  BY StreamAssumption
<1> QED BY <1>1, <1>2

(* A write of the host.                                                    *)
LEMMA WriteInv ==
  ASSUME StreamInv, NEW c \in Commands, Write(c)
  PROVE  StreamInv'
<1>1. PICK len \in Nat \ {0} : \E payload \in [1 .. len - 1 -> PayloadChars] :
        Len(outgoing) + len <= MaxOutgoing /\ outgoing' = outgoing \o Message(c, payload)
  BY WriteMessage
<1>2. PICK payload \in [1 .. len - 1 -> PayloadChars] : outgoing' = outgoing \o Message(c, payload)
  BY <1>1
<1>3. outgoing' \in Seq(Byte) /\ Len(outgoing') = Len(outgoing) + len
  <2>1. Message(c, payload) \in Seq(Byte) /\ Len(Message(c, payload)) = len
    BY MessageTyped
  <2>2. outgoing \in Seq(Byte)
    BY DEF StreamInv, StreamTypeOK
  <2> QED BY <1>2, <2>1, <2>2, ConcatProperties
<1>4. Len(outgoing') <= MaxOutgoing
  BY <1>1, <1>3
<1>5. UNCHANGED <<received, bank, reading, clear_buffer, receive, step, handled, jammed, cut>>
  BY DEF Write, deviceVars
<1> QED BY <1>3, <1>4, <1>5 DEF StreamInv, StreamTypeOK, Waiting, Peeked

(* A packet.                                                               *)
LEMMA DeliverInv ==
  ASSUME StreamInv, Deliver
  PROVE  StreamInv'
<1>1. PICK n \in 1 .. Len(outgoing) :
        /\ n <= PacketSize
        /\ bank' = SubSeq(outgoing, 1, n)
        /\ outgoing' = SubSeq(outgoing, n + 1, Len(outgoing))
  BY DEF Deliver
<1>2. outgoing \in Seq(Byte) /\ Len(outgoing) \in Nat /\ Len(outgoing) <= MaxOutgoing
  BY LenProperties DEF StreamInv, StreamTypeOK
<1>3. bank' \in Seq(Byte) /\ Len(bank') = n
  BY <1>1, <1>2, Part
<1>4. outgoing' \in Seq(Byte) /\ Len(outgoing') = Len(outgoing) - n
  BY <1>1, <1>2, Part
<1>5. Len(bank') <= PacketSize /\ Len(outgoing') <= MaxOutgoing
  BY <1>1, <1>2, <1>3, <1>4, StreamAssumption
<1>6. received' \in BOOLEAN /\ UNCHANGED <<reading, clear_buffer, receive, step, handled, jammed, cut>>
  BY DEF Deliver, deviceVars
<1> QED BY <1>3, <1>4, <1>5, <1>6 DEF StreamInv, StreamTypeOK, Waiting, Peeked

(* A disconnection leaves the device with what it has.                     *)
LEMMA ReconnectInv ==
  ASSUME StreamInv, Reconnect
  PROVE  StreamInv'
<1>1. /\ outgoing' \in Seq(Byte) /\ Len(outgoing') <= MaxOutgoing
      /\ bank' \in Seq(Byte) /\ Len(bank') <= PacketSize
      /\ received' \in BOOLEAN
  <2>1. outgoing' = << >> /\ bank' = << >> /\ received' = FALSE
    BY DEF Reconnect
  <2>2. << >> \in Seq(Byte) /\ Len(<< >>) = 0
    BY EmptySeq
  <2>3. 0 <= MaxOutgoing /\ 0 <= PacketSize
    BY StreamAssumption
  <2> QED BY <2>1, <2>2, <2>3
<1>2. cut' \in BOOLEAN
  BY Zenon DEF Reconnect
<1>3. UNCHANGED <<reading, clear_buffer, receive, step, handled, jammed>>
  BY DEF Reconnect, deviceVars
<1> QED BY <1>1, <1>2, <1>3 DEF StreamInv, StreamTypeOK, Waiting, Peeked

(* A byte more: an incomplete command has room for it.                     *)
LEMMA PushPeeked ==
  ASSUME StreamTypeOK, Waiting, NEW b \in Byte
  PROVE  /\ rb_push_back(receive, b) \in Seq(Byte)
         /\ Len(rb_push_back(receive, b)) <= Capacity
         /\ \/ Len(rb_push_back(receive, b)) = 1
            \/ /\ Head(rb_push_back(receive, b)) = Head(receive)
               /\ Head(receive).char \in Known
               /\ Len(rb_push_back(receive, b)) <= MessageLen[Head(receive).char]
<1>1. receive \in Seq(Byte) /\ Len(receive) \in Nat
  BY LenProperties DEF StreamTypeOK
<1>2. CASE receive = << >>
  <2>1. PICK c \in Known : MessageLen[c] \in 1 .. Capacity
    BY StreamAssumption
  <2>2. Capacity \in Nat \ {0}
    BY <2>1, StreamAssumption
  <2>3. rb_push_back(receive, b) = Append(<< >>, b)
    BY <1>2, <2>2 DEF rb_push_back
  <2> QED BY <2>2, <2>3
<1>3. CASE receive # << >>
  <2>1. /\ Head(receive).char \in Known
        /\ Len(receive) < MessageLen[Head(receive).char]
        /\ MessageLen[Head(receive).char] \in 1 .. Capacity
    BY <1>3, StreamAssumption DEF Waiting
  <2>2. Capacity \in Nat /\ Len(receive) < Capacity
    BY <1>1, <2>1, StreamAssumption
  <2>3. rb_push_back(receive, b) = Append(receive, b)
    BY <2>2 DEF rb_push_back
  <2>4. /\ Append(receive, b) \in Seq(Byte)
        /\ Len(Append(receive, b)) = Len(receive) + 1
        /\ Append(receive, b)[1] = receive[1]
    BY <1>1, <1>3, AppendProperties, EmptySeq
  <2>5. Head(Append(receive, b)) = Head(receive)
    BY <1>1, <1>3, <2>4, HeadTailProperties, EmptySeq
  <2> QED BY <1>1, <2>1, <2>2, <2>3, <2>4, <2>5
<1> QED BY <1>2, <1>3

(* Between iterations the receive buffer has room for a byte: a command    *)
(* that is incomplete is shorter than the buffer.                          *)
LEMMA Roomy ==
  ASSUME StreamTypeOK, Waiting
  PROVE  Len(receive) # Capacity
<1>1. CASE receive = << >>
  <2>1. PICK c \in Known : MessageLen[c] \in 1 .. Capacity
    BY StreamAssumption
  <2> QED BY <1>1, <2>1, StreamAssumption
<1>2. CASE receive # << >>
  <2>1. /\ Len(receive) < MessageLen[Head(receive).char]
        /\ MessageLen[Head(receive).char] \in 1 .. Capacity
    BY <1>2, StreamAssumption DEF Waiting
  <2>2. Len(receive) \in Nat
    BY LenProperties DEF StreamTypeOK
  <2> QED BY <2>1, <2>2, StreamAssumption
<1> QED BY <1>1, <1>2

(* The ring buffer keeps to its capacity, jammed or not.                   *)
LEMMA PushTyped ==
  ASSUME StreamTypeOK, NEW b \in Byte
  PROVE  /\ rb_push_back(receive, b) \in Seq(Byte)
         /\ Len(rb_push_back(receive, b)) <= Capacity
<1>1. receive \in Seq(Byte) /\ Len(receive) \in Nat /\ Len(receive) <= Capacity
  BY LenProperties DEF StreamTypeOK
<1>2. Capacity \in Nat \ {0}
  <2>1. PICK c \in Known : MessageLen[c] \in 1 .. Capacity
    BY StreamAssumption
  <2> QED BY <2>1, StreamAssumption
<1>3. CASE Len(receive) = Capacity
  <2>1. receive # << >>
    BY <1>2, <1>3, EmptySeq
  <2>2. Tail(receive) \in Seq(Byte) /\ Len(Tail(receive)) = Len(receive) - 1
    BY <1>1, <2>1, HeadTailProperties
  <2>3. rb_push_back(receive, b) = Append(Tail(receive), b)
    BY <1>3 DEF rb_push_back
  <2> QED BY <1>1, <1>2, <1>3, <2>2, <2>3, AppendProperties
<1>4. CASE Len(receive) # Capacity
  <2>1. rb_push_back(receive, b) = Append(receive, b)
    BY <1>4 DEF rb_push_back
  <2> QED BY <1>1, <1>2, <1>4, <2>1, AppendProperties
<1> QED BY <1>3, <1>4

(* usb_read_next_byte: a byte, the end of a packet, or nothing.            *)
LEMMA ReadInv ==
  ASSUME StreamInv, usb_read_next_byte
  PROVE  StreamInv'
<1>1. /\ StreamTypeOK /\ (~jammed => Waiting) /\ step' = "messages"
      /\ UNCHANGED <<outgoing, handled, jammed, cut>>
  BY DEF usb_read_next_byte, StreamInv
<1>2. CASE UNCHANGED <<bank, receive>>
  <2>1. /\ received' \in BOOLEAN /\ reading' \in BOOLEAN /\ clear_buffer' \in BOOLEAN
    BY <1>1 DEF usb_read_next_byte, TakeByte, EndPacket, StreamTypeOK
  <2>2. StreamTypeOK'
    BY <1>1, <1>2, <2>1 DEF StreamTypeOK
  <2>3. ~jammed' => Peeked'
    <3> SUFFICES ASSUME ~jammed PROVE Peeked'
      BY <1>1
    <3>1. receive # << >> => Len(receive) <= MessageLen[Head(receive).char]
      BY <1>1, StreamAssumption, LenProperties DEF Waiting, StreamTypeOK
    <3> QED BY <1>1, <1>2, <3>1 DEF Waiting, Peeked
  <2> QED BY <1>1, <2>2, <2>3 DEF StreamInv
<1>3. CASE received /\ TakeByte
  <2>1. bank # << >> /\ bank \in Seq(Byte)
    BY <1>1, <1>3 DEF TakeByte, StreamTypeOK
  <2>2. Head(bank) \in Byte /\ bank' \in Seq(Byte) /\ Len(bank') = Len(bank) - 1
    BY <1>3, <2>1, HeadTailProperties DEF TakeByte
  <2>3. Len(bank') <= PacketSize
    BY <1>1, <2>1, <2>2, LenProperties, StreamAssumption DEF StreamTypeOK
  <2>4. /\ receive' \in Seq(Byte) /\ Len(receive') <= Capacity
        /\ ~jammed => Peeked'
    <3>1. CASE clear_buffer
      <4>1. receive' = receive
        BY <1>3, <3>1 DEF TakeByte
      <4>2. (~jammed /\ receive # << >>) => Len(receive) <= MessageLen[Head(receive).char]
        BY <1>1, StreamAssumption, LenProperties DEF Waiting, StreamTypeOK
      <4> QED BY <1>1, <4>1, <4>2 DEF StreamTypeOK, Waiting, Peeked
    <3>2. CASE ~clear_buffer
      <4>1. receive' = rb_push_back(receive, Head(bank))
        BY <1>3, <3>2 DEF TakeByte
      <4>2. receive' \in Seq(Byte) /\ Len(receive') <= Capacity
        BY <1>1, <2>2, <4>1, PushTyped
      <4>3. ~jammed => Peeked'
        BY <1>1, <2>2, <4>1, PushPeeked DEF Peeked
      <4> QED BY <4>2, <4>3
    <3> QED BY <3>1, <3>2
  <2>5. UNCHANGED <<received, clear_buffer>> /\ reading' = TRUE
    BY <1>3 DEF TakeByte
  <2>6. StreamTypeOK'
    BY <1>1, <2>2, <2>3, <2>4, <2>5 DEF StreamTypeOK
  <2> QED BY <1>1, <2>4, <2>6 DEF StreamInv
<1> QED BY <1>2, <1>3 DEF usb_read_next_byte, EndPacket

(* A complete command is all there is in the buffer, and is removed whole. *)
LEMMA CommandEmpties ==
  ASSUME StreamTypeOK, Peeked, receive # << >>, Command(Head(receive).char),
         Head(receive).char # "~"
  PROVE  receive' = << >>
<1> DEFINE c == Head(receive).char
<1>1. /\ c \in Known /\ Len(receive) >= MessageLen[c]
      /\ receive' = SubSeq(receive, MessageLen[c] + 1, Len(receive))
  BY DEF Command, Complete, Taken, MEGN540_Message_Len
<1>2. MessageLen[c] \in Nat \ {0} /\ Len(receive) \in Nat
  BY <1>1, StreamAssumption, LenProperties DEF StreamTypeOK
<1>3. Len(receive) <= MessageLen[c]
  <2>1. Len(receive) <= MessageLen[c] \/ Len(receive) = 1
    BY DEF Peeked
  <2>2. \A m \in Nat \ {0} : 1 <= m
    OBVIOUS
  <2>3. 1 <= MessageLen[c]
    BY <1>2, <2>2
  <2> QED BY <2>1, <2>3
<1> HIDE DEF c
<1> QED BY <1>1, <1>2, <1>3, SubSeqEmpty

(* What a command leaves in the buffer.                                    *)
LEMMA CommandLeaves ==
  ASSUME StreamTypeOK, NEW c \in Known, Command(c)
  PROVE  receive' \in Seq(Byte) /\ Len(receive') <= Capacity
<1>1. /\ receive \in Seq(Byte) /\ Len(receive) \in Nat /\ Len(receive) <= Capacity
      /\ MessageLen[c] \in Nat /\ Capacity \in Nat
  BY StreamAssumption, LenProperties DEF StreamTypeOK
<1>2. PICK k \in 0 .. Len(receive) : receive' = SubSeq(receive, k + 1, Len(receive))
  <2>1. Taken(c) \in 0 .. Len(receive)
    <3>1. Len(receive) >= MessageLen[c]
      BY DEF Command, Complete, MEGN540_Message_Len
    <3> QED BY <1>1, <3>1 DEF Taken, MEGN540_Message_Len
  <2> QED BY <2>1 DEF Command
<1>3. receive' \in Seq(Byte) /\ Len(receive') = Len(receive) - k
  BY <1>1, <1>2, Part
<1> QED BY <1>1, <1>3

(* Message_Handling_Task leaves an incomplete command or nothing, unless a *)
(* '~' jams the buffer.                                                    *)
LEMMA HandleInv ==
  ASSUME StreamInv, Message_Handling_Task
  PROVE  StreamInv'
<1>1. /\ StreamTypeOK /\ (~jammed => Peeked) /\ step' = "upkeep"
      /\ UNCHANGED <<outgoing, received, bank, reading, cut>>
      /\ jammed' = (receive' # << >> /\ (jammed \/ Head(receive').char = "~"))
  BY DEF Message_Handling_Task, StreamInv
<1>j. jammed' \in BOOLEAN
  BY <1>1, Zenon
<1>u. ~jammed' => receive' = << >> \/ (~jammed /\ Head(receive').char # "~")
  BY <1>1, Zenon
<1>2. ASSUME receive' \in Seq(Byte), Len(receive') <= Capacity, clear_buffer' \in BOOLEAN,
             handled' \in PayloadChars \cup Commands \cup {"none"}, ~jammed' => Waiting'
      PROVE  StreamInv'
  <2>1. StreamTypeOK'
    BY <1>1, <1>2, <1>j DEF StreamTypeOK, Byte
  <2> QED BY <1>1, <1>2, <2>1 DEF StreamInv
<1>e. << >> \in Seq(Byte) /\ Len(<< >>) = 0 /\ 0 <= Capacity
  BY EmptySeq, StreamAssumption
<1>3. CASE receive = << >> /\ UNCHANGED <<receive, handled, clear_buffer>>
  <2>1. Waiting'
    BY <1>3 DEF Waiting
  <2> QED BY <1>1, <1>2, <1>3, <2>1 DEF StreamTypeOK
<1>4. CASE receive # << >>
  <2> DEFINE c == Head(receive).char
  <2>1. c \in PayloadChars \cup Commands
    <3>1. Head(receive) \in Byte
      BY <1>1, <1>4, HeadTailProperties DEF StreamTypeOK
    <3> QED BY <3>1 DEF Byte
  <2>2. CASE Command(c)
    <3>1. receive' \in Seq(Byte) /\ Len(receive') <= Capacity
      BY <1>1, <2>2, CommandLeaves DEF Command
    <3>2. handled' = c /\ clear_buffer' \in BOOLEAN
      BY <1>1, <2>2 DEF Command, StreamTypeOK
    <3>3. ~jammed' => Waiting'
      <4> SUFFICES ASSUME ~jammed' PROVE Waiting'
        OBVIOUS
      <4>1. CASE receive' = << >>
        BY <4>1 DEF Waiting
      <4>2. CASE receive' # << >>
        <5>1. ~jammed /\ Head(receive').char # "~"
          BY <1>u, <4>2
        <5>2. c = "~"
          BY <1>1, <1>4, <2>2, <4>2, <5>1, CommandEmpties
        <5>3. receive' = receive
          <6>1. receive' = SubSeq(receive, 0 + 1, Len(receive))
            BY <2>2, <5>2 DEF Command, Taken
          <6>2. receive \in Seq(Byte)
            BY <1>1 DEF StreamTypeOK
          <6> QED BY <6>1, <6>2, SubSeqFull
        <5> QED BY <5>1, <5>2, <5>3
      <4> QED BY <4>1, <4>2
    <3> QED BY <1>2, <2>1, <3>1, <3>2, <3>3
  <2>3. CASE Unrecognised(c)
    <3>1. receive' = << >> /\ clear_buffer' = TRUE /\ handled' = c
      BY <2>3 DEF Unrecognised
    <3>2. Waiting'
      BY <3>1 DEF Waiting
    <3> QED BY <1>2, <1>e, <2>1, <3>1, <3>2
  <2>4. CASE Incomplete(c)
    <3>1. c \in Known /\ Len(receive) < MessageLen[c]
      <4>1. c \in Known /\ ~(Len(receive) >= MessageLen[c])
        BY <2>4 DEF Incomplete, Complete, MEGN540_Message_Len
      <4>2. MessageLen[c] \in Nat /\ Len(receive) \in Nat
        BY <1>1, <4>1, StreamAssumption, LenProperties DEF StreamTypeOK
      <4> QED BY <4>1, <4>2
    <3>2. UNCHANGED <<receive, handled, clear_buffer>>
      BY <2>4 DEF Incomplete
    <3>3. Waiting'
      BY <3>1, <3>2 DEF Waiting
    <3> QED BY <1>1, <1>2, <3>2, <3>3 DEF StreamTypeOK
  <2> QED BY <1>4, <2>2, <2>3, <2>4 DEF Message_Handling_Task
<1> QED BY <1>3, <1>4 DEF Message_Handling_Task

(* Every step of the link keeps the invariant.                             *)
LEMMA StreamStep == StreamInv /\ [Next]_streamVars => StreamInv'
<1> SUFFICES ASSUME StreamInv, [Next]_streamVars PROVE StreamInv'
  OBVIOUS
<1>1. CASE UNCHANGED streamVars
  BY <1>1 DEF streamVars, StreamInv, StreamTypeOK, Waiting, Peeked
<1>2. CASE \E c \in Commands : Write(c)
  BY <1>2, WriteInv
<1> QED BY <1>1, <1>2, DeliverInv, ReconnectInv, ReadInv, HandleInv DEF Next

(* StreamInv holds in every reachable state.                               *)
LEMMA StreamInvHolds == Spec => []StreamInv
BY StreamInit, StreamStep, PTL DEF Spec

-----------------------------------------------------------------------------
(* Where commands begin.                                                   *)

Boundary(s) == s # << >> => s[1].first

(* The bytes are whole commands, though the last one may be an unknown     *)
(* one: each known one has the length the table gives it, and a command    *)
(* follows it, if anything does.                                           *)
Framed(s) ==
  /\ Boundary(s)
  /\ \A i \in 1 .. Len(s) : (s[i].first /\ s[i].char \in Known) =>
        /\ i + MessageLen[s[i].char] - 1 <= Len(s)
        /\ \A j \in i + 1 .. i + MessageLen[s[i].char] - 1 : ~s[j].first
        /\ i + MessageLen[s[i].char] <= Len(s) => s[i + MessageLen[s[i].char]].first

(* The bytes that Message_Handling_Task is still to see.                   *)
Coming == (IF clear_buffer THEN << >> ELSE bank) \o outgoing
Stream == receive \o Coming

(* Message_Handling_Task is about to flush.                                *)
FlushDue == receive # << >> /\ Head(receive).char \notin Known

(* Unless a disconnection has cut it, the stream is made of whole          *)
(* commands, and a host that sends no '~' jams nothing.  A flush ends with *)
(* the packet it began in, and that packet with a command.                 *)
FrameInv ==
  /\ ~received => bank = << >>
  /\ ~cut => /\ Framed(Stream)
             /\ ~jammed
             /\ clear_buffer => receive = << >> /\ received
             /\ FlushDue => received
             /\ (FlushDue \/ \E i \in 1 .. Len(bank) : Unknown(bank[i])) => Boundary(outgoing)

(* Whole commands after whole commands.                                    *)
LEMMA FramedConcat ==
  ASSUME NEW s \in Seq(Byte), NEW t \in Seq(Byte), Framed(s), Framed(t)
  PROVE  Framed(s \o t)
<1> DEFINE u == s \o t
<1>1. /\ Len(u) = Len(s) + Len(t) /\ Len(s) \in Nat /\ Len(t) \in Nat
      /\ \A i \in 1 .. Len(s) : u[i] = s[i]
      /\ \A i \in 1 .. Len(t) : u[Len(s) + i] = t[i]
  BY ConcatProperties, LenProperties
<1>2. (s = << >> <=> Len(s) = 0) /\ (t = << >> <=> Len(t) = 0) /\ (u = << >> <=> Len(u) = 0)
  BY <1>1, EmptySeq, ConcatProperties
<1> HIDE DEF u
<1>3. Boundary(u)
  <2>1. CASE Len(s) = 0
    BY <1>1, <1>2, <2>1 DEF Framed, Boundary
  <2>2. CASE Len(s) > 0
    BY <1>1, <1>2, <2>2 DEF Framed, Boundary
  <2> QED BY <1>1, <2>1, <2>2
<1>4. ASSUME NEW i \in 1 .. Len(u), u[i].first, u[i].char \in Known, NEW L, L = MessageLen[u[i].char]
      PROVE  /\ i + L - 1 <= Len(u)
             /\ \A j \in i + 1 .. i + L - 1 : ~u[j].first
             /\ i + L <= Len(u) => u[i + L].first
  <2>1. L \in Nat \ {0}
    BY <1>4, StreamAssumption
  <2>2. CASE i <= Len(s)
    <3>1. s[i] = u[i]
      BY <1>1, <2>2
    <3>2. /\ i + L - 1 <= Len(s)
          /\ \A j \in i + 1 .. i + L - 1 : ~s[j].first
          /\ i + L <= Len(s) => s[i + L].first
      BY <1>1, <1>4, <2>2, <3>1 DEF Framed
    <3>3. i + L <= Len(u) => u[i + L].first
      <4>1. CASE i + L <= Len(s)
        BY <1>1, <2>1, <3>2, <4>1
      <4>2. CASE i + L = Len(s) + 1
        BY <1>1, <1>2, <4>2 DEF Framed, Boundary
      <4> QED BY <1>1, <2>1, <3>2, <4>1, <4>2
    <3>4. \A j \in i + 1 .. i + L - 1 : j \in 1 .. Len(s)
      BY <1>1, <2>1, <3>2
    <3>5. \A j \in i + 1 .. i + L - 1 : ~u[j].first
      BY <1>1, <3>2, <3>4
    <3>6. i + L - 1 <= Len(u)
      BY <1>1, <2>1, <3>2
    <3> QED BY <3>3, <3>5, <3>6
  <2>3. CASE i > Len(s)
    <3> DEFINE k == i - Len(s)
    <3>1. k \in 1 .. Len(t) /\ t[k] = u[i] /\ i = Len(s) + k
      <4>1. k \in 1 .. Len(t) /\ i = Len(s) + k
        BY <1>1, <2>3
      <4> HIDE DEF k
      <4> QED BY <1>1, <4>1
    <3> HIDE DEF k
    <3>2. /\ k + L - 1 <= Len(t)
          /\ \A j \in k + 1 .. k + L - 1 : ~t[j].first
          /\ k + L <= Len(t) => t[k + L].first
      BY <1>4, <3>1 DEF Framed
    <3>3. \A j \in i + 1 .. i + L - 1 : ~u[j].first
      <4> SUFFICES ASSUME NEW j \in i + 1 .. i + L - 1 PROVE ~u[j].first
        OBVIOUS
      <4>1. j - Len(s) \in k + 1 .. k + L - 1 /\ j - Len(s) \in 1 .. Len(t)
        BY <1>1, <2>1, <3>1, <3>2
      <4>2. u[Len(s) + (j - Len(s))] = t[j - Len(s)]
        BY <1>1, <4>1
      <4>3. Len(s) + (j - Len(s)) = j
        BY <1>1
      <4> QED BY <3>2, <4>1, <4>2, <4>3
    <3>4. i + L <= Len(u) => u[i + L].first
      <4> SUFFICES ASSUME i + L <= Len(u) PROVE u[i + L].first
        OBVIOUS
      <4>1. k + L \in 1 .. Len(t) /\ i + L = Len(s) + (k + L)
        BY <1>1, <2>1, <3>1
      <4> QED BY <1>1, <3>2, <4>1
    <3>5. i + L - 1 <= Len(u)
      BY <1>1, <2>1, <3>1, <3>2
    <3> QED BY <3>3, <3>4, <3>5
  <2> QED BY <1>1, <2>2, <2>3
<1>5. Framed(u)
  BY <1>3, <1>4 DEF Framed
<1> QED BY <1>5 DEF u

(* Whole commands, cut before a command.                                   *)
LEMMA FramedSplit ==
  ASSUME NEW s \in Seq(Byte), NEW t \in Seq(Byte), Framed(s \o t), Boundary(t)
  PROVE  Framed(s) /\ Framed(t)
<1> DEFINE u == s \o t
<1>1. /\ Len(u) = Len(s) + Len(t) /\ Len(s) \in Nat /\ Len(t) \in Nat
      /\ \A i \in 1 .. Len(s) : u[i] = s[i]
      /\ \A i \in 1 .. Len(t) : u[Len(s) + i] = t[i]
      /\ Framed(u)
  BY ConcatProperties, LenProperties
<1>2. (s = << >> <=> Len(s) = 0) /\ (t = << >> <=> Len(t) = 0) /\ (u = << >> <=> Len(u) = 0)
  BY <1>1, EmptySeq, ConcatProperties
<1> HIDE DEF u
<1>3. Boundary(s)
  <2> SUFFICES ASSUME s # << >> PROVE s[1].first
    BY DEF Boundary
  <2>1. Len(s) >= 1 /\ Len(u) >= 1 /\ u[1] = s[1]
    BY <1>1, <1>2
  <2>2. u # << >>
    BY <1>1, <1>2, <2>1
  <2>3. u[1].first
    BY <1>1, <2>2 DEF Framed, Boundary
  <2> QED BY <2>1, <2>3
<1>4. ASSUME NEW i \in 1 .. Len(s), s[i].first, s[i].char \in Known, NEW L, L = MessageLen[s[i].char]
      PROVE  /\ i + L - 1 <= Len(s)
             /\ \A j \in i + 1 .. i + L - 1 : ~s[j].first
             /\ i + L <= Len(s) => s[i + L].first
  <2>1. L \in Nat \ {0} /\ u[i] = s[i] /\ i \in 1 .. Len(u)
    BY <1>1, <1>4, StreamAssumption
  <2>2. /\ i + L - 1 <= Len(u)
        /\ \A j \in i + 1 .. i + L - 1 : ~u[j].first
        /\ i + L <= Len(u) => u[i + L].first
    BY <1>1, <1>4, <2>1 DEF Framed
  <2>3. i + L - 1 <= Len(s)
    <3> SUFFICES ASSUME i + L - 1 > Len(s) PROVE FALSE
      BY <1>1, <2>1
    <3>1. Len(s) + 1 \in i + 1 .. i + L - 1 /\ 1 \in 1 .. Len(t)
      BY <1>1, <2>1, <2>2
    <3>2. u[Len(s) + 1] = t[1] /\ t[1].first
      BY <1>1, <1>2, <3>1 DEF Boundary
    <3> QED BY <2>2, <3>1, <3>2
  <2>4. \A j \in i + 1 .. i + L : j <= Len(s) => j \in 1 .. Len(s) /\ j <= Len(u)
    BY <1>1, <2>1
  <2>5. \A j \in i + 1 .. i + L - 1 : ~s[j].first
    <3> SUFFICES ASSUME NEW j \in i + 1 .. i + L - 1 PROVE ~s[j].first
      OBVIOUS
    <3>1. j \in 1 .. Len(s)
      BY <1>1, <2>1, <2>3
    <3>2. u[j] = s[j]
      BY <1>1, <3>1
    <3>3. ~u[j].first
      BY <2>2
    <3> QED BY <3>2, <3>3
  <2>6. i + L <= Len(s) => s[i + L].first
    BY <1>1, <2>1, <2>2, <2>4
  <2> QED BY <2>3, <2>5, <2>6
<1>5. ASSUME NEW i \in 1 .. Len(t), t[i].first, t[i].char \in Known, NEW L, L = MessageLen[t[i].char]
      PROVE  /\ i + L - 1 <= Len(t)
             /\ \A j \in i + 1 .. i + L - 1 : ~t[j].first
             /\ i + L <= Len(t) => t[i + L].first
  <2> DEFINE k == Len(s) + i
  <2>1. L \in Nat \ {0} /\ u[k] = t[i] /\ k \in 1 .. Len(u)
    BY <1>1, <1>5, StreamAssumption
  <2>2. /\ k + L - 1 <= Len(u)
        /\ \A j \in k + 1 .. k + L - 1 : ~u[j].first
        /\ k + L <= Len(u) => u[k + L].first
    <3> HIDE DEF k
    <3> QED BY <1>1, <1>5, <2>1 DEF Framed
  <2>3. i + L - 1 <= Len(t)
    BY <1>1, <2>1, <2>2
  <2>4. \A j \in i + 1 .. i + L - 1 : ~t[j].first
    <3> SUFFICES ASSUME NEW j \in i + 1 .. i + L - 1 PROVE ~t[j].first
      OBVIOUS
    <3>1. Len(s) + j \in k + 1 .. k + L - 1 /\ j \in 1 .. Len(t)
      BY <1>1, <2>1, <2>3
    <3> QED BY <1>1, <2>2, <3>1
  <2>5. i + L <= Len(t) => t[i + L].first
    <3> SUFFICES ASSUME i + L <= Len(t) PROVE t[i + L].first
      OBVIOUS
    <3>1. k + L <= Len(u) /\ k + L = Len(s) + (i + L) /\ i + L \in 1 .. Len(t)
      BY <1>1, <2>1
    <3> QED BY <1>1, <2>2, <3>1
  <2> QED BY <2>3, <2>4, <2>5
<1>6. Framed(s)
  BY <1>3, <1>4 DEF Framed
<1>7. Framed(t)
  BY <1>5 DEF Framed
<1> QED BY <1>6, <1>7

(* Only the first byte of a message is a command.                          *)
LEMMA MessageBytes ==
  ASSUME NEW c \in Commands, NEW len \in Nat \ {0},
         NEW payload \in [1 .. len - 1 -> PayloadChars]
  PROVE  /\ Message(c, payload)[1] = [char |-> c, first |-> TRUE]
         /\ \A j \in 2 .. len : ~Message(c, payload)[j].first
<1> DEFINE m == Message(c, payload)
           rest == [i \in DOMAIN payload |-> [char |-> payload[i], first |-> FALSE]]
<1>1. m \in Seq(Byte) /\ Len(m) = len
  BY MessageTyped
<1>2. m[1] = [char |-> c, first |-> TRUE] /\ \A j \in 2 .. len : ~m[j].first
  <2>1. rest \in [1 .. len - 1 -> Byte] /\ \A i \in 1 .. len - 1 : ~rest[i].first
    BY DEF Byte
  <2>2. rest \in Seq(Byte) /\ Len(rest) = len - 1
    BY <2>1
  <2>3. m = <<[char |-> c, first |-> TRUE]>> \o rest
    BY DEF Message
  <2>4. <<[char |-> c, first |-> TRUE]>> \in Seq(Byte)
    BY DEF Byte
  <2> DEFINE one == <<[char |-> c, first |-> TRUE]>>
  <2>5. Len(one) = 1 /\ one[1] = [char |-> c, first |-> TRUE]
    OBVIOUS
  <2> HIDE DEF m, rest, one
  <2>6. \A i \in 1 .. Len(one) + Len(rest) :
          (one \o rest)[i] = IF i <= Len(one) THEN one[i] ELSE rest[i - Len(one)]
    BY <2>2, <2>4, ConcatProperties DEF one
  <2>7. m = one \o rest
    BY <2>3 DEF one
  <2>8. Len(one) + Len(rest) = len
    BY <2>2, <2>5
  <2>9. \A i \in 1 .. len : m[i] = IF i <= 1 THEN one[i] ELSE rest[i - 1]
    BY <2>5, <2>6, <2>7, <2>8
  <2>10. m[1] = one[1]
    BY <2>9
  <2>11. \A j \in 2 .. len : m[j] = rest[j - 1] /\ j - 1 \in 1 .. len - 1
    BY <2>9
  <2> QED BY <2>1, <2>5, <2>10, <2>11
<1> QED BY <1>2

(* What the host writes at once is whole.                                  *)
LEMMA FramedMessage ==
  ASSUME NEW c \in Commands, NEW len \in Nat \ {0},
         NEW payload \in [1 .. len - 1 -> PayloadChars],
         c \in Known => len = MessageLen[c]
  PROVE  Framed(Message(c, payload))
<1> DEFINE m == Message(c, payload)
<1>1. m \in Seq(Byte) /\ Len(m) = len
  BY MessageTyped
<1>2. m[1] = [char |-> c, first |-> TRUE] /\ \A j \in 2 .. len : ~m[j].first
  BY MessageBytes
<1> HIDE DEF m
<1>3. Boundary(m)
  BY <1>2 DEF Boundary
<1>4. \A i \in 1 .. Len(m) : m[i].first => i = 1
  BY <1>1, <1>2
<1>5. Framed(m)
  BY <1>1, <1>2, <1>3, <1>4 DEF Framed
<1> QED BY <1>5 DEF m

(* Two sequences that begin with a command make one that does.             *)
LEMMA BoundaryConcat ==
  ASSUME NEW s \in Seq(Byte), NEW t \in Seq(Byte), Boundary(s), Boundary(t)
  PROVE  Boundary(s \o t)
<1>1. CASE s = << >>
  <2>1. s \o t = t
    BY <1>1, ConcatEmptySeq
  <2> QED BY <2>1
<1>2. CASE s # << >>
  <2>1. Len(s) \in Nat /\ Len(t) \in Nat /\ Len(s) # 0
    BY <1>2, EmptySeq, LenProperties
  <2>2. (s \o t)[1] = s[1]
    BY <2>1, ConcatProperties
  <2> QED BY <1>2, <2>2 DEF Boundary
<1> QED BY <1>1, <1>2

(* Concatenation of sequences of bytes is associative.                     *)
LEMMA BytesAssociative ==
  ASSUME NEW s \in Seq(Byte), NEW t \in Seq(Byte), NEW u \in Seq(Byte)
  PROVE  (s \o t) \o u = s \o (t \o u)
BY ConcatAssociative

(* The stream and its parts are sequences of bytes.                        *)
LEMMA StreamTyped ==
  ASSUME StreamTypeOK
  PROVE  /\ Coming \in Seq(Byte) /\ Stream \in Seq(Byte)
         /\ outgoing \in Seq(Byte) /\ bank \in Seq(Byte) /\ receive \in Seq(Byte)
<1>1. outgoing \in Seq(Byte) /\ bank \in Seq(Byte) /\ receive \in Seq(Byte)
  BY DEF StreamTypeOK
<1>2. << >> \in Seq(Byte)
  BY EmptySeq
<1>3. Coming \in Seq(Byte)
  BY <1>1, <1>2, ConcatProperties DEF Coming
<1> QED BY <1>1, <1>3, ConcatProperties DEF Stream

(* In step the device peeks at a command of the host.                      *)
LEMMA HeadInStep ==
  ASSUME StreamTypeOK, FrameInv, ~cut, receive # << >>
  PROVE  Head(receive).first /\ Head(receive).char \in Commands
<1>1. receive \in Seq(Byte) /\ Coming \in Seq(Byte) /\ Len(receive) \in Nat /\ Len(receive) # 0
  BY StreamTyped, LenProperties, EmptySeq
<1>2. Stream[1] = receive[1] /\ Stream # << >>
  BY <1>1, ConcatProperties, LenProperties, EmptySeq DEF Stream
<1>3. Head(receive) = receive[1] /\ Head(receive) \in Byte
  BY <1>1, HeadTailProperties
<1>4. Head(receive).first
  BY <1>2, <1>3 DEF FrameInv, Framed, Boundary
<1> QED BY <1>3, <1>4 DEF Byte

(* A write adds a message at the end.                                      *)
LEMMA StreamWritten ==
  ASSUME StreamInv, NEW c \in Commands, Write(c)
  PROVE  \E len \in Nat \ {0} : \E payload \in [1 .. len - 1 -> PayloadChars] :
            /\ c \in Known => len = MessageLen[c]
            /\ outgoing' = outgoing \o Message(c, payload)
            /\ Stream' = Stream \o Message(c, payload)
<1>1. PICK len \in Nat \ {0} : \E payload \in [1 .. len - 1 -> PayloadChars] :
        /\ c \in Known => len = MessageLen[c]
        /\ outgoing' = outgoing \o Message(c, payload)
  BY WriteMessage
<1>2. PICK payload \in [1 .. len - 1 -> PayloadChars] : outgoing' = outgoing \o Message(c, payload)
  BY <1>1
<1> DEFINE m == Message(c, payload)
           X == IF clear_buffer THEN << >> ELSE bank
<1>3. m \in Seq(Byte)
  BY MessageTyped
<1>4. /\ Coming \in Seq(Byte) /\ Stream \in Seq(Byte) /\ outgoing \in Seq(Byte)
      /\ receive \in Seq(Byte)
      /\ X \in Seq(Byte)
  BY StreamTyped, EmptySeq DEF StreamInv
<1>5. UNCHANGED <<bank, clear_buffer, receive>>
  BY DEF Write, deviceVars
<1>6. Stream' = Stream \o m
  <2>1. Coming' = X \o (outgoing \o m)
    BY <1>2, <1>5 DEF Coming
  <2> HIDE DEF m, X
  <2>2. Coming' = (X \o outgoing) \o m
    BY <1>3, <1>4, <2>1, BytesAssociative, ZenonT(60)
  <2>3. Coming' = Coming \o m
    BY <2>2 DEF Coming, X
  <2>4. receive \o (Coming \o m) = (receive \o Coming) \o m
    BY <1>3, <1>4, BytesAssociative, ZenonT(60)
  <2> QED BY <1>5, <2>3, <2>4 DEF Stream
<1> QED BY <1>1, <1>2, <1>6

(* It is a whole command.                                                  *)
LEMMA FrameWrite ==
  ASSUME StreamInv, FrameInv, NEW c \in Commands, Write(c)
  PROVE  FrameInv'
<1>1. PICK len \in Nat \ {0} : \E payload \in [1 .. len - 1 -> PayloadChars] :
        /\ c \in Known => len = MessageLen[c]
        /\ outgoing' = outgoing \o Message(c, payload)
        /\ Stream' = Stream \o Message(c, payload)
  BY StreamWritten
<1>2. PICK payload \in [1 .. len - 1 -> PayloadChars] :
        outgoing' = outgoing \o Message(c, payload) /\ Stream' = Stream \o Message(c, payload)
  BY <1>1
<1> DEFINE m == Message(c, payload)
<1>3. m \in Seq(Byte) /\ Framed(m) /\ Boundary(m)
  BY <1>1, MessageTyped, FramedMessage DEF Framed
<1>4. Stream \in Seq(Byte) /\ outgoing \in Seq(Byte)
  BY StreamTyped DEF StreamInv
<1>5. UNCHANGED <<received, bank, clear_buffer, receive, jammed, cut>>
  BY DEF Write, deviceVars
<1>6. Stream' = Stream \o m
  BY <1>2
<1>7. ~cut => Framed(Stream')
  BY <1>3, <1>4, <1>6, FramedConcat DEF FrameInv
<1>8. Boundary(outgoing) => Boundary(outgoing')
  BY <1>2, <1>3, <1>4, BoundaryConcat
<1>9. ~cut' => /\ clear_buffer' => receive' = << >> /\ received'
               /\ ~jammed'
               /\ FlushDue' => received'
               /\ (FlushDue' \/ \E i \in 1 .. Len(bank') : Unknown(bank'[i])) => Boundary(outgoing')
  BY <1>5, <1>8 DEF FrameInv, FlushDue
<1>10. ~received' => bank' = << >>
  BY <1>5 DEF FrameInv
<1>11. ~cut' => Framed(Stream')
  BY <1>5, <1>7
<1> QED BY <1>9, <1>10, <1>11 DEF FrameInv, Unknown, Boundary, Framed

(* A packet changes nothing of the stream.                                 *)
LEMMA StreamDelivered ==
  ASSUME StreamInv, FrameInv, ~cut, Deliver
  PROVE  Stream' = Stream
<1>1. PICK n \in 1 .. Len(outgoing) :
        bank' = SubSeq(outgoing, 1, n) /\ outgoing' = SubSeq(outgoing, n + 1, Len(outgoing))
  BY DEF Deliver
<1>2. ~received /\ UNCHANGED <<clear_buffer, receive>>
  BY DEF Deliver, deviceVars
<1>3. outgoing \in Seq(Byte) /\ receive \in Seq(Byte) /\ Len(outgoing) \in Nat
  BY StreamTyped, LenProperties DEF StreamInv
<1>4. ~clear_buffer /\ bank = << >>
  BY <1>2 DEF FrameInv
<1>5. Stream = receive \o outgoing
  <2>1. << >> \o outgoing = outgoing
    BY <1>3, ConcatEmptySeq
  <2> QED BY <1>4, <2>1 DEF Stream, Coming
<1>6. Stream' = receive \o outgoing
  <2>1. SubSeq(outgoing, 1, n) \o SubSeq(outgoing, n + 1, Len(outgoing)) = outgoing
    <3>1. SubSeq(outgoing, 1, Len(outgoing)) = outgoing
      BY <1>3, SubSeqFull
    <3>2. SubSeq(outgoing, 1, n) \o SubSeq(outgoing, n + 1, Len(outgoing))
            = SubSeq(outgoing, 1, Len(outgoing))
      BY <1>3, ConcatAdjacentSubSeq
    <3> QED BY <3>1, <3>2
  <2> QED BY <1>1, <1>2, <1>4, <2>1 DEF Stream, Coming
<1> QED BY <1>5, <1>6

(* A packet ends with a command if there is one in it that leads to a      *)
(* flush.                                                                  *)
LEMMA FrameDeliver ==
  ASSUME StreamInv, FrameInv, Deliver
  PROVE  FrameInv'
<1>1. PICK n \in 1 .. Len(outgoing) :
        /\ (n < Len(outgoing) /\ \E i \in 1 .. n : Unknown(outgoing[i])) => outgoing[n + 1].first
        /\ bank' = SubSeq(outgoing, 1, n)
        /\ outgoing' = SubSeq(outgoing, n + 1, Len(outgoing))
  BY DEF Deliver
<1>2. ~received /\ received' = TRUE /\ UNCHANGED <<clear_buffer, receive, jammed, cut>>
  BY DEF Deliver, deviceVars
<1>3. outgoing \in Seq(Byte) /\ receive \in Seq(Byte) /\ Len(outgoing) \in Nat
  BY StreamTyped, LenProperties DEF StreamInv
<1> SUFFICES ASSUME ~cut
             PROVE  /\ Framed(Stream)'
                    /\ clear_buffer' => receive' = << >>
                    /\ (FlushDue' \/ \E i \in 1 .. Len(bank') : Unknown(bank'[i])) =>
                          Boundary(outgoing')
  BY <1>2 DEF FrameInv, Unknown, Boundary
<1>4. ~clear_buffer /\ ~FlushDue /\ bank = << >> /\ Framed(Stream)
  BY <1>2 DEF FrameInv
<1>7. ASSUME NEW i \in 1 .. Len(bank'), Unknown(bank'[i])
      PROVE  Boundary(outgoing')
  <2>1. Len(bank') = n /\ Len(outgoing') = Len(outgoing) - n
    BY <1>1, <1>3, Part
  <2>2. i \in 1 .. n /\ bank'[i] = outgoing[i]
    <3>1. i \in 1 .. n
      BY <2>1
    <3>2. \A k \in 1 .. n : outgoing[k] \in Byte
      BY <1>3, ElementOfSeq
    <3>3. \A k \in 1 .. n - 1 + 1 : SubSeq(outgoing, 1, n)[k] = outgoing[1 + k - 1]
      BY <1>3, <3>2, SubSeqProperties
    <3> QED BY <1>1, <3>1, <3>3
  <2>3. CASE n < Len(outgoing)
    <3>1. outgoing[n + 1].first
      BY <1>1, <1>7, <2>2, <2>3
    <3>2. \A k \in n + 1 .. Len(outgoing) : outgoing[k] \in Byte
      BY <1>3, ElementOfSeq
    <3>3. \A k \in 1 .. Len(outgoing) - (n + 1) + 1 :
            SubSeq(outgoing, n + 1, Len(outgoing))[k] = outgoing[n + 1 + k - 1]
      BY <1>3, <3>2, SubSeqProperties
    <3>4. 1 \in 1 .. Len(outgoing) - (n + 1) + 1 /\ n + 1 + 1 - 1 = n + 1
      BY <1>3, <2>3
    <3>5. outgoing'[1] = outgoing[n + 1]
      BY <1>1, <3>3, <3>4
    <3> QED BY <3>1, <3>5 DEF Boundary
  <2>4. CASE n = Len(outgoing)
    <3>1. outgoing' = << >>
      BY <1>1, <1>3, <2>4, SubSeqEmpty
    <3> QED BY <3>1 DEF Boundary
  <2> QED BY <1>3, <2>3, <2>4
<1>8. ~FlushDue' /\ ~clear_buffer'
  BY <1>2, <1>4 DEF FlushDue
<1>9. Framed(Stream)'
  <2>1. Stream' = Stream
    BY StreamDelivered
  <2> QED BY <1>4, <2>1 DEF Framed, Boundary
<1> QED BY <1>7, <1>8, <1>9

(* A disconnection that cuts nothing leaves whole commands.                *)
LEMMA FrameReconnect ==
  ASSUME StreamInv, FrameInv, Reconnect
  PROVE  FrameInv'
<1>1. /\ outgoing' = << >> /\ bank' = << >> /\ received' = FALSE
      /\ UNCHANGED <<clear_buffer, receive, jammed>>
  BY DEF Reconnect, deviceVars
<1>2. ASSUME ~cut'
      PROVE  /\ ~cut /\ ~clear_buffer /\ ~FlushDue
             /\ bank \o outgoing # << >> => Head(bank \o outgoing).first
  BY <1>2 DEF Reconnect, Flushing, FlushDue
<1> SUFFICES ASSUME ~cut' PROVE Framed(Stream)' /\ ~clear_buffer' /\ ~FlushDue'
                                 /\ Boundary(outgoing')
  BY <1>1, <1>2 DEF FrameInv, Boundary
<1>3. /\ outgoing \in Seq(Byte) /\ bank \in Seq(Byte) /\ receive \in Seq(Byte)
      /\ Coming \in Seq(Byte)
  BY StreamTyped DEF StreamInv
<1>4. Coming = bank \o outgoing /\ Boundary(Coming)
  <2>1. Coming = bank \o outgoing
    BY <1>2 DEF Coming
  <2>2. Coming # << >> => Coming[1].first
    BY <1>2, <1>3, <2>1
  <2> QED BY <2>1, <2>2 DEF Boundary
<1>5. Framed(receive)
  BY <1>2, <1>3, <1>4, FramedSplit DEF FrameInv, Stream
<1>6. Stream' = receive
  <2>1. << >> \o << >> = << >> /\ receive \o << >> = receive
    BY <1>3, ConcatEmptySeq, EmptySeq
  <2> QED BY <1>1, <1>2, <2>1 DEF Stream, Coming
<1>7. Framed(Stream)'
  BY <1>5, <1>6 DEF Framed, Boundary
<1> QED BY <1>1, <1>2, <1>7 DEF FlushDue, Boundary

(* usb_read_next_byte moves a byte inside the stream.                      *)
LEMMA StreamRead ==
  ASSUME StreamInv, ~jammed, usb_read_next_byte
  PROVE  Stream' = Stream
<1>1. StreamTypeOK /\ Waiting /\ UNCHANGED outgoing
  BY DEF usb_read_next_byte, StreamInv
<1>2. /\ outgoing \in Seq(Byte) /\ bank \in Seq(Byte) /\ receive \in Seq(Byte)
      /\ Coming \in Seq(Byte)
  BY <1>1, StreamTyped
<1>3. CASE UNCHANGED <<bank, clear_buffer, receive>>
  BY <1>1, <1>3 DEF Stream, Coming
<1>4. CASE received /\ EndPacket
  BY <1>1, <1>4 DEF EndPacket, Stream, Coming
<1>5. CASE received /\ TakeByte /\ clear_buffer
  BY <1>1, <1>5 DEF TakeByte, Stream, Coming
<1>6. CASE received /\ TakeByte /\ ~clear_buffer
  <2>1. /\ bank # << >> /\ bank' = Tail(bank) /\ UNCHANGED clear_buffer
        /\ receive' = rb_push_back(receive, Head(bank))
    BY <1>6 DEF TakeByte
  <2>2. Head(bank) \in Byte /\ Tail(bank) \in Seq(Byte)
    BY <1>2, <2>1, HeadTailProperties
  <2>3. receive' = Append(receive, Head(bank))
    <3>1. Len(receive) # Capacity
      BY <1>1, Roomy
    <3> QED BY <2>1, <3>1 DEF rb_push_back
  <2>4. Stream' = Stream
    <3> DEFINE one == <<Head(bank)>>
    <3>1. receive' = receive \o one /\ one \in Seq(Byte)
      BY <1>2, <2>2, <2>3, AppendIsConcat
    <3>2. bank = one \o Tail(bank)
      BY <1>2, <2>1
    <3> HIDE DEF one
    <3>3. (one \o Tail(bank)) \o outgoing = one \o (Tail(bank) \o outgoing)
      BY <1>2, <2>2, <3>1, BytesAssociative
    <3> DEFINE rest == Tail(bank) \o outgoing
    <3>4. rest \in Seq(Byte) /\ bank \o outgoing = one \o rest
      BY <1>2, <2>2, <3>2, <3>3, ConcatProperties
    <3> HIDE DEF rest
    <3>5. (receive \o one) \o rest = receive \o (one \o rest)
      BY <1>2, <3>1, <3>4, BytesAssociative, SMTT(30)
    <3>6. Stream = receive \o (one \o rest)
      BY <1>6, <3>4 DEF Stream, Coming
    <3>7. Stream' = (receive \o one) \o rest
      BY <1>1, <2>1, <1>6, <3>1 DEF Stream, Coming, rest
    <3> QED BY <3>5, <3>6, <3>7
  <2> QED BY <2>4
<1> QED BY <1>3, <1>4, <1>5, <1>6 DEF usb_read_next_byte

(* A flush that becomes due is one before a command.                       *)
LEMMA FrameRead ==
  ASSUME StreamInv, FrameInv, usb_read_next_byte
  PROVE  FrameInv'
<1>0. ~received' => bank' = << >>
  BY DEF usb_read_next_byte, TakeByte, EndPacket, FrameInv
<1> SUFFICES ASSUME ~cut PROVE FrameInv'
  BY <1>0 DEF usb_read_next_byte, FrameInv
<1>1. /\ StreamTypeOK /\ Waiting /\ UNCHANGED <<outgoing, jammed, cut>> /\ ~FlushDue
      /\ ~jammed
  BY DEF usb_read_next_byte, StreamInv, FrameInv, Waiting, FlushDue
<1>2. /\ outgoing \in Seq(Byte) /\ bank \in Seq(Byte) /\ receive \in Seq(Byte)
      /\ Coming \in Seq(Byte)
  BY <1>1, StreamTyped
<1>3. CASE UNCHANGED <<received, bank, clear_buffer, receive>>
  BY <1>1, <1>3 DEF FrameInv, FlushDue, Framed, Boundary, Stream, Coming, Unknown
<1>4. CASE received /\ EndPacket
  <2>1. /\ bank = << >> /\ bank' = << >> /\ received' = FALSE /\ clear_buffer' = FALSE
        /\ UNCHANGED receive
    BY <1>4 DEF EndPacket
  <2>2. Stream' = Stream
    BY <1>1, <2>1 DEF Stream, Coming
  <2>3. ~FlushDue'
    BY <1>1, <2>1 DEF FlushDue
  <2>4. Len(bank') = 0
    BY <2>1, EmptySeq
  <2> QED BY <1>1, <2>1, <2>2, <2>3, <2>4 DEF FrameInv, Framed, Boundary
<1>5. CASE received /\ TakeByte
  <2>1. /\ bank # << >> /\ bank' = Tail(bank) /\ UNCHANGED <<received, clear_buffer>>
        /\ receive' = IF clear_buffer THEN receive ELSE rb_push_back(receive, Head(bank))
    BY <1>5 DEF TakeByte
  <2>2. /\ Head(bank) \in Byte /\ Tail(bank) \in Seq(Byte) /\ Head(bank) = bank[1]
        /\ Len(Tail(bank)) = Len(bank) - 1 /\ Len(bank) \in Nat /\ Len(bank) # 0
        /\ \A i \in 1 .. Len(Tail(bank)) : Tail(bank)[i] = bank[i + 1]
    BY <1>2, <2>1, HeadTailProperties, LenProperties, EmptySeq
  <2>3. ASSUME NEW i \in 1 .. Len(bank'), Unknown(bank'[i])
        PROVE  \E k \in 1 .. Len(bank) : Unknown(bank[k])
    <3>1. i + 1 \in 1 .. Len(bank) /\ bank'[i] = bank[i + 1]
      BY <2>1, <2>2
    <3> QED BY <2>3, <3>1
  <2> SUFFICES /\ Framed(Stream)'
               /\ clear_buffer => receive' = << >>
               /\ FlushDue' => Boundary(outgoing)
    BY <1>1, <1>5, <2>1, <2>3 DEF FrameInv, Boundary, Unknown
  <2>4. CASE clear_buffer
    <3>1. Stream' = Stream /\ receive' = receive /\ ~FlushDue'
      BY <1>1, <2>1, <2>4 DEF Stream, Coming, FlushDue
    <3> QED BY <3>1 DEF FrameInv, Framed, Boundary
  <2>5. CASE ~clear_buffer
    <3>1. receive' = Append(receive, Head(bank))
      <4>1. Len(receive) # Capacity
        BY <1>1, Roomy
      <4> QED BY <2>1, <2>5, <4>1 DEF rb_push_back
    <3>2. Stream' = Stream
      BY <1>1, StreamRead
    <3>3. Framed(Stream)'
      BY <3>2 DEF FrameInv, Framed, Boundary
    <3>4. FlushDue' => Boundary(outgoing)
      <4>1. CASE receive # << >>
        <5>1. Head(receive') = Head(receive) /\ receive' # << >>
          BY <1>2, <2>2, <3>1, <4>1
        <5> QED BY <1>1, <4>1, <5>1 DEF FlushDue
      <4>2. CASE receive = << >>
        <5>1. Head(receive') = Head(bank)
          BY <2>2, <3>1, <4>2
        <5>2. Head(bank).first
          <6>1. Stream = bank \o outgoing
            BY <1>2, <2>5, <4>2, ConcatEmptySeq DEF Stream, Coming
          <6>2. (bank \o outgoing)[1] = bank[1] /\ bank \o outgoing # << >>
            BY <1>2, <2>1, <2>2, ConcatProperties, LenProperties, EmptySeq
          <6> QED BY <2>2, <6>1, <6>2 DEF FrameInv, Framed, Boundary
        <5>3. FlushDue' => Unknown(bank[1])
          BY <2>2, <5>1, <5>2 DEF FlushDue, Unknown
        <5> QED BY <2>2, <5>3 DEF FrameInv
      <4> QED BY <4>1, <4>2
    <3> QED BY <2>5, <3>3, <3>4
  <2> QED BY <2>4, <2>5
<1> QED BY <1>3, <1>4, <1>5 DEF usb_read_next_byte

(* Message_Handling_Task takes whole commands from the stream, or gives up *)
(* the rest of a packet that ends with a command.                          *)
LEMMA FrameHandle ==
  ASSUME NoRestart, StreamInv, FrameInv, Message_Handling_Task
  PROVE  FrameInv'
<1> SUFFICES ASSUME ~cut PROVE FrameInv'
  BY DEF Message_Handling_Task, FrameInv
<1>1. StreamTypeOK /\ Peeked /\ UNCHANGED <<outgoing, received, bank, cut>> /\ ~jammed
  BY DEF Message_Handling_Task, StreamInv, FrameInv
<1>h. receive # << >> => Head(receive).char # "~"
  BY <1>1, HeadInStep DEF NoRestart
<1>j. (receive' = << >> \/ receive' = receive) => ~jammed'
  BY <1>1, <1>h DEF Message_Handling_Task
<1>2. CASE UNCHANGED <<receive, clear_buffer>>
  <2>1. Stream' = Stream /\ (FlushDue' <=> FlushDue)
    BY <1>1, <1>2 DEF FlushDue, Stream, Coming
  <2>2. Framed(Stream)' <=> Framed(Stream)
    BY <2>1 DEF Framed, Boundary
  <2>3. Boundary(outgoing)' <=> Boundary(outgoing)
    BY <1>1 DEF Boundary
  <2> QED BY <1>1, <1>2, <1>j, <2>1, <2>2, <2>3 DEF FrameInv, Unknown
<1> DEFINE c == Head(receive).char
<1>3. CASE receive # << >> /\ (Command(c) \/ Unrecognised(c))
  <2>1. receive' = << >>
    BY <1>1, <1>3, <1>h, CommandEmpties DEF Unrecognised
  <2> SUFFICES Framed(Stream)' /\ (clear_buffer' => received)
    BY <1>1, <1>j, <2>1 DEF FrameInv, FlushDue, Boundary, Unknown
  <2>2. /\ outgoing \in Seq(Byte) /\ bank \in Seq(Byte) /\ receive \in Seq(Byte)
        /\ Coming \in Seq(Byte) /\ Len(receive) \in Nat /\ Len(receive) # 0
    BY <1>1, <1>3, StreamTyped, LenProperties, EmptySeq
  <2>3. ~clear_buffer /\ Framed(Stream) /\ Coming = bank \o outgoing
    BY <1>3 DEF FrameInv, Coming
  <2>4. CASE Command(c)
    <3>1. c \in Known /\ Len(receive) >= MessageLen[c] /\ UNCHANGED clear_buffer
      BY <2>4 DEF Command, Complete, MEGN540_Message_Len
    <3>2. MessageLen[c] \in Nat \ {0} /\ Len(receive) = MessageLen[c]
      <4>1. MessageLen[c] \in Nat \ {0}
        BY <3>1, StreamAssumption
      <4>2. Len(receive) <= MessageLen[c] \/ Len(receive) = 1
        BY <1>1, <1>3 DEF Peeked
      <4>3. \A m, n \in Nat \ {0} : n >= m /\ (n <= m \/ n = 1) => n = m
        OBVIOUS
      <4> QED BY <2>2, <3>1, <4>1, <4>2, <4>3
    <3>3. Boundary(Coming)
      <4> SUFFICES ASSUME Coming # << >> PROVE Coming[1].first
        BY DEF Boundary
      <4>1. /\ Len(Stream) = Len(receive) + Len(Coming) /\ Len(Coming) \in Nat /\ Len(Coming) # 0
            /\ Stream[1] = receive[1]
            /\ Stream[Len(receive) + 1] = Coming[1]
            /\ Stream # << >>
        BY <2>2, ConcatProperties, LenProperties, EmptySeq DEF Stream
      <4>2. Stream[1].first /\ Stream[1].char = c
        BY <2>2, <2>3, <4>1 DEF Framed, Boundary
      <4>3. 1 \in 1 .. Len(Stream) /\ 1 + MessageLen[c] <= Len(Stream)
        <5>1. \A l, m, n \in Nat : l = m + n /\ n # 0 => 1 \in 1 .. l /\ 1 + m <= l
          OBVIOUS
        <5>2. /\ MessageLen[c] \in Nat /\ Len(Coming) \in Nat /\ Len(Coming) # 0 /\ Len(Stream) \in Nat
              /\ Len(Stream) = MessageLen[c] + Len(Coming)
          BY <2>2, <3>2, <4>1, LenProperties
        <5> HIDE DEF c
        <5> QED BY <5>1, <5>2
      <4> HIDE DEF c
      <4>4. Stream[1 + MessageLen[c]].first
        BY <2>3, <3>1, <4>2, <4>3 DEF Framed
      <4>5. 1 + MessageLen[c] = Len(receive) + 1
        BY <3>2
      <4> QED BY <4>1, <4>4, <4>5
    <3>4. Framed(Coming)
      BY <2>2, <2>3, <3>3, FramedSplit DEF Stream
    <3>5. Stream' = Coming
      <4>1. << >> \o Coming = Coming
        BY <2>2, ConcatEmptySeq
      <4> QED BY <1>1, <2>1, <3>1, <4>1 DEF Stream, Coming
    <3> QED BY <2>3, <3>1, <3>4, <3>5 DEF Framed, Boundary
  <2>5. CASE Unrecognised(c)
    <3>1. clear_buffer' = TRUE /\ FlushDue
      BY <1>3, <2>5 DEF Unrecognised, FlushDue
    <3>2. received /\ Boundary(outgoing)
      BY <3>1 DEF FrameInv
    <3>3. Framed(outgoing)
      <4> DEFINE given == receive \o bank
      <4>1. given \in Seq(Byte) /\ given \o outgoing = receive \o (bank \o outgoing)
        BY <2>2, ConcatProperties, BytesAssociative
      <4> HIDE DEF given
      <4>2. Framed(given \o outgoing)
        BY <2>3, <4>1 DEF Stream
      <4> QED BY <2>2, <3>2, <4>1, <4>2, FramedSplit
    <3>4. Stream' = outgoing
      <4>1. << >> \o outgoing = outgoing
        BY <2>2, ConcatEmptySeq
      <4> QED BY <1>1, <2>1, <3>1, <4>1 DEF Stream, Coming
    <3> QED BY <3>2, <3>3, <3>4 DEF Framed, Boundary
  <2> QED BY <1>3, <2>4, <2>5
<1> QED BY <1>2, <1>3 DEF Message_Handling_Task, Incomplete

(* No byte is under way at first.                                          *)
LEMMA FrameInit == Init => FrameInv
<1> SUFFICES ASSUME Init PROVE FrameInv
  OBVIOUS
<1>1. Stream = << >>
  <2>1. << >> \o << >> = << >>
    BY EmptySeq, ConcatEmptySeq
  <2> QED BY <2>1 DEF Init, Stream, Coming
<1>2. Framed(<< >>)
  BY DEF Framed, Boundary
<1> QED BY <1>1, <1>2 DEF Init, FrameInv, FlushDue, Boundary

(* FrameInv is inductive, given StreamInv: one lemma per action.           *)
LEMMA FrameStep ==
  ASSUME NoRestart
  PROVE  StreamInv /\ FrameInv /\ [Next]_streamVars => FrameInv'
<1> SUFFICES ASSUME StreamInv, FrameInv, [Next]_streamVars PROVE FrameInv'
  OBVIOUS
<1>1. CASE UNCHANGED streamVars
  BY <1>1 DEF streamVars, FrameInv, FlushDue, Framed, Boundary, Stream, Coming, Unknown
<1>2. CASE \E c \in Commands : Write(c)
  BY <1>2, FrameWrite
<1> QED BY <1>1, <1>2, FrameDeliver, FrameReconnect, FrameRead, FrameHandle DEF Next

(* FrameInv holds in every reachable state.                                *)
LEMMA FrameInvHolds ==
  ASSUME NoRestart
  PROVE  Spec => []FrameInv
BY StreamInvHolds, FrameInit, FrameStep, PTL DEF Spec

-----------------------------------------------------------------------------
(* The buffers of the serial link hold bytes, and no more of them than     *)
(* they have room for.                                                     *)
THEOREM StreamTypeCorrect == Spec => []StreamTypeOK
<1>1. StreamInv => StreamTypeOK
  BY DEF StreamInv
<1> QED BY <1>1, StreamInvHolds, PTL

(* Message_Handling_Task keeps up with usb_read_next_byte: the receive     *)
(* buffer never holds more than one command of the longest kind, whatever  *)
(* arrives, in step or out of step, and never overwrites, until a '~',     *)
(* which is not removed, jams it; and a host that sends none jams it only  *)
(* out of step.                                                            *)
THEOREM NeverBackloggedTheorem == Spec => []NeverBacklogged
<1>1. StreamInv => (~jammed => \E c \in Known : Len(receive) <= MessageLen[c])
  <2> SUFFICES ASSUME StreamInv, ~jammed PROVE \E c \in Known : Len(receive) <= MessageLen[c]
    OBVIOUS
  <2>1. receive \in Seq(Byte) /\ Len(receive) \in Nat
    BY LenProperties DEF StreamInv, StreamTypeOK
  <2>2. PICK c \in Known : MessageLen[c] \in Nat /\ 1 <= MessageLen[c]
    BY StreamAssumption
  <2>3. CASE receive = << >>
    <3>1. Len(receive) = 0
      BY <2>3, EmptySeq
    <3> QED BY <2>2, <3>1
  <2>4. CASE Len(receive) = 1
    BY <2>2, <2>4
  <2>5. CASE receive # << >> /\ Head(receive).char \in Known
             /\ (Len(receive) < MessageLen[Head(receive).char]
                 \/ Len(receive) <= MessageLen[Head(receive).char])
    <3>1. MessageLen[Head(receive).char] \in Nat
      BY <2>5, StreamAssumption
    <3>2. Len(receive) <= MessageLen[Head(receive).char]
      BY <2>1, <2>5, <3>1
    <3> QED BY <2>5, <3>2
  <2> QED BY <2>3, <2>4, <2>5 DEF StreamInv, StreamTypeOK, Waiting, Peeked
<1>2. CASE NoRestart
  <2>1. FrameInv => (jammed => cut \/ "~" \in Commands)
    BY DEF FrameInv
  <2>2. Spec => []FrameInv
    BY <1>2, FrameInvHolds
  <2>3. StreamInv /\ FrameInv => NeverBacklogged
    BY <1>1, <2>1 DEF NeverBacklogged
  <2> QED BY <2>2, <2>3, StreamInvHolds, PTL
<1>3. CASE ~NoRestart
  <2>1. StreamInv => NeverBacklogged
    BY <1>1, <1>3 DEF NeverBacklogged, NoRestart
  <2> QED BY <2>1, StreamInvHolds, PTL
<1> QED BY <1>2, <1>3

(* Message_Handling_Task never takes a byte of payload for a command, for  *)
(* every table of lengths, content of the payload and cutting into         *)
(* packets, after flushes and after disconnections, until a disconnection  *)
(* cuts a command or a flush in two.                                       *)
THEOREM InStepTheorem ==
  ASSUME NoRestart
  PROVE  Spec => []InStep
<1>1. StreamInv /\ FrameInv => InStep
  BY HeadInStep DEF StreamInv, InStep
<1> QED BY <1>1, FrameInvHolds, StreamInvHolds, PTL

-----------------------------------------------------------------------------
(* The link implements the queue of commands.                              *)

Chars == PayloadChars \cup Commands
Meant == [b \in {c \in Byte : c.first} |-> b.char]

(* Which bytes are commands.                                               *)
LEMMA Commanding ==
  /\ Maps(Meant, Chars)
  /\ \A b \in Byte : b \in DOMAIN Meant <=> b.first
  /\ \A b \in Byte : b.first => Meant[b] = b.char
<1>1. \A b \in Byte : b.char \in Chars
  BY DEF Byte, Chars
<1> QED BY <1>1 DEF Meant, Maps

(* The commands of two parts follow each other.                            *)
LEMMA CommandsConcat ==
  ASSUME NEW s \in Seq(Byte), NEW t \in Seq(Byte)
  PROVE  /\ CommandsIn(s \o t) = CommandsIn(s) \o CommandsIn(t)
         /\ CommandsIn(s) \in Seq(Chars) /\ CommandsIn(t) \in Seq(Chars)
<1>1. Joins(s, t, Meant)
  BY Commanding, ImagesConcat
<1>2. Images(s, Meant) \in Seq(Chars) /\ Images(t, Meant) \in Seq(Chars)
  BY Commanding, ImagesType
<1> QED BY <1>1, <1>2 DEF CommandsIn, Meant, Joins

(* Bytes of which only the first one is a command.                         *)
LEMMA CommandsOne ==
  ASSUME NEW s \in Seq(Byte), s # << >>, s[1].first, \A j \in 2 .. Len(s) : ~s[j].first
  PROVE  CommandsIn(s) = <<s[1].char>>
<1>0. Len(s) \in Nat /\ 1 \in 1 .. Len(s) /\ 1 \in 0 .. Len(s) /\ 1 \in 1 .. 1
  BY LenProperties, EmptySeq
<1>1. PICK n \in 0 .. Len(s) : n = 1
  BY <1>0
<1>2. PICK x \in Seq(Byte), y \in Seq(Byte) : Parts(s, n, x, y)
  BY Split
<1>3. /\ s = x \o y /\ Len(x) = 1 /\ x[1] = s[1] /\ Len(y) = Len(s) - 1
      /\ \A i \in 1 .. Len(s) - 1 : y[i] = s[1 + i]
  BY <1>0, <1>1, <1>2 DEF Parts
<1>4. PICK e \in Byte : e = s[1]
  BY <1>0, ElementOfSeq
<1>5. x = <<e>>
  BY <1>3, <1>4
<1>6. Images(<<e>>, Meant) = <<Meant[e]>>
  <2>1. e \in DOMAIN Meant
    BY <1>4, Commanding
  <2> QED BY <2>1, Commanding, ImagesOne
<1>7. CommandsIn(x) = <<s[1].char>>
  BY <1>4, <1>5, <1>6, Commanding DEF CommandsIn, Meant
<1>8. Images(y, Meant) = << >>
  <2>1. ASSUME NEW i \in 1 .. Len(y) PROVE y[i] \notin DOMAIN Meant
    <3>1. i \in 1 .. Len(s) - 1 /\ 1 + i \in 2 .. Len(s)
      BY <1>0, <1>3
    <3>2. ~y[i].first /\ y[i] \in Byte
      BY <1>3, <3>1, ElementOfSeq
    <3> QED BY <3>2, Commanding
  <2> QED BY <2>1, Commanding, ImagesNone
<1>9. CommandsIn(y) = << >>
  BY <1>8 DEF CommandsIn, Meant
<1>10. CommandsIn(x \o y) = CommandsIn(x) \o CommandsIn(y)
  BY CommandsConcat
<1>11. CommandsIn(x) \o << >> = CommandsIn(x)
  BY <1>7
<1> QED BY <1>3, <1>7, <1>9, <1>10, <1>11

(* A message is one command.                                               *)
LEMMA CommandsMessage ==
  ASSUME NEW c \in Commands, NEW len \in Nat \ {0},
         NEW payload \in [1 .. len - 1 -> PayloadChars]
  PROVE  Message(c, payload) \in Seq(Byte) /\ CommandsIn(Message(c, payload)) = <<c>>
<1>1. Message(c, payload) \in Seq(Byte) /\ Len(Message(c, payload)) = len
  BY MessageTyped
<1>2. PICK m \in Seq(Byte) : m = Message(c, payload) /\ Len(m) = len
  BY ONLY <1>1, Zenon
<1>3. m[1] = [char |-> c, first |-> TRUE] /\ \A j \in 2 .. len : ~m[j].first
  BY <1>2, MessageBytes
<1>4. m # << >> /\ m[1].first /\ m[1].char = c
  <2>1. m # << >>
    BY <1>2, EmptySeq
  <2> QED BY <1>3, <2>1
<1>5. CommandsIn(m) = <<c>>
  BY <1>2, <1>3, <1>4, CommandsOne
<1> QED BY <1>2, <1>5

(* The order in which the buffers are joined does not matter.              *)
LEMMA PendingStream ==
  ASSUME StreamTypeOK, StreamTypeOK'
  PROVE  StillPending = CommandsIn(Stream) /\ StillPending' = CommandsIn(Stream)'
<1>0. << >> \in Seq(Byte)
  BY EmptySeq
<1>1. (receive \o (IF clear_buffer THEN << >> ELSE bank)) \o outgoing = Stream
  <2>1. outgoing \in Seq(Byte) /\ bank \in Seq(Byte) /\ receive \in Seq(Byte)
    BY DEF StreamTypeOK
  <2>2. PICK X \in Seq(Byte) : X = IF clear_buffer THEN << >> ELSE bank
    BY <1>0, <2>1
  <2>3. (receive \o X) \o outgoing = receive \o (X \o outgoing)
    BY <2>1, BytesAssociative, SMTT(30)
  <2> QED BY <2>2, <2>3 DEF Stream, Coming
<1>2. (receive' \o (IF clear_buffer' THEN << >> ELSE bank')) \o outgoing' = Stream'
  <2>1. outgoing' \in Seq(Byte) /\ bank' \in Seq(Byte) /\ receive' \in Seq(Byte)
    BY DEF StreamTypeOK, Byte
  <2>2. PICK X \in Seq(Byte) : X = IF clear_buffer' THEN << >> ELSE bank'
    BY <1>0, <2>1
  <2>3. PICK o \in Seq(Byte), r \in Seq(Byte) : o = outgoing' /\ r = receive'
    BY <2>1
  <2>4. (r \o X) \o o = r \o (X \o o)
    BY BytesAssociative, SMTT(30)
  <2> QED BY <2>2, <2>3, <2>4 DEF Stream, Coming
<1> QED BY <1>1, <1>2 DEF StillPending, CommandsIn, Byte

(* Out of step nothing is promised.                                        *)
LEMMA QueueBroken ==
  ASSUME cut = TRUE, Next
  PROVE  cut' = TRUE
<1>1. CASE Reconnect
  BY <1>1, Zenon DEF Reconnect
<1> QED BY <1>1, Zenon DEF Next, Write, Deliver, usb_read_next_byte, Message_Handling_Task

(* A write.                                                                *)
LEMMA QueueWrite ==
  ASSUME StreamInv, ~cut, NEW c \in Commands, Write(c)
  PROVE  CommandsIn(Stream)' = Append(CommandsIn(Stream), c) /\ UNCHANGED <<handled, cut>>
<1>1. PICK len \in Nat \ {0} : \E payload \in [1 .. len - 1 -> PayloadChars] :
        Stream' = Stream \o Message(c, payload)
  BY StreamWritten
<1>2. PICK payload \in [1 .. len - 1 -> PayloadChars] : Stream' = Stream \o Message(c, payload)
  BY <1>1
<1>3. PICK m \in Seq(Byte) : m = Message(c, payload) /\ CommandsIn(m) = <<c>>
  BY CommandsMessage
<1>4. PICK s \in Seq(Byte) : s = Stream
  BY StreamTyped DEF StreamInv
<1>5. CommandsIn(s \o m) = CommandsIn(s) \o <<c>> /\ CommandsIn(s) \in Seq(Chars)
  BY <1>3, CommandsConcat
<1>6. c \in Chars
  BY DEF Chars
<1>7. CommandsIn(s) \o <<c>> = Append(CommandsIn(s), c)
  BY <1>5, <1>6, AppendIsConcat
<1>8. CommandsIn(Stream)' = CommandsIn(s \o m)
  BY <1>2, <1>3, <1>4 DEF CommandsIn, Byte
<1> QED BY <1>4, <1>5, <1>7, <1>8 DEF Write, deviceVars

(* A disconnection that cuts nothing loses commands from the end.          *)
LEMMA QueueReconnect ==
  ASSUME StreamInv, FrameInv, ~cut, ~cut', Reconnect
  PROVE  /\ \E n \in 0 .. Len(CommandsIn(Stream)) :
               CommandsIn(Stream)' = SubSeq(CommandsIn(Stream), 1, n)
         /\ UNCHANGED handled
<1>1. /\ outgoing' = << >> /\ bank' = << >> /\ receive' = receive /\ handled' = handled
  BY DEF Reconnect, deviceVars
<1>2. receive \in Seq(Byte) /\ Coming \in Seq(Byte) /\ Stream = receive \o Coming
  BY StreamTyped DEF StreamInv, Stream
<1>3. Stream' = receive
  <2>1. << >> \o << >> = << >> /\ receive \o << >> = receive
    BY <1>2, ConcatEmptySeq, EmptySeq
  <2> QED BY <1>1, <2>1 DEF Stream, Coming
<1>4. PICK p \in Seq(Chars), q \in Seq(Chars) :
        p = CommandsIn(receive) /\ CommandsIn(Stream) = p \o q
  BY <1>2, CommandsConcat
<1>5. CommandsIn(Stream)' = p
  BY <1>3, <1>4 DEF CommandsIn, Byte
<1>6. Len(p) \in 0 .. Len(p \o q) /\ p = SubSeq(p \o q, 1, Len(p))
  BY PrefixOfConcat
<1> QED BY <1>1, <1>4, <1>5, <1>6

(* A command that is carried out was the oldest one pending.               *)
LEMMA QueueCommand ==
  ASSUME NoRestart, StreamInv, FrameInv, ~cut, Message_Handling_Task, receive # << >>,
         Command(Head(receive).char)
  PROVE  LET c == Head(receive).char
         IN  /\ c \in Known /\ handled' = c /\ UNCHANGED cut
             /\ CommandsIn(Stream) = <<c>> \o CommandsIn(Stream)' /\ CommandsIn(Stream)' \in Seq(Chars)
<1> DEFINE c == Head(receive).char
<1>1. /\ StreamTypeOK /\ Peeked /\ UNCHANGED <<outgoing, bank, cut>>
      /\ c \in Known /\ handled' = c /\ UNCHANGED clear_buffer
      /\ Len(receive) >= MessageLen[c]
  BY DEF Message_Handling_Task, StreamInv, FrameInv, Command, Complete, MEGN540_Message_Len
<1>2. /\ receive \in Seq(Byte) /\ Coming \in Seq(Byte) /\ Stream \in Seq(Byte)
      /\ Stream = receive \o Coming /\ Len(receive) \in Nat /\ Len(receive) # 0
  BY <1>1, StreamTyped, LenProperties, EmptySeq DEF Stream
<1>3. Stream' = Coming
  <2>1. receive' = << >>
    BY <1>1, CommandEmpties, HeadInStep DEF NoRestart
  <2>2. << >> \o Coming = Coming
    BY <1>2, ConcatEmptySeq
  <2> QED BY <1>1, <2>1, <2>2 DEF Stream, Coming
<1>4. MessageLen[c] \in Nat \ {0} /\ Len(receive) = MessageLen[c]
  <2>1. MessageLen[c] \in Nat \ {0}
    BY <1>1, StreamAssumption
  <2>2. Len(receive) <= MessageLen[c] \/ Len(receive) = 1
    BY <1>1 DEF Peeked
  <2>3. \A m, n \in Nat \ {0} : n >= m /\ (n <= m \/ n = 1) => n = m
    OBVIOUS
  <2> QED BY <1>1, <1>2, <2>1, <2>2, <2>3
<1>5. Framed(Stream)
  BY DEF FrameInv
<1>6. /\ Stream # << >> /\ 1 \in 1 .. Len(Stream)
      /\ \A i \in 1 .. Len(receive) : Stream[i] = receive[i]
      /\ receive[1].char = c
  BY <1>2, ConcatProperties, LenProperties, EmptySeq
<1>7. receive[1].first /\ Stream[1].first /\ Stream[1].char = c
  <2>1. Stream[1] = receive[1]
    BY <1>2, <1>6
  <2>2. Stream[1].first
    BY <1>5, <1>6 DEF Framed, Boundary
  <2> QED BY <1>6, <2>1, <2>2
<1> HIDE DEF c
<1>8. \A j \in 1 + 1 .. 1 + MessageLen[c] - 1 : ~Stream[j].first
  BY <1>1, <1>5, <1>6, <1>7 DEF Framed
<1>9. ASSUME NEW j \in 2 .. Len(receive) PROVE ~receive[j].first
  <2>1. j \in 1 + 1 .. 1 + MessageLen[c] - 1 /\ j \in 1 .. Len(receive)
    BY <1>2, <1>4
  <2> QED BY <1>6, <1>8, <2>1
<1>10. CommandsIn(receive) = <<c>>
  BY <1>2, <1>6, <1>7, <1>9, CommandsOne
<1>11. CommandsIn(Stream) = <<c>> \o CommandsIn(Coming) /\ CommandsIn(Coming) \in Seq(Chars)
  BY <1>2, <1>10, CommandsConcat
<1>12. CommandsIn(Stream)' = CommandsIn(Coming)
  BY <1>3 DEF CommandsIn, Byte
<1> QED BY <1>1, <1>11, <1>12 DEF c

(* A command nobody knows was the oldest one pending, and takes with it    *)
(* what is in its packet.                                                  *)
LEMMA QueueReject ==
  ASSUME StreamInv, FrameInv, ~cut, Message_Handling_Task, receive # << >>,
         Unrecognised(Head(receive).char)
  PROVE  LET c == Head(receive).char
         IN  /\ c \notin Known /\ handled' = c /\ UNCHANGED cut
             /\ \E q \in Seq(Chars) :
                   CommandsIn(Stream) = (<<c>> \o q) \o CommandsIn(Stream)'
             /\ CommandsIn(Stream)' \in Seq(Chars) /\ c \in Chars
<1> DEFINE c == Head(receive).char
<1>1. /\ StreamTypeOK /\ Peeked /\ UNCHANGED <<outgoing, bank, cut>>
      /\ c \notin Known /\ handled' = c /\ clear_buffer' = TRUE /\ receive' = << >>
  BY DEF Message_Handling_Task, StreamInv, FrameInv, Unrecognised
<1>2. /\ receive \in Seq(Byte) /\ outgoing \in Seq(Byte) /\ bank \in Seq(Byte)
      /\ Len(receive) = 1 /\ ~clear_buffer /\ Framed(Stream)
  BY <1>1, StreamTyped DEF Peeked, FrameInv
<1>3. PICK g \in Seq(Byte) : g = receive \o bank /\ Stream = g \o outgoing
  <2>1. receive \o bank \in Seq(Byte) /\ (receive \o bank) \o outgoing = receive \o (bank \o outgoing)
    BY <1>2, ConcatProperties, BytesAssociative
  <2>2. Stream = receive \o (bank \o outgoing)
    BY <1>2 DEF Stream, Coming
  <2> QED BY <2>1, <2>2
<1>4. Stream' = outgoing
  <2>1. << >> \o outgoing = outgoing
    BY <1>2, ConcatEmptySeq
  <2> QED BY <1>1, <2>1 DEF Stream, Coming
<1>5. receive[1].first /\ receive[1].char = c /\ c \in Chars
  <2>1. Coming \in Seq(Byte) /\ Stream = receive \o Coming
    BY <1>1, StreamTyped DEF Stream
  <2>2. Stream # << >> /\ Stream[1] = receive[1]
    BY <1>2, <2>1, ConcatProperties, LenProperties, EmptySeq
  <2>3. receive[1].char = c /\ receive[1] \in Byte
    BY <1>2, ElementOfSeq
  <2>4. receive[1].first
    BY <1>2, <2>2 DEF Framed, Boundary
  <2> QED BY <2>3, <2>4 DEF Byte, Chars
<1>6. CommandsIn(receive) = <<c>>
  <2>1. \A j \in 2 .. Len(receive) : ~receive[j].first
    BY <1>2
  <2> QED BY <1>2, <1>5, <2>1, CommandsOne
<1> HIDE DEF c
<1>7. CommandsIn(g) = <<c>> \o CommandsIn(bank) /\ CommandsIn(bank) \in Seq(Chars)
  BY <1>2, <1>3, <1>6, CommandsConcat
<1>8. CommandsIn(Stream) = CommandsIn(g) \o CommandsIn(outgoing) /\ CommandsIn(outgoing) \in Seq(Chars)
  BY <1>2, <1>3, CommandsConcat
<1>9. CommandsIn(Stream)' = CommandsIn(outgoing)
  BY <1>4 DEF CommandsIn, Byte
<1> QED BY <1>1, <1>5, <1>7, <1>8, <1>9 DEF c

(* Every step of the host and of the device is a step of the queue of      *)
(* commands or none.                                                       *)
LEMMA QueueStep ==
  ASSUME NoRestart, StreamInv, StreamInv', FrameInv, [Next]_streamVars
  PROVE  [Queue!Next]_(Queue!queueVars)
<1> DEFINE pending == IF cut THEN << >> ELSE StillPending
<1>t. StreamTypeOK /\ StreamTypeOK'
  BY DEF StreamInv
<1>p. StillPending = CommandsIn(Stream) /\ StillPending' = CommandsIn(Stream)'
  BY <1>t, PendingStream
<1>b. cut \in BOOLEAN /\ cut' \in BOOLEAN
  BY <1>t, Zenon DEF StreamTypeOK
<1>s. ASSUME Stream' = Stream, UNCHANGED <<handled, cut>>
      PROVE  UNCHANGED Queue!queueVars
  <2>1. CommandsIn(Stream)' = CommandsIn(Stream)
    BY <1>s DEF CommandsIn, Byte
  <2> QED BY <1>s, <1>p, <2>1 DEF Queue!queueVars
<1>1. CASE UNCHANGED streamVars
  BY <1>1, <1>s DEF streamVars, Stream, Coming
<1>2. CASE cut /\ Next
  <2>1. cut = TRUE /\ cut' = TRUE
    <3>1. cut = TRUE
      BY <1>2, <1>b, Zenon
    <3> QED BY <1>2, <3>1, QueueBroken
  <2>2. Queue!OutOfStep
    BY <2>1 DEF Queue!OutOfStep
  <2> QED BY <2>2 DEF Queue!Next
<1>3. ASSUME ~cut, NEW c \in Commands, Write(c) PROVE Queue!Write(c)
  <2>1. CommandsIn(Stream)' = Append(CommandsIn(Stream), c) /\ handled' = handled /\ cut' = cut
    BY <1>3, QueueWrite
  <2> QED BY <1>3, <1>p, <2>1 DEF Queue!Write
<1>4. CASE ~cut /\ Deliver
  <2>1. Stream' = Stream /\ UNCHANGED <<handled, cut>>
    BY <1>4, StreamDelivered DEF Deliver, deviceVars
  <2> QED BY <1>s, <2>1
<1>5. CASE ~cut /\ usb_read_next_byte
  <2>1. Stream' = Stream /\ UNCHANGED <<handled, cut>>
    BY <1>5, StreamRead DEF usb_read_next_byte, FrameInv
  <2> QED BY <1>s, <2>1
<1>6. CASE ~cut /\ Reconnect
  <2>1. CASE cut'
    <3>1. cut' = TRUE
      BY <1>b, <2>1, Zenon
    <3>2. handled' = handled
      BY <1>6 DEF Reconnect, deviceVars
    <3>3. Queue!Break
      BY <3>1, <3>2 DEF Queue!Break
    <3> QED BY <3>3 DEF Queue!Next
  <2>2. CASE ~cut'
    <3>1. PICK n \in 0 .. Len(CommandsIn(Stream)) :
            CommandsIn(Stream)' = SubSeq(CommandsIn(Stream), 1, n)
      BY <1>6, <2>2, QueueReconnect
    <3>2. handled' = handled
      BY <1>6 DEF Reconnect, deviceVars
    <3>3. cut' = cut
      BY <1>b, <1>6, <2>2, Zenon
    <3>4. pending = CommandsIn(Stream) /\ pending' = CommandsIn(Stream)'
      BY <1>p, <1>6, <2>2
    <3>5. Queue!Lose
      BY <3>1, <3>2, <3>3, <3>4 DEF Queue!Lose
    <3> QED BY <3>5 DEF Queue!Next
  <2> QED BY <2>1, <2>2
<1>7. CASE ~cut /\ Message_Handling_Task
  <2> DEFINE c == Head(receive).char
  <2>1. CASE UNCHANGED <<receive, handled, clear_buffer>>
    <3>1. Stream' = Stream /\ UNCHANGED <<handled, cut>>
      BY <1>7, <2>1 DEF Message_Handling_Task, Stream, Coming
    <3> QED BY <1>s, <3>1
  <2>2. CASE receive # << >> /\ Command(c)
    <3>1. /\ c \in Known /\ handled' = c /\ cut' = cut
          /\ CommandsIn(Stream) = <<c>> \o CommandsIn(Stream)' /\ CommandsIn(Stream)' \in Seq(Chars)
      BY <1>7, <2>2, QueueCommand
    <3> HIDE DEF c
    <3>2. PICK q \in Seq(Chars) : q = CommandsIn(Stream)'
      BY <3>1
    <3>3. <<c>> \o q # << >> /\ Head(<<c>> \o q) = c /\ Tail(<<c>> \o q) = q
      OBVIOUS
    <3>4. pending = <<c>> \o q /\ pending' = q
      BY <1>p, <1>7, <3>1, <3>2
    <3>5. Queue!Execute
      BY <3>1, <3>3, <3>4 DEF Queue!Execute
    <3> QED BY <3>5 DEF Queue!Next
  <2>3. CASE receive # << >> /\ Unrecognised(c)
    <3>1. /\ c \notin Known /\ handled' = c /\ cut' = cut /\ c \in Chars
          /\ \E q \in Seq(Chars) : CommandsIn(Stream) = (<<c>> \o q) \o CommandsIn(Stream)'
          /\ CommandsIn(Stream)' \in Seq(Chars)
      BY <1>7, <2>3, QueueReject
    <3> HIDE DEF c
    <3>2. PICK q \in Seq(Chars) : CommandsIn(Stream) = (<<c>> \o q) \o CommandsIn(Stream)'
      BY <3>1
    <3>3. PICK r \in Seq(Chars) : r = CommandsIn(Stream)'
      BY <3>1
    <3>4. <<c>> \o q \in Seq(Chars) /\ Len(<<c>> \o q) = 1 + Len(q) /\ (<<c>> \o q)[1] = c
      BY <3>1
    <3>5. PICK p \in Seq(Chars) : p = <<c>> \o q /\ Len(p) = 1 + Len(q) /\ p[1] = c
      BY ONLY <3>4, Zenon
    <3>6. Len(p) \in 0 .. Len(p \o r) /\ r = SubSeq(p \o r, Len(p) + 1, Len(p \o r))
      BY PrefixOfConcat, SuffixOfConcat
    <3>7. Len(q) \in Nat /\ Len(p) \in Nat /\ Len(r) \in Nat
      BY LenProperties
    <3>8. p \o r # << >> /\ Head(p \o r) = c /\ Len(p) \in 1 .. Len(p \o r)
      <4>1. p # << >> /\ Len(p) # 0
        BY <3>5, <3>7, EmptySeq
      <4>2. p \o r # << >> /\ Head(p \o r) = p[1]
        BY <4>1
      <4> QED BY <3>5, <3>6, <3>7, <4>1, <4>2
    <3>9. pending = p \o r /\ pending' = r
      BY <1>p, <1>7, <3>1, <3>2, <3>3, <3>5
    <3>10. Queue!Reject
      BY <3>1, <3>6, <3>8, <3>9 DEF Queue!Reject
    <3> QED BY <3>10 DEF Queue!Next
  <2> QED BY <1>7, <2>1, <2>2, <2>3 DEF Message_Handling_Task, Incomplete
<1> QED BY <1>1, <1>2, <1>3, <1>4, <1>5, <1>6, <1>7 DEF Next, Queue!Next

(* The receiving side of the link does what CommandQueue promises: the     *)
(* device carries out exactly the commands the host wrote, each once and   *)
(* in the order written; an unknown one takes with it only what was        *)
(* written along with it, a disconnection loses only the newest commands,  *)
(* and only if it cuts a command or a flush the promise ends.              *)
THEOREM QueueRefined ==
  ASSUME NoRestart
  PROVE  Spec => Queue!Safety
<1>1. Init => Queue!Init
  <2> SUFFICES ASSUME Init PROVE Queue!Init
    OBVIOUS
  <2>1. << >> \in Seq(Byte) /\ Len(<< >>) = 0 /\ << >> \o << >> = << >>
    BY EmptySeq, ConcatEmptySeq
  <2>2. PICK s \in Seq(Byte) : s = << >> /\ Len(s) = 0
    BY ONLY <2>1, Zenon
  <2>3. Images(s, Meant) = << >>
    <3>1. \A i \in 1 .. Len(s) : s[i] \notin DOMAIN Meant
      BY <2>2
    <3> QED BY <3>1, Commanding, ImagesNone
  <2>4. StillPending = << >>
    BY <2>1, <2>2, <2>3 DEF Init, StillPending, CommandsIn, Meant
  <2> QED BY <2>4 DEF Init, Queue!Init
<1>2. StreamInv /\ FrameInv /\ [Next]_streamVars => [Queue!Next]_(Queue!queueVars)
  BY StreamStep, QueueStep
<1> QED BY <1>1, <1>2, FrameInvHolds, StreamInvHolds, PTL DEF Spec, Queue!Safety
=============================================================================
