--------------------------- MODULE CommandStream ----------------------------
(***************************************************************************)
(* The receiving side of the serial link: the host's writes, the USB OUT   *)
(* endpoint, usb_read_next_byte (one byte per iteration of main's loop),   *)
(* the receive ring buffer and the way Message_Handling_Task cuts commands *)
(* out of it.  Nothing on the wire marks where a command begins: the two   *)
(* sides stay in step only by agreeing on MEGN540_Message_Len.             *)
(*                                                                         *)
(* A byte is its value, as far as a switch on it goes (`char'), and        *)
(* whether the host meant it as a command (`first'), which the device      *)
(* cannot see.  The ring buffer is the bounded queue of BoundedDeque,      *)
(* which RingBuffer implements.                                            *)
(***************************************************************************)
EXTENDS Integers, Sequences, Subsequences

CONSTANTS MessageLen,     \* the table of MEGN540_Message_Len
          Commands,       \* the commands the host writes
          PayloadChars,   \* what a byte of payload may look like
          UnknownLen,     \* bound: length of a write that starts with an unknown command
          PacketSize,     \* size of the OUT endpoint
          Capacity,       \* RB_LENGTH_C - 1
          MaxOutgoing     \* bound: bytes the host has written and not sent

Known == DOMAIN MessageLen

ASSUME StreamAssumption ==
  /\ \A c \in Known : MessageLen[c] \in 1 .. Capacity
  /\ UnknownLen \in Nat \ {0} /\ PacketSize \in Nat \ {0}
  /\ Capacity \in Nat /\ MaxOutgoing \in Nat /\ Known # {}

VARIABLES outgoing,       \* bytes written by the host and not yet in a packet
          received,       \* Endpoint_IsOUTReceived
          bank,           \* the bytes left in the endpoint
          reading,        \* static bool reading of usb_read_next_byte
          clear_buffer,
          receive,        \* _usb_receive_buffer, front first
          step,           \* which of the loop's two calls is next
          handled,        \* the command dealt with last
          jammed,         \* history: a '~' stays in the buffer, or bytes that came after it
          cut             \* history: a disconnection has cut a command or a flush

deviceVars == <<reading, clear_buffer, receive, step, handled, jammed>>
streamVars == <<outgoing, received, bank, reading, clear_buffer, receive, step, handled, jammed,
                cut>>

Byte == [char : Commands, first : {TRUE}] \cup [char : PayloadChars, first : {FALSE}]

MEGN540_Message_Len(c) == IF c \in Known THEN MessageLen[c] ELSE 0

Init == /\ outgoing = << >> /\ received = FALSE /\ bank = << >>
        /\ reading = FALSE /\ clear_buffer = FALSE
        /\ receive = << >> /\ step = "upkeep" /\ handled = "none"
        /\ jammed = FALSE /\ cut = FALSE

-----------------------------------------------------------------------------
(* The host: a write is a command byte and its packed payload.             *)

Message(c, payload) ==
  <<[char |-> c, first |-> TRUE]>> \o [i \in DOMAIN payload |->
                                        [char |-> payload[i], first |-> FALSE]]

Write(c) ==
  /\ \E len \in IF c \in Known THEN {MessageLen[c]} ELSE 1 .. UnknownLen :
        /\ Len(outgoing) + len <= MaxOutgoing
        /\ \E payload \in [1 .. len - 1 -> PayloadChars] :
              outgoing' = outgoing \o Message(c, payload)
  /\ UNCHANGED <<received, bank, deviceVars, cut>>

Unknown(b) == b.first /\ b.char \notin Known

(* A packet goes out when the endpoint is free.  It may end inside a       *)
(* command, but not if an unknown one is in it: a host that writes those   *)
(* writes packets of whole commands.                                       *)
Deliver ==
  /\ ~received
  /\ \E n \in 1 .. Len(outgoing) :
        /\ n <= PacketSize
        /\ (n < Len(outgoing) /\ \E i \in 1 .. n : Unknown(outgoing[i])) => outgoing[n + 1].first
        /\ bank' = SubSeq(outgoing, 1, n)
        /\ outgoing' = SubSeq(outgoing, n + 1, Len(outgoing))
  /\ received' = TRUE
  /\ UNCHANGED <<deviceVars, cut>>

(* The cable is pulled and plugged in again: what is on the way is lost,   *)
(* the endpoints are configured anew, and nothing tells the rest of the    *)
(* device, which goes on with what it has.  It cuts a command whose rest   *)
(* is lost, and a flush, begun or about to begin, that then discards from  *)
(* a packet of the new connection.                                         *)
Flushing == clear_buffer \/ (receive # << >> /\ Head(receive).char \notin Known)
Reconnect ==
  /\ outgoing' = << >> /\ bank' = << >> /\ received' = FALSE
  /\ cut' = (cut \/ Flushing \/ (bank \o outgoing # << >> /\ ~Head(bank \o outgoing).first))
  /\ UNCHANGED deviceVars

-----------------------------------------------------------------------------
(* The device.                                                             *)

rb_push_back(s, b) == Append(IF Len(s) = Capacity THEN Tail(s) ELSE s, b)

TakeByte ==
  /\ bank # << >>
  /\ reading' = TRUE
  /\ receive' = IF clear_buffer THEN receive ELSE rb_push_back(receive, Head(bank))
  /\ bank' = Tail(bank)
  /\ UNCHANGED <<received, clear_buffer>>

(* The byte after the last one: acknowledge, and stop discarding.          *)
Mut_EndPacket ==
  /\ bank = << >> /\ reading
  /\ received' = FALSE
  /\ UNCHANGED <<bank, reading, receive, clear_buffer>>
EndPacket ==
  /\ bank = << >> /\ reading
  /\ received' = FALSE /\ clear_buffer' = FALSE
  /\ UNCHANGED <<bank, reading, receive>>

usb_read_next_byte ==
  /\ step = "upkeep" /\ step' = "messages"
  /\ \/ received /\ (TakeByte \/ EndPacket)
     \/ ~received /\ UNCHANGED <<received, bank, reading, clear_buffer, receive>>
  /\ UNCHANGED <<outgoing, handled, jammed, cut>>

(* What the case of a command removes from the buffer: usb_msg_get and     *)
(* usb_msg_read_into together take MEGN540_Message_Len bytes, except that  *)
(* the case of '~' takes nothing.                                          *)
Taken(c) == IF c = "~" THEN 0 ELSE MEGN540_Message_Len(c)

Mut_Complete(c) == Len(receive) > MEGN540_Message_Len(c)
Complete(c) == Len(receive) >= MEGN540_Message_Len(c)

Command(c) ==
  /\ c \in Known /\ Complete(c)
  /\ receive' = SubSeq(receive, Taken(c) + 1, Len(receive))
  /\ handled' = c
  /\ UNCHANGED clear_buffer

(* default: usb_flush_input_buffer, and the answer '?'                     *)
Mut_Unrecognised(c) ==
  /\ c \notin Known
  /\ receive' = << >>
  /\ handled' = c
  /\ UNCHANGED clear_buffer
Unrecognised(c) ==
  /\ c \notin Known
  /\ receive' = << >> /\ clear_buffer' = TRUE
  /\ handled' = c

Incomplete(c) == c \in Known /\ ~Complete(c) /\ UNCHANGED <<receive, handled, clear_buffer>>

Message_Handling_Task ==
  /\ step = "messages" /\ step' = "upkeep"
  /\ \/ receive = << >> /\ UNCHANGED <<receive, handled, clear_buffer>>
     \/ /\ receive # << >>
        /\ LET c == Head(receive).char IN Command(c) \/ Unrecognised(c) \/ Incomplete(c)
  /\ jammed' = (receive' # << >> /\ (jammed \/ Head(receive').char = "~"))
  /\ UNCHANGED <<outgoing, received, bank, reading, cut>>

Next == \/ \E c \in Commands : Write(c)
        \/ Deliver
        \/ Reconnect
        \/ usb_read_next_byte
        \/ Message_Handling_Task

(* The loop keeps running, and the host controller keeps polling.          *)
Spec == /\ Init /\ [][Next]_streamVars
        /\ WF_streamVars(Deliver)
        /\ WF_streamVars(usb_read_next_byte \/ Message_Handling_Task)

-----------------------------------------------------------------------------
(* Properties.                                                             *)

StreamTypeOK ==
  /\ outgoing \in Seq(Byte) /\ Len(outgoing) <= MaxOutgoing
  /\ bank \in Seq(Byte) /\ Len(bank) <= PacketSize
  /\ receive \in Seq(Byte) /\ Len(receive) <= Capacity
  /\ received \in BOOLEAN /\ reading \in BOOLEAN /\ clear_buffer \in BOOLEAN
  /\ jammed \in BOOLEAN /\ cut \in BOOLEAN
  /\ step \in {"upkeep", "messages"}
  /\ handled \in PayloadChars \cup Commands \cup {"none"}

(* Message_Handling_Task never takes a byte of payload for a command: what *)
(* it peeks at is always the byte the host meant as one, whatever payload  *)
(* looks like, however packets fall, after a flush and after a             *)
(* disconnection, as long as none cut a command or a flush in two.         *)
InStep == (~cut /\ receive # << >>) => Head(receive).first

(* One command per iteration keeps up with one byte: the receive buffer    *)
(* never holds more than the longest command, in step or out of step, and  *)
(* so never overwrites, until a '~', which is not removed, jams it.  A     *)
(* host that sends none can meet that only after a command was cut, when a *)
(* byte of payload is taken for it.                                        *)
NeverBacklogged ==
  /\ ~jammed => \E c \in Known : Len(receive) <= MessageLen[c]
  /\ jammed => cut \/ "~" \in Commands

(* The commands among the bytes that are still to be dealt with; a flush   *)
(* has given up the rest of the packet.                                    *)
CommandsIn(bytes) == Images(bytes, [b \in {c \in Byte : c.first} |-> b.char])
StillPending == CommandsIn(receive \o (IF clear_buffer THEN << >> ELSE bank) \o outgoing)

Queue == INSTANCE CommandQueue WITH pending <- IF cut THEN << >> ELSE StillPending,
                                    broken <- cut

(* The device carries out exactly the commands the host wrote, each once   *)
(* and in order, and gets to every one of them; a disconnection loses the  *)
(* newest ones, and only if it cuts a command or a flush all is lost.      *)
ImplementsQueue == Queue!Spec
=============================================================================
