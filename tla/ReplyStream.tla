---------------------------- MODULE ReplyStream -----------------------------
(***************************************************************************)
(* The sending side of the serial link: usb_send_msg, the send buffer,     *)
(* usb_write_next_byte, and the reading thread of the host's SerialData in *)
(* "Dynamic" mode.                                                         *)
(*                                                                         *)
(* A reply is [length][format, NUL][command][data]; a byte is the kind of  *)
(* its reply and its place in it, of which the host sees only the value.   *)
(* The one-byte packets on the wire and the driver of the host are part of *)
(* `waiting'.  Once the send buffer has overflowed, or a connection was    *)
(* opened anew in the middle of a reply, so that replies are no longer     *)
(* whole, the bytes are not told apart any more.                           *)
(***************************************************************************)
EXTENDS Integers, Sequences, Subsequences

CONSTANTS Size,         \* bytes of each kind of reply
          Capacity,     \* RB_LENGTH_C - 1
          MaxWaiting,   \* bound: bytes the host has not read
          MaxOpenings   \* bound: times the host opens the port

Kinds == DOMAIN Size
MaxSize == CHOOSE n \in {Size[k] : k \in Kinds} : \A k \in Kinds : Size[k] <= n

ASSUME ReplyAssumption ==
  /\ Size \in [Kinds -> 2 .. Capacity]
  /\ Capacity \in Nat /\ MaxWaiting \in Nat /\ MaxWaiting >= MaxSize - 1
  /\ MaxOpenings \in Nat \ {0}

VARIABLES send,       \* _usb_send_buffer, front first
          broken,     \* history: a push has overwritten the oldest byte, or the rest of
                      \* a reply was thrown away when the port was opened
          waiting,    \* bytes that wait for the host's reading thread
          need,       \* dataNumBytes: bytes of the reply still to come, -1 for none;
                      \* Deaf when the reading thread reads no more
          heard,      \* the reply parseData hands to the callbacks in this step, or "none"
          openings    \* history: times the port was opened

replyVars == <<send, broken, waiting, need, openings>>
hostVars == <<waiting, need, openings>>

(* Another negative length fits no branch of the loop, not even that of    *)
(* the next connection.                                                    *)
Deaf == -2

Garbage == [kind |-> "garbage", place |-> 0]
Blurred(n) == [i \in 1 .. n |-> Garbage]

Frame(k) == [i \in 1 .. Size[k] |-> [kind |-> k, place |-> i]]

ReplyInit == /\ send = << >> /\ broken = FALSE
             /\ waiting = << >> /\ need = -1 /\ heard = "none" /\ openings = 1

-----------------------------------------------------------------------------
(* The device.                                                             *)

(* Every byte is pushed; a full buffer loses its oldest one.               *)
Pushed(bytes) ==
  LET n == Len(send) + Len(bytes)
  IN  /\ broken' = (broken \/ n > Capacity)
      /\ send' = IF broken' THEN Blurred(IF n > Capacity THEN Capacity ELSE n)
                             ELSE send \o bytes

Mut_usb_send_msg(k) == Pushed(Tail(Frame(k)) \o <<Head(Frame(k))>>)
usb_send_msg(k) == Pushed(Frame(k))

(* The endpoint is ready and takes the next byte.  (The branch for an      *)
(* empty buffer never sends: the receiving endpoint is still selected.)    *)
usb_write_next_byte ==
  /\ send # << >> /\ Len(waiting) < MaxWaiting
  /\ waiting' = Append(waiting, Head(send))
  /\ send' = Tail(send)
  /\ UNCHANGED <<broken, need, openings>>

-----------------------------------------------------------------------------
(* The host's backgroundThread.                                            *)

(* A length is read; another byte in its place can have any value.         *)
HostLength ==
  /\ need = -1 /\ waiting # << >>
  /\ need' \in IF Head(waiting).place = 1 THEN {Size[Head(waiting).kind] - 1} ELSE {Deaf} \cup -1 .. MaxSize
  /\ waiting' = Tail(waiting) /\ heard' = "none"
  /\ UNCHANGED <<send, broken, openings>>

HostZero ==
  /\ need = 0 /\ need' = -1 /\ heard' = "none"
  /\ UNCHANGED <<send, broken, waiting, openings>>

(* The bytes that `need' promises are the rest of one reply.               *)
Intact == \E k \in Kinds : need = Size[k] - 1 /\ SubSeq(waiting, 1, need) = Tail(Frame(k))

Mut_HostParse ==
  /\ need > 0 /\ waiting # << >>
  /\ LET n == IF Len(waiting) < need THEN Len(waiting) ELSE need
     IN  waiting' = SubSeq(waiting, n + 1, Len(waiting))
  /\ heard' = Head(waiting).kind
  /\ need' = -1
  /\ UNCHANGED <<send, broken, openings>>
HostParse ==
  /\ need > 0 /\ Len(waiting) >= need /\ Intact
  /\ heard' = Head(waiting).kind
  /\ waiting' = SubSeq(waiting, need + 1, Len(waiting))
  /\ need' = -1
  /\ UNCHANGED <<send, broken, openings>>

(* They are not: the format is found invalid, or to ask for another number *)
(* of bytes, or by chance to fit, and what is heard then has no meaning;   *)
(* or it is no ASCII, an exception loses the connection, and the next one  *)
(* goes on with what is left of dataNumBytes.                              *)
HostGarbled ==
  /\ need > 0 /\ Len(waiting) >= need /\ ~Intact
  /\ \E n \in 1 .. need : waiting' = SubSeq(waiting, n + 1, Len(waiting))
  /\ heard' = "none"
  /\ need' \in -1 .. need - 1
  /\ UNCHANGED <<send, broken, openings>>

backgroundThread == HostLength \/ HostZero \/ HostParse \/ HostGarbled

(* A byte that is not the first of its reply comes next, though the host   *)
(* waits for a length, or not the one that it waits for.                   *)
CutsReply(rest) == need # -1 \/ (rest # << >> /\ Head(rest).place # 1)

(* The connection was closed or lost and the port is opened again: the new *)
(* thread begins with reset_input_buffer, which throws away what the host  *)
(* has not read.  dataNumBytes is kept, part of which may have been read.  *)
Reopen ==
  /\ openings < MaxOpenings /\ openings' = openings + 1
  /\ heard' = "none"
  /\ \E n \in 0 .. Len(waiting) :
        LET rest == SubSeq(waiting, n + 1, Len(waiting))
        IN  /\ broken' = (broken \/ (n > 0 /\ CutsReply(rest \o send)))
            /\ waiting' = IF broken' THEN Blurred(Len(rest)) ELSE rest
            /\ send' = IF broken' THEN Blurred(Len(send)) ELSE send
            /\ need' \in {need} \cup (IF n > 0 THEN 0 .. need ELSE {})

-----------------------------------------------------------------------------
(* Properties.                                                             *)

Byte == [kind : Kinds, place : 1 .. MaxSize] \cup {Garbage}

ReplyTypeOK ==
  /\ send \in Seq(Byte) /\ Len(send) <= Capacity
  /\ waiting \in Seq(Byte) /\ Len(waiting) <= MaxWaiting
  /\ need \in Deaf .. MaxSize /\ broken \in BOOLEAN
  /\ heard \in Kinds \cup {"none"} /\ openings \in 1 .. MaxOpenings

(* The host takes the right bytes for lengths, whatever the data looks     *)
(* like, wherever its reading thread is interrupted and when it opens the  *)
(* port anew.  Two exceptions: the send buffer has overflowed, or the rest *)
(* of a reply was thrown away when the port was opened.                    *)
ReplyInStep ==
  (~broken /\ waiting # << >>) =>
     Head(waiting).place = IF need = -1 THEN 1 ELSE 2

(* A reply is under way until the host has read its last byte.             *)
LastBytes == {[kind |-> k, place |-> Size[k]] : k \in Kinds}
UnderWay == Images(waiting \o send, [b \in LastBytes |-> b.kind])

Replies == INSTANCE ReplyQueue WITH pending <- IF broken THEN << >> ELSE UnderWay,
                                    lost <- broken

(* The host hears every reply once and in order, and gets to hear it; none *)
(* is lost but those under way when it opens the port anew, and the link   *)
(* breaks only then or when the send buffer cannot hold what is under way. *)
ImplementsReplies == Replies!Spec
=============================================================================
