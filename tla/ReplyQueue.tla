----------------------------- MODULE ReplyQueue -----------------------------
(***************************************************************************)
(* What the sending side of the serial link promises: the host hears the   *)
(* replies of the device once each and in order, as long as no more bytes  *)
(* are under way than the send buffer holds.  Opening the port anew loses  *)
(* the oldest replies under way.  Once the buffer has overflowed, or the   *)
(* port was opened in the middle of a reply, nothing is promised any more. *)
(***************************************************************************)
EXTENDS Integers, Sequences, Subsequences

CONSTANTS Size,        \* bytes of each kind of reply
          Capacity     \* bytes the send buffer holds

VARIABLES pending,     \* the replies sent and not yet heard
          heard,       \* the reply that is heard in this step, or "none"
          lost,        \* the host no longer knows where a reply begins
          openings     \* times the port was opened

queueVars == <<pending, heard, lost, openings>>

Init == pending = << >> /\ heard = "none" /\ lost = FALSE /\ openings = 1

Send(k) ==
  /\ ~lost /\ pending' = Append(pending, k)
  /\ heard' = "none" /\ UNCHANGED <<lost, openings>>

Overflow(k) ==
  /\ ~lost /\ Total(pending, Size) + Size[k] > Capacity
  /\ lost' = TRUE /\ pending' = << >> /\ heard' = "none" /\ UNCHANGED openings

Hear ==
  /\ ~lost /\ pending # << >>
  /\ heard' = Head(pending) /\ pending' = Tail(pending) /\ UNCHANGED <<lost, openings>>

Heard == heard' = "none" /\ UNCHANGED <<lost, openings, pending>>

(* The port is opened: between two replies, ...                            *)
Reopen ==
  /\ ~lost /\ openings' = openings + 1 /\ heard' = "none"
  /\ \E n \in 0 .. Len(pending) : pending' = SubSeq(pending, n + 1, Len(pending))
  /\ UNCHANGED lost

(* ... or in the middle of one.                                            *)
Break ==
  /\ ~lost /\ pending # << >> /\ openings' = openings + 1 /\ heard' = "none"
  /\ lost' = TRUE /\ pending' = << >>

Garbled ==
  /\ lost /\ heard' \in DOMAIN Size \cup {"none"}
  /\ openings' \in {openings, openings + 1}
  /\ UNCHANGED <<pending, lost>>

Next == \/ Heard \/ Hear
        \/ \E k \in DOMAIN Size : Send(k) \/ Overflow(k)
        \/ Reopen \/ Break \/ Garbled

Safety == Init /\ [][Next]_queueVars

(* Every reply under way gets to be heard.                                 *)
Spec == Safety /\ WF_queueVars(Hear)
=============================================================================
