---------------------------- MODULE CommandQueue ----------------------------
(***************************************************************************)
(* What the serial link and Message_Handling_Task promise the host: the    *)
(* commands it writes are carried out one at a time, once each, in the     *)
(* order written.  A command nobody knows is answered with '?' and takes   *)
(* with it what was written along with it.  A disconnection loses commands *)
(* from the end; one that cuts a command in two ends all promises.         *)
(***************************************************************************)
EXTENDS Integers, Sequences

CONSTANTS Known,       \* the commands that MEGN540_Message_Len lists
          Commands     \* the commands the host writes

VARIABLES pending,     \* the commands written and not yet dealt with
          handled,     \* the command dealt with last
          broken       \* a command has been cut in two

queueVars == <<pending, handled, broken>>

Init == pending = << >> /\ handled = "none" /\ broken = FALSE

Write(c) == ~broken /\ pending' = Append(pending, c) /\ UNCHANGED <<handled, broken>>

Execute == /\ pending # << >> /\ Head(pending) \in Known
           /\ handled' = Head(pending)
           /\ pending' = Tail(pending)
           /\ UNCHANGED broken

Reject == /\ pending # << >> /\ Head(pending) \notin Known
          /\ handled' = Head(pending)
          /\ \E n \in 1 .. Len(pending) : pending' = SubSeq(pending, n + 1, Len(pending))
          /\ UNCHANGED broken

Lose == /\ \E n \in 0 .. Len(pending) : pending' = SubSeq(pending, 1, n)
        /\ UNCHANGED <<handled, broken>>

Break == broken' = TRUE /\ pending' = << >> /\ UNCHANGED handled

(* Whatever looks like a command is dealt with as one.                     *)
OutOfStep == broken /\ UNCHANGED <<pending, broken>>

Next == (\E c \in Commands : Write(c)) \/ Execute \/ Reject \/ Lose \/ Break \/ OutOfStep

Safety == Init /\ [][Next]_queueVars

(* Nothing stays pending for ever: what is written is dealt with.          *)
Spec == Safety /\ WF_queueVars(Execute \/ Reject)
=============================================================================
