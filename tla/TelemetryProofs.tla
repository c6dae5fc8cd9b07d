-------------------------- MODULE TelemetryProofs ---------------------------
(***************************************************************************)
(* Theorems about Telemetry and the sending side of the serial link        *)
(* (ReplyStream), for all reports and sizes of replies, every capacity of  *)
(* the send buffer and however much the host leaves unread.                *)
(***************************************************************************)
EXTENDS Telemetry, InductionProofs

(* All that is on its way to the host.                                     *)
Bytes == waiting \o send

(* Replies follow each other without gaps, and the last one is complete.   *)
Whole(s) ==
  \A i \in 1 .. Len(s) :
     /\ s[i].kind \in Kinds /\ s[i].place \in 1 .. Size[s[i].kind]
     /\ s[i].place < Size[s[i].kind] =>
           i < Len(s) /\ s[i + 1] = [kind |-> s[i].kind, place |-> s[i].place + 1]
     /\ (s[i].place = Size[s[i].kind] /\ i < Len(s)) => s[i + 1].place = 1

(* The reading thread is before a reply, or it has taken the length of the *)
(* reply whose other bytes come next.                                      *)
Expected(s) ==
  IF need = -1 THEN s # << >> => s[1].place = 1
  ELSE s # << >> /\ s[1].place = 2 /\ need = Size[s[1].kind] - 1

LinkInv == ~broken => Whole(Bytes) /\ Expected(Bytes)

-----------------------------------------------------------------------------
(* Sizes and frames.                                                       *)

(* What the assumptions say of a reply.                                    *)
LEMMA Sizes ==
  /\ \A k \in Kinds : Size[k] \in Nat /\ 2 <= Size[k] /\ Size[k] <= Capacity
  /\ Capacity \in Nat /\ MaxWaiting \in Nat
  /\ "answer" \in Kinds /\ "float" \in Kinds /\ Reports \subseteq Kinds
BY ReplyAssumption, TelemetryAssumption

(* There is a longest reply.                                               *)
LEMMA Longest == MaxSize \in Nat /\ \A k \in Kinds : Size[k] <= MaxSize
<1> DEFINE All == {Size[k] : k \in Kinds}
           Room == {n \in Nat : \E k \in Kinds : n = Capacity - Size[k]}
<1>1. Room \in SUBSET Nat /\ Capacity - Size["answer"] \in Room
  BY Sizes
<1>2. PICK x \in Room : \A y \in Room : x <= y
  BY <1>1, LeastNumber
<1>3. PICK k \in Kinds : x = Capacity - Size[k]
  BY <1>2
<1>4. ASSUME NEW l \in Kinds PROVE Size[l] <= Size[k]
  <2>1. Capacity - Size[l] \in Room
    BY Sizes
  <2>2. Capacity - Size[k] <= Capacity - Size[l]
    BY <1>2, <1>3, <2>1
  <2> QED BY <2>2, Sizes
<1>5. \E n \in All : \A l \in Kinds : Size[l] <= n
  BY <1>4
<1>6. MaxSize \in All /\ \A l \in Kinds : Size[l] <= MaxSize
  BY <1>5 DEF MaxSize
<1> QED BY <1>6, Sizes

(* The bytes of a reply.                                                   *)
LEMMA FrameTyped ==
  ASSUME NEW k \in Kinds
  PROVE  /\ Frame(k) \in Seq(Byte) /\ Len(Frame(k)) = Size[k]
         /\ \A i \in 1 .. Size[k] : Frame(k)[i] = [kind |-> k, place |-> i]
<1>1. Size[k] \in Nat /\ Size[k] <= MaxSize /\ MaxSize \in Nat
  BY Sizes, Longest
<1>2. \A i \in 1 .. Size[k] : [kind |-> k, place |-> i] \in Byte
  BY <1>1 DEF Byte
<1> QED BY <1>1, <1>2 DEF Frame

-----------------------------------------------------------------------------
(* The steps of the link.                                                  *)

LinkMoves ==
  \/ UNCHANGED replyVars /\ heard' \in {heard, "none"}
  \/ usb_write_next_byte /\ heard' = "none"
  \/ \E k \in Kinds : usb_send_msg(k) /\ UNCHANGED hostVars /\ heard' = "none"
  \/ backgroundThread
  \/ Reopen

(* Whatever main's loop and the host do, the link makes one of these.      *)
LEMMA LinkSteps ==
  ASSUME [Next]_vars
  PROVE  LinkMoves
<1> USE DEF LinkMoves
<1>1. CASE UNCHANGED vars
  BY <1>1 DEF vars, replyVars
<1>2. CASE Message_Handling_Task /\ heard' = "none"
  <2>1. UNCHANGED hostVars /\ (UNCHANGED <<send, broken>> \/ usb_send_msg("answer"))
    BY <1>2, Zenon DEF Message_Handling_Task, Request, Subscribe, AnswerAtOnce, Command_restart,
                       NoCommand
  <2> QED BY <1>2, <2>1, Sizes DEF hostVars, replyVars
<1>3. ASSUME NEW f \in Reports, Handle(f), heard' = "none" PROVE LinkMoves
  <2>1. UNCHANGED hostVars
    BY <1>3, Zenon DEF Handle, Skip, Report, FirstHalf, SecondHalf, SendFloat, FloatPending, FloatSent,
                Proceed
  <2>2. UNCHANGED <<send, broken>> \/ usb_send_msg(f) \/ usb_send_msg("float")
    BY <1>3, Zenon DEF Handle, Skip, Report, FirstHalf, SecondHalf, SendFloat, FloatPending, FloatSent,
                Answered
  <2> QED BY <1>3, <2>1, <2>2, Sizes DEF hostVars, replyVars
<1>4. CASE (NotReady \/ Restart \/ BatteryTask) /\ heard' = "none"
  <2>1. UNCHANGED replyVars
    BY <1>4, Zenon DEF NotReady, Restart, BatteryTask
  <2> QED BY <1>4, <2>1
<1>5. CASE WriteByte /\ heard' = "none"
  BY <1>5, Zenon DEF WriteByte
<1>6. CASE Host \/ Open
  BY <1>6, Zenon DEF Host, Open
<1> QED BY <1>1, <1>2, <1>3, <1>4, <1>5, <1>6, Zenon DEF Next, Main

(* Bytes that are not told apart any more.                                 *)
LEMMA BlurredType ==
  ASSUME NEW n \in Nat
  PROVE  Blurred(n) \in Seq(Byte) /\ Len(Blurred(n)) = n
<1>1. Garbage \in Byte
  BY DEF Byte
<1> QED BY <1>1 DEF Blurred

(* A reply is pushed whole, or the buffer overflows.                       *)
LEMMA PushCases ==
  ASSUME ReplyTypeOK, NEW k \in Kinds, usb_send_msg(k)
  PROVE  \/ /\ ~broken /\ broken' = FALSE
            /\ Len(send) + Size[k] <= Capacity /\ send' = send \o Frame(k)
         \/ /\ broken' = TRUE
            /\ ~broken => Len(send) + Size[k] > Capacity
            /\ send' \in Seq(Byte) /\ Len(send') <= Capacity
<1> DEFINE n == Len(send) + Len(Frame(k))
           full == n > Capacity
<1>1. n \in Nat /\ n = Len(send) + Size[k] /\ Capacity \in Nat
  <2>1. send \in Seq(Byte) /\ Len(Frame(k)) = Size[k] /\ Size[k] \in Nat
    BY FrameTyped, Sizes DEF ReplyTypeOK
  <2> QED BY <2>1, Sizes
<1>2. /\ broken' = (broken \/ full)
      /\ send' = IF broken' THEN Blurred(IF n > Capacity THEN Capacity ELSE n)
                            ELSE send \o Frame(k)
  BY DEF usb_send_msg, Pushed
<1>3. ~full => n <= Capacity
  BY <1>1
<1>4. Blurred(IF n > Capacity THEN Capacity ELSE n) \in Seq(Byte)
      /\ Len(Blurred(IF n > Capacity THEN Capacity ELSE n)) <= Capacity
  <2>1. PICK m \in Nat : m = (IF n > Capacity THEN Capacity ELSE n) /\ m <= Capacity
    BY <1>1
  <2> QED BY <2>1, BlurredType
<1> HIDE DEF n, full
<1>5. CASE broken \/ full
  <2>1. broken' = TRUE
    BY <1>2, <1>5, Zenon
  <2>2. ~broken => Len(send) + Size[k] > Capacity
    BY <1>1, <1>5 DEF full
  <2> QED BY <1>2, <1>4, <2>1, <2>2
<1>6. CASE ~broken /\ ~full
  <2>1. broken' = FALSE
    BY <1>2, <1>6, Zenon
  <2> QED BY <1>1, <1>2, <1>3, <1>6, <2>1
<1> QED BY <1>5, <1>6

(* The bytes that are parsed as a reply are those of one.                  *)
LEMMA IntactBytes ==
  ASSUME ReplyTypeOK, Intact, Len(waiting) >= need
  PROVE  \E k \in Kinds : /\ need = Size[k] - 1
                          /\ \A j \in 1 .. need : waiting[j] = [kind |-> k, place |-> j + 1]
<1>1. PICK k \in Kinds : need = Size[k] - 1 /\ SubSeq(waiting, 1, need) = Tail(Frame(k))
  BY DEF Intact
<1>2. Size[k] \in Nat /\ 2 <= Size[k] /\ waiting \in Seq(Byte)
  BY Sizes DEF ReplyTypeOK
<1>3. PICK F \in Seq(Byte) : /\ F = Frame(k) /\ Len(F) = Size[k]
                             /\ \A i \in 1 .. Size[k] : F[i] = [kind |-> k, place |-> i]
  BY FrameTyped
<1>4. \A j \in 1 .. need : Tail(F)[j] = F[j + 1]
  BY <1>1, <1>2, <1>3
<1>5. \A j \in 1 .. need : SubSeq(waiting, 1, need)[j] = waiting[j]
  BY <1>1, <1>2
<1>6. \A j \in 1 .. need : j + 1 \in 1 .. Size[k]
  BY <1>1, <1>2
<1>7. ASSUME NEW j \in 1 .. need PROVE waiting[j] = [kind |-> k, place |-> j + 1]
  BY <1>1, <1>3, <1>4, <1>5, <1>6
<1> QED BY <1>1, <1>7

(* A part of a sequence of bytes.                                          *)
LEMMA Rest ==
  ASSUME NEW s \in Seq(Byte), NEW n \in 0 .. Len(s)
  PROVE  /\ SubSeq(s, n + 1, Len(s)) \in Seq(Byte)
         /\ Len(SubSeq(s, n + 1, Len(s))) = Len(s) - n
         /\ \A i \in 1 .. Len(s) - n : SubSeq(s, n + 1, Len(s))[i] = s[n + i]
OBVIOUS

(* Every step of the link keeps its buffers to bytes and in bounds.        *)
LEMMA ReplyTypes ==
  ASSUME ReplyTypeOK, LinkMoves
  PROVE  ReplyTypeOK'
<1>0. /\ send \in Seq(Byte) /\ Len(send) <= Capacity
      /\ waiting \in Seq(Byte) /\ Len(waiting) <= MaxWaiting
      /\ need \in Deaf .. MaxSize /\ openings \in 1 .. MaxOpenings
      /\ MaxSize \in Nat /\ Capacity \in Nat /\ MaxWaiting \in Nat
  BY Sizes, Longest DEF ReplyTypeOK
<1>1. CASE UNCHANGED replyVars /\ heard' \in {heard, "none"}
  BY <1>1 DEF replyVars, ReplyTypeOK
<1>2. CASE usb_write_next_byte /\ heard' = "none"
  <2>1. /\ send # << >> /\ Len(waiting) < MaxWaiting
        /\ waiting' = Append(waiting, Head(send)) /\ send' = Tail(send)
        /\ UNCHANGED <<broken, need, openings>>
    BY <1>2 DEF usb_write_next_byte
  <2>2. Head(send) \in Byte /\ Tail(send) \in Seq(Byte) /\ Len(Tail(send)) = Len(send) - 1
    BY <1>0, <2>1
  <2>3. waiting' \in Seq(Byte) /\ Len(waiting') = Len(waiting) + 1
    BY <1>0, <2>1, <2>2
  <2>4. Len(waiting') <= MaxWaiting /\ Len(send') <= Capacity
    BY <1>0, <2>1, <2>2, <2>3
  <2> QED BY <1>2, <2>1, <2>2, <2>3, <2>4 DEF ReplyTypeOK
<1>3. ASSUME NEW k \in Kinds, usb_send_msg(k), UNCHANGED hostVars, heard' = "none"
      PROVE  ReplyTypeOK'
  <2>1. send' \in Seq(Byte) /\ Len(send') <= Capacity /\ broken' \in BOOLEAN
    <3>1. CASE /\ broken' = FALSE /\ Len(send) + Size[k] <= Capacity
               /\ send' = send \o Frame(k)
      <4>1. Frame(k) \in Seq(Byte) /\ Len(Frame(k)) = Size[k] /\ Size[k] \in Nat
        BY FrameTyped, Sizes
      <4>2. PICK F \in Seq(Byte) : F = Frame(k) /\ Len(F) = Size[k]
        BY ONLY <4>1, Zenon
      <4>3. send \o F \in Seq(Byte) /\ Len(send \o F) <= Capacity
        BY <1>0, <3>1, <4>1, <4>2
      <4>4. broken' \in BOOLEAN
        BY <3>1, Zenon
      <4> QED BY <3>1, <4>2, <4>3, <4>4
    <3>2. CASE broken' = TRUE /\ send' \in Seq(Byte) /\ Len(send') <= Capacity
      <4>1. broken' \in BOOLEAN
        BY <3>2, Zenon
      <4> QED BY <3>2, <4>1
    <3> QED BY <1>3, <3>1, <3>2, PushCases
  <2> QED BY <1>3, <2>1 DEF hostVars, ReplyTypeOK
<1>4. CASE HostLength
  <2>1. /\ waiting # << >> /\ waiting' = Tail(waiting) /\ heard' = "none"
        /\ UNCHANGED <<send, broken, openings>>
        /\ need' \in IF Head(waiting).place = 1 THEN {Size[Head(waiting).kind] - 1}
                     ELSE {Deaf} \cup -1 .. MaxSize
    BY <1>4 DEF HostLength
  <2>2. Head(waiting) \in Byte /\ waiting' \in Seq(Byte) /\ Len(waiting') = Len(waiting) - 1
    BY <1>0, <2>1
  <2>3. need' \in Deaf .. MaxSize
    <3>1. CASE Head(waiting).place = 1
      <4>1. Head(waiting).kind \in Kinds
        BY <2>2, <3>1 DEF Byte, Garbage
      <4> QED BY <1>0, <2>1, <3>1, <4>1, Sizes, Longest DEF Deaf
    <3>2. CASE Head(waiting).place # 1
      BY <1>0, <2>1, <3>2 DEF Deaf
    <3> QED BY <3>1, <3>2
  <2>4. Len(waiting') <= MaxWaiting
    BY <1>0, <2>2
  <2> QED BY <2>1, <2>2, <2>3, <2>4 DEF ReplyTypeOK
<1>5. CASE HostZero
  BY <1>0, <1>5 DEF HostZero, ReplyTypeOK, Deaf
<1>6. CASE HostParse
  <2>1. /\ need > 0 /\ Len(waiting) >= need /\ Intact
        /\ heard' = Head(waiting).kind
        /\ waiting' = SubSeq(waiting, need + 1, Len(waiting))
        /\ need' = -1 /\ UNCHANGED <<send, broken, openings>>
    BY <1>6 DEF HostParse
  <2>2. PICK k \in Kinds : \A j \in 1 .. need : waiting[j] = [kind |-> k, place |-> j + 1]
    BY <2>1, IntactBytes
  <2>3. Head(waiting) = waiting[1] /\ 1 \in 1 .. need /\ need \in 0 .. Len(waiting)
    BY <1>0, <2>1 DEF Deaf
  <2>4. heard' \in Kinds
    <3>1. waiting[1] = [kind |-> k, place |-> 1 + 1]
      BY <2>2, <2>3
    <3> QED BY <2>1, <2>3, <3>1
  <2>5. waiting' \in Seq(Byte) /\ Len(waiting') <= MaxWaiting
    BY <1>0, <2>1, <2>3, Rest
  <2>6. need' \in Deaf .. MaxSize
    BY <1>0, <2>1 DEF Deaf
  <2> QED BY <2>1, <2>4, <2>5, <2>6 DEF ReplyTypeOK
<1>7. CASE HostGarbled
  <2>1. PICK n \in 1 .. need : waiting' = SubSeq(waiting, n + 1, Len(waiting))
    BY <1>7 DEF HostGarbled
  <2>2. /\ need > 0 /\ Len(waiting) >= need /\ heard' = "none" /\ need' \in -1 .. need - 1
        /\ UNCHANGED <<send, broken, openings>>
    BY <1>7 DEF HostGarbled
  <2>3. n \in 0 .. Len(waiting)
    BY <1>0, <2>2 DEF Deaf
  <2>4. waiting' \in Seq(Byte) /\ Len(waiting') <= MaxWaiting
    BY <1>0, <2>1, <2>3, Rest
  <2>5. need' \in Deaf .. MaxSize
    BY <1>0, <2>2 DEF Deaf
  <2> QED BY <2>2, <2>4, <2>5 DEF ReplyTypeOK
<1>8. CASE Reopen
  <2>1. PICK n \in 0 .. Len(waiting) :
          /\ broken' = (broken \/ (n > 0 /\ CutsReply(SubSeq(waiting, n + 1, Len(waiting)) \o send)))
          /\ waiting' = IF broken' THEN Blurred(Len(SubSeq(waiting, n + 1, Len(waiting))))
                        ELSE SubSeq(waiting, n + 1, Len(waiting))
          /\ send' = IF broken' THEN Blurred(Len(send)) ELSE send
          /\ need' \in {need} \cup (IF n > 0 THEN 0 .. need ELSE {})
    BY <1>8, Zenon DEF Reopen
  <2>2. openings < MaxOpenings /\ openings' = openings + 1 /\ heard' = "none"
    BY <1>8 DEF Reopen
  <2>3. openings' \in 1 .. MaxOpenings
    BY <1>0, <2>2, ReplyAssumption
  <2>4. broken' \in BOOLEAN
    BY <2>1, Zenon
  <2>5. PICK r \in Seq(Byte) : r = SubSeq(waiting, n + 1, Len(waiting)) /\ Len(r) <= Len(waiting)
    <3>1. SubSeq(waiting, n + 1, Len(waiting)) \in Seq(Byte)
          /\ Len(SubSeq(waiting, n + 1, Len(waiting))) <= Len(waiting)
      BY <1>0, Rest
    <3> QED BY ONLY <3>1, Zenon
  <2>6. Len(r) \in Nat /\ Len(send) \in Nat /\ Len(waiting) \in Nat
    BY <1>0, <2>5
  <2>7. waiting' = r \/ waiting' = Blurred(Len(r))
    BY <2>1, <2>5
  <2>8. waiting' \in Seq(Byte) /\ Len(waiting') = Len(r)
    BY <2>6, <2>7, BlurredType
  <2>9. Len(waiting') <= MaxWaiting
    BY <1>0, <2>5, <2>6, <2>8
  <2>10. send' \in Seq(Byte) /\ Len(send') <= Capacity
    BY <1>0, <2>1, <2>6, BlurredType
  <2>11. need' \in Deaf .. MaxSize
    BY <1>0, <2>1 DEF Deaf
  <2> QED BY <2>2, <2>3, <2>4, <2>8, <2>9, <2>10, <2>11 DEF ReplyTypeOK
<1> QED BY <1>1, <1>2, <1>3, <1>4, <1>5, <1>6, <1>7, <1>8 DEF backgroundThread, LinkMoves

-----------------------------------------------------------------------------
(* Whole replies.                                                          *)

(* A reply that is appended keeps the bytes a sequence of whole replies.   *)
LEMMA WholePush ==
  ASSUME NEW s \in Seq(Byte), Whole(s), NEW k \in Kinds
  PROVE  Whole(s \o Frame(k))
<1>0. Frame(k) \in Seq(Byte) /\ Len(Frame(k)) = Size[k] /\ Len(s) \in Nat
      /\ Size[k] \in Nat /\ 2 <= Size[k] /\ s \o Frame(k) \in Seq(Byte)
  BY FrameTyped, Sizes
<1>1. PICK F \in Seq(Byte), t \in Seq(Byte) : F = Frame(k) /\ t = s \o F
  BY ONLY <1>0, Zenon
<1>2. /\ Len(F) = Size[k] /\ Len(t) = Len(s) + Size[k]
      /\ \A i \in 1 .. Len(s) : t[i] = s[i]
      /\ \A i \in 1 .. Size[k] : t[Len(s) + i] = F[i]
  BY <1>0, <1>1
<1>3. \A i \in 1 .. Size[k] : F[i] = [kind |-> k, place |-> i]
  BY <1>1, FrameTyped
<1>4. ASSUME NEW i \in 1 .. Len(t)
      PROVE  /\ t[i].kind \in Kinds /\ t[i].place \in 1 .. Size[t[i].kind]
             /\ t[i].place < Size[t[i].kind] =>
                   i < Len(t) /\ t[i + 1] = [kind |-> t[i].kind, place |-> t[i].place + 1]
             /\ (t[i].place = Size[t[i].kind] /\ i < Len(t)) => t[i + 1].place = 1
  <2>1. CASE i <= Len(s)
    <3>1. i \in 1 .. Len(s) /\ t[i] = s[i]
      BY <1>0, <1>2, <2>1
    <3>2. /\ s[i].kind \in Kinds /\ s[i].place \in 1 .. Size[s[i].kind]
          /\ s[i].place < Size[s[i].kind] =>
                i < Len(s) /\ s[i + 1] = [kind |-> s[i].kind, place |-> s[i].place + 1]
          /\ (s[i].place = Size[s[i].kind] /\ i < Len(s)) => s[i + 1].place = 1
      BY <3>1 DEF Whole
    <3>3. CASE i < Len(s)
      <4>1. t[i + 1] = s[i + 1] /\ i < Len(t)
        <5>1. i + 1 \in 1 .. Len(s) /\ i < Len(s) + Size[k]
          BY <1>0, <3>1, <3>3
        <5> QED BY <1>2, <5>1
      <4> QED BY <3>1, <3>2, <3>3, <4>1
    <3>4. CASE i = Len(s)
      <4>1. Len(s) + 1 = i + 1 /\ 1 \in 1 .. Size[k]
        BY <1>0, <3>4
      <4>2. t[i + 1] = [kind |-> k, place |-> 1]
        BY <1>2, <1>3, <4>1
      <4>3. ~(i < Len(s))
        BY <1>0, <3>4
      <4> QED BY <3>1, <3>2, <4>2, <4>3
    <3> QED BY <1>0, <2>1, <3>3, <3>4
  <2>2. CASE i > Len(s)
    <3>1. PICK j \in 1 .. Size[k] : i = Len(s) + j
      <4>0. i \in 1 .. Len(s) + Size[k] /\ i > Len(s) /\ Len(s) \in Nat /\ Size[k] \in Nat
        BY <1>0, <1>2, <2>2
      <4>1. i - Len(s) \in 1 .. Size[k] /\ i = Len(s) + (i - Len(s))
        BY ONLY <4>0
      <4> QED BY <4>1
    <3>2. t[i] = [kind |-> k, place |-> j]
      BY <1>2, <1>3, <3>1
    <3>3. CASE j < Size[k]
      <4>1. j + 1 \in 1 .. Size[k] /\ i + 1 = Len(s) + (j + 1) /\ i < Len(t)
        BY <1>0, <1>2, <3>1, <3>3
      <4>2. t[i + 1] = [kind |-> k, place |-> j + 1]
        BY <1>2, <1>3, <4>1
      <4>3. j # Size[k]
        BY <1>0, <3>3
      <4> QED BY <3>2, <4>1, <4>2, <4>3
    <3>4. CASE j = Size[k]
      <4>1. ~(i < Len(t)) /\ ~(j < Size[k])
        BY <1>0, <1>2, <3>1, <3>4
      <4> QED BY <3>2, <4>1
    <3> QED BY <1>0, <3>3, <3>4
  <2> QED BY <1>0, <2>1, <2>2
<1>5. Whole(t)
  BY <1>4 DEF Whole
<1> QED BY <1>1, <1>5

(* What is left when bytes are taken away is still whole.                  *)
LEMMA WholeRest ==
  ASSUME NEW s \in Seq(Byte), Whole(s), NEW n \in 0 .. Len(s)
  PROVE  Whole(SubSeq(s, n + 1, Len(s)))
<1>0. SubSeq(s, n + 1, Len(s)) \in Seq(Byte) /\ Len(s) \in Nat
  BY Rest
<1>1. PICK t \in Seq(Byte) : t = SubSeq(s, n + 1, Len(s))
  BY ONLY <1>0, Zenon
<1>2. Len(t) = Len(s) - n /\ \A i \in 1 .. Len(s) - n : t[i] = s[n + i]
  BY <1>1, Rest
<1>3. ASSUME NEW i \in 1 .. Len(t)
      PROVE  /\ t[i].kind \in Kinds /\ t[i].place \in 1 .. Size[t[i].kind]
             /\ t[i].place < Size[t[i].kind] =>
                   i < Len(t) /\ t[i + 1] = [kind |-> t[i].kind, place |-> t[i].place + 1]
             /\ (t[i].place = Size[t[i].kind] /\ i < Len(t)) => t[i + 1].place = 1
  <2>1. PICK j \in 1 .. Len(s) : j = n + i /\ t[i] = s[j]
    BY <1>0, <1>2
  <2>2. i < Len(t) <=> j < Len(s)
    BY <1>0, <1>2, <2>1
  <2>3. i < Len(t) => t[i + 1] = s[j + 1]
    <3>1. i < Len(t) => i + 1 \in 1 .. Len(s) - n /\ n + (i + 1) = j + 1
      BY <1>0, <1>2, <2>1
    <3> QED BY <1>2, <3>1
  <2>4. /\ s[j].kind \in Kinds /\ s[j].place \in 1 .. Size[s[j].kind]
        /\ s[j].place < Size[s[j].kind] =>
              j < Len(s) /\ s[j + 1] = [kind |-> s[j].kind, place |-> s[j].place + 1]
        /\ (s[j].place = Size[s[j].kind] /\ j < Len(s)) => s[j + 1].place = 1
    BY DEF Whole
  <2> QED BY <2>1, <2>2, <2>3, <2>4
<1>4. Whole(t)
  BY <1>3 DEF Whole
<1> QED BY <1>1, <1>4

(* After the length of a reply come all its other bytes, and then another  *)
(* length.                                                                 *)
LEMMA WholeReply ==
  ASSUME NEW s \in Seq(Byte), Whole(s), s # << >>, s[1].place = 2, NEW n, n = Size[s[1].kind] - 1
  PROVE  \E k \in Kinds :
            /\ s[1].kind = k /\ n = Size[k] - 1 /\ n \in 1 .. Len(s)
            /\ \A j \in 1 .. n : s[j] = [kind |-> k, place |-> j + 1]
            /\ n < Len(s) => s[n + 1].place = 1
<1>0. Len(s) \in Nat /\ 1 \in 1 .. Len(s)
  OBVIOUS
<1>1. PICK k \in Kinds : s[1].kind = k
  BY <1>0 DEF Whole
<1>2. Size[k] \in Nat /\ 2 <= Size[k] /\ n = Size[k] - 1 /\ n \in Nat
  BY <1>1, Sizes
<1>3. PICK d \in Nat : n = d + 1
  <2>1. n - 1 \in Nat /\ n = (n - 1) + 1
    BY <1>2
  <2> QED BY <2>1
<1> DEFINE Right(j) == j \in 1 .. Len(s) /\ s[j] = [kind |-> k, place |-> j + 1]
           Good == {i \in Nat : Right(i + 1)}
<1>4. 0 \in Good
  <2>1. s[1] \in Byte
    BY <1>0
  <2>2. s[1] = [kind |-> k, place |-> 2]
    BY <2>1, <1>1, Sizes DEF Byte, Garbage
  <2> QED BY <1>0, <2>2
<1>5. ASSUME NEW i \in 0 .. d, i < d, i \in Good PROVE i + 1 \in Good
  <2>1. i + 1 \in 1 .. Len(s) /\ s[i + 1] = [kind |-> k, place |-> (i + 1) + 1]
    BY <1>5
  <2>2. PICK j \in 1 .. Len(s) : j = i + 1
    BY <2>1
  <2>3. s[j].kind = k /\ s[j].place = j + 1
    BY <2>1, <2>2
  <2>4. j + 1 < Size[k] /\ i + 1 \in Nat /\ (i + 1) + 1 = j + 1
    BY <1>2, <1>3, <1>5, <2>2
  <2>5. j < Len(s) /\ s[j + 1] = [kind |-> k, place |-> (j + 1) + 1]
    BY <2>3, <2>4 DEF Whole
  <2>6. j + 1 \in 1 .. Len(s)
    BY <1>0, <2>5
  <2> QED BY <2>4, <2>5, <2>6
<1>6. \A i \in 0 .. d : i \in Good
  <2> HIDE DEF Good
  <2> QED BY <1>4, <1>5, UpTo
<1>7. ASSUME NEW j \in 1 .. n PROVE Right(j)
  <2>1. j - 1 \in 0 .. d /\ (j - 1) + 1 = j
    BY <1>2, <1>3
  <2>2. j - 1 \in Good
    BY <1>6, <2>1
  <2> QED BY <2>1, <2>2
<1>8. n \in 1 .. n
  BY <1>2, <1>3
<1>9. n \in 1 .. Len(s) /\ s[n] = [kind |-> k, place |-> n + 1]
  BY <1>7, <1>8
<1>10. n + 1 = Size[k]
  BY <1>2
<1>11. n < Len(s) => s[n + 1].place = 1
  <2>1. s[n].kind = k /\ s[n].place = Size[k]
    BY <1>9, <1>10
  <2> QED BY <1>9, <2>1 DEF Whole
<1> QED BY <1>1, <1>2, <1>7, <1>9, <1>11

-----------------------------------------------------------------------------
(* What the steps of the link make of the bytes under way.                 *)

(* Bytes taken by the host are taken from the front of all the bytes.      *)
LEMMA BytesTaken ==
  ASSUME NEW w \in Seq(Byte), NEW s \in Seq(Byte), NEW n \in 0 .. Len(w)
  PROVE  /\ w \o s \in Seq(Byte) /\ n \in 0 .. Len(w \o s)
         /\ SubSeq(w, n + 1, Len(w)) \o s = SubSeq(w \o s, n + 1, Len(w \o s))
<1>0. /\ Len(w) \in Nat /\ Len(s) \in Nat /\ w \o s \in Seq(Byte)
      /\ SubSeq(w, n + 1, Len(w)) \in Seq(Byte)
  BY Rest
<1>1. PICK t \in Seq(Byte), r \in Seq(Byte) : t = w \o s /\ r = SubSeq(w, n + 1, Len(w))
  BY ONLY <1>0, Zenon
<1>2. /\ Len(t) = Len(w) + Len(s)
      /\ \A i \in 1 .. Len(w) : t[i] = w[i]
      /\ \A i \in 1 .. Len(s) : t[Len(w) + i] = s[i]
  BY <1>0, <1>1
<1>3. Len(r) = Len(w) - n /\ \A i \in 1 .. Len(w) - n : r[i] = w[n + i]
  BY <1>1, Rest
<1>4. n \in 0 .. Len(t)
  BY <1>0, <1>2
<1>5. SubSeq(t, n + 1, Len(t)) \in Seq(Byte) /\ r \o s \in Seq(Byte)
  BY <1>4, Rest
<1>6. PICK x \in Seq(Byte), y \in Seq(Byte) : x = SubSeq(t, n + 1, Len(t)) /\ y = r \o s
  BY ONLY <1>5, Zenon
<1>7. Len(x) = Len(t) - n /\ \A i \in 1 .. Len(t) - n : x[i] = t[n + i]
  BY <1>4, <1>6, Rest
<1>8. /\ Len(y) = Len(r) + Len(s)
      /\ \A i \in 1 .. Len(r) : y[i] = r[i]
      /\ \A i \in 1 .. Len(s) : y[Len(r) + i] = s[i]
  BY <1>6
<1>9. Len(x) = Len(y)
  BY <1>0, <1>2, <1>3, <1>7, <1>8
<1>10. ASSUME NEW i \in 1 .. Len(y) PROVE x[i] = y[i]
  <2>0. x[i] = t[n + i]
    BY <1>0, <1>7, <1>9
  <2>1. CASE i <= Len(r)
    <3>1. i \in 1 .. Len(r) /\ i \in 1 .. Len(w) - n /\ n + i \in 1 .. Len(w)
      BY <1>0, <1>3, <2>1
    <3> QED BY <1>2, <1>3, <1>8, <2>0, <3>1
  <2>2. CASE i > Len(r)
    <3>1. PICK j \in 1 .. Len(s) : i = Len(r) + j
      <4>1. i - Len(r) \in 1 .. Len(s) /\ i = Len(r) + (i - Len(r))
        BY <1>0, <1>3, <1>8, <2>2
      <4> QED BY <4>1
    <3>2. n + i = Len(w) + j
      BY <1>0, <1>3, <3>1
    <3> QED BY <1>2, <1>8, <2>0, <3>1, <3>2
  <2> QED BY <1>0, <1>3, <2>1, <2>2
<1>11. x = y
  BY <1>9, <1>10, SeqEqual
<1> QED BY <1>1, <1>4, <1>6, <1>11

(* A byte that goes from one buffer to the other stays where it is among   *)
(* all the bytes.                                                          *)
LEMMA BytesMoved ==
  ASSUME NEW w \in Seq(Byte), NEW s \in Seq(Byte), s # << >>
  PROVE  Append(w, Head(s)) \o Tail(s) = w \o s
<1>0. /\ Head(s) \in Byte /\ <<Head(s)>> \in Seq(Byte) /\ Tail(s) \in Seq(Byte)
      /\ s = <<Head(s)>> \o Tail(s)
  OBVIOUS
<1>1. Append(w, Head(s)) = w \o <<Head(s)>>
  BY <1>0, AppendIsConcat
<1>2. (w \o <<Head(s)>>) \o Tail(s) = w \o (<<Head(s)>> \o Tail(s))
  BY <1>0, ConcatAssociative, SMTT(30)
<1> QED BY <1>0, <1>1, <1>2

(* The steps of the link, in terms of all the bytes under way.             *)
Rests == ~broken /\ heard' \in {heard, "none"} /\ UNCHANGED <<Bytes, need, broken, openings>>

Enqueues(k) ==
  ~broken /\ Bytes' = Bytes \o Frame(k) /\ heard' = "none" /\ UNCHANGED <<need, broken, openings>>

Overflows(k) ==
  /\ ~broken /\ broken' = TRUE /\ Len(send) + Size[k] > Capacity
  /\ heard' = "none" /\ UNCHANGED openings

Measures ==
  /\ ~broken /\ Bytes # << >> /\ need = -1 /\ Bytes[1].place = 1
  /\ need' = Size[Bytes[1].kind] - 1 /\ heard' = "none"
  /\ Bytes' = SubSeq(Bytes, 1 + 1, Len(Bytes)) /\ UNCHANGED <<broken, openings>>

Hears(k) ==
  /\ ~broken /\ need = Size[k] - 1 /\ need \in 1 .. Len(Bytes)
  /\ \A j \in 1 .. need : Bytes[j] = [kind |-> k, place |-> j + 1]
  /\ need < Len(Bytes) => Bytes[need + 1].place = 1
  /\ need' = -1 /\ heard' = k
  /\ Bytes' = SubSeq(Bytes, need + 1, Len(Bytes)) /\ UNCHANGED <<broken, openings>>

Resumes(n) ==
  /\ ~broken /\ heard' = "none" /\ openings' = openings + 1
  /\ n > 0 => need = -1 /\ (n < Len(Bytes) => Bytes[n + 1].place = 1)
  /\ Bytes' = SubSeq(Bytes, n + 1, Len(Bytes)) /\ UNCHANGED <<need, broken>>

Breaks == ~broken /\ broken' = TRUE /\ Bytes # << >> /\ heard' = "none" /\ openings' = openings + 1

Falters ==
  /\ broken = TRUE /\ broken' = TRUE
  /\ heard' \in Kinds \cup {"none"} /\ openings' \in {openings, openings + 1}

(* Opening the port loses whole replies or breaks the link.               *)
LEMMA OpeningEffects ==
  ASSUME ReplyTypeOK, ~broken, Reopen
  PROVE  Breaks \/ \E n \in 0 .. Len(Bytes) : Resumes(n)
<1>0. send \in Seq(Byte) /\ waiting \in Seq(Byte) /\ Bytes \in Seq(Byte)
  BY DEF ReplyTypeOK, Bytes
<1>1. PICK n \in 0 .. Len(waiting) :
        /\ broken' = (broken \/ (n > 0 /\ CutsReply(SubSeq(waiting, n + 1, Len(waiting)) \o send)))
        /\ waiting' = IF broken' THEN Blurred(Len(SubSeq(waiting, n + 1, Len(waiting))))
                      ELSE SubSeq(waiting, n + 1, Len(waiting))
        /\ send' = IF broken' THEN Blurred(Len(send)) ELSE send
        /\ need' \in {need} \cup (IF n > 0 THEN 0 .. need ELSE {})
  BY Zenon DEF Reopen
<1>2. openings' = openings + 1 /\ heard' = "none"
  BY DEF Reopen
<1>3. /\ n \in 0 .. Len(Bytes)
      /\ SubSeq(waiting, n + 1, Len(waiting)) \o send = SubSeq(Bytes, n + 1, Len(Bytes))
  BY <1>0, BytesTaken DEF Bytes
<1>4. CASE n > 0 /\ CutsReply(SubSeq(Bytes, n + 1, Len(Bytes)))
  <2>1. broken' = TRUE
    BY <1>1, <1>3, <1>4, Zenon
  <2>2. Bytes # << >>
    BY <1>0, <1>3, <1>4
  <2> QED BY <1>2, <2>1, <2>2 DEF Breaks
<1>5. CASE ~(n > 0 /\ CutsReply(SubSeq(Bytes, n + 1, Len(Bytes))))
  <2>1. ~broken' /\ broken' = broken
    <3>1. broken \in BOOLEAN /\ ~broken
      BY Zenon DEF ReplyTypeOK
    <3>2. broken = FALSE
      BY <3>1, Zenon
    <3>3. broken' = FALSE
      BY <1>1, <1>3, <1>5, <3>2, Zenon
    <3> QED BY <3>2, <3>3, Zenon
  <2>2. Bytes' = SubSeq(Bytes, n + 1, Len(Bytes))
    BY <1>1, <1>3, <2>1 DEF Bytes
  <2>3. n > 0 => need = -1 /\ (n < Len(Bytes) => Bytes[n + 1].place = 1)
    <3> SUFFICES ASSUME n > 0
                 PROVE  need = -1 /\ (n < Len(Bytes) => Bytes[n + 1].place = 1)
      OBVIOUS
    <3>1. /\ SubSeq(Bytes, n + 1, Len(Bytes)) \in Seq(Byte)
          /\ Len(SubSeq(Bytes, n + 1, Len(Bytes))) = Len(Bytes) - n
          /\ \A i \in 1 .. Len(Bytes) - n : SubSeq(Bytes, n + 1, Len(Bytes))[i] = Bytes[n + i]
      BY <1>0, <1>3, Rest
    <3>2. PICK r \in Seq(Byte) : r = SubSeq(Bytes, n + 1, Len(Bytes))
      BY <3>1
    <3>3. need = -1 /\ (r # << >> => Head(r).place = 1)
      BY <1>5, <3>2 DEF CutsReply
    <3>4. n < Len(Bytes) => r # << >> /\ Head(r) = Bytes[n + 1]
      <4>1. n < Len(Bytes) => 1 \in 1 .. Len(Bytes) - n /\ Len(Bytes) - n # 0
        BY <1>0, <1>3
      <4>2. Len(r) = Len(Bytes) - n /\ \A i \in 1 .. Len(Bytes) - n : r[i] = Bytes[n + i]
        BY <3>1, <3>2
      <4>3. r # << >> => Head(r) = r[1]
        OBVIOUS
      <4> QED BY <4>1, <4>2, <4>3
    <3> QED BY <3>3, <3>4
  <2>4. need' = need
    BY <1>1, <2>3
  <2> QED BY <1>2, <1>3, <2>1, <2>2, <2>3, <2>4 DEF Resumes
<1> QED BY <1>4, <1>5

(* As long as the link is not broken, the host reads lengths and replies   *)
(* and nothing else, and opening the port anew leaves it in step.          *)
LEMMA LinkEffects ==
  ASSUME ReplyTypeOK, ReplyTypeOK', LinkInv, [Next]_vars
  PROVE  \/ Rests \/ Measures \/ Falters \/ Breaks
         \/ \E k \in Kinds : Enqueues(k) \/ Overflows(k) \/ Hears(k)
         \/ \E n \in 0 .. Len(Bytes) : Resumes(n)
<1>0. /\ send \in Seq(Byte) /\ waiting \in Seq(Byte) /\ Bytes \in Seq(Byte)
      /\ need \in Int /\ heard' \in Kinds \cup {"none"}
  BY Longest DEF ReplyTypeOK, Bytes, Deaf
<1>o. openings' \in {openings, openings + 1}
  <2>1. ASSUME NEW k \in Kinds, UNCHANGED hostVars PROVE openings' = openings
    BY <2>1 DEF hostVars
  <2> QED BY <2>1, LinkSteps, Zenon
             DEF LinkMoves, replyVars, usb_write_next_byte, backgroundThread, HostLength, HostZero,
                 HostParse, HostGarbled, Reopen
<1>b. /\ broken \in BOOLEAN /\ broken' \in BOOLEAN
  BY Zenon DEF ReplyTypeOK
<1>l. /\ Len(Bytes) = Len(waiting) + Len(send) /\ Len(waiting) \in Nat /\ Len(send) \in Nat
      /\ \A i \in 1 .. Len(waiting) : Bytes[i] = waiting[i]
  BY <1>0 DEF Bytes
<1>1. CASE broken /\ broken'
  <2>1. broken = TRUE /\ broken' = TRUE
    BY <1>1, <1>b, Zenon
  <2> QED BY <2>1, <1>0, <1>o DEF Falters
<1>2. CASE ~broken /\ UNCHANGED replyVars /\ heard' \in {heard, "none"}
  BY <1>2 DEF Rests, replyVars, Bytes
<1>3. CASE ~broken /\ usb_write_next_byte /\ heard' = "none"
  <2>1. Append(waiting, Head(send)) \o Tail(send) = waiting \o send
    BY <1>0, <1>3, BytesMoved DEF usb_write_next_byte
  <2> QED BY <1>3, <2>1 DEF usb_write_next_byte, Bytes, Rests
<1>4. ASSUME NEW k \in Kinds, ~broken, usb_send_msg(k), UNCHANGED hostVars, heard' = "none"
      PROVE  Enqueues(k) \/ Overflows(k)
  <2>1. CASE broken' = FALSE /\ send' = send \o Frame(k)
    <3>1. PICK F \in Seq(Byte) : F = Frame(k)
      BY FrameTyped
    <3>a. waiting \o (send \o F) = (waiting \o send) \o F
      BY <1>0, ConcatAssociative, SMTT(30)
    <3>2. waiting \o (send \o Frame(k)) = (waiting \o send) \o Frame(k)
      BY <3>1, <3>a
    <3>3. broken' = broken
      BY <1>4, <1>b, <2>1, Zenon
    <3> QED BY <1>4, <2>1, <3>2, <3>3 DEF Enqueues, hostVars, Bytes
  <2>2. CASE broken' = TRUE /\ Len(send) + Size[k] > Capacity
    BY <1>4, <2>2 DEF Overflows, hostVars
  <2> QED BY <1>4, <2>1, <2>2, PushCases
<1>5. CASE ~broken /\ backgroundThread
  <2>0. Whole(Bytes) /\ Expected(Bytes)
    BY <1>5 DEF LinkInv
  <2>1. CASE HostLength
    <3>1. /\ need = -1 /\ waiting # << >> /\ waiting' = Tail(waiting) /\ heard' = "none"
          /\ UNCHANGED <<send, broken, openings>>
          /\ need' \in IF Head(waiting).place = 1 THEN {Size[Head(waiting).kind] - 1}
                       ELSE {Deaf} \cup -1 .. MaxSize
      BY <2>1 DEF HostLength
    <3>2. 1 \in 0 .. Len(waiting) /\ 1 \in 1 .. Len(waiting) /\ Bytes # << >>
      BY <1>0, <1>l, <3>1
    <3>3. Head(waiting) = Bytes[1] /\ Tail(waiting) = SubSeq(waiting, 1 + 1, Len(waiting))
      BY <1>0, <1>l, <3>1, <3>2
    <3>4. Bytes[1].place = 1
      BY <2>0, <3>1, <3>2 DEF Expected
    <3>5. Bytes' = SubSeq(Bytes, 1 + 1, Len(Bytes))
      BY <1>0, <3>1, <3>2, <3>3, BytesTaken DEF Bytes
    <3>6. need' = Size[Bytes[1].kind] - 1
      BY <3>1, <3>3, <3>4
    <3> QED BY <1>5, <3>1, <3>2, <3>4, <3>5, <3>6 DEF Measures
  <2>2. CASE ~HostLength
    <3>1. need # -1 /\ UNCHANGED <<send, broken, openings>>
      BY <1>5, <2>2 DEF backgroundThread, HostZero, HostParse, HostGarbled
    <3>2. Bytes # << >> /\ Bytes[1].place = 2 /\ need = Size[Bytes[1].kind] - 1
      BY <2>0, <3>1 DEF Expected
    <3>3. PICK k \in Kinds :
            /\ Bytes[1].kind = k /\ need = Size[k] - 1 /\ need \in 1 .. Len(Bytes)
            /\ \A j \in 1 .. need : Bytes[j] = [kind |-> k, place |-> j + 1]
            /\ need < Len(Bytes) => Bytes[need + 1].place = 1
      BY <1>0, <2>0, <3>2, WholeReply
    <3>4. ~HostZero
      BY <3>3 DEF HostZero
    <3>5. Len(waiting) >= need
      BY <1>5, <2>2, <3>4 DEF backgroundThread, HostParse, HostGarbled
    <3>6. need \in 0 .. Len(waiting) /\ 1 \in 1 .. need
      BY <1>0, <1>l, <3>3, <3>5
    <3>7. \A j \in 1 .. need : waiting[j] = [kind |-> k, place |-> j + 1]
      BY <1>0, <1>l, <3>3, <3>5
    <3>8. Intact
      <4>0. PICK F \in Seq(Byte) : /\ F = Frame(k) /\ Len(F) = Size[k]
                                   /\ \A i \in 1 .. Size[k] : F[i] = [kind |-> k, place |-> i]
        BY FrameTyped
      <4>1. Size[k] \in Nat /\ 2 <= Size[k]
        BY Sizes
      <4>2. /\ Tail(F) \in Seq(Byte) /\ Len(Tail(F)) = need
            /\ \A j \in 1 .. need : Tail(F)[j] = F[j + 1]
        BY <3>3, <4>0, <4>1
      <4>3. /\ SubSeq(waiting, 1, need) \in Seq(Byte) /\ Len(SubSeq(waiting, 1, need)) = need
            /\ \A j \in 1 .. need : SubSeq(waiting, 1, need)[j] = waiting[j]
        BY <1>0, <3>6
      <4>4. PICK x \in Seq(Byte), y \in Seq(Byte) : x = Tail(F) /\ y = SubSeq(waiting, 1, need)
        BY ONLY <4>2, <4>3, Zenon
      <4>5. \A j \in 1 .. need : j + 1 \in 1 .. Size[k]
        BY <3>3, <4>1
      <4>6. ASSUME NEW j \in 1 .. need PROVE x[j] = y[j]
        <5>1. y[j] = waiting[j] /\ waiting[j] = [kind |-> k, place |-> j + 1]
          BY <3>7, <4>3, <4>4
        <5>2. x[j] = F[j + 1] /\ j + 1 \in 1 .. Size[k]
          BY <4>2, <4>4, <4>5
        <5>3. F[j + 1] = [kind |-> k, place |-> j + 1]
          BY <4>0, <5>2
        <5> QED BY <5>1, <5>2, <5>3
      <4>7. x = y
        BY <4>2, <4>3, <4>4, <4>6, SeqEqual
      <4> QED BY <3>3, <4>0, <4>4, <4>7 DEF Intact
    <3>9. HostParse
      BY <1>5, <2>2, <3>4, <3>8 DEF backgroundThread, HostGarbled
    <3>10. /\ heard' = Head(waiting).kind /\ need' = -1
           /\ waiting' = SubSeq(waiting, need + 1, Len(waiting))
      BY <3>9 DEF HostParse
    <3>11. heard' = k
      <4>1. Head(waiting) = waiting[1] /\ waiting[1] = [kind |-> k, place |-> 1 + 1]
        BY <1>0, <3>6, <3>7
      <4> QED BY <3>10, <4>1
    <3>12. Bytes' = SubSeq(Bytes, need + 1, Len(Bytes))
      BY <1>0, <3>1, <3>6, <3>10, BytesTaken DEF Bytes
    <3> QED BY <1>5, <3>1, <3>3, <3>10, <3>11, <3>12 DEF Hears
  <2> QED BY <2>1, <2>2
<1>6. broken => broken'
  <2>1. ASSUME NEW k \in Kinds, broken, usb_send_msg(k) PROVE broken'
    BY <2>1, Zenon DEF usb_send_msg, Pushed
  <2>2. CASE UNCHANGED broken
    BY <2>2
  <2> QED BY <2>1, <2>2, LinkSteps, Zenon
             DEF LinkMoves, replyVars, usb_write_next_byte, backgroundThread, HostLength, HostZero,
                 HostParse, HostGarbled, Reopen
<1>7. CASE ~broken /\ Reopen
  BY <1>7, OpeningEffects
<1> QED BY <1>1, <1>2, <1>3, <1>4, <1>5, <1>6, <1>7, LinkSteps DEF LinkMoves

(* The bytes under way stay whole replies, and the host where it thinks.   *)
LEMMA LinkKept ==
  ASSUME ReplyTypeOK, ReplyTypeOK', LinkInv, [Next]_vars
  PROVE  LinkInv'
<1>0. Bytes \in Seq(Byte)
  BY DEF ReplyTypeOK, Bytes
<1>i. ~broken => Whole(Bytes) /\ Expected(Bytes)
  BY DEF LinkInv
<1>1. CASE Rests
  BY <1>1, <1>i DEF Rests, LinkInv, Expected
<1>2. CASE Measures
  <2>1. PICK t \in Seq(Byte) : t = SubSeq(Bytes, 1 + 1, Len(Bytes)) /\ Whole(t)
    <3>1. 1 \in 0 .. Len(Bytes)
      BY <1>0, <1>2 DEF Measures
    <3>2. SubSeq(Bytes, 1 + 1, Len(Bytes)) \in Seq(Byte) /\ Whole(SubSeq(Bytes, 1 + 1, Len(Bytes)))
      BY <1>0, <1>2, <1>i, <3>1, Rest, WholeRest DEF Measures
    <3> QED BY ONLY <3>2, Zenon
  <2>2. PICK k \in Kinds : Bytes[1].kind = k /\ 1 \in 1 .. Len(Bytes)
    <3>1. 1 \in 1 .. Len(Bytes) /\ Whole(Bytes)
      BY <1>0, <1>2, <1>i DEF Measures
    <3> QED BY <3>1 DEF Whole
  <2>3. Bytes[1].place < Size[k] /\ Size[k] - 1 # -1
    BY <1>2, Sizes DEF Measures
  <2>4. 1 < Len(Bytes) /\ Bytes[1 + 1] = [kind |-> k, place |-> 1 + 1]
    BY <1>2, <1>i, <2>2, <2>3 DEF Whole, Measures
  <2>5. t # << >> /\ t[1] = Bytes[1 + 1]
    <3>1. 1 \in 0 .. Len(Bytes) /\ 1 \in 1 .. Len(Bytes) - 1 /\ Len(Bytes) - 1 # 0
      BY <1>0, <2>4
    <3>2. Len(t) = Len(Bytes) - 1 /\ t[1] = Bytes[1 + 1]
      BY <1>0, <2>1, <3>1, Rest
    <3> QED BY <3>1, <3>2
  <2>6. need' = Size[k] - 1 /\ Bytes' = t
    BY <1>2, <2>1, <2>2 DEF Measures
  <2>7. t[1].kind = k /\ t[1].place = 2
    BY <2>4, <2>5
  <2>8. Expected(t)'
    BY <2>3, <2>5, <2>6, <2>7 DEF Expected
  <2>9. Whole(Bytes)' /\ Expected(Bytes)'
    BY <2>1, <2>6, <2>8 DEF Expected, Whole
  <2> QED BY <2>9 DEF LinkInv
<1>3. ASSUME NEW k \in Kinds, Enqueues(k) PROVE LinkInv'
  <2>0. ~broken /\ Bytes' = Bytes \o Frame(k) /\ UNCHANGED <<need, broken>>
    BY <1>3 DEF Enqueues
  <2>1. Whole(Bytes \o Frame(k))
    BY <1>0, <1>i, <2>0, WholePush
  <2>f. /\ Frame(k) \in Seq(Byte) /\ Bytes \o Frame(k) \in Seq(Byte) /\ Len(Frame(k)) = Size[k]
        /\ Size[k] \in Nat /\ 2 <= Size[k]
    BY <1>0, FrameTyped, Sizes
  <2>2. PICK F \in Seq(Byte), t \in Seq(Byte) : F = Frame(k) /\ t = Bytes \o F
    BY ONLY <2>f, Zenon
  <2>3. t # << >> /\ t[1] = IF Bytes = << >> THEN F[1] ELSE Bytes[1]
    BY <1>0, <2>f, <2>2
  <2>4. F[1].place = 1
    <3>1. F[1] = [kind |-> k, place |-> 1]
      <4>1. 1 \in 1 .. Size[k]
        BY <2>f
      <4> QED BY <2>2, <4>1, FrameTyped
    <3> QED BY <3>1
  <2>5. Expected(t)
    BY <1>i, <2>0, <2>3, <2>4 DEF Expected
  <2>6. Whole(Bytes)' /\ Expected(Bytes)'
    BY <2>0, <2>1, <2>2, <2>5 DEF Whole, Expected
  <2> QED BY <2>6 DEF LinkInv
<1>4. ASSUME NEW k \in Kinds, Hears(k) PROVE LinkInv'
  <2>0. /\ ~broken /\ need \in 1 .. Len(Bytes) /\ need' = -1
        /\ need < Len(Bytes) => Bytes[need + 1].place = 1
        /\ Bytes' = SubSeq(Bytes, need + 1, Len(Bytes))
    BY <1>4 DEF Hears
  <2>1. need \in 0 .. Len(Bytes) /\ Len(Bytes) \in Nat
    BY <1>0, <2>0
  <2>2. SubSeq(Bytes, need + 1, Len(Bytes)) \in Seq(Byte) /\ Whole(SubSeq(Bytes, need + 1, Len(Bytes)))
    BY <1>0, <1>i, <2>0, <2>1, Rest, WholeRest
  <2>3. PICK t \in Seq(Byte) : t = SubSeq(Bytes, need + 1, Len(Bytes)) /\ Whole(t)
    BY ONLY <2>2, Zenon
  <2>4. Len(t) = Len(Bytes) - need /\ \A i \in 1 .. Len(Bytes) - need : t[i] = Bytes[need + i]
    BY <1>0, <2>1, <2>3, Rest
  <2>5. t # << >> => t[1].place = 1
    <3>1. t # << >> => need < Len(Bytes) /\ 1 \in 1 .. Len(Bytes) - need
      BY <2>1, <2>4
    <3> QED BY <2>0, <2>4, <3>1
  <2>6. Whole(Bytes)' /\ Expected(Bytes)'
    BY <2>0, <2>3, <2>5 DEF Whole, Expected
  <2> QED BY <2>6 DEF LinkInv
<1>5. CASE broken' = TRUE
  BY <1>5 DEF LinkInv
<1>6. ASSUME NEW n \in 0 .. Len(Bytes), Resumes(n) PROVE LinkInv'
  <2>0. /\ ~broken /\ need' = need
        /\ n > 0 => need = -1 /\ (n < Len(Bytes) => Bytes[n + 1].place = 1)
        /\ Bytes' = SubSeq(Bytes, n + 1, Len(Bytes))
    BY <1>6 DEF Resumes
  <2>1. SubSeq(Bytes, n + 1, Len(Bytes)) \in Seq(Byte) /\ Whole(SubSeq(Bytes, n + 1, Len(Bytes)))
    BY <1>0, <1>i, <2>0, Rest, WholeRest
  <2>2. PICK t \in Seq(Byte) : t = SubSeq(Bytes, n + 1, Len(Bytes)) /\ Whole(t)
    BY ONLY <2>1, Zenon
  <2>3. Len(t) = Len(Bytes) - n /\ \A i \in 1 .. Len(Bytes) - n : t[i] = Bytes[n + i]
    BY <1>0, <2>2, Rest
  <2>4. CASE n = 0
    <3>1. t = Bytes
      BY <1>0, <2>2, <2>4
    <3>2. Whole(Bytes)' /\ Expected(Bytes)'
      BY <1>i, <2>0, <2>2, <3>1 DEF Whole, Expected
    <3> QED BY <3>2 DEF LinkInv
  <2>5. CASE n > 0
    <3>1. t # << >> => n < Len(Bytes) /\ 1 \in 1 .. Len(Bytes) - n
      BY <1>0, <2>3
    <3>2. t # << >> => t[1].place = 1
      BY <2>0, <2>3, <2>5, <3>1
    <3>3. Whole(Bytes)' /\ Expected(Bytes)'
      BY <2>0, <2>2, <2>5, <3>2 DEF Whole, Expected
    <3> QED BY <3>3 DEF LinkInv
  <2> QED BY <2>4, <2>5
<1> QED BY <1>1, <1>2, <1>3, <1>4, <1>5, <1>6, LinkEffects DEF Falters, Overflows, Breaks

-----------------------------------------------------------------------------
(* The flags and the halves.                                               *)

(* Only reports that take several iterations stay due, and only the halves *)
(* of one can be taken apart.                                              *)
FlagInv == due \subseteq InTwoHalves \cup {"time_float_send"} /\ disturbed \subseteq InTwoHalves

(* After every handler comes another one or the next iteration.            *)
LEMMA FollowingHandler ==
  ASSUME NEW i \in 0 .. Len(Order)
  PROVE  \/ Later(i) = {} /\ Following[i] = "upkeep"
         \/ \E j \in Later(i) : Following[i] = Order[j] /\ \A l \in Later(i) : j <= l
<1>1. CASE Later(i) # {}
  <2>1. Later(i) \in SUBSET Nat
    BY DEF Later, Order
  <2>2. \E j \in Later(i) : \A l \in Later(i) : j <= l
    BY <1>1, <2>1, LeastNumber
  <2> QED BY <1>1, <2>2 DEF Following
<1> QED BY <1>1 DEF Following

(* The loop goes on to a report or to the next iteration.                  *)
LEMMA FollowingType ==
  ASSUME NEW i \in 0 .. Len(Order)
  PROVE  Following[i] \in Reports \cup {"upkeep"}
BY FollowingHandler DEF Later

(* The flags and the halves keep to the reports.                           *)
FlagTypeOK ==
  /\ pc \in Reports \cup {"upkeep", "msg", "restart", "battery"}
  /\ active \subseteq Reports /\ due \subseteq periodic /\ periodic \subseteq Reports
  /\ tripped \subseteq Reports /\ disturbed \subseteq tripped
  /\ gap \in [InTwoHalves \cap Reports -> 0 .. 2]

(* Every step keeps them so.                                               *)
LEMMA FlagTypes ==
  ASSUME FlagTypeOK, FlagInv, [Next]_vars
  PROVE  FlagTypeOK' /\ FlagInv'
<1> USE DEF FlagTypeOK, FlagInv
<1>1. CASE UNCHANGED vars
  BY <1>1 DEF vars
<1>2. CASE NotReady \/ WriteByte
  BY <1>2 DEF NotReady, WriteByte, flagVars, halfVars
<1>3. CASE Message_Handling_Task
  <2>0. pc' \in {"battery", "restart"}
    BY <1>3 DEF Message_Handling_Task, Command_restart
  <2>1. ASSUME NEW f \in Asked, Request(f) PROVE FlagTypeOK' /\ FlagInv'
    BY <2>0, <2>1 DEF Request, Asked, halfVars
  <2>2. ASSUME NEW f \in Asked, Subscribe(f) PROVE FlagTypeOK' /\ FlagInv'
    BY <2>0, <2>2 DEF Subscribe, Disturb, Asked
  <2>3. CASE UNCHANGED <<flagVars, halfVars>>
    BY <2>0, <2>3 DEF flagVars, halfVars
  <2> QED BY <1>3, <2>1, <2>2, <2>3, Zenon
             DEF Message_Handling_Task, AnswerAtOnce, NoCommand, Command_restart
<1>4. CASE Restart
  BY <1>4 DEF Restart
<1>5. CASE BatteryTask
  <2>1. pc' \in Reports \cup {"upkeep"}
    <3>1. 0 \in 0 .. Len(Order)
      BY DEF Order
    <3> QED BY <1>5, <3>1, FollowingType DEF BatteryTask
  <2> QED BY <1>5, <2>1 DEF BatteryTask, flagVars, halfVars, InTwoHalves
<1>6. ASSUME NEW f \in Reports, Handle(f) PROVE FlagTypeOK' /\ FlagInv'
  <2>0. Proceed(f)
    BY <1>6 DEF Handle, Skip, Report, FirstHalf, SecondHalf, SendFloat, FloatPending, FloatSent
  <2>1. pc' \in Reports \cup {"upkeep"}
    <3>1. PICK i \in DOMAIN Order : pc' = Following[i]
      BY <2>0 DEF Proceed
    <3>2. i \in 0 .. Len(Order)
      BY DEF Order
    <3> QED BY <3>1, <3>2, FollowingType
  <2>2. Aged \in [InTwoHalves \cap Reports -> 0 .. 2]
    BY DEF Aged, Older
  <2>3. ASSUME Answered(f)
        PROVE  active' \subseteq Reports /\ due' \subseteq periodic' /\ periodic' \subseteq Reports
               /\ due' \subseteq InTwoHalves \cup {"time_float_send"}
    BY <2>3 DEF Answered
  <2>4. CASE Skip(f)
    BY <2>1, <2>2, <2>4 DEF Skip, flagVars
  <2>5. CASE Report(f)
    BY <2>1, <2>2, <2>3, <2>5 DEF Report
  <2>6. CASE FirstHalf(f)
    BY <2>1, <2>2, <2>6 DEF FirstHalf
  <2>7. CASE SecondHalf(f)
    BY <2>1, <2>2, <2>3, <2>7 DEF SecondHalf
  <2>8. CASE SendFloat(f) \/ FloatPending(f)
    BY <2>1, <2>2, <2>8 DEF SendFloat, FloatPending
  <2>9. CASE FloatSent(f)
    <3>1. /\ Answered(f) /\ tripped' = tripped \ {f} /\ gap' = Aged /\ disturbed' = disturbed
          /\ f = "time_float_send"
      BY <2>9 DEF FloatSent
    <3> QED BY <2>1, <2>2, <2>3, <3>1 DEF InTwoHalves
  <2> QED BY <1>6, <2>4, <2>5, <2>6, <2>7, <2>8, <2>9 DEF Handle
<1>7. CASE Host \/ Open
  BY <1>7, Zenon DEF Host, Open, flagVars, halfVars, FlagTypeOK, FlagInv
<1> QED BY <1>1, <1>2, <1>3, <1>4, <1>5, <1>6, <1>7 DEF Next, Main

-----------------------------------------------------------------------------
(* The invariant.                                                          *)

TypeInv == TelemetryTypeOK /\ FlagInv

(* The types hold at first.                                                *)
LEMMA TypeInvInit == Init => TypeInv
<1> SUFFICES ASSUME Init PROVE TypeInv
  OBVIOUS
<1>1. ReplyTypeOK
  <2>1. << >> \in Seq(Byte) /\ Len(<< >>) = 0 /\ -1 \in Deaf .. MaxSize
    BY Longest DEF Deaf
  <2>2. broken \in BOOLEAN
    BY Zenon DEF Init, ReplyInit
  <2>3. 1 \in 1 .. MaxOpenings
    BY ReplyAssumption
  <2> QED BY <2>1, <2>2, <2>3, Sizes DEF Init, ReplyInit, ReplyTypeOK
<1>2. FlagTypeOK /\ FlagInv
  BY DEF Init, FlagTypeOK, FlagInv
<1> QED BY <1>1, <1>2 DEF TypeInv, TelemetryTypeOK, FlagTypeOK

(* Every step keeps the types.                                             *)
LEMMA TypeInvNext == TypeInv /\ [Next]_vars => TypeInv'
<1> SUFFICES ASSUME TypeInv, [Next]_vars PROVE TypeInv'
  OBVIOUS
<1>1. ReplyTypeOK /\ FlagTypeOK /\ FlagInv
  BY DEF TypeInv, TelemetryTypeOK, FlagTypeOK
<1>2. ReplyTypeOK'
  BY <1>1, LinkSteps, ReplyTypes
<1>3. FlagTypeOK' /\ FlagInv'
  BY <1>1, FlagTypes
<1> QED BY <1>2, <1>3 DEF TypeInv, TelemetryTypeOK, FlagTypeOK

(* The reports, the flags of Message_Handling_Task and the halves of the   *)
(* handlers stay what they are meant to be, the buffers within their       *)
(* bounds and the number of bytes the reading thread waits for sensible.   *)
THEOREM TelemetryTypeCorrect == Spec => []TelemetryTypeOK
<1>1. TypeInv => TelemetryTypeOK
  BY DEF TypeInv
<1> QED BY <1>1, TypeInvInit, TypeInvNext, PTL DEF Spec

(* The link is empty at first.                                             *)
LEMMA LinkInvInit == Init => LinkInv
<1> SUFFICES ASSUME Init PROVE LinkInv
  OBVIOUS
<1>1. << >> \o << >> = << >> /\ Len(<< >>) = 0
  OBVIOUS
<1>2. Bytes = << >> /\ need = -1
  BY <1>1 DEF Init, ReplyInit, Bytes
<1> QED BY <1>1, <1>2 DEF LinkInv, Whole, Expected

(* The bytes of the link are whole replies until the link is broken.       *)
LEMMA LinkCorrect == Spec => [](TypeInv /\ LinkInv)
<1>1. TypeInv /\ LinkInv /\ [Next]_vars => LinkInv'
  BY TypeInvNext, LinkKept DEF TypeInv, TelemetryTypeOK
<1> QED BY <1>1, TypeInvInit, TypeInvNext, LinkInvInit, PTL DEF Spec

(* The reading thread of the host takes the length byte of a reply for a   *)
(* length and no other byte for one, whatever replies the handlers push,   *)
(* wherever reading is interrupted and though the port is opened anew,     *)
(* until the send buffer overflows or the rest of a reply is thrown away   *)
(* by reset_input_buffer.                                                  *)
THEOREM ReplyInStepCorrect == Spec => []ReplyInStep
<1>1. TypeInv /\ LinkInv => ReplyInStep
  <2> SUFFICES ASSUME TypeInv, LinkInv, ~broken, waiting # << >>
               PROVE  Head(waiting).place = IF need = -1 THEN 1 ELSE 2
    BY DEF ReplyInStep
  <2>1. waiting \in Seq(Byte) /\ send \in Seq(Byte) /\ Expected(Bytes)
    BY DEF TypeInv, TelemetryTypeOK, ReplyTypeOK, LinkInv
  <2>2. Bytes # << >> /\ Bytes[1] = Head(waiting)
    BY <2>1 DEF Bytes
  <2> QED BY <2>1, <2>2 DEF Expected
<1> QED BY <1>1, LinkCorrect, PTL

-----------------------------------------------------------------------------
(* The two halves of a report.                                             *)

(* Main's loop has passed the handler of f in this iteration.              *)
Passed(f) == \E i, j \in DOMAIN Order : i < j /\ Order[i] = f /\ Order[j] = pc

(* Between its halves a report that nothing disturbs is due whenever its   *)
(* handler is called, and the first half was taken in this iteration or in *)
(* the one before.                                                         *)
HalvesInv ==
  \A f \in (InTwoHalves \cap tripped) \ disturbed :
     MustExecute(f) /\ gap[f] = IF Passed(f) THEN 0 ELSE 1

(* Every report has one handler.                                           *)
LEMMA Places ==
  /\ DOMAIN Order = 1 .. 8 /\ DOMAIN Order \subseteq Nat /\ Len(Order) = 8
  /\ \A i, j \in DOMAIN Order : Order[i] = Order[j] => i = j
  /\ \A i \in DOMAIN Order : Order[i] \notin {"upkeep", "msg", "restart", "battery"}
  /\ \A f \in Reports : \E i \in DOMAIN Order : Order[i] = f
<1>1. DOMAIN Order = 1 .. 8 /\ Len(Order) = 8
  BY DEF Order
<1>2. \A i, j \in 1 .. 8 : Order[i] = Order[j] => i = j
  BY DEF Order
<1>3. \A i \in 1 .. 8 : Order[i] \notin {"upkeep", "msg", "restart", "battery"}
  BY DEF Order
<1> QED BY <1>1, <1>2, <1>3, TelemetryAssumption

(* Outside the handlers none has been passed.                              *)
LEMMA PassedNone ==
  ASSUME NEW f, pc \in {"upkeep", "msg", "restart", "battery"}
  PROVE  ~Passed(f)
BY Places DEF Passed

(* The battery task is followed by the first handler.                      *)
LEMMA PassedFirst ==
  ASSUME NEW f \in Reports, pc' = Following[0]
  PROVE  ~Passed(f)'
<1> SUFFICES ASSUME NEW i \in DOMAIN Order, NEW j \in DOMAIN Order,
                    i < j, Order[i] = f, Order[j] = pc'
             PROVE  FALSE
  BY DEF Passed
<1>1. i \in Later(0)
  BY Places DEF Later
<1>2. PICK l \in Later(0) : pc' = Order[l] /\ \A m \in Later(0) : l <= m
  BY <1>1, FollowingHandler
<1>3. l \in DOMAIN Order /\ l <= i
  BY <1>1, <1>2, Places DEF Later
<1>4. l = j
  BY <1>2, <1>3, Places
<1> QED BY <1>3, <1>4, Places

(* The handler of g hands on to one further down, or to the next iteration *)
(* when no report comes later.                                             *)
LEMMA PassedOn ==
  ASSUME NEW g \in Reports, Proceed(g)
  PROVE  /\ ~Passed(g) /\ (Passed(g)' <=> pc' # "upkeep")
         /\ \A f \in Reports \ {g} :
               /\ Passed(f) => (Passed(f)' <=> pc' # "upkeep")
               /\ ~Passed(f) => ~Passed(f)' /\ pc' # "upkeep"
<1>1. PICK i \in DOMAIN Order : Order[i] = g /\ pc' = Following[i] /\ pc = g
  BY DEF Proceed
<1>u. i \in 1 .. 8 /\ \A a, b \in DOMAIN Order : Order[a] = Order[b] => a = b
  BY Places
<1>2. CASE Later(i) = {}
  <2>1. pc' = "upkeep"
    BY <1>1, <1>2, Places, FollowingHandler
  <2>2. \A f : ~Passed(f)'
    BY <2>1, Places DEF Passed
  <2>3. ~Passed(g)
    BY <1>1, <1>u DEF Passed
  <2>4. ASSUME NEW f \in Reports \ {g}, ~Passed(f) PROVE FALSE
    <3>1. PICK a \in DOMAIN Order : Order[a] = f
      BY Places
    <3>2. ~(a < i) /\ a # i
      BY <1>1, <2>4, <3>1 DEF Passed
    <3>3. a \in Later(i)
      BY <1>u, <3>1, <3>2, Places DEF Later
    <3> QED BY <1>2, <3>3
  <2> QED BY <2>1, <2>2, <2>3, <2>4
<1>3. CASE Later(i) # {}
  <2>1. PICK j \in Later(i) : pc' = Order[j] /\ \A l \in Later(i) : j <= l
    BY <1>1, <1>3, Places, FollowingHandler
  <2>2. j \in DOMAIN Order /\ i < j /\ pc' # "upkeep"
    BY <1>u, <2>1, Places DEF Later
  <2>3. ~Passed(g)
    BY <1>1, <1>u DEF Passed
  <2>4. Passed(g)'
    BY <1>1, <2>1, <2>2 DEF Passed
  <2>5. ASSUME NEW f \in Reports \ {g}, Passed(f) PROVE Passed(f)'
    <3>1. PICK a, b \in DOMAIN Order : a < b /\ Order[a] = f /\ Order[b] = pc
      BY <2>5 DEF Passed
    <3>2. b = i
      BY <1>1, <1>u, <3>1
    <3>3. a < j
      BY <2>2, <3>1, <3>2, Places
    <3> QED BY <2>1, <2>2, <3>1, <3>3 DEF Passed
  <2>6. ASSUME NEW f \in Reports \ {g}, ~Passed(f) PROVE ~Passed(f)'
    <3>1. PICK a \in DOMAIN Order : Order[a] = f
      BY Places
    <3>2. ~(a < i) /\ a # i
      BY <1>1, <2>6, <3>1 DEF Passed
    <3>3. a \in Later(i)
      BY <1>u, <3>1, <3>2, Places DEF Later
    <3>4. j <= a
      BY <2>1, <3>3
    <3> SUFFICES ASSUME NEW c \in DOMAIN Order, NEW d \in DOMAIN Order,
                        c < d, Order[c] = f, Order[d] = pc'
                 PROVE  FALSE
      BY DEF Passed
    <3>5. c = a /\ d = j
      BY <1>u, <2>1, <2>2, <3>1
    <3> QED BY <3>4, <3>5, Places
  <2> QED BY <2>2, <2>3, <2>4, <2>5, <2>6
<1> QED BY <1>2, <1>3

(* Every step keeps undisturbed halves due and one iteration apart.        *)
LEMMA HalvesKept ==
  ASSUME TypeInv, TypeInv', HalvesInv, [Next]_vars
  PROVE  HalvesInv'
<1>t. /\ tripped \subseteq Reports /\ tripped' \subseteq Reports /\ disturbed \subseteq tripped
      /\ gap \in [InTwoHalves \cap Reports -> 0 .. 2]
  BY DEF TypeInv, TelemetryTypeOK
<1> SUFFICES ASSUME NEW f \in InTwoHalves, f \in tripped', f \notin disturbed'
             PROVE  MustExecute(f)' /\ gap'[f] = IF Passed(f)' THEN 0 ELSE 1
  BY DEF HalvesInv
<1>f. f \in Reports /\ f \in InTwoHalves \cap Reports /\ f # "low_battery" /\ f # "time_float_send"
  BY <1>t DEF InTwoHalves
<1>i. (f \in tripped /\ f \notin disturbed) =>
         MustExecute(f) /\ gap[f] = IF Passed(f) THEN 0 ELSE 1
  BY DEF HalvesInv
<1>1. CASE UNCHANGED vars
  BY <1>1, <1>i DEF vars, MustExecute, Passed
<1>2. CASE NotReady \/ WriteByte
  <2>1. ~Passed(f) /\ ~Passed(f)'
    BY <1>2, Places DEF NotReady, WriteByte, Passed
  <2> QED BY <1>2, <1>i, <2>1 DEF NotReady, WriteByte, flagVars, halfVars, MustExecute
<1>3. CASE Message_Handling_Task
  <2>1. ~Passed(f) /\ ~Passed(f)'
    BY <1>3, Places DEF Message_Handling_Task, Command_restart, Passed
  <2>2. ASSUME NEW g \in Asked, Request(g)
        PROVE  MustExecute(f)' /\ gap'[f] = 1
    BY <1>i, <2>1, <2>2 DEF Request, halfVars, MustExecute
  <2>3. ASSUME NEW g \in Asked, Subscribe(g)
        PROVE  MustExecute(f)' /\ gap'[f] = 1
    BY <1>i, <2>1, <2>3 DEF Subscribe, Disturb, MustExecute
  <2>4. CASE UNCHANGED <<flagVars, halfVars>>
    BY <1>i, <2>1, <2>4 DEF flagVars, halfVars, MustExecute
  <2> QED BY <1>3, <2>1, <2>2, <2>3, <2>4
             DEF Message_Handling_Task, AnswerAtOnce, NoCommand, Command_restart
<1>4. CASE Restart
  BY <1>4 DEF Restart
<1>5. CASE BatteryTask
  <2>1. ~Passed(f)
    BY <1>5, PassedNone DEF BatteryTask
  <2>2. ~Passed(f)'
    BY <1>5, <1>f, PassedFirst DEF BatteryTask
  <2>3. UNCHANGED halfVars /\ (f \in active' <=> f \in active) /\ (f \in periodic' <=> f \in periodic)
        /\ due' = due
    BY <1>5, <1>f DEF BatteryTask, flagVars
  <2> QED BY <1>i, <2>1, <2>2, <2>3 DEF halfVars, MustExecute
<1>6. ASSUME NEW g \in Reports, Handle(g)
      PROVE  MustExecute(f)' /\ gap'[f] = IF Passed(f)' THEN 0 ELSE 1
  <2>0. Proceed(g)
    BY <1>6 DEF Handle, Skip, Report, FirstHalf, SecondHalf, SendFloat, FloatPending, FloatSent
  <2>1. CASE f # g
    <3>1. /\ f \in tripped /\ f \notin disturbed
          /\ (f \in active' <=> f \in active) /\ (f \in due' <=> f \in due) /\ periodic' = periodic
      BY <1>6, <2>1 DEF Handle, Skip, Report, FirstHalf, SecondHalf, SendFloat, FloatPending,
                        FloatSent, Answered, flagVars
    <3>2. gap'[f] = Aged[f]
      BY <1>6, <1>f, <1>t, <2>1 DEF Handle, Skip, Report, FirstHalf, SecondHalf, SendFloat, FloatPending,
                        FloatSent, Aged, Older
    <3>3. Aged[f] = IF pc' = "upkeep" /\ gap[f] < 2 THEN gap[f] + 1 ELSE gap[f]
      BY <1>f, <1>t, <3>1 DEF Aged, Older
    <3>4. MustExecute(f)'
      BY <1>i, <3>1 DEF MustExecute
    <3>5. /\ Passed(f) => (Passed(f)' <=> pc' # "upkeep")
          /\ ~Passed(f) => ~Passed(f)' /\ pc' # "upkeep"
      BY <1>f, <2>0, <2>1, PassedOn
    <3>6. gap[f] = IF Passed(f) THEN 0 ELSE 1
      BY <1>i, <3>1
    <3>7. CASE Passed(f)
      BY <3>2, <3>3, <3>4, <3>5, <3>6, <3>7
    <3>8. CASE ~Passed(f)
      BY <3>2, <3>3, <3>4, <3>5, <3>6, <3>8
    <3> QED BY <3>7, <3>8
  <2>2. CASE f = g
    <3>0. ~Passed(f) /\ (Passed(f)' <=> pc' # "upkeep")
      BY <2>0, <2>2, PassedOn
    <3>1. CASE Skip(g)
      BY <1>i, <2>2, <3>1 DEF Skip
    <3>2. CASE FirstHalf(g)
      <4>1. gap'[f] = IF pc' = "upkeep" THEN 1 ELSE 0
        BY <1>f, <1>t, <2>2, <3>2 DEF FirstHalf, Aged, Older
      <4>2. MustExecute(f)'
        BY <2>2, <3>2 DEF FirstHalf, MSG_FLAG_Execute, MustExecute
      <4> QED BY <3>0, <4>1, <4>2
    <3>3. CASE SecondHalf(g)
      BY <2>2, <3>3 DEF SecondHalf
    <3> QED BY <1>6, <1>f, <2>2, <3>1, <3>2, <3>3
               DEF Handle, Report, SendFloat, FloatPending, FloatSent
  <2> QED BY <2>1, <2>2
<1>7. CASE Host \/ Open
  BY <1>7, <1>i DEF Host, Open, flagVars, halfVars, MustExecute, Passed
<1> QED BY <1>1, <1>2, <1>3, <1>4, <1>5, <1>6, <1>7 DEF Next, Main

(* The second half of an undisturbed report comes one iteration after its  *)
(* first half.                                                             *)
LEMMA HalvesStep ==
  ASSUME TypeInv, HalvesInv, [Next]_vars
  PROVE  \A f \in InTwoHalves \cap tripped :
            (f \notin tripped' /\ f \notin disturbed) => gap[f] = 1
<1> SUFFICES ASSUME NEW f \in InTwoHalves, f \in tripped, f \notin tripped', f \notin disturbed
             PROVE  gap[f] = 1
  OBVIOUS
<1>1. PICK g \in Reports : Handle(g)
  BY DEF Next, Main, vars, NotReady, WriteByte, Message_Handling_Task, Request, Subscribe,
         AnswerAtOnce, NoCommand, Command_restart, Restart, BatteryTask, Host, Open, halfVars
<1>2. f = g /\ Proceed(g)
  BY <1>1 DEF Handle, Skip, Report, FirstHalf, SecondHalf, SendFloat, FloatPending, FloatSent
<1>3. ~Passed(f)
  BY <1>2, PassedOn
<1> QED BY <1>3 DEF HalvesInv

(* The two halves of a loop time or of a proximity report that no restart  *)
(* and no new duration took apart come from successive iterations.         *)
THEOREM HalvesAdjacentCorrect == Spec => HalvesAdjacent
<1>1. Init => HalvesInv
  BY DEF Init, HalvesInv
<1>2. TypeInv /\ TypeInv' /\ HalvesInv /\ [Next]_vars => HalvesInv'
  BY HalvesKept
<1>3. TypeInv /\ HalvesInv /\ [Next]_vars =>
        [\A f \in InTwoHalves \cap tripped :
            (f \notin tripped' /\ f \notin disturbed) => gap[f] = 1]_vars
  BY HalvesStep
<1> QED BY <1>1, <1>2, <1>3, TypeInvInit, TypeInvNext, PTL DEF Spec, HalvesAdjacent

-----------------------------------------------------------------------------
(* The link implements the queue of replies.                               *)

LastKind == [b \in LastBytes |-> b.kind]

(* The replies whose last byte is among s.                                 *)
Seen(s) == Images(s, LastKind)

(* Wherever a reply begins, the bytes from there on are those of the       *)
(* replies that end there.                                                 *)
Fits(s) ==
  \A n \in 0 .. Len(s) :
     (n < Len(s) => s[n + 1].place = 1) =>
        Total(Seen(SubSeq(s, n + 1, Len(s))), Size) = Len(s) - n

(* The bytes under way are those of the replies under way, but for the     *)
(* length that the host has taken already.                                 *)
QueueInv ==
  ~broken => /\ Fits(Bytes)
             /\ need # -1 => Total(Seen(Bytes), Size) = Len(Bytes) + 1

(* Which bytes are last.                                                   *)
LEMMA Lasts ==
  /\ DOMAIN LastKind = LastBytes /\ LastBytes \subseteq Byte
  /\ Maps(LastKind, Kinds)
  /\ \A k \in Kinds : /\ [kind |-> k, place |-> Size[k]] \in LastBytes
                      /\ LastKind[[kind |-> k, place |-> Size[k]]] = k
  /\ \A b \in LastBytes : b.place = Size[b.kind]
<1>1. DOMAIN LastKind = LastBytes
  BY DEF LastKind
<1>2. ASSUME NEW b \in LastBytes
      PROVE  b \in Byte /\ LastKind[b] \in Kinds /\ b.place = Size[b.kind]
  <2>1. PICK k \in Kinds : b = [kind |-> k, place |-> Size[k]]
    BY DEF LastBytes
  <2>2. Size[k] \in 1 .. MaxSize
    BY Sizes, Longest
  <2> QED BY <2>1, <2>2 DEF Byte, LastKind
<1>3. ASSUME NEW k \in Kinds
      PROVE  /\ [kind |-> k, place |-> Size[k]] \in LastBytes
             /\ LastKind[[kind |-> k, place |-> Size[k]]] = k
  BY DEF LastBytes, LastKind
<1> QED BY <1>1, <1>2, <1>3 DEF Maps

(* One reply is seen in its bytes, with or without its length.             *)
LEMMA SeenOne ==
  ASSUME NEW s \in Seq(Byte), NEW k \in Kinds, NEW d \in Nat, s # << >>, d + Len(s) = Size[k],
         \A j \in 1 .. Len(s) : s[j] = [kind |-> k, place |-> d + j]
  PROVE  Seen(s) = <<k>>
<1>a. Len(s) \in Nat /\ Len(s) # 0
  OBVIOUS
<1>b. Len(s) - 1 \in 0 .. Len(s)
  BY ONLY <1>a
<1>0. PICK n \in 0 .. Len(s) : n = Len(s) - 1
  BY <1>b
<1>l. Len(s) \in Nat /\ n + 1 = Len(s) /\ Len(s) - n = 1 /\ 1 \in 1 .. Len(s) - n
  BY <1>0, <1>a
<1>2. PICK x \in Seq(Byte), y \in Seq(Byte) : Parts(s, n, x, y)
  BY Split
<1>3. Len(x) = n /\ Len(y) = 1 /\ y[1] = s[n + 1] /\ \A i \in 1 .. n : x[i] = s[i]
  BY <1>l, <1>2 DEF Parts
<1>x. s = x \o y
  BY <1>2 DEF Parts
<1>4. PICK e \in Byte : e = [kind |-> k, place |-> Size[k]] /\ e \in DOMAIN LastKind /\ LastKind[e] = k
  BY Lasts
<1>5. y = <<e>>
  <2>1. n + 1 \in 1 .. Len(s) /\ d + (n + 1) = Size[k]
    BY <1>l, Sizes
  <2>2. y[1] = e
    BY <1>3, <1>4, <2>1
  <2> QED BY <1>3, <2>2
<1>6. Images(y, LastKind) = <<k>>
  <2>1. Images(<<e>>, LastKind) = <<LastKind[e]>>
    BY <1>4, Lasts, ImagesOne
  <2> QED BY <1>4, <1>5, <2>1
<1>7. \A i \in 1 .. Len(x) : x[i] \notin DOMAIN LastKind
  <2> SUFFICES ASSUME NEW i \in 1 .. n, x[i] \in LastBytes PROVE FALSE
    BY <1>3, Lasts
  <2>1. i \in 1 .. Len(s) /\ d + i # Size[k]
    BY <1>l, Sizes
  <2>2. x[i] = [kind |-> k, place |-> d + i]
    BY <1>3, <2>1
  <2> QED BY <2>1, <2>2, Lasts
<1>8. Images(x, LastKind) = << >>
  BY <1>7, Lasts, ImagesNone
<1>9. Images(x \o y, LastKind) = Images(x, LastKind) \o Images(y, LastKind)
  <2>1. Joins(x, y, LastKind)
    BY Lasts, ImagesConcat
  <2> QED BY <2>1 DEF Joins
<1>10. << >> \o <<k>> = <<k>>
  OBVIOUS
<1> QED BY <1>x, <1>6, <1>8, <1>9, <1>10 DEF Seen

(* What is seen in two parts, and that they are replies.                   *)
LEMMA SeenConcat ==
  ASSUME NEW s \in Seq(Byte), NEW t \in Seq(Byte)
  PROVE  Seen(s \o t) = Seen(s) \o Seen(t) /\ Seen(s) \in Seq(Kinds) /\ Seen(t) \in Seq(Kinds)
<1>1. Images(s \o t, LastKind) = Images(s, LastKind) \o Images(t, LastKind)
  <2>1. Joins(s, t, LastKind)
    BY Lasts, ImagesConcat
  <2> QED BY <2>1 DEF Joins
<1>2. Images(s, LastKind) \in Seq(Kinds) /\ Images(t, LastKind) \in Seq(Kinds)
  BY Lasts, ImagesType
<1> QED BY <1>1, <1>2 DEF Seen

(* The weight of one more reply.                                           *)
LEMMA TotalSizes ==
  ASSUME NEW q \in Seq(Kinds), NEW k \in Kinds
  PROVE  /\ Total(q, Size) \in Int
         /\ Total(q \o <<k>>, Size) = Total(q, Size) + Size[k]
         /\ Total(<<k>> \o q, Size) = Size[k] + Total(q, Size)
<1>1. Size \in [Kinds -> Int]
  BY ReplyAssumption
<1>2. <<k>> \in Seq(Kinds) /\ Total(<<k>>, Size) = Size[k]
  BY <1>1, TotalOne
<1>3. PICK r \in Seq(Kinds) : r = <<k>>
  BY ONLY <1>2, Zenon
<1>4. Total(q, Size) \in Int /\ Total(q \o r, Size) = Total(q, Size) + Total(r, Size)
  BY <1>1, TotalConcat, Zenon
<1>5. Total(r \o q, Size) = Total(r, Size) + Total(q, Size)
  BY <1>1, TotalConcat, Zenon
<1> QED BY <1>2, <1>3, <1>4, <1>5

(* No reply is seen in no bytes.                                           *)
LEMMA SeenNone ==
  ASSUME NEW s \in Seq(Byte), Len(s) = 0
  PROVE  Seen(s) = << >> /\ Total(Seen(s), Size) = 0
<1>1. Images(s, LastKind) = << >>
  <2>1. \A i \in 1 .. Len(s) : s[i] \notin DOMAIN LastKind
    OBVIOUS
  <2> QED BY <2>1, Lasts, ImagesNone
<1>2. Size \in [Kinds -> Int]
  BY ReplyAssumption
<1>3. Total(<< >>, Size) = 0
  BY <1>2, TotalEmpty
<1> QED BY <1>1, <1>3 DEF Seen

(* One reply is seen in all its bytes.                                     *)
LEMMA SeenFrame ==
  ASSUME NEW k \in Kinds
  PROVE  Seen(Frame(k)) = <<k>>
<1>1. /\ Frame(k) \in Seq(Byte) /\ Len(Frame(k)) = Size[k] /\ Size[k] \in Nat /\ 2 <= Size[k]
      /\ \A i \in 1 .. Size[k] : Frame(k)[i] = [kind |-> k, place |-> i]
  BY FrameTyped, Sizes
<1>2. PICK F \in Seq(Byte) :
         /\ F = Frame(k) /\ Len(F) = Size[k]
         /\ \A i \in 1 .. Size[k] : F[i] = [kind |-> k, place |-> i]
  BY ONLY <1>1, Zenon
<1>3. 0 + Len(F) = Size[k] /\ F # << >> /\ \A j \in 1 .. Len(F) : 0 + j = j
  BY <1>1, <1>2
<1>4. \A j \in 1 .. Len(F) : F[j] = [kind |-> k, place |-> 0 + j]
  BY <1>2, <1>3
<1>5. Seen(F) = <<k>>
  BY <1>3, <1>4, SeenOne
<1> QED BY <1>2, <1>5

(* A reply that is pushed is one more under way.                           *)
LEMMA SeenEnqueued ==
  ASSUME ReplyTypeOK, NEW k \in Kinds, Enqueues(k)
  PROVE  /\ Seen(Bytes)' = Seen(Bytes) \o <<k>> /\ Seen(Bytes) \in Seq(Kinds)
         /\ Len(Bytes)' = Len(Bytes) + Size[k]
<1>0. Bytes \in Seq(Byte)
  BY DEF ReplyTypeOK, Bytes
<1>1. Frame(k) \in Seq(Byte) /\ Len(Frame(k)) = Size[k] /\ Seen(Frame(k)) = <<k>>
  BY FrameTyped, SeenFrame
<1>2. PICK F \in Seq(Byte) : F = Frame(k) /\ Len(F) = Size[k] /\ Seen(F) = <<k>>
  BY ONLY <1>1, Zenon
<1>3. Seen(Bytes \o F) = Seen(Bytes) \o <<k>> /\ Seen(Bytes) \in Seq(Kinds)
  BY <1>0, <1>2, SeenConcat
<1>4. Bytes' = Bytes \o F /\ Len(Bytes \o F) = Len(Bytes) + Size[k]
  BY <1>0, <1>2 DEF Enqueues
<1>5. Seen(Bytes)' = Seen(Bytes \o F)
  BY <1>4 DEF Seen, LastKind, LastBytes
<1> QED BY <1>3, <1>4, <1>5

(* A length that is read ends no reply.                                    *)
LEMMA SeenMeasured ==
  ASSUME ReplyTypeOK, LinkInv, Measures
  PROVE  /\ Seen(Bytes)' = Seen(Bytes)
         /\ Len(Bytes)' = Len(Bytes) - 1 /\ Len(Bytes) \in Nat /\ need' # -1
<1>0. Bytes \in Seq(Byte) /\ Len(Bytes) \in Nat
  BY DEF ReplyTypeOK, Bytes
<1>a. ~broken /\ Bytes # << >> /\ Bytes[1].place = 1 /\ Whole(Bytes)
  BY DEF LinkInv, Measures
<1>b. 1 \in 1 .. Len(Bytes) /\ 1 \in 0 .. Len(Bytes) /\ 1 \in 1 .. 1
  BY <1>0, <1>a
<1>1. Bytes[1].kind \in Kinds /\ Bytes[1].place = 1
  BY <1>a, <1>b DEF Whole
<1>d. PICK B \in Seq(Byte) : B = Bytes
  BY <1>0
<1>c. PICK n \in 0 .. Len(B) : n = 1 /\ B = Bytes
  BY <1>b, <1>d
<1>2. PICK x \in Seq(Byte), y \in Seq(Byte) : Parts(B, n, x, y)
  BY Split
<1>3. /\ y = SubSeq(Bytes, 1 + 1, Len(Bytes)) /\ Bytes = x \o y
      /\ Len(x) = 1 /\ x[1] = Bytes[1] /\ Len(y) = Len(Bytes) - 1
  BY <1>c, <1>2 DEF Parts
<1>4. Bytes[1] \notin LastBytes
  <2>1. Size[Bytes[1].kind] # 1
    BY <1>1, Sizes
  <2> QED BY <1>1, <2>1, Lasts
<1>5. Seen(x) = << >>
  <2>1. \A i \in 1 .. Len(x) : x[i] \notin DOMAIN LastKind
    BY <1>3, <1>4, Lasts
  <2> QED BY <2>1, Lasts, ImagesNone DEF Seen
<1>6. Seen(Bytes) = << >> \o Seen(y) /\ Seen(y) \in Seq(Kinds)
  BY <1>3, <1>5, SeenConcat
<1>7. Seen(Bytes) = Seen(y)
  BY <1>6
<1>8. Bytes' = y /\ need' = Size[Bytes[1].kind] - 1
  BY <1>3 DEF Measures
<1>9. Seen(Bytes)' = Seen(y)
  BY <1>8 DEF Seen, LastKind, LastBytes
<1>10. need' # -1
  BY <1>1, <1>8, Sizes
<1> QED BY <1>0, <1>3, <1>7, <1>8, <1>9, <1>10

(* The reply that is heard was the first under way.                        *)
LEMMA SeenHeard ==
  ASSUME ReplyTypeOK, NEW k \in Kinds, Hears(k)
  PROVE  /\ Seen(Bytes) = <<k>> \o Seen(Bytes)' /\ Seen(Bytes)' \in Seq(Kinds)
         /\ Len(Bytes) \in Nat /\ Len(Bytes)' = Len(Bytes) - need
<1>0. Bytes \in Seq(Byte) /\ Len(Bytes) \in Nat
  BY DEF ReplyTypeOK, Bytes
<1>h. /\ need = Size[k] - 1 /\ need \in 1 .. Len(Bytes)
      /\ \A j \in 1 .. need : Bytes[j] = [kind |-> k, place |-> j + 1]
      /\ Bytes' = SubSeq(Bytes, need + 1, Len(Bytes))
  BY DEF Hears
<1>a. PICK B \in Seq(Byte) : B = Bytes
  BY <1>0
<1>1. PICK n \in 0 .. Len(B) : n = need /\ n # 0 /\ B = Bytes
  <2>1. need \in 0 .. Len(Bytes) /\ need # 0
    BY <1>0, <1>h
  <2> QED BY <1>a, <2>1
<1>2. PICK x \in Seq(Byte), y \in Seq(Byte) : Parts(B, n, x, y)
  BY Split
<1>3. /\ y = SubSeq(Bytes, n + 1, Len(Bytes)) /\ Bytes = x \o y
      /\ Len(x) = n /\ Len(y) = Len(Bytes) - n /\ \A i \in 1 .. n : x[i] = Bytes[i]
  BY <1>1, <1>2 DEF Parts
<1>s. Size[k] \in Nat
  BY Sizes
<1>4. x # << >> /\ 1 + Len(x) = Size[k]
  <2>1. Len(x) # 0 /\ Len(x) = Size[k] - 1
    BY <1>h, <1>1, <1>3
  <2>2. x # << >>
    <3>1. Len(<< >>) = 0
      OBVIOUS
    <3> QED BY <2>1, <3>1, Zenon
  <2>3. 1 + (Size[k] - 1) = Size[k]
    BY ONLY <1>s
  <2> QED BY <2>1, <2>2, <2>3
<1>5. ASSUME NEW j \in 1 .. Len(x) PROVE x[j] = [kind |-> k, place |-> 1 + j]
  <2>1. j \in 1 .. n /\ j + 1 = 1 + j
    BY <1>3
  <2>2. x[j] = Bytes[j] /\ Bytes[j] = [kind |-> k, place |-> j + 1]
    BY <1>h, <1>1, <1>3, <2>1
  <2> QED BY <2>1, <2>2
<1>6. Seen(x) = <<k>>
  BY <1>4, <1>5, SeenOne
<1>7. Seen(Bytes) = <<k>> \o Seen(y) /\ Seen(y) \in Seq(Kinds)
  BY <1>3, <1>6, SeenConcat
<1>8. Bytes' = y
  BY <1>h, <1>1, <1>3
<1>9. Seen(Bytes)' = Seen(y)
  BY <1>8 DEF Seen, LastKind, LastBytes
<1> QED BY <1>0, <1>1, <1>3, <1>7, <1>8, <1>9

(* What is left when bytes are taken away still fits.                      *)
LEMMA FitsRest ==
  ASSUME NEW s \in Seq(Byte), Fits(s), NEW m \in 0 .. Len(s)
  PROVE  Fits(SubSeq(s, m + 1, Len(s)))
<1>0. Len(s) \in Nat /\ SubSeq(s, m + 1, Len(s)) \in Seq(Byte)
  BY Rest
<1>1. PICK t \in Seq(Byte) : t = SubSeq(s, m + 1, Len(s))
  BY ONLY <1>0, Zenon
<1>2. Len(t) = Len(s) - m /\ \A i \in 1 .. Len(s) - m : t[i] = s[m + i]
  BY <1>1, Rest
<1>3. ASSUME NEW n \in 0 .. Len(t), n < Len(t) => t[n + 1].place = 1
      PROVE  Total(Seen(SubSeq(t, n + 1, Len(t))), Size) = Len(t) - n
  <2>1. PICK l \in 0 .. Len(s) : l = m + n
    <3>1. m + n \in 0 .. Len(s)
      BY <1>0, <1>2
    <3> QED BY <3>1
  <2>2. l < Len(s) => s[l + 1].place = 1
    <3>1. l < Len(s) => n < Len(t) /\ n + 1 \in 1 .. Len(s) - m /\ m + (n + 1) = l + 1
      BY <1>0, <1>2, <2>1
    <3> QED BY <1>2, <1>3, <3>1
  <2>3. SubSeq(s, l + 1, Len(s)) \in Seq(Byte) /\ SubSeq(t, n + 1, Len(t)) \in Seq(Byte)
    BY Rest
  <2>4. PICK x \in Seq(Byte), y \in Seq(Byte) :
           x = SubSeq(s, l + 1, Len(s)) /\ y = SubSeq(t, n + 1, Len(t))
    BY ONLY <2>3, Zenon
  <2>5. Len(x) = Len(s) - l /\ \A i \in 1 .. Len(s) - l : x[i] = s[l + i]
    BY <2>4, Rest
  <2>6. Len(y) = Len(t) - n /\ \A i \in 1 .. Len(t) - n : y[i] = t[n + i]
    BY <2>4, Rest
  <2>7. Len(x) = Len(y)
    BY <1>0, <1>2, <2>1, <2>5, <2>6
  <2>8. ASSUME NEW i \in 1 .. Len(x) PROVE x[i] = y[i]
    <3>1. i \in 1 .. Len(s) - l /\ i \in 1 .. Len(t) - n /\ n + i \in 1 .. Len(s) - m
          /\ m + (n + i) = l + i
      BY <1>0, <1>2, <2>1, <2>5, <2>6, <2>7
    <3> QED BY <1>2, <2>5, <2>6, <3>1
  <2>9. x = y
    BY <2>7, <2>8, SeqEqual
  <2>10. Total(Seen(x), Size) = Len(s) - l
    BY <2>2, <2>4 DEF Fits
  <2>11. Len(s) - l = Len(t) - n
    BY <1>0, <1>2, <2>1
  <2>12. Total(Seen(y), Size) = Len(t) - n
    BY <2>9, <2>10, <2>11
  <2> QED BY <2>4, <2>12
<1>4. Fits(t)
  BY <1>3 DEF Fits
<1> QED BY <1>1, <1>4

(* A reply that is appended fits.                                          *)
LEMMA FitsPush ==
  ASSUME NEW s \in Seq(Byte), Fits(s), NEW k \in Kinds
  PROVE  Fits(s \o Frame(k))
<1>0. /\ Frame(k) \in Seq(Byte) /\ Len(Frame(k)) = Size[k] /\ Seen(Frame(k)) = <<k>>
      /\ \A i \in 1 .. Size[k] : Frame(k)[i] = [kind |-> k, place |-> i]
      /\ s \o Frame(k) \in Seq(Byte)
  BY FrameTyped, SeenFrame
<1>n. Len(s) \in Nat /\ Size[k] \in Nat /\ 2 <= Size[k]
  BY Sizes
<1>1. PICK F \in Seq(Byte), t \in Seq(Byte) :
         /\ F = Frame(k) /\ Len(F) = Size[k] /\ Seen(F) = <<k>> /\ t = s \o F
         /\ \A i \in 1 .. Size[k] : F[i] = [kind |-> k, place |-> i]
  BY ONLY <1>0, Zenon
<1>2. /\ Len(t) = Len(s) + Size[k]
      /\ \A i \in 1 .. Len(s) : t[i] = s[i]
      /\ \A i \in 1 .. Size[k] : t[Len(s) + i] = F[i]
  BY <1>1, <1>n
<1>3. ASSUME NEW n \in 0 .. Len(t), n < Len(t) => t[n + 1].place = 1
      PROVE  Total(Seen(SubSeq(t, n + 1, Len(t))), Size) = Len(t) - n
  <2>1. CASE n <= Len(s)
    <3>1. PICK m \in 0 .. Len(s) : m = n
      BY <1>n, <2>1
    <3>2. m < Len(s) => s[m + 1].place = 1
      <4>1. m < Len(s) => m + 1 \in 1 .. Len(s) /\ n < Len(t)
        BY <1>2, <1>n, <3>1
      <4> QED BY <1>2, <1>3, <3>1, <4>1
    <3>3. Total(Seen(SubSeq(s, m + 1, Len(s))), Size) = Len(s) - m
      BY <3>2 DEF Fits
    <3>4. SubSeq(s, m + 1, Len(s)) \in Seq(Byte)
      BY Rest
    <3>5. PICK r \in Seq(Byte) : r = SubSeq(s, m + 1, Len(s))
      BY ONLY <3>4, Zenon
    <3>6. SubSeq(t, m + 1, Len(t)) = r \o F
      <4>1. SubSeq(s, m + 1, Len(s)) \o F = SubSeq(s \o F, m + 1, Len(s \o F))
        BY BytesTaken
      <4> QED BY <1>1, <3>5, <4>1
    <3>7. Seen(r \o F) = Seen(r) \o <<k>> /\ Seen(r) \in Seq(Kinds)
      BY <1>1, SeenConcat
    <3>8. PICK q \in Seq(Kinds) : q = Seen(r)
      BY <3>7
    <3>9. Total(q \o <<k>>, Size) = Total(q, Size) + Size[k] /\ Total(q, Size) \in Int
      BY TotalSizes
    <3>10. Total(q, Size) = Len(s) - n
      BY <3>1, <3>3, <3>5, <3>8
    <3>11. (Len(s) - n) + Size[k] = Len(t) - n
      BY <1>2, <1>n
    <3> QED BY <3>1, <3>6, <3>7, <3>8, <3>9, <3>10, <3>11
  <2>2. CASE n > Len(s) /\ n < Len(t)
    <3>1. PICK i \in 1 .. Size[k] : n + 1 = Len(s) + i /\ i # 1
      <4>1. /\ (n + 1) - Len(s) \in 1 .. Size[k] /\ n + 1 = Len(s) + ((n + 1) - Len(s))
            /\ (n + 1) - Len(s) # 1
        BY <1>2, <1>n, <2>2
      <4> QED BY <4>1
    <3>2. t[n + 1].place = i
      <4>1. t[Len(s) + i] = F[i] /\ F[i] = [kind |-> k, place |-> i]
        BY <1>1, <1>2
      <4> QED BY <3>1, <4>1
    <3> QED BY <1>3, <2>2, <3>1, <3>2
  <2>3. CASE n = Len(t)
    <3>1. SubSeq(t, n + 1, Len(t)) \in Seq(Byte) /\ Len(SubSeq(t, n + 1, Len(t))) = 0
      BY <2>3, Rest
    <3>2. PICK r \in Seq(Byte) : r = SubSeq(t, n + 1, Len(t)) /\ Len(r) = 0
      BY ONLY <3>1, Zenon
    <3>3. Total(Seen(r), Size) = 0
      BY <3>2, SeenNone
    <3> QED BY <2>3, <3>2, <3>3
  <2> QED BY <1>n, <1>2, <2>1, <2>2, <2>3
<1>4. Fits(t)
  BY <1>3 DEF Fits
<1> QED BY <1>1, <1>4

(* The replies under way weigh what is left of them.                       *)
LEMMA QueueWeight ==
  ASSUME ReplyTypeOK, LinkInv, QueueInv, ~broken
  PROVE  Total(Seen(Bytes), Size) = Len(Bytes) + (IF need = -1 THEN 0 ELSE 1)
<1>0. Bytes \in Seq(Byte) /\ Len(Bytes) \in Nat
  BY DEF ReplyTypeOK, Bytes
<1>1. PICK B \in Seq(Byte) : B = Bytes /\ Fits(B)
  BY <1>0 DEF QueueInv
<1>2. CASE need = -1
  <2>1. 0 \in 0 .. Len(B) /\ (0 < Len(B) => B[0 + 1].place = 1)
    BY <1>1, <1>2 DEF LinkInv, Expected
  <2>2. SubSeq(B, 0 + 1, Len(B)) = B
    OBVIOUS
  <2>3. Total(Seen(SubSeq(B, 0 + 1, Len(B))), Size) = Len(B) - 0
    BY <1>1, <2>1 DEF Fits
  <2>4. Total(Seen(B), Size) = Len(B)
    <3>1. Len(B) - 0 = Len(B)
      OBVIOUS
    <3> QED BY <2>2, <2>3, <3>1, Zenon
  <2> QED BY <1>0, <1>1, <1>2, <2>4
<1>3. CASE need # -1
  BY <1>3 DEF QueueInv
<1> QED BY <1>2, <1>3

(* The bytes under way stay those of the replies under way.                *)
LEMMA QueueKept ==
  ASSUME ReplyTypeOK, ReplyTypeOK', LinkInv, QueueInv, [Next]_vars
  PROVE  QueueInv'
<1>0. Bytes \in Seq(Byte) /\ Len(Bytes) \in Nat /\ need \in Int
  BY Longest DEF ReplyTypeOK, Bytes, Deaf
<1>i. ~broken => /\ Fits(Bytes)
                 /\ need # -1 => Total(Seen(Bytes), Size) = Len(Bytes) + 1
  BY DEF QueueInv
<1>s. ASSUME NEW t, Bytes' = t, Fits(t) PROVE Fits(Bytes)'
  BY <1>s DEF Fits, Seen, LastKind, LastBytes
<1>1. CASE Rests
  <2>1. ~broken /\ Bytes' = Bytes /\ need' = need
    BY <1>1 DEF Rests
  <2>2. Seen(Bytes)' = Seen(Bytes)
    BY <2>1 DEF Seen, LastKind, LastBytes
  <2>3. Fits(Bytes)'
    BY <1>i, <1>s, <2>1
  <2> QED BY <1>i, <2>1, <2>2, <2>3 DEF QueueInv
<1>2. CASE Measures
  <2>1. /\ Seen(Bytes)' = Seen(Bytes) /\ Len(Bytes)' = Len(Bytes) - 1 /\ need' # -1
        /\ need = -1 /\ ~broken /\ 1 \in 0 .. Len(Bytes)
        /\ Bytes' = SubSeq(Bytes, 1 + 1, Len(Bytes))
    BY <1>0, <1>2, SeenMeasured DEF Measures
  <2>2. Total(Seen(Bytes), Size) = Len(Bytes)
    BY <1>0, <2>1, QueueWeight
  <2>3. Fits(SubSeq(Bytes, 1 + 1, Len(Bytes)))
    BY <1>0, <1>i, <2>1, FitsRest
  <2>4. Fits(Bytes)'
    BY <1>s, <2>1, <2>3
  <2> QED BY <1>0, <2>1, <2>2, <2>4 DEF QueueInv
<1>3. ASSUME NEW k \in Kinds, Enqueues(k) PROVE QueueInv'
  <2>1. /\ Seen(Bytes)' = Seen(Bytes) \o <<k>> /\ Seen(Bytes) \in Seq(Kinds)
        /\ Len(Bytes)' = Len(Bytes) + Size[k]
    BY <1>3, SeenEnqueued
  <2>2. ~broken /\ need' = need /\ Bytes' = Bytes \o Frame(k)
    BY <1>3 DEF Enqueues
  <2>3. PICK q \in Seq(Kinds) : q = Seen(Bytes)
    BY <2>1
  <2>4. Total(q \o <<k>>, Size) = Total(q, Size) + Size[k] /\ Total(q, Size) \in Int
    BY TotalSizes
  <2>5. Size[k] \in Nat
    BY Sizes
  <2>6. need # -1 => Total(Seen(Bytes)', Size) = Len(Bytes)' + 1
    BY <1>0, <1>i, <2>1, <2>2, <2>3, <2>4, <2>5
  <2>7. Fits(Bytes \o Frame(k))
    BY <1>0, <1>i, <2>2, FitsPush
  <2>8. Fits(Bytes)'
    BY <1>s, <2>2, <2>7
  <2> QED BY <2>2, <2>6, <2>8 DEF QueueInv
<1>4. ASSUME NEW k \in Kinds, Hears(k) PROVE QueueInv'
  <2>1. /\ ~broken /\ need' = -1 /\ need \in 0 .. Len(Bytes)
        /\ Bytes' = SubSeq(Bytes, need + 1, Len(Bytes))
    BY <1>0, <1>4 DEF Hears
  <2>2. Fits(SubSeq(Bytes, need + 1, Len(Bytes)))
    BY <1>0, <1>i, <2>1, FitsRest
  <2>3. Fits(Bytes)'
    BY <1>s, <2>1, <2>2
  <2> QED BY <2>1, <2>3 DEF QueueInv
<1>5. ASSUME NEW n \in 0 .. Len(Bytes), Resumes(n) PROVE QueueInv'
  <2>1. /\ ~broken /\ need' = need /\ (n > 0 => need = -1)
        /\ Bytes' = SubSeq(Bytes, n + 1, Len(Bytes))
    BY <1>5 DEF Resumes
  <2>2. Fits(SubSeq(Bytes, n + 1, Len(Bytes)))
    BY <1>0, <1>i, <2>1, FitsRest
  <2>3. Fits(Bytes)'
    BY <1>s, <2>1, <2>2
  <2>4. ASSUME need # -1 PROVE Bytes' = Bytes
    <3>1. n = 0
      BY <1>0, <2>1, <2>4
    <3> QED BY <1>0, <2>1, <3>1
  <2>5. need # -1 => Seen(Bytes)' = Seen(Bytes) /\ Len(Bytes)' = Len(Bytes)
    BY <2>4 DEF Seen, LastKind, LastBytes
  <2> QED BY <1>i, <2>1, <2>3, <2>5 DEF QueueInv
<1>6. CASE broken' = TRUE
  BY <1>6 DEF QueueInv
<1> QED BY <1>1, <1>2, <1>3, <1>4, <1>5, <1>6, LinkEffects DEF Falters, Overflows, Breaks

(* Nothing is under way at first.                                          *)
LEMMA QueueInvInit == Init => QueueInv /\ UnderWay = << >>
<1> SUFFICES ASSUME Init PROVE QueueInv /\ UnderWay = << >>
  OBVIOUS
<1>1. << >> \o << >> = << >> /\ Len(<< >>) = 0 /\ << >> \in Seq(Byte)
  OBVIOUS
<1>2. PICK s \in Seq(Byte) : s = << >> /\ Len(s) = 0
  BY ONLY <1>1, Zenon
<1>3. Bytes = s /\ need = -1 /\ UnderWay = Seen(s)
  BY <1>1, <1>2 DEF Init, ReplyInit, Bytes, UnderWay, Seen, LastKind
<1>4. Seen(s) = << >>
  BY <1>2, SeenNone
<1>5. ASSUME NEW n \in 0 .. Len(s)
      PROVE  Total(Seen(SubSeq(s, n + 1, Len(s))), Size) = Len(s) - n
  <2>1. n = 0 /\ SubSeq(s, n + 1, Len(s)) = s
    BY <1>2
  <2>2. Total(Seen(s), Size) = 0
    BY <1>2, SeenNone
  <2>3. Total(Seen(SubSeq(s, n + 1, Len(s))), Size) = 0
    BY <2>1, <2>2
  <2> QED BY <1>2, <2>1, <2>3
<1>6. Fits(s)
  BY <1>5 DEF Fits
<1> QED BY <1>3, <1>4, <1>6 DEF QueueInv

(* The weight that the queue gives to its replies.                         *)
LEMMA SameTotal ==
  ASSUME NEW q PROVE Replies!Total(q, Size) = Total(q, Size)
BY DEF Replies!Total, Total

(* Every step of the device and of the host is a step of the queue of      *)
(* replies or none.                                                        *)
LEMMA ReplyStep ==
  ASSUME ReplyTypeOK, ReplyTypeOK', LinkInv, QueueInv, [Next]_vars
  PROVE  [Replies!Next]_(Replies!queueVars)
<1> DEFINE pending == IF broken THEN << >> ELSE UnderWay
<1>u. UnderWay = Seen(Bytes) /\ UnderWay' = Seen(Bytes)'
  BY DEF UnderWay, Seen, Bytes, LastKind
<1>b. broken \in BOOLEAN /\ broken' \in BOOLEAN
  BY Zenon DEF ReplyTypeOK
<1>0. Bytes \in Seq(Byte) /\ Len(Bytes) \in Nat /\ need \in Int
  BY Longest DEF ReplyTypeOK, Bytes, Deaf
<1>1. CASE Rests
  <2>1. broken' = broken /\ heard' \in {heard, "none"} /\ Bytes' = Bytes /\ openings' = openings
    BY <1>1 DEF Rests
  <2>2. Seen(Bytes)' = Seen(Bytes)
    BY <2>1 DEF Seen, LastKind, LastBytes
  <2>3. pending' = pending
    BY <1>u, <2>1, <2>2
  <2>4. CASE heard' = heard
    BY <2>1, <2>3, <2>4 DEF Replies!queueVars
  <2>5. CASE heard' = "none"
    BY <2>1, <2>3, <2>5 DEF Replies!Heard, Replies!Next
  <2> QED BY <2>1, <2>4, <2>5
<1>2. CASE Measures
  <2>1. ~broken /\ broken' = broken /\ heard' = "none" /\ openings' = openings
    BY <1>2 DEF Measures
  <2>2. Seen(Bytes)' = Seen(Bytes)
    BY <1>2, SeenMeasured
  <2>3. Replies!Heard
    BY <1>u, <2>1, <2>2 DEF Replies!Heard
  <2> QED BY <2>3 DEF Replies!Next
<1>3. ASSUME NEW k \in Kinds, Enqueues(k) PROVE Replies!Send(k)
  <2>1. ~broken /\ broken' = broken /\ heard' = "none" /\ openings' = openings
    BY <1>3 DEF Enqueues
  <2>2. Seen(Bytes)' = Seen(Bytes) \o <<k>> /\ Seen(Bytes) \in Seq(Kinds)
    BY <1>3, SeenEnqueued
  <2>3. PICK q \in Seq(Kinds) : q = Seen(Bytes)
    BY <2>2
  <2>4. Append(q, k) = q \o <<k>>
    BY AppendIsConcat
  <2>5. pending = q /\ pending' = Append(q, k)
    BY <1>u, <2>1, <2>2, <2>3, <2>4
  <2> QED BY <2>1, <2>5 DEF Replies!Send
<1>4. ASSUME NEW k \in Kinds, Overflows(k) PROVE Replies!Overflow(k)
  <2>1. /\ ~broken /\ broken' = TRUE /\ heard' = "none" /\ openings' = openings
        /\ Len(send) + Size[k] > Capacity
    BY <1>4 DEF Overflows
  <2>2. Len(send) \in Nat /\ Len(waiting) \in Nat /\ Len(Bytes) = Len(waiting) + Len(send)
    BY DEF ReplyTypeOK, Bytes
  <2>3. Total(UnderWay, Size) = Len(Bytes) + (IF need = -1 THEN 0 ELSE 1)
    BY <1>u, <2>1, QueueWeight
  <2>4. Size[k] \in Nat /\ Capacity \in Nat
    BY Sizes
  <2>5. Total(UnderWay, Size) + Size[k] > Capacity
    BY <1>0, <2>1, <2>2, <2>3, <2>4
  <2>6. pending = UnderWay /\ pending' = << >>
    BY <2>1
  <2>7. Replies!Total(pending, Size) + Size[k] > Capacity
    BY <2>5, <2>6, SameTotal
  <2> QED BY <2>1, <2>6, <2>7 DEF Replies!Overflow
<1>5. ASSUME NEW k \in Kinds, Hears(k) PROVE Replies!Hear
  <2>1. ~broken /\ broken' = broken /\ heard' = k /\ openings' = openings
    BY <1>5 DEF Hears
  <2>2. Seen(Bytes) = <<k>> \o Seen(Bytes)' /\ Seen(Bytes)' \in Seq(Kinds)
    BY <1>5, SeenHeard
  <2>3. PICK q \in Seq(Kinds) : q = Seen(Bytes)'
    BY <2>2
  <2>4. <<k>> \o q # << >> /\ Head(<<k>> \o q) = k /\ Tail(<<k>> \o q) = q
    OBVIOUS
  <2>5. pending = <<k>> \o q /\ pending' = q
    BY <1>u, <2>1, <2>2, <2>3
  <2> QED BY <2>1, <2>4, <2>5 DEF Replies!Hear
<1>6. ASSUME NEW n \in 0 .. Len(Bytes), Resumes(n) PROVE Replies!Reopen
  <2>1. /\ ~broken /\ broken' = broken /\ heard' = "none" /\ openings' = openings + 1
        /\ Bytes' = SubSeq(Bytes, n + 1, Len(Bytes))
    BY <1>6 DEF Resumes
  <2>2. PICK B \in Seq(Byte) : B = Bytes
    BY <1>0
  <2>3. PICK m \in 0 .. Len(B) : m = n
    BY <2>2
  <2>4. PICK x \in Seq(Byte), y \in Seq(Byte) : Parts(B, m, x, y)
    BY Split
  <2>5. B = x \o y /\ y = SubSeq(B, m + 1, Len(B))
    BY <2>4 DEF Parts
  <2>6. Seen(B) = Seen(x) \o Seen(y) /\ Seen(x) \in Seq(Kinds) /\ Seen(y) \in Seq(Kinds)
    BY <2>5, SeenConcat
  <2>7. PICK p \in Seq(Kinds), q \in Seq(Kinds) : p = Seen(x) /\ q = Seen(y)
    BY ONLY <2>6, Zenon
  <2>8. Len(p) \in 0 .. Len(p \o q)
    BY PrefixOfConcat
  <2>9. q = SubSeq(p \o q, Len(p) + 1, Len(p \o q))
    BY SuffixOfConcat
  <2>10. Bytes' = y
    BY <2>1, <2>2, <2>3, <2>5
  <2>11. Seen(Bytes)' = Seen(y)
    BY <2>10 DEF Seen, LastKind, LastBytes
  <2>12. pending = p \o q /\ pending' = q
    BY <1>u, <2>1, <2>2, <2>6, <2>7, <2>11
  <2>13. \E l \in 0 .. Len(pending) : pending' = SubSeq(pending, l + 1, Len(pending))
    <3> HIDE DEF pending
    <3> QED BY <2>8, <2>9, <2>12
  <2> QED BY <2>1, <2>13 DEF Replies!Reopen
<1>7. CASE Breaks
  <2>1. ~broken /\ broken' = TRUE /\ Bytes # << >> /\ heard' = "none" /\ openings' = openings + 1
    BY <1>7 DEF Breaks
  <2>2. Total(Seen(Bytes), Size) = Len(Bytes) + (IF need = -1 THEN 0 ELSE 1)
    BY <2>1, QueueWeight
  <2>3. Total(Seen(Bytes), Size) # 0
    BY <1>0, <2>1, <2>2
  <2>4. Total(<< >>, Size) = 0
    BY ReplyAssumption, TotalEmpty
  <2>5. pending # << >> /\ pending' = << >>
    BY <1>u, <2>1, <2>3, <2>4
  <2>6. Replies!Break
    BY <2>1, <2>5 DEF Replies!Break
  <2> QED BY <2>6 DEF Replies!Next
<1>8. CASE Falters
  <2>1. /\ broken = TRUE /\ broken' = TRUE
        /\ heard' \in Kinds \cup {"none"} /\ openings' \in {openings, openings + 1}
    BY <1>8 DEF Falters
  <2>2. pending = << >> /\ pending' = << >>
    BY <2>1
  <2>3. Replies!Garbled
    BY <2>1, <2>2 DEF Replies!Garbled, Kinds
  <2> QED BY <2>3 DEF Replies!Next
<1> QED
  <2>1. ASSUME NEW k \in Kinds, Replies!Send(k) \/ Replies!Overflow(k) PROVE Replies!Next
    BY <2>1 DEF Replies!Next, Kinds
  <2>2. ASSUME Replies!Hear \/ Replies!Reopen \/ Replies!Break PROVE Replies!Next
    BY <2>2 DEF Replies!Next
  <2> HIDE DEF pending
  <2> QED BY <1>1, <1>2, <1>3, <1>4, <1>5, <1>6, <1>7, <1>8, <2>1, <2>2, LinkEffects, Zenon

(* The sending side of the link does what ReplyQueue promises: the host    *)
(* hears the replies of the device once each and in order, and nothing     *)
(* else; replies are lost only when the port is opened, the oldest ones    *)
(* first; and the link breaks only when more bytes are under way than the  *)
(* send buffer holds or the port is opened with a reply under way.         *)
THEOREM RepliesRefined == Spec => Replies!Safety
<1>1. Init => Replies!Init
  <2> SUFFICES ASSUME Init PROVE Replies!Init
    OBVIOUS
  <2>1. UnderWay = << >>
    BY QueueInvInit
  <2> QED BY <2>1 DEF Init, ReplyInit, Replies!Init
<1>2. TypeInv => ReplyTypeOK
  BY DEF TypeInv, TelemetryTypeOK
<1>3. TypeInv /\ LinkInv /\ QueueInv /\ [Next]_vars => QueueInv'
  BY <1>2, TypeInvNext, QueueKept DEF TypeInv, TelemetryTypeOK
<1>4. TypeInv /\ LinkInv /\ QueueInv /\ [Next]_vars => [Replies!Next]_(Replies!queueVars)
  BY <1>2, TypeInvNext, ReplyStep DEF TypeInv, TelemetryTypeOK
<1> QED BY <1>1, <1>3, <1>4, LinkCorrect, QueueInvInit, PTL DEF Spec, Replies!Safety
=============================================================================
