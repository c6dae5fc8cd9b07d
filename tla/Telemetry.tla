----------------------------- MODULE Telemetry ------------------------------
(***************************************************************************)
(* The reports of the device: the commands that ask for them, the handlers *)
(* of main's loop that send them, the battery task, and the serial link    *)
(* that carries them to the host.                                          *)
(*                                                                         *)
(* A report is asked for once (duration -1, always due) or periodically;   *)
(* when a periodic flag falls due is left open, see Timing.  Three reports *)
(* need more than one iteration of the loop: the time to send a float      *)
(* waits for an empty send buffer, the loop time and the two sides of the  *)
(* proximity sensor take a first half in one iteration and the second in   *)
(* the next.                                                               *)
(***************************************************************************)
EXTENDS ReplyStream

CONSTANTS Reports     \* the reports the host asks for, and "low_battery"

Order == <<"send_time", "time_float_send", "loop_timer", "send_encoder", "send_battery",
           "low_battery", "sys_data", "ir_proximity">>

(* The places of the handlers after the i-th; the one that follows.        *)
Later(i) == {j \in i + 1 .. Len(Order) : Order[j] \in Reports}
Following == [i \in 0 .. Len(Order) |->
                IF Later(i) = {} THEN "upkeep"
                ELSE Order[CHOOSE j \in Later(i) : \A l \in Later(i) : j <= l]]

InTwoHalves == {"loop_timer", "ir_proximity"}
Asked == Reports \ {"low_battery"}

ASSUME TelemetryAssumption ==
  /\ Reports \subseteq {Order[i] : i \in DOMAIN Order} /\ Reports # {}
  /\ Reports \cup {"float", "answer"} \subseteq Kinds

VARIABLES pc,               \* the next call or handler of main's loop; "restart"
                            \* if mf_restart is active
          active,           \* the flags whose .active is true
          periodic,         \* those whose .duration is positive
          due,              \* the periodic ones found due and not triggered anew
          tripped,          \* trip of the two times, ~proxy_first: a half is done
          gap,              \* history: iterations since an undisturbed first half, up to 2
          disturbed         \* history: halves between which the flag was changed

flagVars == <<active, periodic, due>>
halfVars == <<tripped, gap, disturbed>>
vars == <<send, broken, waiting, need, heard, openings, pc, active, periodic, due, tripped,
          gap, disturbed>>

Init ==
  /\ ReplyInit
  /\ pc = "upkeep"
  /\ active = {} /\ periodic = {} /\ due = {}
  /\ tripped = {} /\ gap = [f \in InTwoHalves \cap Reports |-> 0] /\ disturbed = {}

-----------------------------------------------------------------------------
(* Message_Handling_Task.                                                  *)

(* Changing a flag between its halves takes them apart.                    *)
Disturb(f) == disturbed' = disturbed \cup ({f} \cap tripped \cap InTwoHalves)

(* 't', 'e', 'b', 'q' and 'i'.                                             *)
Request(f) ==
  /\ active' = active \cup {f}
  /\ periodic' = periodic \ {f} /\ due' = due \ {f}
  /\ UNCHANGED <<send, broken, halfVars>>

(* 'T', 'E', 'B', 'Q' and 'I' with a positive duration, which may be a     *)
(* longer one than before.                                                 *)
Subscribe(f) ==
  /\ active' = active \cup {f}
  /\ periodic' = periodic \cup {f} /\ due' = due \ {f}
  /\ Disturb(f)
  /\ UNCHANGED <<send, broken, tripped, gap>>

(* Arithmetic, a duration that is not positive, an unknown action.         *)
AnswerAtOnce ==
  /\ usb_send_msg("answer")
  /\ UNCHANGED <<flagVars, halfVars>>

(* '~' stays at the head of the receive buffer, and so may come again and  *)
(* again: see DriveControl.                                                *)
Command_restart ==
  /\ pc' = "restart"
  /\ UNCHANGED <<send, broken, flagVars, halfVars>>

NoCommand == UNCHANGED <<send, broken, flagVars, halfVars>>

Message_Handling_Task ==
  /\ pc = "msg"
  /\ \/ /\ pc' = "battery"
        /\ (\E f \in Asked : Request(f) \/ Subscribe(f)) \/ AnswerAtOnce \/ NoCommand
     \/ Command_restart
  /\ UNCHANGED hostVars

-----------------------------------------------------------------------------
(* The other calls and handlers of main's loop.                            *)

(* USB_Upkeep_Task: the sending endpoint is ready, or it is not.           *)
WriteByte ==
  /\ pc = "upkeep" /\ pc' = "msg"
  /\ usb_write_next_byte
  /\ UNCHANGED <<flagVars, halfVars>>

NotReady ==
  /\ pc = "upkeep" /\ pc' = "msg"
  /\ UNCHANGED <<replyVars, flagVars, halfVars>>

(* Message_Handling_Init forgets the flags and not the halves.             *)
Restart ==
  /\ pc = "restart" /\ pc' = "battery"
  /\ active' = {} /\ periodic' = {} /\ due' = {}
  /\ disturbed' = disturbed \cup (tripped \cap InTwoHalves)
  /\ UNCHANGED <<replyVars, tripped, gap>>

(* The battery task, if it is due: the voltage is low or it is not.  The   *)
(* duration of an inactive low_battery stays 1000; it is set with .active. *)
BatteryTask ==
  /\ pc = "battery" /\ pc' = Following[0]
  /\ \/ UNCHANGED flagVars
     \/ /\ "low_battery" \in Reports
        /\ active' = active \cup {"low_battery"} /\ periodic' = periodic \cup {"low_battery"}
        /\ UNCHANGED due
     \/ /\ active' = active \ {"low_battery"} /\ periodic' = periodic \ {"low_battery"}
        /\ UNCHANGED due
  /\ UNCHANGED <<replyVars, halfVars>>

(* Whether the duration of a periodic flag has elapsed is open; once it    *)
(* has, it stays so.                                                       *)
MSG_FLAG_Execute(f) == f \in active
MustExecute(f) == f \in active /\ (f \in periodic => f \in due)

Older == [f \in DOMAIN gap |-> IF f \in tripped \ disturbed /\ gap[f] < 2 THEN gap[f] + 1 ELSE gap[f]]

(* After the last handler the next iteration begins.                       *)
Proceed(f) ==
  /\ pc = f
  /\ \E i \in DOMAIN Order : Order[i] = f /\ pc' = Following[i]
  /\ UNCHANGED hostVars

Aged == IF pc' = "upkeep" THEN Older ELSE gap

(* A report is sent: a request is over, a periodic one starts anew.        *)
Mut_Answered(f) ==
  /\ usb_send_msg(f)
  /\ due' = due \ {f}
  /\ UNCHANGED <<active, periodic>>
Answered(f) ==
  /\ usb_send_msg(f)
  /\ active' = IF f \in periodic THEN active ELSE active \ {f}
  /\ due' = due \ {f}
  /\ UNCHANGED periodic

Skip(f) ==
  /\ Proceed(f) /\ ~MustExecute(f)
  /\ gap' = Aged
  /\ UNCHANGED <<send, broken, flagVars, tripped, disturbed>>

(* Time, encoder, battery, low battery and system data.                    *)
Report(f) ==
  /\ Proceed(f) /\ MSG_FLAG_Execute(f)
  /\ f \notin InTwoHalves \cup {"time_float_send"}
  /\ Answered(f)
  /\ gap' = Aged
  /\ UNCHANGED <<tripped, disturbed>>

Mut_FirstHalf(f) ==
  /\ Proceed(f) /\ MSG_FLAG_Execute(f)
  /\ f \in InTwoHalves /\ f \notin tripped
  /\ tripped' = tripped \cup {f}
  /\ gap' = [Aged EXCEPT ![f] = IF pc' = "upkeep" THEN 1 ELSE 0]
  /\ due' = due \ {f}
  /\ UNCHANGED <<send, broken, active, periodic, disturbed>>
FirstHalf(f) ==
  /\ Proceed(f) /\ MSG_FLAG_Execute(f)
  /\ f \in InTwoHalves /\ f \notin tripped
  /\ tripped' = tripped \cup {f}
  /\ gap' = [Aged EXCEPT ![f] = IF pc' = "upkeep" THEN 1 ELSE 0]
  /\ due' = due \cup ({f} \cap periodic)
  /\ UNCHANGED <<send, broken, active, periodic, disturbed>>

SecondHalf(f) ==
  /\ Proceed(f) /\ MSG_FLAG_Execute(f)
  /\ f \in InTwoHalves /\ f \in tripped
  /\ Answered(f)
  /\ tripped' = tripped \ {f} /\ disturbed' = disturbed \ {f}
  /\ gap' = [Aged EXCEPT ![f] = 0]

SendFloat(f) ==
  /\ Proceed(f) /\ MSG_FLAG_Execute(f)
  /\ f = "time_float_send" /\ f \notin tripped
  /\ usb_send_msg("float")
  /\ tripped' = tripped \cup {f}
  /\ gap' = Aged
  /\ due' = due \cup ({f} \cap periodic)
  /\ UNCHANGED <<active, periodic, disturbed>>

(* Nothing is done until the float and all else has left the buffer.       *)
FloatPending(f) ==
  /\ Proceed(f) /\ MSG_FLAG_Execute(f)
  /\ f = "time_float_send" /\ f \in tripped /\ send # << >>
  /\ gap' = Aged
  /\ due' = due \cup ({f} \cap periodic)
  /\ UNCHANGED <<send, broken, active, periodic, tripped, disturbed>>

FloatSent(f) ==
  /\ Proceed(f) /\ MSG_FLAG_Execute(f)
  /\ f = "time_float_send" /\ f \in tripped /\ send = << >>
  /\ Answered(f)
  /\ tripped' = tripped \ {f}
  /\ gap' = Aged
  /\ UNCHANGED disturbed

Handle(f) == \/ Skip(f) \/ Report(f) \/ FirstHalf(f) \/ SecondHalf(f)
             \/ SendFloat(f) \/ FloatPending(f) \/ FloatSent(f)

Main == /\ \/ NotReady \/ WriteByte \/ Message_Handling_Task \/ Restart \/ BatteryTask
           \/ \E f \in Reports : Handle(f)
        /\ heard' = "none"

Host == backgroundThread /\ UNCHANGED <<pc, flagVars, halfVars>>

Open == Reopen /\ UNCHANGED <<pc, flagVars, halfVars>>

Next == Main \/ Host \/ Open

(* The loop never blocks, the host polls the endpoint again and again, its *)
(* reading thread runs, and a connection that is lost is opened again.     *)
Spec == /\ Init /\ [][Next]_vars
        /\ WF_vars(Main) /\ SF_vars(WriteByte /\ heard' = "none") /\ WF_vars(Host)

-----------------------------------------------------------------------------
(* Properties.                                                             *)

TelemetryTypeOK ==
  /\ ReplyTypeOK
  /\ pc \in Reports \cup {"upkeep", "msg", "restart", "battery"}
  /\ active \subseteq Reports /\ due \subseteq periodic /\ periodic \subseteq Reports
  /\ tripped \subseteq Reports /\ disturbed \subseteq tripped
  /\ gap \in [InTwoHalves \cap Reports -> 0 .. 2]

(* The two halves of a loop time or of a proximity report come from two    *)
(* successive iterations, so that the loop time is that of one loop and    *)
(* the sides belong together, unless a restart or a new duration took the  *)
(* halves apart.                                                           *)
HalvesAdjacent ==
  [][\A f \in InTwoHalves \cap tripped :
        (f \notin tripped' /\ f \notin disturbed) => gap[f] = 1]_vars

(* Every report that was asked for once is sent, unless the host asks for  *)
(* it periodically instead or restarts the device; only the time to send a *)
(* float may wait for ever, namely for a send buffer that main never finds *)
(* empty when it looks.                                                    *)
RequestsAnswered ==
  \A f \in Asked :
     \/ (f \in active \ periodic) ~> (f \notin active \ periodic)
     \/ f = "time_float_send" /\ <>[](pc = f => send # << >>)
=============================================================================
