---------------------------- MODULE HostProgram -----------------------------
(***************************************************************************)
(* The threads of serial_monitor_joy.py: the window, the reading threads   *)
(* of SerialPort, and the two threads of the game pad.  event_thread       *)
(* records the rates, process_callbacks hands them to GamePadCallback      *)
(* while it holds both mutexes, and GamePadCallback works on the widgets   *)
(* of the window, for which tkinter makes it wait until the window's       *)
(* thread is in its event loop.  The window repeats the last command       *)
(* before the device's timeout, so two threads fill in the same entries.   *)
(*                                                                         *)
(* The rates are numbered: a number stands for a pair of a linear and an   *)
(* angular rate, so that a command made of two different numbers is one    *)
(* the pad never gave.                                                     *)
(***************************************************************************)
EXTENDS SerialPort

CONSTANTS MaxEvents,    \* bound: movements of the pad
          MaxActivity   \* bound: movements of the pad and openings of the port

ASSUME EventAssumption == MaxEvents \in Nat /\ MaxActivity \in Nat

Rates == 0 .. MaxEvents
Nobody == "nobody"

VARIABLES is_running,     \* of the game pad
          rate,           \* lin_vel and ang_vel
          changed,
          rate_mutex,     \* who holds it
          list_mutex,     \* callback_list_mutex: who holds it
          callbacks,      \* times GamePadCallback is in cbk_list
          cb,             \* where process_callbacks is
          calls,          \* callbacks of this round still to be called
          entry,          \* the entries of the window: linear, angular, readable?
          info,           \* game_pad_last_send_info
          first_rate,     \* the first argument of a repetition, already read
          first_arg,      \* the linear rate that send has read from its entry
          repeating,      \* update_gui is still scheduled
          leaving,        \* close_window is being executed
          told,           \* history: the rates handed to the callbacks last
          sent,           \* history: the 'V' written last
          outdated,       \* history: a repetition put older rates into this callback's entries
          raced           \* history: info was changed in the middle of a repetition, or the
                          \* next repetition replaced such older rates within the callback

padVars == <<is_running, rate, changed>>
mutexVars == <<rate_mutex, list_mutex>>
cbVars == <<cb, calls, told>>
windowVars == <<gui, joining, first_rate, repeating, leaving>>
commandVars == <<entry, info, first_arg, sent, outdated, raced>>
vars == <<isRun, thread, serialConnection, closed, reader, gui, joining, is_running, rate, changed,
          rate_mutex, list_mutex, callbacks, cb, calls, entry, info, first_rate, first_arg,
          repeating, leaving, told, sent, outdated, raced>>

Unset == <<-1, -1>>

Init ==
  /\ PortInit /\ gui = "idle"
  /\ is_running = TRUE /\ rate = 0 /\ changed = TRUE
  /\ rate_mutex = Nobody /\ list_mutex = Nobody /\ callbacks = 0
  /\ cb = "sleep" /\ calls = 0
  /\ entry = <<-1, -1, TRUE>> /\ info = Unset /\ first_rate = -1 /\ first_arg = -1
  /\ repeating = TRUE /\ leaving = FALSE
  /\ told = 0 /\ sent = Unset /\ outdated = FALSE /\ raced = FALSE

-----------------------------------------------------------------------------
(* event_thread.                                                           *)

Mut_Event ==
  /\ is_running /\ rate < MaxEvents /\ rate + serialConnection < MaxActivity
  /\ rate' = rate + 1 /\ changed' = TRUE
  /\ UNCHANGED <<portVars, windowVars, is_running, mutexVars, callbacks, cbVars, commandVars>>
Event ==
  /\ is_running /\ rate_mutex = Nobody
  /\ rate < MaxEvents /\ rate + serialConnection < MaxActivity
  /\ rate' = rate + 1 /\ changed' = TRUE
  /\ UNCHANGED <<portVars, windowVars, is_running, mutexVars, callbacks, cbVars, commandVars>>

PadError ==
  /\ is_running /\ is_running' = FALSE
  /\ UNCHANGED <<portVars, windowVars, rate, changed, mutexVars, callbacks, cbVars, commandVars>>

-----------------------------------------------------------------------------
(* process_callbacks.                                                      *)

TakeRateMutex ==
  /\ cb = "sleep" /\ is_running /\ changed
  /\ rate_mutex = Nobody /\ rate_mutex' = "cb"
  /\ cb' = "list"
  /\ UNCHANGED <<portVars, windowVars, padVars, list_mutex, callbacks, calls, told, commandVars>>

TakeListMutex ==
  /\ cb = "list"
  /\ list_mutex = Nobody /\ list_mutex' = "cb"
  /\ cb' = "call" /\ calls' = callbacks
  /\ told' = rate
  /\ UNCHANGED <<portVars, windowVars, padVars, rate_mutex, callbacks, commandVars>>

(* Every callback has been called.                                         *)
Mut_FinishRound ==
  /\ cb = "call" /\ calls = 0
  /\ rate_mutex' = Nobody
  /\ changed' = FALSE /\ cb' = "sleep"
  /\ UNCHANGED <<portVars, windowVars, is_running, rate, list_mutex, callbacks, calls, told, commandVars>>
FinishRound ==
  /\ cb = "call" /\ calls = 0
  /\ rate_mutex' = Nobody /\ list_mutex' = Nobody
  /\ changed' = FALSE /\ cb' = "sleep"
  /\ UNCHANGED <<portVars, windowVars, is_running, rate, callbacks, calls, told, commandVars>>

EndCallbacks ==
  /\ cb = "sleep" /\ ~is_running /\ cb' = "done"
  /\ UNCHANGED <<portVars, windowVars, padVars, mutexVars, callbacks, calls, told, commandVars>>

(* An exception in a callback releases the mutexes and ends the thread.    *)
CallbackRaises ==
  /\ rate_mutex' = Nobody /\ list_mutex' = Nobody
  /\ cb' = "dead" /\ calls' = 0
  /\ first_arg' = -1 /\ outdated' = FALSE
  /\ UNCHANGED <<entry, info, sent, raced>>

-----------------------------------------------------------------------------
(* GamePadCallback in the thread of process_callbacks.                     *)

NextCall ==
  /\ calls' = calls - 1 /\ cb' = "call"
  /\ first_arg' = -1 /\ outdated' = FALSE
  /\ UNCHANGED <<mutexVars, entry, info, raced>>

Call ==
  /\ cb = "call" /\ calls > 0
  /\ IF isRun THEN cb' = "fill" /\ UNCHANGED <<mutexVars, calls, commandVars>>
              ELSE NextCall /\ UNCHANGED sent
  /\ UNCHANGED <<portVars, windowVars, padVars, callbacks, told>>

(* A call on a widget is carried out by the window when it is idle.        *)
InWindow == gui = "idle"

(* The entries are cleared and the first ones filled ...                   *)
FillFirst ==
  /\ cb = "fill" /\ InWindow /\ cb' = "fill2"
  /\ entry' = <<told, -1, TRUE>>
  /\ UNCHANGED <<mutexVars, calls, info, first_arg, sent, outdated, raced>>

(* ... and the others: after what a repetition put there in between, which *)
(* leaves two numbers in one entry.                                        *)
Mut_FillRest ==
  /\ cb = "fill2" /\ InWindow /\ cb' = "info"
  /\ entry' = <<entry[1], told, entry[3]>>
  /\ UNCHANGED <<mutexVars, calls, info, first_arg, sent, outdated, raced>>
FillRest ==
  /\ cb = "fill2" /\ InWindow /\ cb' = "info"
  /\ entry' = IF entry[2] = -1 THEN <<entry[1], told, entry[3]>>
                               ELSE <<entry[1], told, FALSE>>
  /\ UNCHANGED <<mutexVars, calls, info, first_arg, sent, outdated, raced>>

Mut_SetInfo ==
  /\ cb = "info" /\ cb' = "send"
  /\ info' = IF info = Unset THEN <<told, told>> ELSE info
  /\ raced' = (raced \/ (gui \in {"repeat", "repeat2"} /\ info # <<told, told>>))
  /\ UNCHANGED <<mutexVars, calls, entry, first_arg, sent, outdated>>
SetInfo ==
  /\ cb = "info" /\ cb' = "send"
  /\ info' = <<told, told>>
  /\ raced' = (raced \/ (gui \in {"repeat", "repeat2"} /\ info # <<told, told>>))
  /\ UNCHANGED <<mutexVars, calls, entry, first_arg, sent, outdated>>

(* send takes the entries from the window one by one: the linear rate ...  *)
SendFirst ==
  /\ cb = "send" /\ InWindow /\ cb' = "send2"
  /\ first_arg' = entry[1]
  /\ UNCHANGED <<mutexVars, calls, entry, info, sent, outdated, raced>>

(* ... and the others, and writes.  An unreadable entry is refused by      *)
(* write, as is a connection that is down; one that is down unnoticed      *)
(* raises an exception.                                                    *)
SendRest ==
  /\ cb = "send2" /\ InWindow
  /\ \/ isRun /\ entry[3] /\ Usable /\ sent' = <<first_arg, entry[2]>> /\ NextCall
     \/ ~(isRun /\ entry[3]) /\ UNCHANGED sent /\ NextCall
     \/ isRun /\ entry[3] /\ CallbackRaises

(* The window is gone, and its widgets with it.                            *)
NoWindow == cb \in {"fill", "fill2", "send", "send2"} /\ gui = "gone" /\ CallbackRaises

GamePadCallback ==
  /\ FillFirst \/ FillRest \/ SetInfo \/ SendFirst \/ SendRest \/ NoWindow
  /\ UNCHANGED <<portVars, windowVars, padVars, callbacks, told>>

-----------------------------------------------------------------------------
(* The window: connectToSerial.                                            *)

othersVars == <<padVars, mutexVars, cbVars, commandVars, first_rate, repeating>>

PressConnect ==
  /\ gui = "idle"
  /\ gui' = IF isRun THEN "close" ELSE "open"
  /\ UNCHANGED <<portVars, joining, leaving, callbacks, othersVars>>

OpenOrClose ==
  /\ OpenPort \/ readSerialStart \/ ClosePort
  /\ rate + serialConnection' <= MaxActivity
  /\ UNCHANGED <<leaving, callbacks, othersVars>>

(* The exception of close is caught here, and not in close_window.         *)
CloseRaised ==
  /\ gui = "error"
  /\ gui' = IF leaving THEN "idle" ELSE "after"
  /\ leaving' = FALSE
  /\ UNCHANGED <<portVars, joining, callbacks, othersVars>>

(* rm_callback of a callback that was never added raises a ValueError,     *)
(* which tkinter reports.                                                  *)
Mut_Callbacks ==
  /\ gui = "after" /\ ~leaving
  /\ gui' = IF isRun THEN "idle" ELSE "rm"
  /\ UNCHANGED <<portVars, joining, leaving, callbacks, othersVars>>
Callbacks ==
  /\ gui = "after" /\ ~leaving
  /\ gui' = IF isRun THEN "add" ELSE "rm"
  /\ UNCHANGED <<portVars, joining, leaving, callbacks, othersVars>>

add_callback ==
  /\ gui = "add" /\ list_mutex = Nobody
  /\ callbacks' = callbacks + 1
  /\ gui' = "idle"
  /\ UNCHANGED <<portVars, joining, leaving, othersVars>>

rm_callback ==
  /\ gui = "rm" /\ list_mutex = Nobody
  /\ callbacks' = IF callbacks = 0 THEN 0 ELSE callbacks - 1
  /\ gui' = "idle"
  /\ UNCHANGED <<portVars, joining, leaving, othersVars>>

-----------------------------------------------------------------------------
(* The window: update_gui repeats the command, and close_window.           *)

(* The command is due again, and its two arguments are read one by one.    *)
Repeat ==
  /\ gui = "idle" /\ repeating /\ info # Unset
  /\ first_rate' = info[1]
  /\ gui' = "repeat"
  /\ UNCHANGED <<portVars, joining, repeating, leaving, padVars, mutexVars, callbacks, cbVars,
                 commandVars>>

(* GamePadCallback has entries of its own to be sent.                      *)
Filled == cb \in {"fill2", "info", "send", "send2"}

RepeatFill ==
  /\ gui = "repeat"
  /\ \/ /\ isRun /\ gui' = "repeat2"
        /\ entry' = <<first_rate, info[2], TRUE>>
        /\ outdated' = (Filled /\ first_rate # told)
        /\ raced' = (raced \/ (outdated /\ first_rate = told))
        /\ UNCHANGED first_rate
     \/ /\ ~isRun /\ gui' = "idle" /\ first_rate' = -1
        /\ UNCHANGED <<entry, outdated, raced>>
  /\ UNCHANGED <<portVars, joining, repeating, leaving, padVars, mutexVars, callbacks, cbVars,
                 info, first_arg, sent>>

(* A write that fails ends update_gui before it schedules itself again.    *)
RepeatSend ==
  /\ gui = "repeat2" /\ gui' = "idle"
  /\ info' = <<entry[1], entry[2]>>
  /\ first_rate' = -1
  /\ \/ isRun /\ Usable /\ sent' = <<entry[1], entry[2]>> /\ UNCHANGED repeating
     \/ ~isRun /\ UNCHANGED <<sent, repeating>>
     \/ isRun /\ repeating' = FALSE /\ UNCHANGED sent
  /\ UNCHANGED <<portVars, joining, leaving, padVars, mutexVars, callbacks, cbVars, entry,
                 first_arg, outdated, raced>>

Mut_close_window ==
  /\ gui = "idle" /\ gui' = "close"
  /\ leaving' = TRUE
  /\ UNCHANGED <<portVars, joining, first_rate, repeating, padVars, mutexVars, callbacks,
                 cbVars, commandVars>>
close_window ==
  /\ gui = "idle" /\ gui' = "close"
  /\ is_running' = FALSE /\ leaving' = TRUE
  /\ UNCHANGED <<portVars, joining, first_rate, repeating, rate, changed, mutexVars, callbacks,
                 cbVars, commandVars>>

Destroy ==
  /\ gui = "after" /\ leaving /\ gui' = "gone"
  /\ UNCHANGED <<portVars, joining, leaving, callbacks, othersVars>>

-----------------------------------------------------------------------------
Window == \/ OpenOrClose \/ CloseRaised \/ Callbacks \/ Destroy
          \/ RepeatFill \/ RepeatSend

ChangeCallbacks == add_callback \/ rm_callback

Process == TakeRateMutex \/ TakeListMutex \/ FinishRound \/ EndCallbacks \/ Call \/ GamePadCallback

Read(c) == ReaderStep(c) /\ UNCHANGED <<leaving, callbacks, othersVars>>

Next == \/ Event \/ PadError
        \/ Process
        \/ PressConnect \/ close_window \/ Repeat \/ Window \/ ChangeCallbacks
        \/ \E c \in Connections : \/ Read(c)
                                  \/ Unplugged(c) /\ UNCHANGED <<leaving, callbacks, othersVars>>

(* Every thread runs; whoever waits for a mutex or for the event loop gets *)
(* it if it is free again and again; update_gui's timer fires.             *)
Spec == /\ Init /\ [][Next]_vars
        /\ SF_vars(Process) /\ WF_vars(Window) /\ SF_vars(ChangeCallbacks) /\ SF_vars(Repeat)
        /\ \A c \in Connections : WF_vars(Read(c))

-----------------------------------------------------------------------------
(* Properties.                                                             *)

Pairs == (Rates \X Rates) \cup {Unset}

Fields == Rates \cup {-1}

PlacesOK ==
  /\ gui \in {"idle", "open", "make", "run", "start", "close", "join", "joining", "error", "after",
              "add", "rm", "repeat", "repeat2", "gone"}
  /\ cb \in {"sleep", "list", "call", "fill", "fill2", "info", "send", "send2", "done", "dead"}
  /\ rate_mutex \in {Nobody, "cb"} /\ list_mutex \in {Nobody, "cb"}

BitsOK ==
  /\ is_running \in BOOLEAN /\ changed \in BOOLEAN
  /\ repeating \in BOOLEAN /\ leaving \in BOOLEAN
  /\ outdated \in BOOLEAN /\ raced \in BOOLEAN

RatesOK ==
  /\ rate \in Rates /\ told \in Rates /\ sent \in Pairs /\ info \in Pairs
  /\ entry \in Fields \X Fields \X BOOLEAN /\ first_rate \in Fields /\ first_arg \in Fields

CallsOK == callbacks \in 0 .. MaxConnects /\ calls \in 0 .. callbacks

HostTypeOK == PortTypeOK /\ PlacesOK /\ BitsOK /\ RatesOK /\ CallsOK

(* The rates the pad gave last are those the callbacks were told, unless   *)
(* `changed' says that they are still to be told.                           *)
NoRateForgotten == (~changed /\ cb = "sleep") => told = rate

(* A connection that is up has the pad attached to it.                     *)
PadAttached == (isRun /\ gui = "idle") => callbacks > 0

(* No 'V' is put together from two commands, though two threads fill in    *)
(* and read the same entries.  Two exceptions: a repetition during which   *)
(* process_callbacks changes game_pad_last_send_info, and two repetitions, *)
(* of the command before and of the new one, between the filling in and    *)
(* the writing of one callback, which the window has to keep waiting for   *)
(* half the timeout.                                                       *)
NoMixedCommand == raced \/ sent[1] = sent[2]

(* The circle of waits: the window waits for the list of callbacks, whose  *)
(* holder waits for the window.                                            *)
Stuck == gui \in {"add", "rm"} /\ list_mutex = "cb" /\ cb \in {"fill", "fill2", "send", "send2"}

(* The window always comes back to its event loop, joins and mutexes       *)
(* included, unless it is caught in that circle.                           *)
WindowResponds == []<>(gui \in {"idle", "gone"}) \/ <>[]Stuck

(* Rates told while the connection is up are written, if need be by the    *)
(* repetition after an unreadable first attempt.                           *)
RatesReachDevice ==
  (cb = "send") ~> (\/ sent = <<told, told>> \/ ~isRun \/ raced \/ ~repeating
                    \/ cb = "dead" \/ Stuck \/ leaving)

(* Closing the window ends process_callbacks and every reading thread, so  *)
(* that the program exits (event_thread ends at the pad's next event, and  *)
(* is not part of the conclusion).                                         *)
ProgramEnds == (gui = "gone") ~> (cb \in {"done", "dead"} /\ \A c \in Connections : Ended(c))
=============================================================================
