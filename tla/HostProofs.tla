----------------------------- MODULE HostProofs -----------------------------
(***************************************************************************)
(* Theorems about the threads of the host program, for any number of       *)
(* connections and of movements of the game pad.                           *)
(***************************************************************************)
EXTENDS HostProgram, TLAPS

-----------------------------------------------------------------------------
(* The inductive invariant: the connection.                                *)

Opening == {"make", "run", "start"}
Joining == {"join", "joining"}

(* The reading threads have been made for connections that were opened,    *)
(* and self.thread is the newest one or None.                              *)
ThreadsInv ==
  /\ \A c \in Connections : c > serialConnection => reader[c] = "none"
  /\ thread <= serialConnection /\ joining <= serialConnection
  /\ gui # "make" => thread \in {None, serialConnection}
  /\ gui = "joining" => joining # None
  /\ gui \in Opening => serialConnection # None /\ reader[serialConnection] = "none"

(* Only readSerialStart sets isRun, after which the window has no business *)
(* in openPort, and close has reset it before it joins.                    *)
RunInv ==
  /\ isRun => serialConnection # None
  /\ gui \in {"open", "make", "run", "rm", "error"} \cup Joining => ~isRun

(* What isRun says of the newest reading thread.                           *)
ServedInv ==
  (isRun /\ gui \notin Opening) =>
     \/ reader[serialConnection] \notin {"none", "done"}
     \/ reader[serialConnection] = "none" /\ thread = None

(* self.thread is None: the connection is closed, or the thread that reset *)
(* it is about to close it.                                                *)
ClosingInv ==
  (gui # "make" /\ thread = None) => ~Usable \/ \E c \in Connections : reader[c] = "lost3"

(* isRun was reset by a reading thread: it is about to reset self.thread.  *)
LosingInv ==
  (gui \notin {"make", "run"} \cup Joining /\ ~isRun /\ thread # None) =>
     \E c \in Connections : reader[c] = "lost2"

PortInv == ThreadsInv /\ RunInv /\ ServedInv /\ ClosingInv /\ LosingInv

(* The callbacks and the mutexes.                                          *)

InRound == {"call", "fill", "fill2", "info", "send", "send2"}

(* process_callbacks holds both mutexes while it calls, and the rate one   *)
(* before; the rates it was told stay the latest ones meanwhile.           *)
MutexInv ==
  /\ rate_mutex = "cb" <=> cb \in InRound \cup {"list"}
  /\ list_mutex = "cb" <=> cb \in InRound
  /\ cb \in InRound => told = rate
  /\ cb \notin InRound => calls = 0
  /\ cb \in InRound \ {"call"} => calls > 0
  /\ cb = "sleep" /\ ~changed => told = rate

(* GamePadCallback is added after every opening that leaves isRun set, and *)
(* removed only when it is reset.                                          *)
AttachedInv ==
  /\ callbacks <= serialConnection
  /\ gui \in Opening \cup {"add"} => callbacks < serialConnection
  /\ gui = "after" /\ isRun => callbacks < serialConnection
  /\ isRun /\ gui \in {"idle", "repeat", "repeat2", "close"} => callbacks > 0

(* The entries of the window.                                              *)

Number(x) == x \in Rates

(* Where the two threads are in filling in the entries.                    *)
EntryInv ==
  /\ gui = "repeat" => Number(first_rate) /\ info # Unset
  /\ gui = "repeat2" => Number(entry[1]) /\ Number(entry[2])
  /\ cb \in {"fill2", "info", "send"} => Number(entry[1])
  /\ cb = "fill2" /\ entry[2] = -1 => entry[1] = told
  /\ cb \in {"info", "send", "send2"} => Number(entry[2])
  /\ cb = "send2" => Number(first_arg)

(* Before a race nothing that is sent is put together from two commands: a *)
(* repetition fills in what is in info, which is what the callback was     *)
(* told once it sends, and what the callback has read is what is in the    *)
(* entries, older rates only if a repetition put them there.               *)
WholeInv ==
  ~raced =>
     /\ sent[1] = sent[2] /\ info[1] = info[2]
     /\ gui = "repeat" => first_rate = info[1]
     /\ gui = "repeat2" => entry[1] = info[1] /\ entry[2] = info[2]
     /\ cb \in {"send", "send2"} => info[1] = told /\ info[2] = told
     /\ cb \in {"info", "send"} /\ entry[3] => entry[1] = entry[2]
     /\ cb \in {"fill2", "info", "send"} /\ ~outdated => entry[1] = told
     /\ cb = "send2" /\ ~outdated => first_arg = told
     /\ cb = "send2" /\ entry[3] => first_arg = entry[2]

HostInv == HostTypeOK /\ PortInv /\ MutexInv /\ AttachedInv /\ EntryInv /\ WholeInv

-----------------------------------------------------------------------------
(* The connection.                                                         *)

(* A step that leaves the connection alone and moves the window only       *)
(* between places outside readSerialStart and close.                       *)
LEMMA PortKept ==
  ASSUME PortInv, UNCHANGED <<isRun, thread, serialConnection, closed, reader, joining>>,
         \/ gui' = gui
         \/ /\ gui \notin Opening \cup Joining /\ gui' \notin Opening \cup Joining
            /\ gui' \in {"open", "rm", "error"} => ~isRun
  PROVE  PortInv'
<1>1. ThreadsInv'
  BY DEF PortInv, ThreadsInv, Opening, Joining
<1>2. RunInv'
  BY DEF PortInv, RunInv, Opening, Joining
<1>3. ServedInv'
  BY DEF PortInv, ServedInv, Opening, Joining
<1>4. ClosingInv'
  BY DEF PortInv, ClosingInv, Opening, Usable
<1>5. LosingInv'
  BY DEF PortInv, LosingInv, Opening, Joining
<1> QED BY <1>1, <1>2, <1>3, <1>4, <1>5 DEF PortInv

(* A reading thread that has been started belongs to a connection that was *)
(* opened, and the one that is being opened has none yet.                  *)
LEMMA Started ==
  ASSUME PortTypeOK, PortInv, NEW c \in Connections, reader[c] # "none"
  PROVE  /\ serialConnection \in Connections
         /\ c <= serialConnection
         /\ gui \in Opening => c # serialConnection
BY ConnectAssumption DEF PortTypeOK, PortInv, ThreadsInv, Connections, None

(* A reading thread.                                                       *)
LEMMA ReaderPort ==
  ASSUME PortTypeOK, PortInv, NEW c \in Connections, UNCHANGED <<gui, joining>>,
         \/ ReaderBegins(c) \/ ReaderEnds(c) \/ ReadFails(c)
         \/ Lost1(c) \/ Lost2(c) \/ Lost3(c)
  PROVE  PortTypeOK' /\ PortInv'
<1> DEFINE S == {"none", "init", "loop", "lost", "lost2", "lost3", "done", "dead"}
<1>1. PICK s \in S \ {"none"} :
         /\ reader' = [reader EXCEPT ![c] = s]
         /\ s = "done" => ~isRun
         /\ s \in {"lost2", "lost3"} \/ reader[c] \notin {"lost2", "lost3"} \/ Lost3(c)
  BY DEF ReaderBegins, ReaderEnds, ReadFails, Lost1, Lost2, Lost3
<1>2. reader[c] # "none" /\ reader \in [Connections -> S] /\ UNCHANGED serialConnection
  BY DEF ReaderBegins, ReaderEnds, ReadFails, Lost1, Lost2, Lost3, PortTypeOK
<1>3. /\ serialConnection \in Connections /\ c <= serialConnection
      /\ gui \in Opening => c # serialConnection
  BY <1>2, Started
<1>4. /\ isRun' \in BOOLEAN
      /\ isRun' => isRun
      /\ thread' \in {thread, None}
      /\ closed' \in {closed, closed \cup {serialConnection}}
  <2>1. isRun' = isRun \/ isRun' = FALSE
    BY DEF ReaderBegins, ReaderEnds, ReadFails, Lost1, Lost2, Lost3
  <2>2. isRun' \in BOOLEAN
    BY <2>1, Zenon DEF PortTypeOK
  <2>3. isRun' => isRun
    BY <2>1, Zenon
  <2>4. thread' \in {thread, None} /\ closed' \in {closed, closed \cup {serialConnection}}
    BY DEF ReaderBegins, ReaderEnds, ReadFails, Lost1, Lost2, Lost3
  <2> QED BY <2>2, <2>3, <2>4, Zenon
<1>5. PortTypeOK'
  <2>1. reader' \in [Connections -> S]
    BY <1>1, <1>2
  <2>2. thread' \in Connections \cup {None} /\ closed' \subseteq Connections
    BY <1>3, <1>4 DEF PortTypeOK
  <2>3. joining' \in Connections \cup {None} /\ serialConnection' \in Connections \cup {None}
    BY <1>2 DEF PortTypeOK
  <2> QED BY <1>4, <2>1, <2>2, <2>3 DEF PortTypeOK
<1>6. ThreadsInv'
  <2>1. \A x \in Connections : x > serialConnection => reader'[x] = "none"
    BY <1>1, <1>2, <1>3 DEF PortInv, ThreadsInv, PortTypeOK, Connections
  <2>2. thread' <= serialConnection
    BY <1>3, <1>4, ConnectAssumption DEF PortInv, ThreadsInv, Connections, None
  <2> QED BY <1>1, <1>2, <1>3, <1>4, <2>1, <2>2 DEF PortInv, ThreadsInv, None
<1>7. RunInv'
  BY <1>2, <1>4 DEF PortInv, RunInv
<1>8. ServedInv'
  BY <1>1, <1>2, <1>3, <1>4 DEF PortInv, ServedInv
<1>9. ClosingInv'
  <2>1. CASE Lost2(c)
    BY <1>2, <2>1 DEF Lost2, ClosingInv
  <2>2. CASE Lost3(c)
    BY <1>2, <2>2 DEF Lost3, ClosingInv, Usable
  <2>3. CASE ~Lost2(c) /\ ~Lost3(c)
    <3>1. UNCHANGED <<thread, closed, serialConnection, gui>> /\ reader[c] # "lost3"
      BY <2>3 DEF ReaderBegins, ReaderEnds, ReadFails, Lost1
    <3>2. \A x \in Connections : reader[x] = "lost3" => reader'[x] = "lost3"
      BY <1>1, <1>2, <3>1
    <3> QED BY <3>1, <3>2 DEF PortInv, ClosingInv, Usable
  <2> QED BY <2>1, <2>2, <2>3
<1>10. LosingInv'
  <2>1. CASE Lost1(c)
    BY <1>2, <2>1 DEF Lost1, LosingInv
  <2>2. CASE Lost2(c)
    BY <2>2 DEF Lost2, LosingInv
  <2>3. CASE ~Lost1(c) /\ ~Lost2(c)
    <3>1. UNCHANGED <<isRun, thread, gui>> /\ reader[c] # "lost2"
      BY <2>3 DEF ReaderBegins, ReaderEnds, ReadFails, Lost3
    <3>2. \A x \in Connections : reader[x] = "lost2" => reader'[x] = "lost2"
      BY <1>1, <1>2, <3>1
    <3> QED BY <3>1, <3>2 DEF PortInv, LosingInv
  <2> QED BY <2>1, <2>2, <2>3
<1> QED BY <1>5, <1>6, <1>7, <1>8, <1>9, <1>10 DEF PortInv

(* openPort.                                                               *)
LEMMA OpenPortInv ==
  ASSUME PortTypeOK, PortInv, OpenPort
  PROVE  PortTypeOK' /\ PortInv'
<1>1. gui = "open" /\ ~isRun /\ UNCHANGED <<isRun, thread, reader, joining>>
  BY DEF OpenPort, PortInv, RunInv
<1>2. CASE gui' = "after" /\ UNCHANGED <<serialConnection, closed>>
  <2>1. PortInv'
    BY <1>1, <1>2, PortKept DEF Opening, Joining
  <2> QED BY <1>1, <1>2, <2>1 DEF PortTypeOK
<1>3. CASE /\ serialConnection < MaxConnects
           /\ serialConnection' = serialConnection + 1
           /\ closed' = closed \cup ({serialConnection} \ {None})
           /\ gui' = "make"
  <2>1. serialConnection \in 0 .. MaxConnects /\ serialConnection' \in 1 .. MaxConnects
    BY <1>3, ConnectAssumption DEF PortTypeOK, Connections, None
  <2>2. PortTypeOK'
    BY <1>1, <1>3, <2>1 DEF PortTypeOK, Connections, None
  <2>3. ThreadsInv'
    <3>1. thread \in Int /\ joining \in Int
      BY ConnectAssumption DEF PortTypeOK, Connections, None
    <3> QED BY <1>1, <1>3, <2>1, <3>1, ConnectAssumption
            DEF PortInv, ThreadsInv, Connections, None
  <2>4. RunInv' /\ ServedInv' /\ ClosingInv' /\ LosingInv'
    BY <1>1, <1>3 DEF RunInv, ServedInv, ClosingInv, LosingInv
  <2> QED BY <2>2, <2>3, <2>4 DEF PortInv
<1> QED BY <1>2, <1>3 DEF OpenPort

(* readSerialStart.                                                        *)
LEMMA ReadSerialStartInv ==
  ASSUME PortTypeOK, PortInv, readSerialStart
  PROVE  PortTypeOK' /\ PortInv'
<1>1. CASE MakeThread
  <2>1. /\ gui = "make" /\ gui' = "run" /\ thread' = serialConnection
        /\ UNCHANGED <<isRun, serialConnection, closed, reader, joining>>
        /\ ~isRun /\ serialConnection # None
    BY <1>1 DEF MakeThread, PortInv, RunInv, ThreadsInv, Opening
  <2>2. PortTypeOK'
    BY <2>1 DEF PortTypeOK
  <2>3. ThreadsInv'
    BY <2>1, ConnectAssumption DEF PortInv, ThreadsInv, Opening, PortTypeOK, Connections, None
  <2>4. RunInv' /\ ServedInv' /\ ClosingInv' /\ LosingInv'
    BY <2>1 DEF RunInv, ServedInv, ClosingInv, LosingInv
  <2> QED BY <2>2, <2>3, <2>4 DEF PortInv
<1>2. CASE SetRun
  <2>1. /\ gui = "run" /\ gui' = "start" /\ isRun' = TRUE
        /\ UNCHANGED <<thread, serialConnection, closed, reader, joining>>
    BY <1>2 DEF SetRun
  <2>2. PortTypeOK'
    BY <2>1 DEF PortTypeOK
  <2>3. ThreadsInv'
    BY <2>1 DEF PortInv, ThreadsInv, Opening
  <2>4. RunInv' /\ ServedInv' /\ LosingInv'
    BY <2>1 DEF PortInv, ThreadsInv, RunInv, ServedInv, LosingInv, Opening, Joining
  <2>5. ClosingInv'
    BY <2>1 DEF PortInv, ClosingInv, Usable
  <2> QED BY <2>2, <2>3, <2>4, <2>5 DEF PortInv
<1>3. CASE StartThread
  <2>1. /\ gui = "start" /\ gui' = "after"
        /\ reader' = IF thread = None THEN reader ELSE [reader EXCEPT ![thread] = "init"]
        /\ UNCHANGED <<isRun, thread, serialConnection, closed, joining>>
    BY <1>3 DEF StartThread
  <2>2. /\ serialConnection \in Connections /\ reader[serialConnection] = "none"
        /\ thread \in {None, serialConnection}
    BY <2>1 DEF PortInv, ThreadsInv, Opening, PortTypeOK
  <2>3. PortTypeOK'
    BY <2>1, <2>2 DEF PortTypeOK
  <2>4. ThreadsInv'
    BY <2>1, <2>2 DEF PortInv, ThreadsInv, Opening, PortTypeOK, Connections
  <2>5. RunInv'
    BY <2>1 DEF PortInv, RunInv, Joining
  <2>6. ServedInv'
    BY <2>1, <2>2 DEF ServedInv, PortTypeOK
  <2>7. \A x \in Connections : reader[x] \in {"lost2", "lost3"} => reader'[x] = reader[x]
    BY <2>1, <2>2 DEF PortTypeOK
  <2>8. ClosingInv'
    BY <2>1, <2>7 DEF PortInv, ClosingInv, Usable
  <2>9. LosingInv'
    BY <2>1, <2>7 DEF PortInv, LosingInv, Joining
  <2> QED BY <2>3, <2>4, <2>5, <2>6, <2>8, <2>9 DEF PortInv
<1> QED BY <1>1, <1>2, <1>3 DEF readSerialStart

(* close.                                                                  *)
LEMMA ClosePortInv ==
  ASSUME PortTypeOK, PortInv, ClosePort
  PROVE  PortTypeOK' /\ PortInv'
<1>1. CASE Close
  <2>1. /\ gui = "close" /\ isRun' = FALSE
        /\ gui' = IF isRun THEN "join" ELSE "after"
        /\ UNCHANGED <<thread, serialConnection, closed, reader, joining>>
    BY <1>1 DEF Close
  <2>2. PortTypeOK'
    BY <2>1 DEF PortTypeOK
  <2>3. ThreadsInv' /\ RunInv' /\ ServedInv'
    BY <2>1 DEF PortInv, ThreadsInv, RunInv, ServedInv, Opening, Joining
  <2>4. ClosingInv' /\ LosingInv'
    BY <2>1 DEF PortInv, ClosingInv, LosingInv, Usable, Joining
  <2> QED BY <2>2, <2>3, <2>4 DEF PortInv
<1>2. CASE NoThread
  <2>1. /\ gui = "join" /\ gui' = "error" /\ thread = None /\ ~isRun
        /\ UNCHANGED <<isRun, thread, serialConnection, closed, reader, joining>>
    BY <1>2 DEF NoThread, portVars, PortInv, RunInv, Joining
  <2>2. PortTypeOK'
    BY <2>1 DEF PortTypeOK
  <2>3. ThreadsInv' /\ RunInv' /\ ServedInv'
    BY <2>1 DEF PortInv, ThreadsInv, RunInv, ServedInv, Opening, Joining
  <2>4. ClosingInv' /\ LosingInv'
    BY <2>1 DEF PortInv, ClosingInv, LosingInv, Usable, Joining
  <2> QED BY <2>2, <2>3, <2>4 DEF PortInv
<1>3. CASE Join
  <2>1. /\ gui = "join" /\ gui' = "joining" /\ thread # None /\ joining' = thread /\ ~isRun
        /\ UNCHANGED <<isRun, thread, serialConnection, closed, reader>>
    BY <1>3 DEF Join, portVars, PortInv, RunInv, Joining
  <2>2. PortTypeOK'
    BY <2>1 DEF PortTypeOK
  <2>3. ThreadsInv' /\ RunInv' /\ ServedInv'
    BY <2>1 DEF PortInv, ThreadsInv, RunInv, ServedInv, Opening, Joining
  <2>4. ClosingInv' /\ LosingInv'
    BY <2>1 DEF PortInv, ClosingInv, LosingInv, Usable, Joining
  <2> QED BY <2>2, <2>3, <2>4 DEF PortInv
<1>4. CASE Joined
  <2>1. /\ gui = "joining" /\ gui' = "after" /\ thread' = None /\ joining' = None /\ ~isRun
        /\ closed' = closed \cup {serialConnection}
        /\ UNCHANGED <<isRun, serialConnection, reader>>
    BY <1>4 DEF Joined, PortInv, RunInv, Joining
  <2>2. serialConnection \in Connections
    BY <2>1, ConnectAssumption DEF PortInv, ThreadsInv, PortTypeOK, Connections, None
  <2>3. PortTypeOK'
    BY <2>1, <2>2 DEF PortTypeOK
  <2>4. ThreadsInv'
    BY <2>1, <2>2 DEF PortInv, ThreadsInv, Opening, Connections, None
  <2>5. RunInv' /\ ServedInv'
    BY <2>1 DEF RunInv, ServedInv
  <2>6. ClosingInv' /\ LosingInv'
    BY <2>1 DEF ClosingInv, LosingInv, Usable
  <2> QED BY <2>3, <2>4, <2>5, <2>6 DEF PortInv
<1> QED BY <1>1, <1>2, <1>3, <1>4 DEF ClosePort

-----------------------------------------------------------------------------
(* What steps leave alone.                                                 *)

(* A step that leaves connection, reading threads and window alone keeps   *)
(* what is said of them.                                                   *)
LEMMA ConnectionKept ==
  ASSUME HostInv,
         UNCHANGED <<isRun, thread, serialConnection, closed, reader, gui, joining, callbacks>>
  PROVE  PortTypeOK' /\ PortInv' /\ AttachedInv'
<1>1. PortTypeOK'
  BY DEF HostInv, HostTypeOK, PortTypeOK
<1>2. PortInv'
  BY PortKept DEF HostInv
<1>3. AttachedInv'
  BY DEF HostInv, AttachedInv
<1> QED BY <1>1, <1>2, <1>3

(* A step outside a round of the callbacks keeps what is said of the       *)
(* mutexes.                                                                *)
LEMMA RoundKept ==
  ASSUME HostInv, UNCHANGED <<rate, changed, rate_mutex, list_mutex, cb, calls, told>>
  PROVE  MutexInv'
BY DEF HostInv, MutexInv

(* A step that writes no entry and begins no repetition keeps what is said *)
(* of the entries.                                                         *)
LEMMA EntriesKept ==
  ASSUME HostInv,
         UNCHANGED <<cb, told, entry, info, first_rate, first_arg, sent, outdated, raced>>,
         gui' = gui \/ gui' \notin {"repeat", "repeat2"}
  PROVE  EntryInv' /\ WholeInv'
<1>1. EntryInv'
  BY DEF HostInv, EntryInv, Number
<1>2. WholeInv'
  BY DEF HostInv, WholeInv
<1> QED BY <1>1, <1>2

-----------------------------------------------------------------------------
(* The game pad.                                                           *)

(* Events of the pad only touch the rates and the changed flag.            *)
LEMMA PadInv ==
  ASSUME HostInv, Event \/ PadError
  PROVE  HostInv'
<1>1. /\ UNCHANGED <<isRun, thread, serialConnection, closed, reader, gui, joining, first_rate,
                     repeating, leaving, rate_mutex, list_mutex, callbacks, cb, calls, told,
                     entry, info, first_arg, sent, outdated, raced>>
      /\ PlacesOK /\ BitsOK /\ RatesOK /\ CallsOK
  BY DEF Event, PadError, portVars, windowVars, mutexVars, cbVars, commandVars, HostInv, HostTypeOK
<1>2. PortTypeOK' /\ PortInv' /\ AttachedInv' /\ EntryInv' /\ WholeInv'
  BY <1>1, ConnectionKept, EntriesKept
<1>3. PlacesOK' /\ CallsOK'
  BY <1>1 DEF PlacesOK, CallsOK
<1>4. CASE Event
  <2>1. changed' = TRUE /\ rate' = rate + 1 /\ rate < MaxEvents /\ rate_mutex = Nobody
        /\ UNCHANGED is_running
    BY <1>4 DEF Event
  <2>2. BitsOK'
    BY <1>1, <2>1, Zenon DEF BitsOK
  <2>3. RatesOK'
    BY <1>1, <2>1, EventAssumption DEF RatesOK, Rates, Pairs, Fields
  <2>4. MutexInv'
    BY <1>1, <2>1 DEF HostInv, MutexInv, Nobody, InRound
  <2> QED BY <1>2, <1>3, <2>2, <2>3, <2>4 DEF HostInv, HostTypeOK
<1>5. CASE PadError
  <2>1. is_running' = FALSE /\ UNCHANGED <<rate, changed>>
    BY <1>5 DEF PadError
  <2>2. BitsOK'
    BY <1>1, <2>1, Zenon DEF BitsOK
  <2>3. RatesOK'
    BY <1>1, <2>1 DEF RatesOK
  <2>4. MutexInv'
    BY <1>1, <2>1, RoundKept
  <2> QED BY <1>2, <1>3, <2>2, <2>3, <2>4 DEF HostInv, HostTypeOK
<1> QED BY <1>4, <1>5

(* A round of process_callbacks.                                           *)
LEMMA RoundInv ==
  ASSUME HostInv, TakeRateMutex \/ TakeListMutex \/ FinishRound \/ EndCallbacks \/ Call
  PROVE  HostInv'
<1>1. /\ UNCHANGED <<isRun, thread, serialConnection, closed, reader, gui, joining, first_rate,
                     repeating, leaving, is_running, rate, callbacks, entry, info, sent, raced>>
      /\ PlacesOK /\ BitsOK /\ RatesOK /\ CallsOK /\ MutexInv /\ EntryInv /\ WholeInv
  BY DEF TakeRateMutex, TakeListMutex, FinishRound, EndCallbacks, Call, NextCall, portVars,
         windowVars, padVars, mutexVars, commandVars, HostInv, HostTypeOK
<1>2. PortTypeOK' /\ PortInv' /\ AttachedInv'
  BY <1>1, ConnectionKept
<1>3. changed' \in BOOLEAN
  <2>1. changed' = changed \/ changed' = FALSE
    BY DEF TakeRateMutex, TakeListMutex, FinishRound, EndCallbacks, Call, padVars
  <2> QED BY <1>1, <2>1, Zenon DEF BitsOK
<1>4. BitsOK'
  <2>1. outdated' = outdated \/ outdated' = FALSE
    BY DEF TakeRateMutex, TakeListMutex, FinishRound, EndCallbacks, Call, NextCall, commandVars
  <2>2. outdated' \in BOOLEAN
    BY <1>1, <2>1, Zenon DEF BitsOK
  <2> QED BY <1>1, <1>3, <2>2 DEF BitsOK
<1>5. /\ cb' \in {"list", "call", "fill", "sleep", "done"}
      /\ PlacesOK'
  BY <1>1 DEF TakeRateMutex, TakeListMutex, FinishRound, EndCallbacks, Call, NextCall, mutexVars,
              PlacesOK
<1>6. told' \in {told, rate}
  BY DEF TakeRateMutex, TakeListMutex, FinishRound, EndCallbacks, Call
<1>7. RatesOK'
  <2>1. first_arg' \in {first_arg, -1}
    BY DEF TakeRateMutex, TakeListMutex, FinishRound, EndCallbacks, Call, NextCall, commandVars
  <2> QED BY <1>1, <1>6, <2>1 DEF RatesOK, Fields
<1>8. CallsOK'
  <2>1. CASE Call
    <3>1. calls > 0 /\ (calls' = calls \/ calls' = calls - 1)
      BY <2>1 DEF Call, NextCall
    <3> QED BY <1>1, <3>1, ConnectAssumption DEF CallsOK
  <2>2. CASE ~Call
    <3>1. calls' = calls \/ calls' = callbacks
      BY <2>2 DEF TakeRateMutex, TakeListMutex, FinishRound, EndCallbacks
    <3> QED BY <1>1, <3>1, ConnectAssumption DEF CallsOK
  <2> QED BY <2>1, <2>2
<1>9. MutexInv'
  <2> USE <1>1 DEF MutexInv, InRound, PlacesOK, Nobody
  <2>1. CASE TakeRateMutex
    BY <2>1 DEF TakeRateMutex, padVars
  <2>2. CASE TakeListMutex
    BY <2>2 DEF TakeListMutex, padVars
  <2>3. CASE FinishRound
    BY <2>3 DEF FinishRound
  <2>4. CASE EndCallbacks
    BY <2>4 DEF EndCallbacks, padVars, mutexVars
  <2>5. CASE Call
    BY <2>5 DEF Call, NextCall, padVars, mutexVars
  <2> QED BY <2>1, <2>2, <2>3, <2>4, <2>5
<1>10. EntryInv'
  BY <1>1, <1>5 DEF EntryInv, Number
<1>11. WholeInv'
  BY <1>1, <1>5 DEF WholeInv
<1> QED BY <1>2, <1>4, <1>5, <1>7, <1>8, <1>9, <1>10, <1>11 DEF HostInv, HostTypeOK

(* GamePadCallback.                                                        *)
LEMMA CallbackInv ==
  ASSUME HostInv, GamePadCallback
  PROVE  HostInv'
<1>1. /\ UNCHANGED <<isRun, thread, serialConnection, closed, reader, gui, joining, first_rate,
                     repeating, leaving, is_running, rate, changed, callbacks, told>>
      /\ PlacesOK /\ BitsOK /\ RatesOK /\ CallsOK /\ MutexInv /\ EntryInv /\ WholeInv
  BY DEF GamePadCallback, portVars, windowVars, padVars, HostInv, HostTypeOK
<1>2. PortTypeOK' /\ PortInv' /\ AttachedInv'
  BY <1>1, ConnectionKept
<1>3. raced' \in BOOLEAN /\ outdated' \in BOOLEAN
  <2>1. /\ \/ raced' = raced
           \/ raced' = (raced \/ (gui \in {"repeat", "repeat2"} /\ info # <<told, told>>))
        /\ outdated' = outdated \/ outdated' = FALSE
    BY DEF GamePadCallback, FillFirst, FillRest, SetInfo, SendFirst, SendRest, NoWindow, NextCall,
           CallbackRaises
  <2> QED BY <1>1, <2>1, Zenon DEF BitsOK
<1>4. BitsOK'
  BY <1>1, <1>3 DEF BitsOK
<1>5. PICK e \in Fields, f \in Fields, ok \in BOOLEAN : entry = <<e, f, ok>>
  BY <1>1 DEF RatesOK
<1>6. told \in Rates /\ Rates \subseteq Fields /\ -1 \in Fields /\ Unset \in Pairs
      /\ Rates \subseteq Nat
  BY <1>1, EventAssumption DEF RatesOK, Fields, Rates, Pairs, Unset
<1>7. CASE FillFirst
  <2>1. /\ cb = "fill" /\ gui = "idle" /\ cb' = "fill2" /\ entry' = <<told, -1, TRUE>>
        /\ UNCHANGED <<rate_mutex, list_mutex, calls, info, first_arg, sent, outdated, raced>>
    BY <1>7 DEF FillFirst, InWindow, mutexVars
  <2>2. PlacesOK' /\ RatesOK' /\ CallsOK'
    BY <1>1, <1>6, <2>1 DEF PlacesOK, RatesOK, CallsOK
  <2>3. MutexInv'
    BY <1>1, <2>1 DEF MutexInv, InRound
  <2>4. EntryInv' /\ WholeInv'
    BY <1>1, <1>6, <2>1 DEF EntryInv, Number, WholeInv
  <2> QED BY <1>2, <1>4, <2>2, <2>3, <2>4 DEF HostInv, HostTypeOK
<1>8. CASE FillRest
  <2>1. /\ cb = "fill2" /\ gui = "idle" /\ cb' = "info"
        /\ UNCHANGED <<rate_mutex, list_mutex, calls, info, first_arg, sent, outdated, raced>>
    BY <1>8 DEF FillRest, InWindow, mutexVars
  <2>2. PICK readable \in BOOLEAN : /\ entry' = <<e, told, readable>>
                                    /\ readable => f = -1
    <3>1. CASE f = -1
      BY <1>5, <1>8, <3>1 DEF FillRest
    <3>2. CASE f # -1
      BY <1>5, <1>8, <3>2 DEF FillRest
    <3> QED BY <3>1, <3>2
  <2>3. PlacesOK' /\ RatesOK' /\ CallsOK'
    BY <1>1, <1>6, <2>1, <2>2 DEF PlacesOK, RatesOK, CallsOK
  <2>4. MutexInv'
    BY <1>1, <2>1 DEF MutexInv, InRound
  <2>5. EntryInv'
    BY <1>1, <1>5, <1>6, <2>1, <2>2 DEF EntryInv, Number
  <2>6. WholeInv'
    BY <1>1, <1>5, <2>1, <2>2 DEF EntryInv, WholeInv
  <2> QED BY <1>2, <1>4, <2>3, <2>4, <2>5, <2>6 DEF HostInv, HostTypeOK
<1>9. CASE SetInfo
  <2>1. /\ cb = "info" /\ cb' = "send" /\ info' = <<told, told>>
        /\ UNCHANGED <<rate_mutex, list_mutex, calls, entry, first_arg, sent, outdated>>
        /\ ~raced' => ~raced /\ (gui \notin {"repeat", "repeat2"} \/ info = <<told, told>>)
    BY <1>9 DEF SetInfo, mutexVars
  <2>2. PlacesOK' /\ RatesOK' /\ CallsOK'
    BY <1>1, <1>6, <2>1 DEF PlacesOK, RatesOK, CallsOK, Pairs
  <2>3. MutexInv'
    BY <1>1, <2>1 DEF MutexInv, InRound
  <2>4. EntryInv'
    BY <1>1, <1>6, <2>1 DEF EntryInv, Number, Unset
  <2>5. WholeInv'
    BY <1>1, <2>1 DEF WholeInv
  <2> QED BY <1>2, <1>4, <2>2, <2>3, <2>4, <2>5 DEF HostInv, HostTypeOK
<1>10. CASE SendFirst
  <2>1. /\ cb = "send" /\ gui = "idle" /\ cb' = "send2" /\ first_arg' = e
        /\ UNCHANGED <<rate_mutex, list_mutex, calls, entry, info, sent, outdated, raced>>
    BY <1>5, <1>10 DEF SendFirst, InWindow, mutexVars
  <2>2. PlacesOK' /\ RatesOK' /\ CallsOK'
    BY <1>1, <2>1 DEF PlacesOK, RatesOK, CallsOK
  <2>3. MutexInv'
    BY <1>1, <2>1 DEF MutexInv, InRound
  <2>4. EntryInv'
    BY <1>1, <1>5, <2>1 DEF EntryInv, Number
  <2>5. WholeInv'
    BY <1>1, <1>5, <2>1 DEF WholeInv
  <2> QED BY <1>2, <1>4, <2>2, <2>3, <2>4, <2>5 DEF HostInv, HostTypeOK
<1>11. CASE SendRest \/ NoWindow
  <2>1. /\ cb \in {"fill", "fill2", "send", "send2"} /\ UNCHANGED <<entry, info, raced>>
        /\ first_arg' = -1
        /\ \/ sent' = sent
           \/ cb = "send2" /\ gui = "idle" /\ ok /\ sent' = <<first_arg, f>>
        /\ \/ cb' = "call" /\ calls' = calls - 1 /\ cb = "send2"
              /\ UNCHANGED <<rate_mutex, list_mutex>>
           \/ cb' = "dead" /\ calls' = 0 /\ rate_mutex' = Nobody /\ list_mutex' = Nobody
    BY <1>5, <1>11 DEF SendRest, NoWindow, CallbackRaises, NextCall, InWindow, mutexVars
  <2>2. PlacesOK'
    BY <1>1, <2>1 DEF PlacesOK
  <2>3. RatesOK'
    BY <1>1, <1>5, <1>6, <2>1 DEF RatesOK, Pairs, EntryInv, Number
  <2>4. CallsOK'
    BY <1>1, <2>1, ConnectAssumption DEF CallsOK, MutexInv, InRound
  <2>5. MutexInv'
    BY <1>1, <2>1 DEF MutexInv, InRound, Nobody
  <2>6. EntryInv' /\ WholeInv'
    BY <1>1, <1>5, <2>1 DEF EntryInv, WholeInv, Number
  <2> QED BY <1>2, <1>4, <2>2, <2>3, <2>4, <2>5, <2>6 DEF HostInv, HostTypeOK
<1> QED BY <1>7, <1>8, <1>9, <1>10, <1>11 DEF GamePadCallback

-----------------------------------------------------------------------------
(* The window and the reading threads.                                     *)

(* The connection is opened, closed, served or lost.                       *)
LEMMA ConnectionInv ==
  ASSUME HostInv, UNCHANGED <<leaving, callbacks, othersVars>>,
         \/ OpenPort \/ readSerialStart \/ ClosePort
         \/ \E c \in Connections : ReaderStep(c) \/ Unplugged(c)
  PROVE  HostInv'
<1>1. /\ UNCHANGED <<is_running, rate, changed, rate_mutex, list_mutex, callbacks, cb, calls, entry,
                     info, first_rate, first_arg, repeating, leaving, told, sent, outdated, raced>>
      /\ PortTypeOK /\ PortInv /\ PlacesOK /\ BitsOK /\ RatesOK /\ CallsOK /\ AttachedInv
  BY DEF othersVars, padVars, mutexVars, cbVars, commandVars, HostInv, HostTypeOK
<1>2. BitsOK' /\ RatesOK' /\ CallsOK' /\ MutexInv'
  BY <1>1, RoundKept DEF BitsOK, RatesOK, CallsOK
<1>3. /\ gui' = gui \/ gui' \in {"make", "run", "start", "join", "joining", "error", "after"}
      /\ PlacesOK'
  BY <1>1 DEF OpenPort, readSerialStart, MakeThread, SetRun, StartThread, ClosePort, Close,
              NoThread, Join, Joined, ReaderStep, Unplugged, PlacesOK
<1>4. EntryInv' /\ WholeInv'
  BY <1>1, <1>3, EntriesKept
<1>5. callbacks \in Int /\ serialConnection \in Int
  BY <1>1, ConnectAssumption DEF CallsOK, PortTypeOK, Connections, None
<1>6. CASE OpenPort
  <2>1. AttachedInv'
    BY <1>1, <1>5, <1>6 DEF OpenPort, AttachedInv, Opening, PortInv, RunInv
  <2> QED BY <1>1, <1>2, <1>3, <1>4, <1>6, <2>1, OpenPortInv DEF HostInv, HostTypeOK
<1>7. CASE readSerialStart
  <2>1. AttachedInv'
    BY <1>1, <1>5, <1>7 DEF readSerialStart, MakeThread, SetRun, StartThread, AttachedInv, Opening
  <2> QED BY <1>1, <1>2, <1>3, <1>4, <1>7, <2>1, ReadSerialStartInv DEF HostInv, HostTypeOK
<1>8. CASE ClosePort
  <2>1. /\ gui' \in {"join", "joining", "error", "after"} /\ ~isRun'
        /\ UNCHANGED serialConnection
    BY <1>1, <1>8 DEF ClosePort, Close, NoThread, Join, Joined, portVars, PortInv, RunInv, Joining
  <2>2. AttachedInv'
    BY <1>1, <1>5, <2>1 DEF AttachedInv, Opening
  <2> QED BY <1>1, <1>2, <1>3, <1>4, <1>8, <2>2, ClosePortInv DEF HostInv, HostTypeOK
<1>9. CASE \E c \in Connections : ReaderStep(c) \/ Unplugged(c)
  <2>1. PICK c \in Connections : ReaderStep(c) \/ Unplugged(c)
    BY <1>9
  <2>2. /\ UNCHANGED <<gui, joining>>
        /\ \/ ReaderBegins(c) \/ ReaderEnds(c) \/ ReadFails(c)
           \/ Lost1(c) \/ Lost2(c) \/ Lost3(c)
    BY <2>1 DEF ReaderStep, Unplugged
  <2>3. (isRun' => isRun) /\ UNCHANGED <<gui, serialConnection>>
    BY <2>2 DEF ReaderBegins, ReaderEnds, ReadFails, Lost1, Lost2, Lost3
  <2>4. AttachedInv'
    BY <1>1, <2>3 DEF AttachedInv
  <2> QED BY <1>1, <1>2, <1>3, <1>4, <2>2, <2>4, ReaderPort DEF HostInv, HostTypeOK
<1> QED BY <1>6, <1>7, <1>8, <1>9

(* The buttons of the window, and what follows them.                       *)
LEMMA ButtonInv ==
  ASSUME HostInv, \/ PressConnect \/ CloseRaised \/ Callbacks \/ ChangeCallbacks
                  \/ close_window \/ Destroy
  PROVE  HostInv'
<1>1. /\ UNCHANGED <<isRun, thread, serialConnection, closed, reader, joining, rate, changed,
                     rate_mutex, list_mutex, cb, calls, entry, info, first_rate, first_arg,
                     repeating, told, sent, outdated, raced>>
      /\ PortTypeOK /\ PortInv /\ PlacesOK /\ BitsOK /\ RatesOK /\ CallsOK /\ AttachedInv
      /\ MutexInv
  BY DEF PressConnect, CloseRaised, Callbacks, ChangeCallbacks, add_callback, rm_callback,
         close_window, Destroy, portVars, othersVars, padVars, mutexVars, cbVars, commandVars,
         HostInv, HostTypeOK
<1>2. /\ gui \in {"idle", "error", "after", "add", "rm"}
      /\ gui' \in {"idle", "open", "close", "after", "add", "rm", "gone"}
      /\ gui' \in {"open", "rm"} => ~isRun
  BY DEF PressConnect, CloseRaised, Callbacks, ChangeCallbacks, add_callback, rm_callback,
         close_window, Destroy
<1>3. PortTypeOK' /\ PlacesOK' /\ RatesOK' /\ MutexInv'
  BY <1>1, <1>2, RoundKept DEF PortTypeOK, PlacesOK, RatesOK
<1>4. PortInv'
  BY <1>1, <1>2, PortKept DEF Opening, Joining
<1>5. EntryInv' /\ WholeInv'
  BY <1>1, <1>2, EntriesKept
<1>6. BitsOK'
  <2>1. is_running' = is_running \/ is_running' = FALSE
    BY DEF PressConnect, CloseRaised, Callbacks, ChangeCallbacks, add_callback, rm_callback,
           close_window, Destroy, othersVars, padVars
  <2>2. leaving' = leaving \/ leaving' = FALSE \/ leaving' = TRUE
    BY DEF PressConnect, CloseRaised, Callbacks, ChangeCallbacks, add_callback, rm_callback,
           close_window, Destroy
  <2>3. is_running' \in BOOLEAN /\ leaving' \in BOOLEAN
    BY <1>1, <2>1, <2>2, Zenon DEF BitsOK
  <2> QED BY <1>1, <2>3 DEF BitsOK
<1>7. /\ callbacks \in 0 .. MaxConnects /\ serialConnection \in 0 .. MaxConnects
      /\ list_mutex = Nobody => calls = 0
  BY <1>1, ConnectAssumption DEF CallsOK, PortTypeOK, Connections, None, MutexInv, Nobody
<1>8. CallsOK' /\ AttachedInv'
  <2>1. CASE add_callback
    <3>1. gui = "add" /\ gui' = "idle" /\ callbacks' = callbacks + 1 /\ calls = 0
      BY <1>7, <2>1 DEF add_callback
    <3>2. callbacks' \in 0 .. MaxConnects /\ callbacks' <= serialConnection
      BY <1>1, <1>7, <3>1, ConnectAssumption DEF AttachedInv
    <3>3. CallsOK'
      BY <1>1, <1>7, <3>1, <3>2, ConnectAssumption DEF CallsOK
    <3>4. AttachedInv'
      BY <1>1, <1>7, <3>1, <3>2 DEF AttachedInv, Opening
    <3> QED BY <3>3, <3>4
  <2>2. CASE rm_callback
    <3>1. /\ gui = "rm" /\ gui' = "idle" /\ ~isRun /\ calls = 0
          /\ callbacks' = IF callbacks = 0 THEN 0 ELSE callbacks - 1
      BY <1>1, <1>7, <2>2 DEF rm_callback, PortInv, RunInv
    <3>2. callbacks' \in 0 .. MaxConnects /\ callbacks' <= serialConnection
      BY <1>1, <1>7, <3>1, ConnectAssumption DEF AttachedInv
    <3>3. CallsOK'
      BY <1>1, <1>7, <3>1, <3>2, ConnectAssumption DEF CallsOK
    <3>4. AttachedInv'
      BY <1>1, <1>7, <3>1, <3>2 DEF AttachedInv, Opening
    <3> QED BY <3>3, <3>4
  <2>3. CASE ~add_callback /\ ~rm_callback
    <3>1. /\ UNCHANGED callbacks
          /\ \/ gui = "idle" /\ gui' \in {"open", "close"}
             \/ gui = "error" /\ ~isRun /\ gui' \in {"idle", "after"}
             \/ gui = "after" /\ (gui' = "add" => isRun) /\ gui' \in {"add", "rm", "gone"}
      BY <1>1, <2>3 DEF PressConnect, CloseRaised, Callbacks, ChangeCallbacks, close_window,
                        Destroy, PortInv, RunInv
    <3> QED BY <1>1, <3>1 DEF CallsOK, AttachedInv, Opening
  <2> QED BY <2>1, <2>2, <2>3
<1> QED BY <1>3, <1>4, <1>5, <1>6, <1>8 DEF HostInv, HostTypeOK

(* update_gui repeats the last command.                                    *)
LEMMA RepeatInv ==
  ASSUME HostInv, Repeat \/ RepeatFill \/ RepeatSend
  PROVE  HostInv'
<1>1. /\ UNCHANGED <<isRun, thread, serialConnection, closed, reader, joining, leaving, is_running,
                     rate, changed, rate_mutex, list_mutex, callbacks, cb, calls, told, first_arg>>
      /\ PortTypeOK /\ PortInv /\ PlacesOK /\ BitsOK /\ RatesOK /\ CallsOK /\ AttachedInv
      /\ EntryInv /\ WholeInv
  BY DEF Repeat, RepeatFill, RepeatSend, portVars, padVars, mutexVars, cbVars, commandVars,
         HostInv, HostTypeOK
<1>2. /\ gui \in {"idle", "repeat", "repeat2"} /\ gui' \in {"idle", "repeat", "repeat2"}
  BY DEF Repeat, RepeatFill, RepeatSend
<1>3. PortTypeOK' /\ PlacesOK' /\ CallsOK' /\ MutexInv'
  BY <1>1, <1>2, RoundKept DEF PortTypeOK, PlacesOK, CallsOK
<1>4. PortInv'
  BY <1>1, <1>2, PortKept DEF Opening, Joining
<1>5. AttachedInv'
  BY <1>1, <1>2 DEF AttachedInv, Opening
<1>6. BitsOK'
  <2>1. /\ repeating' = repeating \/ repeating' = FALSE
        /\ raced' = raced \/ raced' = (raced \/ (outdated /\ first_rate = told))
        /\ outdated' = outdated \/ outdated' = (Filled /\ first_rate # told)
    BY DEF Repeat, RepeatFill, RepeatSend, commandVars
  <2>2. repeating' \in BOOLEAN /\ raced' \in BOOLEAN /\ outdated' \in BOOLEAN
    BY <1>1, <2>1, Zenon DEF BitsOK
  <2> QED BY <1>1, <2>2 DEF BitsOK
<1>7. PICK e \in Fields, f \in Fields, ok \in BOOLEAN : entry = <<e, f, ok>>
  BY <1>1 DEF RatesOK
<1>8. PICK i \in Fields, j \in Fields : info = <<i, j>> /\ (info # Unset => Number(i) /\ Number(j))
  BY <1>1 DEF RatesOK, Pairs, Fields, Unset, Number
<1>9. CASE Repeat
  <2>1. /\ gui' = "repeat" /\ info # Unset /\ first_rate' = i
        /\ UNCHANGED <<entry, info, sent, outdated, raced>>
    BY <1>8, <1>9 DEF Repeat, commandVars
  <2>2. RatesOK'
    BY <1>1, <2>1 DEF RatesOK
  <2>3. EntryInv'
    BY <1>1, <1>8, <2>1 DEF EntryInv, Number
  <2>4. WholeInv'
    BY <1>1, <1>8, <2>1 DEF WholeInv
  <2> QED BY <1>3, <1>4, <1>5, <1>6, <2>2, <2>3, <2>4 DEF HostInv, HostTypeOK
<1>10. CASE RepeatFill /\ isRun
  <2>1. /\ gui = "repeat" /\ gui' = "repeat2" /\ entry' = <<first_rate, j, TRUE>>
        /\ UNCHANGED <<first_rate, info, sent>>
        /\ Number(first_rate) /\ Number(j) /\ first_rate # -1 /\ j # -1
        /\ outdated' = (Filled /\ first_rate # told)
        /\ raced' = (raced \/ (outdated /\ first_rate = told))
    <3>1. /\ gui = "repeat" /\ gui' = "repeat2" /\ entry' = <<first_rate, j, TRUE>>
          /\ UNCHANGED <<first_rate, info, sent>>
          /\ outdated' = (Filled /\ first_rate # told)
          /\ raced' = (raced \/ (outdated /\ first_rate = told))
      BY <1>8, <1>10 DEF RepeatFill
    <3>2. Number(first_rate) /\ Number(j)
      BY <1>1, <1>8, <3>1 DEF EntryInv
    <3> QED BY <3>1, <3>2 DEF Number, Rates
  <2>2. RatesOK'
    BY <1>1, <2>1 DEF RatesOK
  <2>3. EntryInv'
    BY <1>1, <2>1 DEF EntryInv, Number
  <2>4. WholeInv'
    BY <1>1, <1>8, <2>1 DEF WholeInv, Filled
  <2> QED BY <1>3, <1>4, <1>5, <1>6, <2>2, <2>3, <2>4 DEF HostInv, HostTypeOK
<1>11. CASE RepeatFill /\ ~isRun
  <2>1. gui' = "idle" /\ first_rate' = -1 /\ UNCHANGED <<entry, info, sent, outdated, raced>>
    BY <1>11 DEF RepeatFill
  <2>2. RatesOK' /\ EntryInv' /\ WholeInv'
    BY <1>1, <2>1 DEF RatesOK, EntryInv, Number, WholeInv, Fields
  <2> QED BY <1>3, <1>4, <1>5, <1>6, <2>2 DEF HostInv, HostTypeOK
<1>12. CASE RepeatSend
  <2>1. /\ gui = "repeat2" /\ gui' = "idle" /\ info' = <<e, f>> /\ first_rate' = -1
        /\ sent' = sent \/ sent' = <<e, f>>
        /\ UNCHANGED <<entry, outdated, raced>>
    BY <1>7, <1>12 DEF RepeatSend
  <2>2. e \in Rates /\ f \in Rates
    BY <1>1, <1>7, <2>1 DEF EntryInv, Number
  <2>3. RatesOK'
    BY <1>1, <2>1, <2>2 DEF RatesOK, Fields, Pairs
  <2>4. EntryInv'
    BY <1>1, <2>1 DEF EntryInv, Number
  <2>5. WholeInv'
    BY <1>1, <1>7, <1>8, <2>1 DEF WholeInv
  <2> QED BY <1>3, <1>4, <1>5, <1>6, <2>3, <2>4, <2>5 DEF HostInv, HostTypeOK
<1> QED BY <1>9, <1>10, <1>11, <1>12

-----------------------------------------------------------------------------
(* The inductive invariant holds.                                          *)

(* The invariant holds when the program starts.                            *)
LEMMA HostInit == Init => HostInv
<1> SUFFICES ASSUME Init PROVE HostInv
  OBVIOUS
<1>1. PortTypeOK /\ PortInv
  <2>1. isRun \in BOOLEAN
    BY Zenon DEF Init, PortInit
  <2>2. PortTypeOK
    BY <2>1 DEF Init, PortInit, PortTypeOK
  <2>3. ThreadsInv /\ RunInv /\ ServedInv
    BY DEF Init, PortInit, ThreadsInv, RunInv, ServedInv, Opening, Joining, None
  <2>4. ClosingInv /\ LosingInv
    BY DEF Init, PortInit, ClosingInv, LosingInv, Usable
  <2> QED BY <2>2, <2>3, <2>4 DEF PortInv
<1>2. PlacesOK /\ CallsOK
  BY ConnectAssumption DEF Init, PlacesOK, CallsOK
<1>3. BitsOK
  BY Zenon DEF Init, BitsOK
<1>4. RatesOK
  <2>1. rate \in Rates /\ told \in Rates /\ first_rate \in Fields /\ first_arg \in Fields
    BY EventAssumption DEF Init, Rates, Fields
  <2>2. sent \in Pairs /\ info \in Pairs
    BY DEF Init, Pairs
  <2>3. entry \in Fields \X Fields \X BOOLEAN
    BY DEF Init, Fields
  <2> QED BY <2>1, <2>2, <2>3 DEF RatesOK
<1>5. MutexInv /\ AttachedInv
  BY DEF Init, PortInit, MutexInv, AttachedInv, InRound, Nobody, Opening, None
<1>6. EntryInv /\ WholeInv
  BY DEF Init, EntryInv, WholeInv, Unset
<1> QED BY <1>1, <1>2, <1>3, <1>4, <1>5, <1>6 DEF HostInv, HostTypeOK

(* HostInv is inductive: one case per thread, by the lemmas above.         *)
LEMMA HostStep == HostInv /\ [Next]_vars => HostInv'
<1> SUFFICES ASSUME HostInv, [Next]_vars PROVE HostInv'
  OBVIOUS
<1>1. CASE Event \/ PadError
  BY <1>1, PadInv
<1>2. CASE Process
  BY <1>2, RoundInv, CallbackInv DEF Process
<1>3. CASE PressConnect \/ CloseRaised \/ Callbacks \/ ChangeCallbacks \/ close_window \/ Destroy
  BY <1>3, ButtonInv
<1>4. CASE Repeat \/ RepeatFill \/ RepeatSend
  BY <1>4, RepeatInv
<1>5. CASE OpenOrClose \/ \E c \in Connections :
             Read(c) \/ (Unplugged(c) /\ UNCHANGED <<leaving, callbacks, othersVars>>)
  BY <1>5, ConnectionInv DEF OpenOrClose, Read
<1>6. CASE UNCHANGED vars
  <2>1. UNCHANGED <<isRun, thread, serialConnection, closed, reader, gui, joining, is_running, rate,
                    changed, rate_mutex, list_mutex, callbacks, cb, calls, entry, info, first_rate,
                    first_arg, repeating, leaving, told, sent, outdated, raced>>
    BY <1>6 DEF vars
  <2>2. PlacesOK' /\ BitsOK' /\ RatesOK' /\ CallsOK'
    BY <2>1 DEF HostInv, HostTypeOK, PlacesOK, BitsOK, RatesOK, CallsOK
  <2> QED BY <2>1, <2>2, ConnectionKept, RoundKept, EntriesKept DEF HostInv, HostTypeOK
<1> QED BY <1>1, <1>2, <1>3, <1>4, <1>5, <1>6 DEF Next, Window

(* HostInv holds in every reachable state.                                 *)
LEMMA HostInvHolds == Spec => []HostInv
BY HostInit, HostStep, PTL DEF Spec

-----------------------------------------------------------------------------
(* Every variable of the host program keeps its type.                      *)
THEOREM HostTypeCorrect == Spec => []HostTypeOK
<1>1. HostInv => HostTypeOK
  BY DEF HostInv
<1> QED BY <1>1, HostInvHolds, PTL

(* A connection that is reported as up is served by a reading thread, or   *)
(* its own one died or was never started; one that nothing serves any more *)
(* is closed, however backgroundThread interleaves with openPort and close.*)
THEOREM ConnectionServedTheorem == Spec => []ConnectionServed
<1>1. HostInv => ConnectionServed
  <2> SUFFICES ASSUME HostInv, gui = "idle"
               PROVE  /\ isRun => \/ \E c \in Connections : ~Ended(c)
                                  \/ reader[serialConnection] = "dead"
                                  \/ reader[serialConnection] = "none" /\ thread = None
                      /\ (~isRun /\ \A c \in Connections : Ended(c)) => ~Usable
    BY DEF ConnectionServed
  <2>1. PortTypeOK /\ PortInv
    BY DEF HostInv, HostTypeOK
  <2>2. ASSUME isRun, reader[serialConnection] \notin {"none", "dead"}
        PROVE  \E c \in Connections : ~Ended(c)
    <3>1. serialConnection \in Connections
      BY <2>1, <2>2 DEF PortInv, RunInv, PortTypeOK
    <3>2. reader[serialConnection] # "done"
      BY <2>1, <2>2 DEF PortInv, ServedInv, Opening
    <3> QED BY <2>2, <3>1, <3>2 DEF Ended
  <2>3. isRun /\ reader[serialConnection] = "none" => thread = None
    BY <2>1 DEF PortInv, ServedInv, Opening
  <2>4. ASSUME ~isRun, \A c \in Connections : Ended(c)
        PROVE  ~Usable
    <3>1. thread = None
      BY <2>1, <2>4 DEF PortInv, LosingInv, Ended, Joining
    <3> QED BY <2>1, <2>4, <3>1 DEF PortInv, ClosingInv, Ended
  <2> QED BY <2>2, <2>3, <2>4
<1> QED BY <1>1, HostInvHolds, PTL

(* The callbacks were told the latest rates, or `changed' still says that  *)
(* they have to be: no movement between two rounds is lost.                *)
THEOREM NoRateForgottenTheorem == Spec => []NoRateForgotten
<1>1. HostInv => NoRateForgotten
  BY DEF HostInv, MutexInv, NoRateForgotten
<1> QED BY <1>1, HostInvHolds, PTL

(* When the window is back in its event loop, a connection that is up has  *)
(* the game pad attached to it.                                            *)
THEOREM PadAttachedTheorem == Spec => []PadAttached
<1>1. HostInv => PadAttached
  BY DEF HostInv, AttachedInv, PadAttached
<1> QED BY <1>1, HostInvHolds, PTL

(* No 'V' is put together from two commands of the pad, though send takes  *)
(* the entries from the window one by one, unless the callback changed     *)
(* game_pad_last_send_info in the middle of a repetition or two            *)
(* repetitions, of the old and of the new command, fell into one callback. *)
THEOREM NoMixedCommandTheorem == Spec => []NoMixedCommand
<1>1. HostInv => NoMixedCommand
  BY DEF HostInv, WholeInv, NoMixedCommand
<1> QED BY <1>1, HostInvHolds, PTL
=============================================================================
