----------------------------- MODULE SerialPort -----------------------------
(***************************************************************************)
(* The connection of the host's SerialData: the thread of the window opens *)
(* and closes it, a reading thread per connection serves it and takes it   *)
(* down when reading fails.  The two share isRun, thread and               *)
(* serialConnection without a lock.                                        *)
(*                                                                         *)
(* A connection and the reading thread that was made for it have the same  *)
(* number.  A reading thread uses whatever serialConnection is at the      *)
(* time.  Reading and writing may fail at any time (the cable is pulled)   *)
(* and fail on a closed connection.                                        *)
(***************************************************************************)
EXTENDS Integers

CONSTANT MaxConnects    \* bound: times the port is opened

ASSUME ConnectAssumption == MaxConnects \in Nat \ {0}

Connections == 1 .. MaxConnects
None == 0

VARIABLES isRun,
          thread,             \* self.thread
          serialConnection,   \* the connection opened last
          closed,             \* the connections that have been closed
          reader,             \* where each reading thread is
          gui,                \* where the thread of the window is
          joining             \* the thread it joins

portVars == <<isRun, thread, serialConnection, closed, reader>>

PortInit ==
  /\ isRun = FALSE /\ thread = None /\ serialConnection = None /\ closed = {}
  /\ reader = [c \in Connections |-> "none"]
  /\ joining = None

Usable == serialConnection # None /\ serialConnection \notin closed
Ended(c) == reader[c] \in {"none", "done", "dead"}

-----------------------------------------------------------------------------
(* backgroundThread.                                                       *)

(* reset_input_buffer is called outside the try: if it fails the thread    *)
(* dies and leaves isRun set.                                              *)
ReaderBegins(c) ==
  /\ reader[c] = "init"
  /\ \/ Usable /\ reader' = [reader EXCEPT ![c] = "loop"]
     \/ reader' = [reader EXCEPT ![c] = "dead"]
  /\ UNCHANGED <<isRun, thread, serialConnection, closed>>

ReaderEnds(c) ==
  /\ reader[c] = "loop" /\ ~isRun
  /\ reader' = [reader EXCEPT ![c] = "done"]
  /\ UNCHANGED <<isRun, thread, serialConnection, closed>>

ReadFails(c) ==
  /\ reader[c] = "loop" /\ isRun
  /\ reader' = [reader EXCEPT ![c] = "lost"]
  /\ UNCHANGED <<isRun, thread, serialConnection, closed>>

(* The three statements of the except branch, and back to the loop.        *)
Lost1(c) ==
  /\ reader[c] = "lost"
  /\ isRun' = FALSE
  /\ reader' = [reader EXCEPT ![c] = "lost2"]
  /\ UNCHANGED <<thread, serialConnection, closed>>

Lost2(c) ==
  /\ reader[c] = "lost2"
  /\ thread' = None
  /\ reader' = [reader EXCEPT ![c] = "lost3"]
  /\ UNCHANGED <<isRun, serialConnection, closed>>

Lost3(c) ==
  /\ reader[c] = "lost3"
  /\ closed' = closed \cup {serialConnection}
  /\ reader' = [reader EXCEPT ![c] = "loop"]
  /\ UNCHANGED <<isRun, thread, serialConnection>>

(* What goes on by itself; a read on a closed connection has to fail.      *)
ReaderStep(c) ==
  /\ \/ ReaderBegins(c) \/ ReaderEnds(c) \/ Lost1(c) \/ Lost2(c) \/ Lost3(c)
     \/ ~Usable /\ ReadFails(c)
  /\ UNCHANGED <<gui, joining>>

Unplugged(c) == ReadFails(c) /\ UNCHANGED <<gui, joining>>

-----------------------------------------------------------------------------
(* openPort and readSerialStart, in the thread of the window.              *)

(* The object it replaces is closed by the garbage collector.              *)
OpenPort ==
  /\ gui = "open"
  /\ \/ /\ serialConnection < MaxConnects
        /\ serialConnection' = serialConnection + 1
        /\ closed' = closed \cup ({serialConnection} \ {None})
        /\ gui' = "make"
     \/ gui' = "after" /\ UNCHANGED <<serialConnection, closed>>
  /\ UNCHANGED <<isRun, thread, reader, joining>>

MakeThread ==
  /\ gui = "make" /\ gui' = "run"
  /\ thread' = serialConnection
  /\ UNCHANGED <<isRun, serialConnection, closed, reader, joining>>

SetRun ==
  /\ gui = "run" /\ gui' = "start"
  /\ isRun' = TRUE
  /\ UNCHANGED <<thread, serialConnection, closed, reader, joining>>

(* The reading thread of the connection before may just have set thread to *)
(* None; openPort swallows that error as well.                             *)
StartThread ==
  /\ gui = "start" /\ gui' = "after"
  /\ reader' = IF thread = None THEN reader ELSE [reader EXCEPT ![thread] = "init"]
  /\ UNCHANGED <<isRun, thread, serialConnection, closed, joining>>

Mut_readSerialStart ==
  \/ gui = "make" /\ gui' = "run" /\ thread' = serialConnection
     /\ reader' = [reader EXCEPT ![serialConnection] = "init"]
     /\ UNCHANGED <<isRun, serialConnection, closed, joining>>
  \/ gui = "run" /\ gui' = "after" /\ isRun' = TRUE
     /\ UNCHANGED <<thread, serialConnection, closed, reader, joining>>
readSerialStart == MakeThread \/ SetRun \/ StartThread

-----------------------------------------------------------------------------
(* close.                                                                  *)

Close ==
  /\ gui = "close"
  /\ isRun' = FALSE
  /\ gui' = IF isRun THEN "join" ELSE "after"
  /\ UNCHANGED <<thread, serialConnection, closed, reader, joining>>

(* self.thread is None: an AttributeError, which the button handler takes  *)
(* for a port that was not used.                                           *)
NoThread ==
  /\ gui = "join" /\ thread = None /\ gui' = "error"
  /\ UNCHANGED <<portVars, joining>>

Join ==
  /\ gui = "join" /\ thread # None
  /\ joining' = thread /\ gui' = "joining"
  /\ UNCHANGED portVars

Joined ==
  /\ gui = "joining" /\ Ended(joining)
  /\ thread' = None /\ closed' = closed \cup {serialConnection}
  /\ joining' = None /\ gui' = "after"
  /\ UNCHANGED <<isRun, serialConnection, reader>>

ClosePort == Close \/ NoThread \/ Join \/ Joined

-----------------------------------------------------------------------------
PortTypeOK ==
  /\ isRun \in BOOLEAN
  /\ thread \in Connections \cup {None} /\ joining \in Connections \cup {None}
  /\ serialConnection \in Connections \cup {None} /\ closed \subseteq Connections
  /\ reader \in [Connections -> {"none", "init", "loop", "lost", "lost2", "lost3", "done", "dead"}]

(* However its threads interleave with the window's, a connection that is  *)
(* reported as up is served by a reading thread, the one made for it or    *)
(* one of its predecessors, unless that one died before its loop or was    *)
(* not started because a predecessor had set thread to None; and a         *)
(* connection that nothing serves any more is closed.                      *)
ConnectionServed ==
  gui = "idle" =>
     /\ isRun => \/ \E c \in Connections : ~Ended(c)
                 \/ reader[serialConnection] = "dead"
                 \/ reader[serialConnection] = "none" /\ thread = None
     /\ (~isRun /\ \A c \in Connections : Ended(c)) => ~Usable
=============================================================================
