-------------------------------- MODULE Ports --------------------------------
(***************************************************************************)
(* Who may use a board's serial port, and what a scan says of the boards:  *)
(* SerialBus (bus/serial_bus.cpp), of which every gripper handle has one,  *)
(* and discovery.cpp, which opens one port after the other, asks the       *)
(* firmware who it is and closes it again.  A port is shared by handles of *)
(* this process and of others, and by programs that know nothing of the    *)
(* SDK; each system call is a step, anything may happen between two.       *)
(***************************************************************************)
EXTENDS Integers, FiniteSets, Sequences

CONSTANTS
  Boards,     \* boards plugged in, one port each
  Grippers,   \* SerialBus objects of gripper handles
  Scanner,    \* the SerialBus of a scan
  Strangers,  \* programs that open ports without the SDK
  Root,       \* the holders the kernel's exclusive mode does not stop
  Firmware,   \* what a board may be: [sn, type, old], sn one of Serials or NoSn
  NoSn,
  ErrorForms, \* how the firmware reports an error: "nack", "byte"
  None,
  MaxFaults   \* bound on system calls and commands that fail, and on crashes

VARIABLES
  port,    \* the kernel's view of a port: [open, lock, excl]
  bus,     \* a SerialBus: [pc, fd, board, streams]
  board,   \* the board's firmware
  stream,  \* the board sends its stream
  scan,    \* scan_all: [board, todo, step, tries, sn, type]
  found,   \* what scan_all returns
  faults

vars == <<port, bus, board, stream, scan, found, faults>>

Handles == Grippers \union {Scanner}
Fds == 1 .. Cardinality(Handles)
FreeFd == CHOOSE f \in Fds : \A b \in Boards : f \notin port[b].open

Closed == [pc |-> "closed", fd |-> None, board |-> None, streams |-> FALSE]
Idle == [board |-> None, todo |-> {}, step |-> "idle", tries |-> 0, sn |-> NoSn, type |-> None]

Fault == faults < MaxFaults /\ faults' = faults + 1

-----------------------------------------------------------------------------
(* The kernel.  The lock is the open file's and goes with it; the exclusive
   mode is the port's and goes with the last file that is open on it. *)

Opened(p, f) == [p EXCEPT !.open = @ \union {f}]

Shut(p, f) ==
  [open |-> p.open \ {f},
   lock |-> IF p.lock = f THEN None ELSE p.lock,
   excl |-> p.excl /\ p.open \ {f} # {}]

Admits(p, who) == ~p.excl \/ who \in Root

StrangerOpens(s) ==
  \E b \in Boards :
    /\ s \notin port[b].open
    /\ Admits(port[b], s)
    /\ port' = [port EXCEPT ![b] = Opened(@, s)]
    /\ UNCHANGED <<bus, board, stream, scan, found, faults>>

StrangerCloses(s) ==
  \E b \in Boards :
    /\ s \in port[b].open
    /\ port' = [port EXCEPT ![b] = Shut(@, s)]
    /\ UNCHANGED <<bus, board, stream, scan, found, faults>>

-----------------------------------------------------------------------------
(* SerialBus(cfg): open, isatty, flock, TIOCEXCL, termios. *)

OpenDevice(h, b) ==
  /\ bus[h].pc = "closed"
  /\ Admits(port[b], h)
  /\ port' = [port EXCEPT ![b] = Opened(@, FreeFd)]
  /\ bus' = [bus EXCEPT ![h] = [Closed EXCEPT !.pc = "opened", !.fd = FreeFd, !.board = b]]

(* Mutant: the lock is not looked at. *)
TakeOver(p, f) == TRUE

(* flock(LOCK_EX | LOCK_NB) *)
LockFree(p, f) == p.lock \in {None, f}

Flock(h) ==
  LET b == bus[h].board IN
  /\ bus[h].pc = "opened"
  /\ LockFree(port[b], bus[h].fd)
  /\ port' = [port EXCEPT ![b].lock = bus[h].fd]
  /\ bus' = [bus EXCEPT ![h].pc = "locked"]

SetExclusive(h) ==
  /\ bus[h].pc = "locked"
  /\ port' = [port EXCEPT ![bus[h].board].excl = TRUE]
  /\ bus' = [bus EXCEPT ![h].pc = "exclusive"]

apply_termios_(h) ==
  /\ bus[h].pc = "exclusive"
  /\ bus' = [bus EXCEPT ![h].pc = "ready"]
  /\ UNCHANGED port

ConstructorStep(h) ==
  \/ Flock(h)
  \/ SetExclusive(h)
  \/ apply_termios_(h)

(* What a constructor that fails leaves: its descriptor closed, and no more. *)
ClosedOnly(p, f) == Shut(p, f)

Dropped(h) ==
  /\ port' = [port EXCEPT ![bus[h].board] = ClosedOnly(@, bus[h].fd)]
  /\ bus' = [bus EXCEPT ![h] = Closed]

(* The error of a lock that somebody else has. *)
LockedError == "EBUSY"

(* It fails: refused by the kernel or by the lock, or by a call that fails
   for a reason of its own (a port unplugged, a rate termios does not have). *)
ConstructorFails(h, b, error) ==
  \/ /\ bus[h].pc = "closed"
     /\ IF Admits(port[b], h) THEN error = "EIO" /\ Fault
                              ELSE error = "EBUSY" /\ UNCHANGED faults
     /\ UNCHANGED <<port, bus>>
  \/ /\ bus[h].pc = "opened"
     /\ ~LockFree(port[b], bus[h].fd)
     /\ error = LockedError
     /\ Dropped(h)
     /\ UNCHANGED faults
  \/ /\ bus[h].pc \in {"opened", "locked", "exclusive"}
     /\ error = "EIO"
     /\ Dropped(h)
     /\ Fault

(* close_(): the mode is cleared, then the descriptor closed. *)
ClearExclusive(h) ==
  /\ bus[h].pc = "ready"
  /\ port' = [port EXCEPT ![bus[h].board].excl = FALSE]
  /\ bus' = [bus EXCEPT ![h].pc = "leaving", ![h].streams = FALSE]

CloseDescriptor(h) ==
  /\ bus[h].pc = "leaving"
  /\ port' = [port EXCEPT ![bus[h].board] = Shut(@, bus[h].fd)]
  /\ bus' = [bus EXCEPT ![h] = Closed]

-----------------------------------------------------------------------------
(* A gripper handle opens its port, streams, and goes: closed, killed, or
   with its stream left running. *)

GripperOpens(h) ==
  \E b \in Boards : OpenDevice(h, b) /\ UNCHANGED <<board, stream, scan, found, faults>>

GripperSteps(h) ==
  (ConstructorStep(h) \/ CloseDescriptor(h)) /\ UNCHANGED <<board, stream, scan, found, faults>>

GripperFails(h) ==
  /\ \E b \in Boards, error \in {LockedError, "EBUSY", "EIO"} :
       (bus[h].pc # "closed" => b = bus[h].board) /\ ConstructorFails(h, b, error)
  /\ UNCHANGED <<board, stream, scan, found>>

GripperStreams(h) ==
  /\ bus[h].pc = "ready"
  /\ ~bus[h].streams
  /\ stream' = [stream EXCEPT ![bus[h].board] = TRUE]
  /\ bus' = [bus EXCEPT ![h].streams = TRUE]
  /\ UNCHANGED <<port, board, scan, found, faults>>

GripperCloses(h) ==
  /\ ClearExclusive(h)
  /\ \E s \in BOOLEAN : stream' = [stream EXCEPT ![bus[h].board] = @ /\ s]
  /\ UNCHANGED <<board, scan, found, faults>>

GripperCrashes(h) ==
  /\ bus[h].pc # "closed"
  /\ Dropped(h)
  /\ Fault
  /\ UNCHANGED <<board, stream, scan, found>>

(* SerialBus(SerialBus&&): the descriptor goes to a handle that has none. *)
GripperMoves(from, to) ==
  /\ bus[from].pc = "ready"
  /\ bus[to].pc = "closed"
  /\ bus' = [bus EXCEPT ![to] = bus[from], ![from] = Closed]
  /\ UNCHANGED <<port, board, stream, scan, found, faults>>

-----------------------------------------------------------------------------
(* A serial number: its last digit, and the letter it ends in. *)

side_from_serial(s) ==
  IF s.digit = None THEN None ELSE IF s.digit % 2 = 1 THEN "Left" ELSE "Right"

(* With the full grammar or without, the last digit is the side and the
   letter behind it the role. *)
parse_serial(sn) ==
  IF sn = NoSn THEN [side |-> None, role |-> "Unknown"]
  ELSE [side |-> side_from_serial(sn),
        role |-> CASE sn.tail = "m" -> "Leader"
                   [] sn.tail = "s" -> "Follower"
                   [] OTHER -> "Unknown"]

(* An error that is an answer of one byte, taken for what was asked for:
   InvalidCmd is 1, the type of a right-hand board; SysBusy is the character
   0. *)
ByteAsType(error) == IF error = "InvalidCmd" THEN "Right" ELSE None
ByteAsSerial(error) == [digit |-> IF error = "SysBusy" THEN 0 ELSE None, tail |-> None]

Errors(b) == IF board[b].old THEN {"InvalidCmd"} ELSE {"SysBusy"}

(* What a scan may read in the answer to GetDevType, and in one to GetSn:
   the value, nothing, or an error's byte. *)
TypeRead(b) ==
  (IF board[b].old THEN {} ELSE {board[b].type})
    \union {None} \union {ByteAsType(e) : e \in IF "byte" \in ErrorForms THEN Errors(b) ELSE {}}

SerialRead(b) ==
  (IF board[b].old THEN {} ELSE {board[b].sn})
    \union {NoSn} \union {ByteAsSerial(e) : e \in IF "byte" \in ErrorForms THEN Errors(b) ELSE {}}

-----------------------------------------------------------------------------
(* scan_all *)

BeginScan ==
  /\ scan = Idle
  /\ found = <<>>
  /\ \E b \in Boards : scan' = [Idle EXCEPT !.todo = Boards \ {b}, !.board = b, !.step = "open"]
  /\ UNCHANGED <<port, bus, board, stream, found, faults>>

SideOf(sn, type) ==
  IF parse_serial(sn).side # None THEN parse_serial(sn).side
  ELSE IF type # None THEN type ELSE "Unknown"

(* The endpoint is noted and the next board taken. *)
Note(in_use) ==
  /\ found' = Append(found, [board |-> scan.board, side |-> SideOf(scan.sn, scan.type),
                             role |-> parse_serial(scan.sn).role, sn |-> scan.sn,
                             in_use |-> in_use])
  /\ IF scan.todo = {} THEN scan' = Idle
     ELSE \E b \in scan.todo :
            scan' = [Idle EXCEPT !.todo = scan.todo \ {b}, !.board = b, !.step = "open"]

ScanOpens ==
  /\ scan.step = "open"
  /\ \/ OpenDevice(Scanner, scan.board) /\ UNCHANGED scan
     \/ Flock(Scanner) /\ UNCHANGED scan
     \/ SetExclusive(Scanner) /\ UNCHANGED scan
     \/ apply_termios_(Scanner) /\ scan' = [scan EXCEPT !.step = "stop"]
  /\ UNCHANGED <<board, stream, found, faults>>

ScanRefused ==
  /\ scan.step = "open"
  /\ \E error \in {LockedError, "EBUSY", "EIO"} :
       /\ ConstructorFails(Scanner, scan.board, error)
       /\ Note(error = "EBUSY")
  /\ UNCHANGED <<board, stream>>

(* The stream a process before left running is stopped; a failure is passed
   over, as the ones below are. *)
ScanStops ==
  /\ scan.step = "stop"
  /\ \E s \in BOOLEAN : stream' = [stream EXCEPT ![scan.board] = @ /\ s]
  /\ scan' = [scan EXCEPT !.step = "type"]
  /\ UNCHANGED <<port, bus, board, found, faults>>

ScanAsksType ==
  /\ scan.step = "type"
  /\ \E t \in TypeRead(scan.board) : scan' = [scan EXCEPT !.step = "sn", !.type = t]
  /\ UNCHANGED <<port, bus, board, stream, found, faults>>

(* Three attempts at the serial number, or until there is one. *)
ScanAsksSerial ==
  /\ scan.step = "sn"
  /\ \E sn \in SerialRead(scan.board) :
       scan' = [scan EXCEPT !.sn = sn, !.tries = @ + 1,
                            !.step = IF sn # NoSn \/ scan.tries = 2 THEN "close" ELSE "sn"]
  /\ UNCHANGED <<port, bus, board, stream, found, faults>>

(* The transport is destroyed at the end of the block, the endpoint noted. *)
ScanCloses ==
  /\ scan.step = "close"
  /\ \/ ClearExclusive(Scanner) /\ UNCHANGED <<scan, found>>
     \/ CloseDescriptor(Scanner) /\ Note(FALSE)
  /\ UNCHANGED <<board, stream, faults>>

(* find_one, find_left and the others look at a scan of their own. *)
Finds(wanted) ==
  LET matching == {i \in DOMAIN found : wanted \in {found[i].side, found[i].role, "any"}}
  IN IF matching = {} \/ (wanted = "any" /\ Len(found) > 1) THEN None
     ELSE found[CHOOSE i \in matching : \A j \in matching : i <= j]

ScanReturns ==
  /\ scan = Idle
  /\ found # <<>>
  /\ found' = <<>>
  /\ UNCHANGED <<port, bus, board, stream, scan, faults>>

-----------------------------------------------------------------------------
Init ==
  /\ port = [b \in Boards |-> [open |-> {}, lock |-> None, excl |-> FALSE]]
  /\ bus = [h \in Handles |-> Closed]
  /\ board \in [Boards -> Firmware]
  /\ stream = [b \in Boards |-> FALSE]
  /\ scan = Idle
  /\ found = <<>>
  /\ faults = 0

Next ==
  \/ \E s \in Strangers : StrangerOpens(s) \/ StrangerCloses(s)
  \/ \E h \in Grippers :
       \/ GripperOpens(h) \/ GripperSteps(h) \/ GripperFails(h)
       \/ GripperStreams(h) \/ GripperCloses(h) \/ GripperCrashes(h)
  \/ \E from, to \in Grippers : GripperMoves(from, to)
  \/ BeginScan \/ ScanOpens \/ ScanRefused
  \/ ScanStops \/ ScanAsksType \/ ScanAsksSerial \/ ScanCloses
  \/ ScanReturns

Spec == Init /\ [][Next]_vars

-----------------------------------------------------------------------------
(* A gripper that streams keeps its stream, however often the boards are
   scanned and whatever else opens the port: nobody else gets to send. *)
StreamSurvivesScans ==
  \A h \in Grippers : bus[h].streams => stream[bus[h].board]

(* From its constructor's end until it is closed a handle's port is in the
   exclusive mode: nothing another handle does, failing or closing, takes
   it back. *)
OwnedIsExclusive ==
  \A h \in Handles : bus[h].pc \in {"exclusive", "ready"} => port[bus[h].board].excl

(* A board that is noted as in use is open to somebody else (discovery.hpp: in_use
   says why nothing else is known of it), and one with a gripper ready on it is
   not noted as free unless its scan failed.  Another program's open port is, if it
   is neither locked nor exclusive. *)
NotesInUse ==
  Len(found') > Len(found) =>
    LET e == found'[Len(found')]
    IN /\ e.in_use => port[e.board].open \ {bus[Scanner].fd} # {}
       /\ (\E h \in Grippers : bus[h].pc = "ready" /\ bus[h].board = e.board)
            => e.in_use \/ faults' > faults

InUseIsTrue == [][NotesInUse]_vars

(* discovery.cpp:126 "We do NOT guess": a side that a scan reports, and the
   gripper find_left or find_right returns for it, is one the firmware has,
   in its serial number or as its type. *)
SideIsSaid ==
  \A wanted \in {"any", "Left", "Right", "Leader", "Follower"} :
    LET e == Finds(wanted)
    IN e # None /\ e.side # "Unknown" =>
         /\ ~board[e.board].old
         /\ e.side \in {board[e.board].type, parse_serial(board[e.board].sn).side}

(* serial_bus.cpp:128-132: the exclusive mode, which would "refuse our own
   next open", is not left behind by a handle that has gone. *)
NoModeLeftBehind ==
  \A b \in Boards : port[b].excl => \E h \in Handles : bus[h].board = b
=============================================================================
