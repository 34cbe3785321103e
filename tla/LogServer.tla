----------------------------- MODULE LogServer -----------------------------
(***************************************************************************)
(* The log server of MAS (applications/maslog, socks.c) and the clients    *)
(* that print to it (libmaslog.c).  The server is one thread: it selects,  *)
(* accepts at most one connection, receives once from every client that    *)
(* has sent something, and then takes one slot of its table after the      *)
(* other and cuts what it has received into lines, which zeros end.  Slots *)
(* are taken over by later clients.                                        *)
(* A byte is known by its client, its line and its place in the line; line *)
(* 0 is the command that names the client, which is sent in one piece.     *)
(* The first byte of a line is its level.  The server's own is fixed, as   *)
(* the commands that set it are left out, so all that is known of a level  *)
(* is whether lines of it are shown.                                       *)
(***************************************************************************)
EXTENDS Naturals, Sequences, FiniteSets

CONSTANTS
  Clients,  \* connections made to the server, numbered as they are made
  MaxClients, \* MAX_CLIENTS, the slots of the server's table
  MaxMsg,   \* MAX_MSG, the bytes of a receive buffer
  Lengths,  \* lengths of lines, the level's digit included
  MaxLines, \* bound on the lines of all clients
  Faults    \* cut: a send is partial, or a connection breaks, once

None == 0
Slots == 1..MaxClients

ASSUME LogAssumption ==
  /\ Clients \subseteq Nat \ {None} /\ MaxClients \in Nat \ {0}
  /\ MaxMsg \in Nat /\ MaxMsg > 1 /\ MaxLines \in Nat
  /\ Lengths \subseteq Nat \ {0} /\ Faults \subseteq {"cut"}

VARIABLES
  cut,     \* whether a send has been cut
  phase,   \* of a connection: new, queued, leaving (closed before it is
           \* accepted), open, closed, broken, refused, dropped
  printed, \* what each client has printed, line by line
  shown,   \* the lines, <<client, line>>, of a level that the server shows
  wire,    \* bytes sent and not received
  fd, recvBuf, flags, \* massock_client_t; recv_idx is Len(recvBuf)
  name,    \* log_client_t: whose name it is
  log,     \* the file: name and text
  turn     \* the slot that the main loop is at, None while it selects

client == <<phase, printed, shown>>
server == <<fd, recvBuf, flags, name, log, turn>>
vars   == <<cut, phase, printed, shown, wire, fd, recvBuf, flags, name, log, turn>>

Init ==
  /\ cut = FALSE
  /\ phase = [c \in Clients |-> "new"]
  /\ printed = [c \in Clients |-> <<>>] /\ shown = {}
  /\ wire = [c \in Clients |-> <<>>]
  /\ fd = [s \in Slots |-> None] /\ recvBuf = [s \in Slots |-> <<>>]
  /\ flags = [s \in Slots |-> {}] /\ name = [s \in Slots |-> None]
  /\ log = <<>> /\ turn = None

-----------------------------------------------------------------------------
(* libmaslog.c *)

Line(c, n, len) ==
  [i \in 1..len + 1 |-> [client |-> c, line |-> n, at |-> i, end |-> i > len]]

(* maslog_connect, which sends the name. *)
Connect(c) ==
  /\ phase[c] = "new" /\ \A d \in Clients : d < c => phase[d] # "new"
  /\ phase' = [phase EXCEPT ![c] = "queued"]
  /\ wire' = [wire EXCEPT ![c] = Line(c, 0, 1)]
  /\ UNCHANGED <<cut, printed, shown, server>>

MayCut == "cut" \in Faults /\ ~cut
PrintedLines == {x \in Clients \X (1..MaxLines) : x[2] <= Len(printed[x[1]])}
Connected(c) == phase[c] \in {"queued", "open"}

(* maslog_print_level: whatever the socket took of the line is sent. *)
PrintLine(c) ==
  /\ Connected(c) /\ Cardinality(PrintedLines) < MaxLines
  /\ \E len \in Lengths :
       LET n == Len(printed[c]) + 1
           line == Line(c, n, len) IN
       /\ printed' = [printed EXCEPT ![c] = Append(@, len)]
       /\ shown' \in {shown, shown \cup {<<c, n>>}}
       /\ \E sent \in IF MayCut THEN 1..len + 1 ELSE {len + 1} :
            /\ wire' = [wire EXCEPT ![c] = @ \o SubSeq(line, 1, sent)]
            /\ cut' = (cut \/ sent <= len)
  /\ UNCHANGED <<phase, server>>

(* maslog_close; a connection that breaks loses what is on its way. *)
Close(c) ==
  /\ Connected(c)
  /\ \/ /\ phase' = [phase EXCEPT ![c] = IF @ = "open" THEN "closed" ELSE "leaving"]
        /\ UNCHANGED <<cut, wire>>
     \/ /\ MayCut /\ phase[c] = "open"
        /\ phase' = [phase EXCEPT ![c] = "broken"] /\ cut' = TRUE
        /\ wire' = [wire EXCEPT ![c] = <<>>]
  /\ UNCHANGED <<printed, shown, server>>

-----------------------------------------------------------------------------
(* socks.c *)

Waiting == {c \in Clients : phase[c] \in {"queued", "leaving"}}

Readable_Open(s) == fd[s] # None /\ wire[fd[s]] # <<>> /\ phase[fd[s]] = "open"
Readable(s) ==
  fd[s] # None /\ (wire[fd[s]] # <<>> \/ phase[fd[s]] \in {"closed", "broken"})

FreeSlots == {s \in Slots : fd[s] = None}
FirstFree == CHOOSE s \in FreeSlots : \A t \in FreeSlots : s <= t

(* massock_listener_select, with no slot left for the connection it has    *)
(* accepted: it is closed, and nothing is received.                        *)
Refuse ==
  /\ turn = None /\ FreeSlots = {}
  /\ \E c \in Waiting :
       /\ phase' = [phase EXCEPT ![c] = "refused"]
       /\ wire' = [wire EXCEPT ![c] = <<>>]
  /\ UNCHANGED <<cut, printed, shown, server>>

(* What recv returns to a slot, of at most the room it has. *)
Room(s) == MaxMsg - Len(recvBuf[s])
Counts(s) == {n \in 0..Room(s) : /\ n <= Len(wire[fd[s]])
                                 /\ n = 0 => wire[fd[s]] = <<>> \/ Room(s) = 0}

(* massock_client_recv: if recv fails, all the room counts as received.    *)
Broken(s) == fd[s] # None /\ phase[fd[s]] = "broken"
Stale == [client |-> None, line |-> 0, at |-> 0, end |-> FALSE]
Received(s, n) ==
  IF Broken(s) THEN [i \in 1..Room(s) |-> Stale]
  ELSE IF fd[s] # None THEN SubSeq(wire[fd[s]], 1, n) ELSE <<>>
RecvFlags(s, n) == IF Broken(s) THEN {"ERR"}
                   ELSE IF n = 0 THEN {"CLOSE"} ELSE {"DATA"}

(* massock_listener_select: accepts one, if one is waiting, and receives   *)
(* from all that can be read, once and maybe not all there is.             *)
Accepts(new) == IF Waiting = {} THEN new = None ELSE new \in Waiting /\ FreeSlots # {}
Fills(new, s) == new # None /\ s = FirstFree
SlotOf(c) == CHOOSE s \in Slots : fd[s] = c
Select ==
  /\ turn = None /\ turn' = 1
  /\ \E new \in Waiting \cup {None}, count \in [Slots -> 0..MaxMsg] :
       /\ Accepts(new) /\ (new # None \/ \E s \in Slots : Readable(s))
       /\ \A s \in Slots :
            count[s] \in IF Readable(s) THEN Counts(s) ELSE {0}
       /\ fd' = [s \in Slots |-> IF Fills(new, s) THEN new ELSE fd[s]]
       /\ phase' = [c \in Clients |->
            IF c # new THEN phase[c]
            ELSE IF phase[c] = "leaving" THEN "closed" ELSE "open"]
       /\ recvBuf' = [s \in Slots |-> recvBuf[s] \o Received(s, count[s])]
       /\ wire' = [c \in Clients |->
            IF \E s \in Slots : fd[s] = c
            THEN SubSeq(wire[c], count[SlotOf(c)] + 1, Len(wire[c]))
            ELSE wire[c]]
       /\ flags' = [s \in Slots |->
            IF Readable(s) THEN RecvFlags(s, count[s])
            ELSE (flags[s] \ {"DATA"})
                   \cup (IF Fills(new, s) THEN {"CONNECT"} ELSE {})]
  /\ UNCHANGED <<cut, printed, shown, name, log>>

-----------------------------------------------------------------------------
(* logger.c and main.c *)

(* log_string: a command names the client, all else is text, of which the  *)
(* first byte is read as a level and not printed.  If it is not the first  *)
(* byte of a line, it may pass for any level.                              *)
Command(text) == text[1].line = 0 /\ text[1].at = 1
Shown(b) == <<b.client, b.line>> \in shown
ShownAs(b) == IF b.at = 1 THEN {Shown(b)} ELSE BOOLEAN
LogText(text) ==
  /\ \E high \in ShownAs(text[1]) :
       log' = IF high THEN Append(log, [name |-> name[turn], text |-> Tail(text)])
              ELSE log
  /\ UNCHANGED name
LogString(text) ==
  IF Command(text) THEN /\ name' = [name EXCEPT ![turn] = text[1].client]
                        /\ UNCHANGED log
  ELSE LogText(text)

Processed(s) == "DATA" \in flags[s] /\ "ERR" \notin flags[s]
Ends(b) == {i \in 1..Len(b) : b[i].end}

(* log_client_process, which cuts the lines off the buffer one by one ...  *)
LogLine ==
  /\ turn # None /\ Processed(turn)
  /\ \E stop \in Ends(recvBuf[turn]) :
       LET buf == recvBuf[turn] IN
       /\ \A i \in Ends(buf) : stop <= i
       /\ IF stop = 1 THEN UNCHANGED <<name, log>>
          ELSE LogString(SubSeq(buf, 1, stop - 1))
       /\ recvBuf' = [recvBuf EXCEPT ![turn] = SubSeq(buf, stop + 1, Len(buf))]
  /\ UNCHANGED <<cut, client, wire, fd, flags, turn>>

(* ... and keeps the rest, unless it fills the buffer: then all but its    *)
(* last byte is a line.                                                    *)
Exceeded_Early(buf) == Len(buf) + 1 = MaxMsg
Exceeded(buf) == Len(buf) = MaxMsg
Kept(buf) == <<buf[Len(buf)]>>
KeepRest ==
  LET buf == recvBuf[turn] IN
  IF Processed(turn) /\ Exceeded(buf)
  THEN /\ LogString(SubSeq(buf, 1, Len(buf) - 1))
       /\ recvBuf' = [recvBuf EXCEPT ![turn] = Kept(buf)]
  ELSE UNCHANGED <<name, log, recvBuf>>

(* main: the rest of a slot's turn.  massock_client_delete forgets the     *)
(* connection, and leaves what was received from it.                       *)
Deleted(s) == flags[s] \cap {"ERR", "CLOSE"} # {}
EndTurn ==
  /\ turn # None /\ (Processed(turn) => Ends(recvBuf[turn]) = {})
  /\ KeepRest
  /\ IF Deleted(turn)
     THEN /\ phase' = [phase EXCEPT ![fd[turn]] = IF @ = "open" THEN "dropped" ELSE @]
          /\ wire' = [wire EXCEPT ![fd[turn]] = <<>>]
          /\ fd' = [fd EXCEPT ![turn] = None] /\ flags' = [flags EXCEPT ![turn] = {}]
     ELSE /\ flags' = [flags EXCEPT ![turn] = @ \ {"CONNECT"}]
          /\ UNCHANGED <<phase, wire, fd>>
  /\ turn' = IF turn = MaxClients THEN None ELSE turn + 1
  /\ UNCHANGED <<cut, printed, shown>>

-----------------------------------------------------------------------------
Server == Refuse \/ Select \/ LogLine \/ EndTurn
Next == Server \/ \E c \in Clients : Connect(c) \/ PrintLine(c) \/ Close(c)

Spec == Init /\ [][Next]_vars

(* The server's loop goes on; nobody need connect, print or close. *)
FairSpec == Spec /\ WF_vars(Server)

-----------------------------------------------------------------------------
Earlier(x, y) == x[1] < y[1] \/ (x[1] = y[1] /\ x[2] < y[2])
Pos(b) == <<b.line, b.at>>

(* The bytes of a client's lines that it has printed, and those of them    *)
(* that the file is to have in the end: of a line that is shown, all but   *)
(* the level, or as many as come before the last of a full buffer.         *)
Printed(c) ==
  UNION {{Line(c, n, printed[c][n])[i] : i \in 1..printed[c][n]} :
           n \in 1..Len(printed[c])}
Due(b) == Shown(b) /\ b.at \in 2..(MaxMsg - 1)

(* Where a client's bytes are: in the file, in the slots or on the wire.   *)
Pieces(c) == [i \in 1..Len(log) |-> log[i].text] \o recvBuf \o <<wire[c]>>
Places(c) ==
  LET p == Pieces(c) IN
  {x \in UNION {{i} \X (1..Len(p[i])) : i \in 1..Len(p)} :
     LET b == p[x[1]][x[2]] IN b.client = c /\ b.line > 0 /\ ~b.end}
ByteAt(c, x) == Pieces(c)[x[1]][x[2]]

(***************************************************************************)
(* Of a line that is shown, all that it says is in the file, in the        *)
(* client's receive buffer or on the wire if the line fits into a buffer,  *)
(* and its first part if it does not; nothing is anywhere but what was     *)
(* printed, once and in this order.  Receiving in pieces, keeping the rest *)
(* of a buffer, cutting an overlong line before and closing at once change *)
(* nothing about it, as long as sends are whole.  (Of an overlong line the *)
(* byte kept is lost, and what comes after it may be.)                     *)
(***************************************************************************)
NothingLost ==
  ~cut => \A c \in Clients : phase[c] # "refused" =>
            LET there == {ByteAt(c, x) : x \in Places(c)} IN
            /\ {b \in Printed(c) : Due(b)} \subseteq there
            /\ there \subseteq Printed(c)
            /\ \A x, y \in Places(c) :
                 Earlier(x, y) => Earlier(Pos(ByteAt(c, x)), Pos(ByteAt(c, y)))

(***************************************************************************)
(* A line in the file is of one client and of one line that it printed,    *)
(* under that client's name, as long as sends are whole.                   *)
(***************************************************************************)
OwnLines ==
  ~cut => \A i \in 1..Len(log) : \A j \in 1..Len(log[i].text) :
            LET b == log[i].text[j] IN /\ b.client = log[i].name
                                       /\ b.line = log[i].text[1].line

(***************************************************************************)
(* No client waits for the others for ever, nor for more to be sent than   *)
(* there is: once they have printed what they print, whatever was on its   *)
(* way has been received, or dropped with its connection.                  *)
(***************************************************************************)
AllReceived ==
  (\E c \in Clients : wire[c] # <<>>) ~> (\A c \in Clients : wire[c] = <<>>)
=============================================================================
