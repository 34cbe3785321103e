----------------------------- MODULE MceCommand -----------------------------
(***************************************************************************)
(* Commands to the MCE as mce_library/cmd.c, virtual.c, manip.c and        *)
(* packet.c make them.  A call on a range of a parameter becomes ranges of *)
(* parameters of real cards (virtual cards, banked access), then commands, *)
(* one card after the other; a write that does not begin at 0 first reads  *)
(* the words before it and writes them back; a command whose reply does    *)
(* not match is sent again.                                                *)
(*                                                                         *)
(* A command and its reply are one step here, with the outcomes that       *)
(* McedspCmd allows; commands of several processes interleave.  The MCE is *)
(* external: a memory of words per card and parameter.  A word is named by *)
(* where it comes from, and x says whether op_xor has been applied to it.  *)
(***************************************************************************)
EXTENDS Integers, Sequences, SequencesExt

CONSTANTS
  Procs,
  Params,           \* names of parameters
  Desc,             \* their descriptions: virtual, maps, cards, banked, manip
  Calls,            \* the calls made: [op, param, start, count]
  Split, Activate,  \* BANK1_SPLIT_IDX, BANK1_ACTIVATE_IDX
  DataMax,          \* MCE_CMD_DATA_MAX
  MaxAttempts,      \* MAX_SEND_ATTEMPTS
  Size,             \* words of a parameter in the MCE
  MaxCalls          \* bound on the calls of a process

Cards == UNION {{Desc[p].cards[i] : i \in DOMAIN Desc[p].cards} : p \in Params}

(* words [start, start + count) of a virtual parameter are words of another *)
Map == [start : Nat, count : Nat, offset : Nat, param : Params]

ASSUME CommandAssumption ==
  /\ {Split, Activate, DataMax, MaxAttempts, Size, MaxCalls} \subseteq Nat
  /\ 0 < Split /\ Split <= Activate /\ Activate <= DataMax
  /\ Size <= 2 * Split
  /\ \A p \in Params :
       /\ Desc[p].maps \in Seq(Map) /\ Desc[p].cards \in Seq(Cards)
       /\ {Desc[p].virtual, Desc[p].banked, Desc[p].manip} \subseteq BOOLEAN
  /\ \A c \in Calls : /\ c.param \in Params /\ c.op \in {"write", "read", "start"}
                      /\ c.start \in Nat /\ c.count \in Nat

VARIABLES
  mem,     \* the MCE's memory: card, parameter, index
  call,    \* the call of each process
  result,  \* run while it lasts, then 0 or the error
  work,    \* the ranges still to be done
  at,      \* the card of the first of them that is served
  lead,    \* the words read to be written back, or <<>>
  data,    \* the caller's buffer
  tries,   \* attempts of the current command
  (* history *)
  before,  \* the memory when the call began
  alone,   \* no other process has written since
  made     \* the calls a process has made

vars == <<mem, call, result, work, at, lead, data, tries, before, alone, made>>

(* Word n of call c of process or card of. *)
Word(of, c, n) == [of |-> of, call |-> c, n |-> n, x |-> 0]
Junk == Word("junk", 0, 0)
Zero == Word("zero", 0, 0)
Flip(w) == [w EXCEPT !.x = 1 - @]

-----------------------------------------------------------------------------
(* From a call to ranges of real cards.                                    *)

Larger(a, b) == IF a < b THEN b ELSE a
Lesser(a, b) == IF a < b THEN a ELSE b

Piece(p, upper, start, count, off) ==
  [param |-> p, upper |-> upper, start |-> start, count |-> count, off |-> off]

(* mcecmd_readwrite_banked: where the upper bank begins.  What fits in one *)
(* command of the lower bank is not split.                                 *)
Middle(lo, hi) ==
  IF lo < Split /\ hi < Activate THEN hi ELSE Larger(lo, Split)

Banked(p, start, count, off) ==
  LET hi  == start + count
      mid == Middle(start, hi)
  IN  (IF mid = start THEN <<>>
       ELSE <<Piece(p, FALSE, start, mid - start, off)>>)
      \o (IF hi = mid THEN <<>>
          ELSE <<Piece(p, TRUE, mid - Split, hi - mid, off + mid - start)>>)

RealPieces(p, start, count, off) ==
  IF Desc[p].banked THEN Banked(p, start, count, off)
  ELSE <<Piece(p, FALSE, start, count, off)>>

(* mcecmd_write_virtual, mcecmd_read_virtual: the part of the range in map m. *)
InMap(m, start, count) ==
  LET from == Larger(start, m.start)
      to   == Lesser(start + count, m.start + m.count)
  IN  IF from >= to THEN <<>>
      ELSE RealPieces(m.param, m.offset + from - m.start, to - from,
                      from - start)

Pieces(c) ==
  IF Desc[c.param].virtual
  THEN FlattenSeq([i \in DOMAIN Desc[c.param].maps |->
                     InMap(Desc[c.param].maps[i], c.start, c.count)])
  ELSE RealPieces(c.param, c.start, c.count, 0)

-----------------------------------------------------------------------------
(* The buffer and the memory.                                              *)

CardCount(c) ==
  IF Desc[c.param].virtual THEN 1 ELSE Len(Desc[c.param].cards)

(* mcecmd_prewrite_manip and mcecmd_postread_manip, on n words from off. *)
Manip(p, off, n, d) ==
  IF ~Desc[p].manip THEN d
  ELSE [k \in DOMAIN d |-> IF k > off /\ k <= off + n THEN Flip(d[k]) ELSE d[k]]

(* What the caller passes; virtual and banked reads clear it first. *)
FreshBuffer(p, c) ==
  LET d == Desc[c.param]
  IN  IF c.op = "write" THEN [k \in 1..c.count |-> Word(p, made[p] + 1, k)]
      ELSE [k \in 1..(CardCount(c) * c.count) |->
              IF k <= c.count /\ (d.virtual \/ d.banked) THEN Zero ELSE Junk]

(* A card is asked for its upper bank by another card number. *)
Base_Low(r) == 0
Base(r) == IF r.upper THEN Split ELSE 0

Cell(c, p, i) == [card |-> c, param |-> p, index |-> i]

RealCells(p, i) == {Cell(Desc[p].cards[n], p, i) : n \in DOMAIN Desc[p].cards}

Cells == UNION {RealCells(p, i) : p \in Params, i \in 0..(Size - 1)}

Init ==
  /\ mem = [x \in Cells |-> Word(x.card, 0, x.index)]
  /\ call = [p \in Procs |-> CHOOSE c \in Calls : TRUE]
  /\ result = [p \in Procs |-> "idle"]
  /\ work = [p \in Procs |-> <<>>] /\ at = [p \in Procs |-> 1]
  /\ lead = [p \in Procs |-> <<>>] /\ data = [p \in Procs |-> <<>>]
  /\ tries = [p \in Procs |-> 0]
  /\ before = [p \in Procs |-> mem] /\ alone = [p \in Procs |-> TRUE]
  /\ made = [p \in Procs |-> 0]

-----------------------------------------------------------------------------
(* Commands.                                                               *)

Here(p) == Head(work[p])
Card(p)  == Desc[Here(p).param].cards[at[p]]

(* mcecmd_load_command refuses what does not fit in a command. *)
Fits(n) == n < DataMax

(* How a command may end, and whether the MCE has executed it: the reply    *)
(* of the execution; one that does not match the command (zeros after a     *)
(* transfer in part, another command, parameter or card, neither OK nor     *)
(* ER); the MCE's refusal; a damaged reply; none; not sent at all.          *)
Outcomes == {<<"ok", TRUE>>, <<"mismatch", TRUE>>, <<"mismatch", FALSE>>,
             <<"refused", FALSE>>, <<"checksum", TRUE>>, <<"timeout", TRUE>>,
             <<"timeout", FALSE>>, <<"unsent", FALSE>>}

(* mcecmd_send_command goes round again on -MCE_ERR_REPLY, whether or not   *)
(* the MCE has executed the command.                                        *)
Retried(r, n) == r = "mismatch" /\ n < MaxAttempts

(* Any other error ends the loop over the cards. *)
GoesOn_Refused(r) == r \in {"ok", "refused"}
GoesOn(r) == r = "ok"

(* The outcome o of the current command: the next attempt, the end of the  *)
(* call, or Ok, what comes after the right reply.                          *)
Send(p, o, Ok) ==
  \/ /\ Retried(o[1], tries[p])
     /\ tries' = [tries EXCEPT ![p] = @ + 1]
     /\ UNCHANGED <<result, work, at, lead, data>>
  \/ /\ ~Retried(o[1], tries[p]) /\ ~GoesOn(o[1])
     /\ result' = [result EXCEPT ![p] = o[1]]
     /\ UNCHANGED <<work, at, lead, data, tries>>
  \/ /\ GoesOn(o[1])
     /\ tries' = [tries EXCEPT ![p] = 0]
     /\ Ok

(* A range begins: the words to be written are manipulated in place. *)
Entered(c, w, d) ==
  IF c.op = "write" /\ w # <<>>
  THEN Manip(Head(w).param, Head(w).off, Head(w).count, d) ELSE d

(* A range is done: the words of its first card are manipulated. *)
Left_AsRead(c, r, d) == d
Left(c, r, d) == IF c.op = "read" THEN Manip(r.param, r.off, r.count, d) ELSE d

(* On to the next card, the next range, or the end of the call; d is the   *)
(* buffer.                                                                 *)
Advance(p, d) ==
  /\ lead' = [lead EXCEPT ![p] = <<>>]
  /\ IF at[p] < Len(Desc[Here(p).param].cards)
     THEN /\ at' = [at EXCEPT ![p] = @ + 1]
          /\ data' = [data EXCEPT ![p] = d]
          /\ UNCHANGED <<work, result>>
     ELSE /\ at' = [at EXCEPT ![p] = 1]
          /\ work' = [work EXCEPT ![p] = Tail(@)]
          /\ data' = [data EXCEPT ![p] =
                        Entered(call[p], Tail(work[p]), Left(call[p], Here(p), d))]
          /\ result' = IF Len(work[p]) = 1 THEN [result EXCEPT ![p] = "ok"]
                       ELSE result

(* A call begins.  mcecmd_start_application and its likes send GO, ST or   *)
(* RS to each card.                                                        *)
Begin(p, c) ==
  /\ result[p] # "run" /\ made[p] < MaxCalls
  /\ made' = [made EXCEPT ![p] = @ + 1]
  /\ call' = [call EXCEPT ![p] = c]
  /\ LET w == IF c.op = "start" THEN <<Piece(c.param, FALSE, 0, 1, 0)>> ELSE Pieces(c)
         d == IF c.op = "write" /\ Desc[c.param].virtual
              THEN Manip(c.param, 0, c.count, FreshBuffer(p, c))
              ELSE FreshBuffer(p, c)
     IN  /\ work' = [work EXCEPT ![p] = w]
         /\ data' = [data EXCEPT ![p] = Entered(c, w, d)]
         /\ result' = [result EXCEPT ![p] = IF w = <<>> THEN "ok" ELSE "run"]
  /\ at' = [at EXCEPT ![p] = 1]
  /\ lead' = [lead EXCEPT ![p] = <<>>]
  /\ tries' = [tries EXCEPT ![p] = 0]
  /\ before' = [before EXCEPT ![p] = mem]
  /\ alone' = [alone EXCEPT ![p] = TRUE]
  /\ UNCHANGED mem

Running(p, op) == result[p] = "run" /\ call[p].op = op

NeedsLead(p) == Here(p).start # 0 /\ lead[p] = <<>>

Words(p) ==
  CASE call[p].op = "start" -> 1
    [] call[p].op = "write" /\ NeedsLead(p) -> Here(p).start
    [] OTHER -> Here(p).start + Here(p).count

TooLong(p) ==
  /\ result[p] = "run"
  /\ ~Fits(Words(p))
  /\ result' = [result EXCEPT ![p] = "bounds"]
  /\ UNCHANGED <<mem, call, work, at, lead, data, tries, before, alone, made>>

(* The word at index i of the range r of a card. *)
WordAt(c, r, i) == mem[Cell(c, r.param, Base(r) + i)]

LeadStored(c, r) == [k \in 1..r.start |-> WordAt(c, r, k - 1)]

(* mcecmd_write_range: "Read any leading data in the block". *)
ReadLead(p, o) ==
  /\ Running(p, "write") /\ NeedsLead(p) /\ Fits(Words(p))
  /\ Send(p, o, /\ lead' = [lead EXCEPT ![p] =
                               LeadStored(Card(p), Here(p))]
                /\ UNCHANGED <<result, work, at, data>>)
  /\ UNCHANGED <<mem, call, before, alone, made>>

(* The words sent: those before the range, then its own. *)
Block(p) ==
  lead[p] \o [k \in 1..Here(p).count |-> data[p][Here(p).off + k]]

WriteBlock(p, o) ==
  /\ Running(p, "write") /\ ~NeedsLead(p) /\ Fits(Words(p))
  /\ LET c == Card(p)
         r == Here(p)
     IN  mem' = IF ~o[2] THEN mem
                ELSE [x \in Cells |->
                        IF /\ x.card = c /\ x.param = r.param
                           /\ x.index - Base(r) \in 0..(Len(Block(p)) - 1)
                        THEN Block(p)[x.index - Base(r) + 1] ELSE mem[x]]
  /\ alone' = IF o[2] THEN [q \in Procs |-> alone[q] /\ q = p] ELSE alone
  /\ Send(p, o, Advance(p, data[p]))
  /\ UNCHANGED <<call, before, made>>

(* mcecmd_read_range: the words of card i go to data + i * count. *)
ReadBlock(p, o) ==
  /\ Running(p, "read") /\ Fits(Words(p))
  /\ LET r == Here(p)
         first == r.off + (at[p] - 1) * r.count
         d == [k \in DOMAIN data[p] |->
                 IF k - first \in 1..r.count THEN WordAt(Card(p), r, r.start + k - first - 1)
                 ELSE data[p][k]]
     IN  Send(p, o, Advance(p, d))
  /\ UNCHANGED <<mem, call, before, alone, made>>

StartCard(p, o) ==
  /\ Running(p, "start")
  /\ Send(p, o, Advance(p, data[p]))
  /\ UNCHANGED <<mem, call, before, alone, made>>

Next ==
  \E p \in Procs :
    \/ \E c \in Calls : Begin(p, c)
    \/ TooLong(p)
    \/ \E o \in Outcomes :
         ReadLead(p, o) \/ WriteBlock(p, o) \/ ReadBlock(p, o) \/ StartCard(p, o)

Spec == Init /\ [][Next]_vars

-----------------------------------------------------------------------------
(* What a call means: the words of the MCE that index k of its range names, *)
(* and how often op_xor is applied to them on the way.                     *)

MapsAt(p, i) ==
  {m \in {Desc[p].maps[n] : n \in DOMAIN Desc[p].maps} :
     m.start <= i /\ i < m.start + m.count}

CellsAt(c, k) ==
  IF Desc[c.param].virtual
  THEN UNION {RealCells(m.param, m.offset + c.start + k - m.start)
                : m \in MapsAt(c.param, c.start + k)}
  ELSE RealCells(c.param, c.start + k)

Targets(c) == UNION {CellsAt(c, k) : k \in 0..(c.count - 1)}

(* The word that the caller gave for cell x, as the MCE shall have it. *)
Given(p, x) ==
  LET k == CHOOSE k \in 0..(call[p].count - 1) : x \in CellsAt(call[p], k)
      w == Word(p, made[p], k + 1)
  IN  IF Desc[x.param].manip THEN Flip(w) ELSE w

(* Descriptions in which a word has one name: maps overlap neither in the  *)
(* virtual parameter nor in those that they lead to, no card is named      *)
(* twice, and words are manipulated where they are.                        *)
Separate(a, m, b, n) == a + m <= b \/ b + n <= a

WellDescribed ==
  \A p \in Params :
    LET map == Desc[p].maps
        on  == Desc[p].cards
    IN  /\ \A i, j \in DOMAIN on : i # j => on[i] # on[j]
        /\ ~Desc[p].virtual => on # <<>>
        /\ Desc[p].virtual =>
             /\ ~Desc[p].manip
             /\ \A i \in DOMAIN map : ~Desc[map[i].param].virtual
             /\ \A i, j \in DOMAIN map : i # j =>
                  /\ Separate(map[i].start, map[i].count, map[j].start, map[j].count)
                  /\ \/ map[i].param # map[j].param
                     \/ Separate(map[i].offset, map[i].count, map[j].offset, map[j].count)

(* Words that are banked, manipulated or mapped to are read from one card: *)
(* the code lays out the words of several otherwise.                       *)
ReadsOneCard ==
  \A c \in Calls : c.op = "read" =>
    IF Desc[c.param].virtual
    THEN \A i \in DOMAIN Desc[c.param].maps :
           Len(Desc[Desc[c.param].maps[i].param].cards) = 1
    ELSE Desc[c.param].banked \/ Desc[c.param].manip => Len(Desc[c.param].cards) = 1

(* What is written to several cards is not banked, so that a card has all  *)
(* its words before the next, and stays within the parameter.              *)
WritesByCard ==
  \A c \in Calls :
    c.op = "write" /\ ~Desc[c.param].virtual /\ Len(Desc[c.param].cards) > 1 =>
      ~Desc[c.param].banked /\ c.start + c.count <= Size

(* A write changes nothing but the words of its range, those to what the   *)
(* caller gave, and when it returns 0 it has changed them all; however the *)
(* range is cut into banks, maps and cards, and though a command that was   *)
(* executed may be sent again.                                              *)
WriteExact ==
  \A p \in Procs : alone[p] /\ made[p] > 0 /\ call[p].op = "write" =>
    \A x \in Cells :
      \/ mem[x] = before[p][x] /\ ~(result[p] = "ok" /\ x \in Targets(call[p]))
      \/ x \in Targets(call[p]) /\ mem[x] = Given(p, x)

(* A read that returns 0 leaves the words of its range in the buffer, card *)
(* by card.                                                                *)
ReadExact ==
  \A p \in Procs : alone[p] /\ call[p].op = "read" /\ result[p] = "ok" =>
    LET c == call[p]
        Want(i, k) ==
          IF CellsAt(c, k) = {} THEN Zero
          ELSE LET x == IF Desc[c.param].virtual THEN CHOOSE x \in CellsAt(c, k) : TRUE
                        ELSE Cell(Desc[c.param].cards[i], c.param, c.start + k)
               IN  IF Desc[x.param].manip THEN Flip(mem[x]) ELSE mem[x]
    IN  \A i \in 1..CardCount(c), k \in 0..(c.count - 1) :
          data[p][(i - 1) * c.count + k + 1] = Want(i, k)

(* A write to several cards that fails has changed the cards in order: the *)
(* ones before the card it failed at have everything, those after nothing. *)
CardsInOrder ==
  \A p \in Procs : (/\ alone[p] /\ made[p] > 0
                    /\ call[p].op = "write" /\ ~Desc[call[p].param].virtual) =>
    LET c == call[p]
        Changed(n, k) == LET x == Cell(Desc[c.param].cards[n], c.param, c.start + k)
                         IN  mem[x] = Given(p, x)
    IN  \A n \in 2..CardCount(c) :
          (\E k \in 0..(c.count - 1) : Changed(n, k)) =>
            \A k \in 0..(c.count - 1) : Changed(n - 1, k)

(* A call changes no word outside its range, though a write that does not  *)
(* begin at 0 writes back the words before it.                             *)
ChangesInRange ==
  [][\A x \in Cells : mem'[x] # mem[x] =>
       \E p \in Procs : Running(p, "write") /\ x \in Targets(call[p])]_vars
=============================================================================
