---------------------------- MODULE MCAlgorithms ----------------------------
(***************************************************************************)
(* The pure algorithms of the program, checked against their references    *)
(* over bounded inputs.  A behaviour first chooses its subject: a request  *)
(* to answer, a command line to parse or a size to allocate; or the        *)
(* forwarding tables, which grow route by route, or the calendar, which    *)
(* turns day by day.                                                       *)
(***************************************************************************)
EXTENDS Fib, Calendar, EchoReply, CmdLine, Allocation, SequencesExt

CONSTANTS
  MaxData,   \* bound: bytes of data in an echo request
  MaxWords   \* bound: words on the command line

VARIABLE subject  \* what is being checked

mcvars == <<v4, v6, subject, input, day, date, requested, request>>

MCQueueSizes == {1, 2, 3, 5} \cup {2^k : k \in 3..15}
MCBufferSizes == 1..10 \cup 4080..4090 \cup 8170..8190

Bytes == {0, 1, 255}
Pairs == {<<0, 0>>, <<1, 0>>, <<255, 255>>}
Messages(type) ==
  {<<type, 0, 171, 205>> \o ident \o seq \o data :
     ident \in Pairs, seq \in Pairs, data \in BoundedSeq(Bytes, MaxData)}

V4Messages == Messages(8)
V6Messages == Messages(128)

MCOptions == {<<>>, <<1, 1, 1, 0>>, <<1, 1, 1, 1, 1, 1, 1, 0>>}
V4Addresses == {<<10, 0, 0, 1>>, <<255, 255, 255, 254>>}
MCV4Requests ==
  [options : MCOptions, src : V4Addresses, dest : {<<10, 0, 0, 2>>},
   message : V4Messages]
V6Addresses == {[i \in 1..16 |-> 255], [i \in 1..16 |-> IF i = 16 THEN 1 ELSE 0]}
MCV6Requests == [src : V6Addresses, message : V6Messages]

Device(size, addr, irq, means) ==
  [kind |-> "device", size |-> size, addr |-> addr, irq |-> irq,
   text |-> <<KEY>> \o size \o <<AT>> \o addr \o <<COLON>> \o irq,
   means |-> [result |-> "Ok", size |-> means[1], addr |-> means[2],
              irq |-> means[3]]]
Words ==
  {Device(<<4, Kilo>>, <<13, 0>>, <<5>>, <<4096, 208, 5>>),
   Device(<<5, 1, 2>>, <<1, 15, 10>>, <<1, 1>>, <<512, 506, 11>>),
   Device(<<2, Mega>>, <<0>>, <<2, 5, 5>>, <<2097152, 0, 255>>),
   [kind |-> "cut", text |-> <<KEY, 4, AT, 7>>],
   [kind |-> "cut", text |-> <<KEY, 4>>],
   [kind |-> "other", text |-> <<LETTER, COLON, 7>>],
   [kind |-> "other", text |-> <<LETTER, AT, 9>>]}

(* A line of words with spaces between them; only the last may be cut      *)
(* short.                                                                  *)
OnlyLastCut(words) ==
  \A i \in 1..Len(words) : words[i].kind = "cut" => i = Len(words)
Named(words) == SelectSeq(words, LAMBDA w : w.kind # "other")
Text(words) ==
  FoldLeft(LAMBDA line, w : IF line = <<>> THEN w.text
                            ELSE line \o <<SPACE>> \o w.text,
           <<>>, words)
KeyPlaces(text) == SetToSortSeq({p \in 1..Len(text) : text[p] = KEY}, <)
LinesOfWords ==
  {[text |-> Text(w), named |-> Named(w), at |-> KeyPlaces(Text(w))] :
     w \in {w \in BoundedSeq(Words, MaxWords) : OnlyLastCut(w)}}
MCLines == LinesOfWords

-----------------------------------------------------------------------------
MCInit ==
  /\ Init
  /\ subject = "none" /\ input = None /\ request = None
  /\ CalendarInit
  /\ requested = 0

Answer ==
  /\ subject = "none"
  /\ subject' = "echo"
  /\ request' \in V4Requests \cup V6Requests
  /\ UNCHANGED <<v4, v6, day, date, input, requested>>

Parse ==
  /\ subject = "none"
  /\ subject' = "cmdline"
  /\ input' \in [line : Lines, idx : 0..2, devices : {{208, 506, 0}, {506}}]
  /\ UNCHANGED <<v4, v6, day, date, requested, request>>

Register ==
  /\ subject \in {"none", "fib"}
  /\ Next
  /\ subject' = "fib"
  /\ UNCHANGED <<input, day, date, requested, request>>

TurnPage ==
  /\ subject \in {"none", "calendar"}
  /\ NextDay
  /\ subject' = "calendar"
  /\ UNCHANGED <<v4, v6, input, requested, request>>

Allocate ==
  /\ subject = "none"
  /\ subject' = "allocation"
  /\ requested' \in BufferSizes \cup QueueSizes
  /\ UNCHANGED <<v4, v6, input, day, date, request>>

MCNext ==
  \/ Register
  \/ TurnPage
  \/ Allocate
  \/ Answer
  \/ Parse

MCSpec == MCInit /\ [][MCNext]_mcvars

=============================================================================
