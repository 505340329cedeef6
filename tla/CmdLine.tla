------------------------------ MODULE CmdLine -------------------------------
(***************************************************************************)
(* VirtioMMIO::new: the idx-th virtio device named on the kernel command   *)
(* line, for example "virtio_mmio.device=4k@0xd0000000:5", and the check   *)
(* that there is one at that address.                                      *)
(*                                                                         *)
(* A line is a sequence of tokens: KEY is the key phrase, AT is "@0x",     *)
(* COLON and SPACE the separators, 0 to 15 the digits (10 to 15 are the    *)
(* letters a to f), Kilo and Mega the units k and m, LETTER any other       *)
(* character.                                                              *)
(***************************************************************************)
EXTENDS Integers, Sequences, FiniteSetsExt

CONSTANTS
  KEY, AT, COLON, SPACE, Kilo, Mega, LETTER,
  Lines  \* the command lines, each with the devices it describes

VARIABLE input  \* the line, the number asked for and the devices there are

(* The tokens that no search of VirtioMMIO::new is for.                    *)
Plain == 0..15 \cup {Kilo, Mega, LETTER}

Token == Plain \cup {KEY, AT, COLON, SPACE}

(* The first place at or after from where a token stands, 0 if there is    *)
(* none.                                                                   *)
find(line, token, from) ==
  LET places == {i \in from..Len(line) : line[i] = token}
  IN  IF places = {} THEN 0 ELSE Min(places)

(* Mutant: the search for the next key starts at the last one again.       *)
KeyPlace_SameKey(line, idx) ==
  LET key[i \in 0..idx] ==
        IF i = 0 THEN find(line, KEY, 1)
        ELSE IF key[i - 1] = 0 THEN 0 ELSE find(line, KEY, key[i - 1])
  IN  key[idx]

(* The place of the key phrase number idx, counted from 0.                 *)
KeyPlace(line, idx) ==
  LET key[i \in 0..idx] ==
        IF i = 0 THEN find(line, KEY, 1)
        ELSE IF key[i - 1] = 0 THEN 0 ELSE find(line, KEY, key[i - 1] + 1)
  IN  key[idx]

(* The value of the digits in a part of the line; what is no digit of the  *)
(* base, and no unit where units are read, is passed over.                 *)
Digits(text, base) ==
  LET val[k \in 0..Len(text)] ==
        IF k = 0 THEN 0
        ELSE IF text[k] \in 0..(base - 1) THEN val[k - 1] * base + text[k]
        ELSE val[k - 1]
  IN  val[Len(text)]

SizeDigits(text) ==
  LET val[k \in 0..Len(text)] ==
        IF k = 0 THEN 0
        ELSE CASE text[k] \in 0..9 -> val[k - 1] * 10 + text[k]
               [] text[k] = Kilo -> val[k - 1] * 1024
               [] text[k] = Mega -> val[k - 1] * 1024 * 1024
               [] OTHER -> val[k - 1]
  IN  val[Len(text)]

Err(why) == [result |-> why]

(* The size, the address and the interrupt, an 8-bit number, of device     *)
(* number idx; devices are the addresses where the magic number and the    *)
(* version are a virtio device's.                                          *)
new(line, idx, devices) ==
  LET size_idx == KeyPlace(line, idx)
      addr_idx == find(line, AT, size_idx)
      irq_idx  == find(line, COLON, addr_idx)
      space    == find(line, SPACE, irq_idx)
      tail_idx == IF space = 0 THEN Len(line) + 1 ELSE space
      addr     == Digits(SubSeq(line, addr_idx + 1, irq_idx - 1), 16)
  IN  IF size_idx = 0 \/ addr_idx = 0 \/ irq_idx = 0
      THEN Err("virtio-mmio is not found")
      ELSE IF addr \notin devices THEN Err("Invalid virtio-mmio device")
      ELSE [result |-> "Ok",
            size |-> SizeDigits(SubSeq(line, size_idx + 1, addr_idx - 1)),
            addr |-> addr,
            irq  |-> Digits(SubSeq(line, irq_idx + 1, tail_idx - 1), 10) % 256]

-----------------------------------------------------------------------------
(* The reference: what it means that a line describes devices.             *)

(* Device d is described at place p: key phrase, size, "@0x", address, a   *)
(* colon, the interrupt, and a space or the end of the line.               *)
Describes(text, p, d) ==
  LET at    == p + Len(d.size) + 1
      colon == at + Len(d.addr) + 1
      end   == colon + Len(d.irq) + 1
  IN  /\ {d.size, d.addr, d.irq} \subseteq Seq(Plain)
      /\ end <= Len(text) + 1
      /\ SubSeq(text, p + 1, at - 1) = d.size /\ text[at] = AT
      /\ SubSeq(text, at + 1, colon - 1) = d.addr /\ text[colon] = COLON
      /\ SubSeq(text, colon + 1, end - 1) = d.irq
      /\ end <= Len(text) => text[end] = SPACE
      /\ d.means = [result |-> "Ok", size |-> SizeDigits(d.size),
                    addr |-> Digits(d.addr, 16), irq |-> Digits(d.irq, 10) % 256]

(* The description at place p is cut short, and nothing that follows it    *)
(* could be taken for its end.                                             *)
CutShort(text, p) ==
  \A q, r \in p..Len(text) : q < r /\ text[q] = AT => text[r] # COLON

(* The key phrase stands at the places in line.at, in ascending order, and *)
(* nowhere else, and line.named says what is described there.  The rest of *)
(* the line is anything.                                                   *)
WellFormed(line) ==
  /\ line.text \in Seq(Token) /\ line.at \in Seq(Nat)
  /\ Len(line.named) = Len(line.at)
  /\ \A j, k \in 1..Len(line.at) : j < k => line.at[j] < line.at[k]
  /\ \A p \in 1..Len(line.text) :
       line.text[p] = KEY <=> \E k \in 1..Len(line.at) : line.at[k] = p
  /\ \A k \in 1..Len(line.at) :
       /\ line.at[k] \in 1..Len(line.text)
       /\ \/ line.named[k].kind = "device"
             /\ Describes(line.text, line.at[k], line.named[k])
          \/ line.named[k].kind = "cut" /\ CutShort(line.text, line.at[k])

ASSUME CmdLineAssumption ==
  /\ {KEY, AT, COLON, SPACE} \cap Plain = {}
  /\ KEY \notin {AT, COLON, SPACE} /\ AT \notin {COLON, SPACE} /\ COLON # SPACE
  /\ \A line \in Lines : WellFormed(line)

(* What the line says of device number idx.                                *)
DeviceOf(line, idx, devices) ==
  IF idx >= Len(line.named) \/ line.named[idx + 1].kind = "cut"
  THEN Err("virtio-mmio is not found")
  ELSE IF line.named[idx + 1].means.addr \notin devices
  THEN Err("Invalid virtio-mmio device")
  ELSE line.named[idx + 1].means

(* VirtioMMIO::new finds the idx-th device of a well-formed command line   *)
(* and no other, whatever stands between the descriptions.                 *)
CmdLineRight ==
  input \in [line : Lines, idx : Nat, devices : SUBSET Nat] =>
    new(input.line.text, input.idx, input.devices) =
      DeviceOf(input.line, input.idx, input.devices)
=============================================================================
