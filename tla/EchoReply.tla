----------------------------- MODULE EchoReply ------------------------------
(***************************************************************************)
(* The answers to echo requests, icmpv4-in-local and icmpv6-in-local, as   *)
(* bytes: what is copied from the request, the lengths, and the Internet   *)
(* checksums.  Ethernet headers are left out.                              *)
(*                                                                         *)
(* A request is the record of the parts the code reads: src and dest, the  *)
(* IPv4 options (a multiple of four bytes), and the message.               *)
(***************************************************************************)
EXTENDS Integers, Sequences

CONSTANTS
  V4Requests,  \* the IPv4 echo requests
  V6Requests   \* the IPv6 echo requests

ByteMod == 256

WordMod == ByteMod * ByteMod

Byte == 0..ByteMod - 1

Hi(w) == (w % WordMod) \div ByteMod

Lo(w) == w % ByteMod

(* The length field of a request, and of the reply that copies it.         *)
Ipv4Length(req) == 20 + Len(req.options) + Len(req.message)

(* Echo requests have the eight bytes of an ICMP header at least, and a    *)
(* length that its field of 16 bits can tell.                              *)
ASSUME EchoAssumption ==
  /\ \A req \in V4Requests :
       /\ {req.options, req.src, req.dest, req.message} \subseteq Seq(Byte)
       /\ Len(req.options) % 4 = 0 /\ Len(req.src) = 4 /\ Len(req.dest) = 4
       /\ Len(req.message) >= 8 /\ Ipv4Length(req) < WordMod
  /\ \A req \in V6Requests :
       /\ {req.src, req.message} \subseteq Seq(Byte)
       /\ Len(req.src) = 16
       /\ Len(req.message) >= 8 /\ Len(req.message) < WordMod

VARIABLE request  \* the request to be answered

(* Word k of the bytes, big-endian.                                        *)
Word(bytes, k) == bytes[2 * k - 1] * ByteMod + bytes[2 * k]

(* The sum of the whole words: the loops run to size / 2, so that a last   *)
(* odd byte is in none of them.                                            *)
SumOfWords(bytes) ==
  LET csum[k \in 0..(Len(bytes) \div 2)] ==
        IF k = 0 THEN 0 ELSE csum[k - 1] + Word(bytes, k)
  IN  csum[Len(bytes) \div 2]

Fold(sum) == (sum % WordMod) + (sum \div WordMod)

(* The carries folded in twice, and complemented.                          *)
Checksum(sum) == WordMod - 1 - (Fold(Fold(sum)) % WordMod)

(* A message with a checksum stored at its bytes 3 and 4.                  *)
WithChecksum(message, csum) ==
  [message EXCEPT ![3] = Hi(csum), ![4] = Lo(csum)]

(* generate_ipv4_header, its checksum still 0.                             *)
generate_ipv4_header(length, proto, src, dest) ==
  <<69, 0, Hi(length), Lo(length), 0, 0, 64, 0, 64, proto, 0, 0>>
    \o src \o dest

(* Mutant: the payload is copied from one byte too early.                  *)
EchoMessage_Early(type, code, req, payload) ==
  <<type, code, 0, 0>> \o SubSeq(req.message, 5, 8)
    \o SubSeq(payload, 8, Len(req.message) - 1)

(* The reply's message, its checksum still 0: identifier and sequence of   *)
(* the request's, the rest from the same offsets of the request's frame.   *)
EchoMessage(type, code, req, payload) ==
  <<type, code, 0, 0>> \o SubSeq(req.message, 5, 8)
    \o SubSeq(payload, 9, Len(req.message))

(* Mutant: the header is summed before the message has its checksum.       *)
Icmpv4InLocal_HeaderFirst(req) ==
  LET bare    == EchoMessage(0, 0, req, req.options \o req.message)
      message == WithChecksum(bare, Checksum(SumOfWords(bare)))
      header  == generate_ipv4_header(Ipv4Length(req), 1, req.dest, req.src)
      csum    == Checksum(SumOfWords(header \o bare))
  IN  [header  |-> [header EXCEPT ![11] = Hi(csum), ![12] = Lo(csum)],
       message |-> message]

(* The reply to an IPv4 echo request.  The offsets the payload is copied   *)
(* from are those of a header with no options; the header's checksum is    *)
(* taken over the header and the message.                                  *)
Icmpv4InLocal(req) ==
  LET bare    == EchoMessage(0, 0, req, req.options \o req.message)
      message == WithChecksum(bare, Checksum(SumOfWords(bare)))
      header  == generate_ipv4_header(Ipv4Length(req), 1, req.dest, req.src)
      csum    == Checksum(SumOfWords(header \o message))
  IN  [header  |-> [header EXCEPT ![11] = Hi(csum), ![12] = Lo(csum)],
       message |-> message]

(* The source address of every IPv6 reply.                                 *)
ReplySource == [i \in 1..16 |-> 2]

(* generate_ipv6_header.                                                   *)
generate_ipv6_header(length, nexthdr, src, dest) ==
  <<96, 0, 0, 0, Hi(length), Lo(length), nexthdr, 128>> \o src \o dest

(* The pseudo header's part of the sum.                                    *)
PseudoSum(src, length) ==
  SumOfWords(ReplySource) + SumOfWords(src) + length + 58

(* The reply to an IPv6 echo request.                                      *)
Icmpv6InLocal(req) ==
  LET length == Len(req.message)
      bare   == EchoMessage(129, req.message[2], req, req.message)
      csum   == Checksum(PseudoSum(req.src, length) + SumOfWords(bare))
  IN  [header  |-> generate_ipv6_header(length, 58, ReplySource, req.src),
       message |-> WithChecksum(bare, csum)]

-----------------------------------------------------------------------------
(* The reference, from the receiver's side: the ones' complement sum of    *)
(* all bytes, the last word filled up with a zero, is zero, that is all    *)
(* ones.                                                                   *)
Verifies(bytes) ==
  LET words == IF Len(bytes) % 2 = 0 THEN bytes ELSE Append(bytes, 0)
  IN  SumOfWords(words) > 0 /\ SumOfWords(words) % (WordMod - 1) = 0

(* The bytes an ICMPv6 checksum is over, from the header that was sent.    *)
PseudoHeader(reply) ==
  SubSeq(reply.header, 9, 40) \o <<0, 0, reply.header[5], reply.header[6],
                                   0, 0, 0, reply.header[7]>>

(* A reply brings a request's identifier, sequence number and data back.   *)
Echoes(reply, req) ==
  SubSeq(reply.message, 5, Len(reply.message)) =
    SubSeq(req.message, 5, Len(req.message))
(* The checksums of an echo reply verify: that of the IPv4 header always,  *)
(* although it is summed over the message too and leaves out a last odd    *)
(* byte; that of a message of even length, for ICMPv6 with the pseudo      *)
(* header of the addresses that were sent.                                 *)
ReplyVerifies ==
  /\ request \in V4Requests =>
       LET reply == Icmpv4InLocal(request)
       IN  /\ Verifies(reply.header)
           /\ Len(request.message) % 2 = 0 => Verifies(reply.message)
  /\ request \in V6Requests =>
       LET reply == Icmpv6InLocal(request)
       IN  Len(request.message) % 2 = 0 =>
             Verifies(PseudoHeader(reply) \o reply.message)

(* A reply brings the request's data back with the right length, over IPv4 *)
(* when the request has no options.                                        *)
DataEchoed ==
  /\ (request \in V4Requests /\ request.options = <<>>) =>
       LET reply == Icmpv4InLocal(request)
       IN  /\ Echoes(reply, request)
           /\ Word(reply.header, 2) = Len(reply.header) + Len(reply.message)
  /\ request \in V6Requests =>
       LET reply == Icmpv6InLocal(request)
       IN  /\ Echoes(reply, request)
           /\ Word(reply.header, 3) = Len(reply.message)
=============================================================================
