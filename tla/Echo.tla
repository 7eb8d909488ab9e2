-------------------------------- MODULE Echo --------------------------------
(***************************************************************************)
(* EchoRequest and EchoResponse: the ICMP packets blocks travel in, their  *)
(* checksum, and what the echoing host makes of them.  A body is a         *)
(* sequence of bytes.                                                      *)
(***************************************************************************)
EXTENDS Integers, SequencesExt

Byte == 0 .. 255

TYPE == 8
CODE == 0

\* Byte i (from 1) of a packet: the first of a word is the upper one.
InWord(i, byte) == IF i % 2 = 1 THEN byte * 256 ELSE byte

\* The loop over the bytes of a body; a last odd byte is an upper one.
BodySum(body) ==
  LET sum[n \in 0 .. Len(body)] ==
        IF n = 0 THEN 0 ELSE sum[n - 1] + InWord(n, body[n])
  IN sum[Len(body)]

\* The 32-bit sum of the words of a request but for its checksum.  A body fits
\* an IP packet, so that it does not overflow (CodecProofs, SumFits).
Sum(identifier, sequence_number, body) ==
  TYPE * 256 + CODE + identifier + sequence_number + BodySum(body)

\* ~ on the lower 16 bits.
Complement(n) == 65535 - (n % 65536)

\* Without adding the carries.
checksum_unfolded(sum) == Complement(sum)

\* checksum.  The carries of the sum are added once; a carry of that addition
\* is not.  (The value is kept with its bytes swapped, ntohs, and swapped back,
\* htons, when it is written.)
checksum(sum) == Complement(sum + (sum \div 65536))

\* The addition of the carries carries itself.
SecondCarry(sum) == (sum % 65536) + (sum \div 65536) >= 65536

EchoRequest(identifier, sequence_number, body) ==
  [checksum_ |-> checksum(Sum(identifier, sequence_number, body)),
   identifier_ |-> identifier,
   sequence_number_ |-> sequence_number,
   body_ |-> body]

\* The sum of the words of a request as operator<< writes it: every field, the
\* checksum too, with its upper byte first.
Written(request) ==
  TYPE * 256 + CODE + request.checksum_ + request.identifier_
    + request.sequence_number_ + BodySum(request.body_)

\* External: the echoing host drops a request whose words do not add up to all
\* ones in one's complement (RFC 1071), that is to a multiple of 65535.
Accepts(request) == Written(request) % 65535 = 0

\* External: the answer carries identifier, sequence number and body back.
EchoResponse(request) ==
  [identifier_ |-> request.identifier_,
   sequence_number_ |-> request.sequence_number_,
   data_ |-> request.body_]

\* PingSpoof::send builds the request anew, and with it its checksum.
Spoofed(request) ==
  EchoRequest(request.identifier_, request.sequence_number_, request.body_)

\* The constructor of EchoRequest from a response.
Resend(response) ==
  EchoRequest(response.identifier_, response.sequence_number_, response.data_)

=============================================================================
