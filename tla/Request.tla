---- MODULE Request ----
(***************************************************************************)
(* The request of the run protocol: the header that RunOut puts in front   *)
(* of the first data (examples/mrproxy/run_out.cc) and the bytes that      *)
(* RunIn takes for one (run_in.cc), however TCP cuts them up.              *)
(*                                                                         *)
(* RunIn looks for the first CRLF, but address and port are raw bytes: it  *)
(* understands the requests that are Plain.                                *)
(***************************************************************************)
EXTENDS Integers, Sequences

CONSTANTS
  Addresses,   \* IPv4 addresses, as inet_pton stores them
  Ports,       \* ports
  Texts        \* what the client may send behind its request

Byte == 0..255

ASSUME AddressAssumption == \A a \in Addresses : a \in Seq(Byte) /\ Len(a) = 4
ASSUME PortAssumption == Ports \subseteq 1..(256 * 256 - 1)
ASSUME TextAssumption == Texts \subseteq Seq(Byte)

CR == 13
LF == 10

\* Process: version, type of the address, address, port, CRLF.
RequestHeader(address, port) ==
  <<1, 1, address[1], address[2], address[3], address[4], port \div 256, port % 256,
    CR, LF>>

\* IoBuf::FindCRLF.
CRLFAt(bytes, i) == bytes[i] = CR /\ bytes[i + 1] = LF
HasCRLF(bytes) == \E i \in 1..(Len(bytes) - 1) : CRLFAt(bytes, i)
FindCRLF(bytes) ==
  CHOOSE i \in 1..(Len(bytes) - 1) :
    CRLFAt(bytes, i) /\ \A j \in 1..(i - 1) : ~CRLFAt(bytes, j)

\* on_recv: the address is the four bytes behind the type, the port the last
\* two before the CRLF; what follows the CRLF stays in the buffer.
Understood(bytes) ==
  LET crlf == FindCRLF(bytes) IN
  [address |-> SubSeq(bytes, 3, 6),
   port |-> bytes[crlf - 2] * 256 + bytes[crlf - 1],
   rest |-> SubSeq(bytes, crlf + 2, Len(bytes))]

\* No CRLF in the header but the one that ends it.
Plain(address, port) ==
  \A i \in 1..7 : ~CRLFAt(RequestHeader(address, port), i)

\* Of a plain request, RunIn waits until all of the header is there, and then
\* connects to where RunOut was told to and keeps what follows, also when it
\* begins with or contains a CRLF: whatever part of the bytes has arrived.
RequestUnderstood(address, port, text) ==
  LET bytes == RequestHeader(address, port) \o text IN
  \A n \in 0..Len(bytes) :
    LET arrived == SubSeq(bytes, 1, n) IN
    /\ HasCRLF(arrived) <=> n >= 10
    /\ n >= 10 => Understood(arrived) =
                    [address |-> address, port |-> port, rest |-> SubSeq(text, 1, n - 10)]

RequestsUnderstood ==
  \A address \in Addresses, port \in Ports, text \in Texts :
    Plain(address, port) => RequestUnderstood(address, port, text)
====
