------------------------------- MODULE Framing -------------------------------
(***************************************************************************)
(* The binary frames of the control port: the magic bytes BN, a version, a *)
(* kind of two bytes and a payload length of four, high byte first, and    *)
(* the payload.  A std::optional is a set of at most one element.          *)
(***************************************************************************)
EXTENDS Integers, Sequences

Byte == 0..255
kMagic0 == 66
kMagic1 == 78
kVersion == 1
kHeaderSize == 9
ControlRequest == 1

Base == 256
Half == Base * Base

append_u16(value) == <<(value \div Base) % Base, value % Base>>

append_u32(value) ==
  LET high == append_u16(value \div Half)
      low == append_u16(value)
  IN <<high[1], high[2], low[1], low[2]>>

(* Offsets count from 1.                                                   *)
read_u16(bytes, offset) == Base * bytes[offset] + bytes[offset + 1]

read_u32(bytes, offset) == Half * read_u16(bytes, offset) + read_u16(bytes, offset + 2)

is_binary_frame_header(bytes) == bytes[1] = kMagic0 /\ bytes[2] = kMagic1

encode_frame(frame) ==
  LET kind == append_u16(frame.kind)
      length == append_u32(Len(frame.payload))
  IN <<kMagic0, kMagic1, kVersion, kind[1], kind[2],
       length[1], length[2], length[3], length[4]>> \o frame.payload

decode_frame(bytes) ==
  IF /\ Len(bytes) >= kHeaderSize
     /\ is_binary_frame_header(bytes) /\ bytes[3] = kVersion
     /\ Len(bytes) = kHeaderSize + read_u32(bytes, 6)
  THEN {[kind |-> read_u16(bytes, 4), payload |-> SubSeq(bytes, kHeaderSize + 1, Len(bytes))]}
  ELSE {}

(* control_server.cpp: what it takes from the header, before it decodes.   *)
FrameLength(bytes) == kHeaderSize + read_u32(bytes, 6)

=============================================================================
