--------------------------- MODULE MCControlServer ---------------------------
(***************************************************************************)
(* Instances of ControlServer and GossipService for TLC: a peer that sends *)
(* lines and waits for their answers however long it takes (SyncClient),   *)
(* and an SDK client with a frame and a timeout.  The frame is that of     *)
(* register_agent, which has a newline in its payload (its first field has *)
(* the tag 0x0a).                                                          *)
(***************************************************************************)
EXTENDS GossipService

CONSTANTS c1, c2

Line == <<83, newline>>
Frame == encode_frame([kind |-> ControlRequest, payload |-> <<newline, 0>>])

Requests == [c \in Clients |-> IF c = c1 THEN Line ELSE Frame]

(* The first segment of a frame holds its header, or may end within it.    *)
HeadersWhole == [c \in Clients |-> IF c = c1 THEN {1, 2} ELSE {kHeaderSize, Len(Request[c])}]
HeadersCut == [c \in Clients |-> IF c = c1 THEN {1, 2} ELSE {4, kHeaderSize, Len(Request[c])}]

=============================================================================
