------------------------- MODULE ControlServerProofs -------------------------
(***************************************************************************)
(* Proofs about ControlServer, for any clients, requests and numbers of    *)
(* restarts and failures.                                                  *)
(***************************************************************************)
EXTENDS GossipService, SequenceTheorems, TLAPS

(* The parts of the assumption that most steps need.                       *)
LEMMA Sockets ==
  NoClient \notin Clients /\ Waker \notin Clients /\ Waker # NoClient
BY ServerAssumption, Zenon

(* A segment ends after some number of bytes.                              *)
LEMMA CutsAreNumbers == \A c \in Clients : Cuts[c] \subseteq Nat
BY ServerAssumption

USE Sockets

(* A session's end keeps the types of what it touches.                     *)
LEMMA CloseSessionType ==
  ASSUME TypeOK, NEW a \in {"none", "line", "frame", "error"}, CloseSession(a)
  PROVE  /\ worker' = "loop" /\ cur' = NoClient
         /\ answer' \in [Clients -> {"none", "line", "frame", "error"}]
         /\ client' \in [Clients -> {"new", "open", "answered", "failed"}]
BY Zenon DEF CloseSession, TypeOK

(* The worker's return does too.                                           *)
LEMMA ExitRunType ==
  ASSUME TypeOK, ExitRun
  PROVE  /\ worker' = "exited" /\ backlog' = <<>> /\ backlog' \in Seq(Clients \cup {Waker})
         /\ client' \in [Clients -> {"new", "open", "answered", "failed"}]
<1>1. \A c \in Clients : client'[c] \in {"new", "open", "answered", "failed"}
  BY Zenon DEF ExitRun, TypeOK
<1>2. QED
  BY <1>1 DEF ExitRun

(* Type correctness.                                                       *)
THEOREM TypeCorrect == Spec => []TypeOK
<1>1. Init => TypeOK
  <2> SUFFICES ASSUME Init PROVE TypeOK
    BY Zenon
  <2>1. backlog \in Seq(Clients \cup {Waker})
    BY DEF Init
  <2>2. stopping \in BOOLEAN
    BY Zenon DEF Init
  <2>3. /\ client \in [Clients -> {"new", "open", "answered", "failed"}]
        /\ arrived \in [Clients -> Nat]
        /\ answer \in [Clients -> {"none", "line", "frame", "error"}]
    BY Zenon DEF Init
  <2>4. QED
    BY <2>1, <2>2, <2>3, Zenon DEF Init, TypeOK
<1>2. TypeOK /\ [Next]_vars => TypeOK'
  <2> SUFFICES ASSUME TypeOK, [Next]_vars PROVE TypeOK'
    BY Zenon
  <2>1. CASE Start
    <3>1. stopping' \in BOOLEAN
      BY <2>1, Zenon DEF Start
    <3>2. starts' \in Nat
      BY <2>1 DEF Start, TypeOK
    <3>3. QED
      BY <2>1, <3>1, <3>2, Zenon DEF Start, TypeOK
  <2>2. CASE Stop
    BY <2>2, Zenon DEF Stop, TypeOK
  <2>3. CASE Wake
    <3>1. backlog' \in Seq(Clients \cup {Waker})
      BY <2>3 DEF Wake, TypeOK
    <3>2. QED
      BY <2>3, <3>1, Zenon DEF Wake, TypeOK
  <2>4. CASE WakeFails \/ Join
    <3>1. faults' \in Nat
      BY <2>4 DEF WakeFails, Join, TypeOK
    <3>2. QED
      BY <2>4, <3>1, Zenon DEF WakeFails, Join, TypeOK
  <2>5. CASE Bind
    BY <2>5, Zenon DEF Bind, TypeOK
  <2>6. CASE LoopTest
    <3>1. CASE stopping
      <4>1. ExitRun /\ cur = NoClient /\ UNCHANGED <<stopping, owner, cur, arrived, answer, starts, faults>>
        BY <2>6, <3>1, Zenon DEF LoopTest, TypeOK
      <4>2. QED
        BY <4>1, ExitRunType, Zenon DEF TypeOK
    <3>2. CASE ~stopping
      BY <2>6, <3>2, Zenon DEF LoopTest, TypeOK
    <3>3. QED
      BY <3>1, <3>2, Zenon
  <2>7. CASE Accept
    <3>1. Head(backlog) \in Clients \cup {Waker} /\ Tail(backlog) \in Seq(Clients \cup {Waker})
      BY <2>7 DEF Accept, TypeOK
    <3>2. QED
      BY <2>7, <3>1, Zenon DEF Accept, TypeOK
  <2>8. CASE SecondLook
    <3>1. CASE stopping
      BY <2>8, <3>1, CloseSessionType, Zenon DEF SecondLook, TypeOK
    <3>2. CASE ~stopping
      BY <2>8, <3>2, Zenon DEF SecondLook, TypeOK
    <3>3. QED
      BY <3>1, <3>2, Zenon
  <2>9. CASE Peek
    <3>1. CASE CloseSession("none")
      BY <2>9, <3>1, CloseSessionType, Zenon DEF Peek, TypeOK
    <3>2. CASE worker' \in {"frame", "line"} /\ UNCHANGED <<cur, client, answer>>
      BY <2>9, <3>2, Zenon DEF Peek, TypeOK
    <3>3. QED
      BY <2>9, <3>1, <3>2, Zenon DEF Peek
  <2>10. CASE ServeFrame
    <3>1. PICK a \in {"none", "line", "frame", "error"} : CloseSession(a)
      BY <2>10, Zenon DEF ServeFrame, FrameAnswer
    <3>2. QED
      BY <2>10, <3>1, CloseSessionType, Zenon DEF ServeFrame, TypeOK
  <2>11. CASE ServeLine
    <3>1. PICK a \in {"none", "line", "frame", "error"} : CloseSession(a)
      BY <2>11, Zenon DEF ServeLine, LineAnswer
    <3>2. QED
      BY <2>11, <3>1, CloseSessionType, Zenon DEF ServeLine, TypeOK
  <2>12. CASE BindOrAcceptFails
    <3>1. ExitRun /\ faults' \in Nat /\ UNCHANGED <<stopping, owner, cur, arrived, answer, starts>>
      BY <2>12 DEF BindOrAcceptFails, TypeOK
    <3>2. cur = NoClient
      BY <2>12, Zenon DEF BindOrAcceptFails, TypeOK
    <3>3. QED
      BY <3>1, <3>2, ExitRunType, Zenon DEF TypeOK
  <2>13. ASSUME NEW c \in Clients, Connect(c) PROVE TypeOK'
    <3>1. backlog' \in Seq(Clients \cup {Waker})
      BY <2>13 DEF Connect, TypeOK
    <3>2. client' \in [Clients -> {"new", "open", "answered", "failed"}]
      BY <2>13, Zenon DEF Connect, TypeOK
    <3>3. QED
      BY <2>13, <3>1, <3>2, Zenon DEF Connect, TypeOK
  <2>14. ASSUME NEW c \in Clients, Send(c) PROVE TypeOK'
    <3>1. arrived' \in [Clients -> Nat]
      BY <2>14, CutsAreNumbers, Zenon DEF Send, TypeOK
    <3>2. QED
      BY <2>14, <3>1, Zenon DEF Send, TypeOK
  <2>15. ASSUME NEW c \in Clients, Timeout(c) PROVE TypeOK'
    BY <2>15, Zenon DEF Timeout, TypeOK
  <2>16. CASE UNCHANGED vars
    BY <2>16, Zenon DEF vars, TypeOK
  <2>17. QED
    BY <2>1, <2>2, <2>3, <2>4, <2>5, <2>6, <2>7, <2>8, <2>9, <2>10, <2>11, <2>12, <2>13,
       <2>14, <2>15, <2>16, Zenon DEF Next, WorkerStep
<1>3. QED
  BY <1>1, <1>2, PTL DEF Spec

-----------------------------------------------------------------------------
(* WakeUpNotLost is inductive together with: a stop() in progress has set  *)
(* the flag; nothing waits at a closed port; and the waking connection     *)
(* exists only while stop() joins.                                         *)
WakerQueued == \E i \in 1..Len(backlog) : backlog[i] = Waker

WakeInv ==
  /\ owner # "idle" => stopping /\ worker # "none"
  /\ ~Bound => backlog = <<>>
  /\ WakerQueued \/ cur = Waker => owner = "join"
  /\ WakeUpNotLost

(* A step that leaves the connections alone and does not start to accept.  *)
LEMMA QuietStep ==
  ASSUME TypeOK, WakeInv, UNCHANGED <<stopping, owner, backlog, cur>>,
         worker' # "none", Bound <=> Bound', worker' = "accept" => worker = "accept",
         worker' \in {"peek", "frame", "line"} => worker \in {"peek", "frame", "line"}
  PROVE  WakeInv'
BY Zenon DEF WakeInv, WakerQueued, WakeUpNotLost, Bound

(* However starting, stopping, clients and failures interleave, a worker   *)
(* that stop() waits for is not blocked in accept() with nothing to        *)
(* accept, and the waking connection is not served.                        *)
THEOREM WakeUpIsNotLost == Spec => []WakeUpNotLost
<1>1. Init => WakeInv
  BY DEF Init, WakeInv, WakerQueued, WakeUpNotLost, Bound
<1>2. TypeOK /\ WakeInv /\ [Next]_vars => WakeInv'
  <2> SUFFICES ASSUME TypeOK, WakeInv, [Next]_vars PROVE WakeInv'
    BY Zenon
  <2>1. CASE Start
    BY <2>1, Zenon DEF Start, WakeInv, WakerQueued, WakeUpNotLost, Bound, TypeOK
  <2>2. CASE Stop
    BY <2>2, Zenon DEF Stop, WakeInv, WakerQueued, WakeUpNotLost, Bound, TypeOK
  <2>3. CASE Wake
    <3>1. Bound => backlog' # <<>>
      <4>1. Len(Append(backlog, Waker)) # 0
        BY DEF TypeOK
      <4>2. QED
        BY <2>3, <4>1 DEF Wake
    <3>2. QED
      BY <2>3, <3>1, Zenon DEF Wake, WakeInv, WakerQueued, WakeUpNotLost, Bound, TypeOK
  <2>4. CASE WakeFails \/ Join
    <3>1. CASE WakeFails
      BY <3>1, Zenon DEF WakeFails, WakeInv, WakerQueued, WakeUpNotLost, Bound
    <3>2. CASE Join
      <4>1. cur = NoClient /\ backlog = <<>>
        BY <3>2, Zenon DEF Join, WakeInv, TypeOK, Bound
      <4>2. QED
        BY <3>2, <4>1 DEF Join, WakeInv, WakerQueued, WakeUpNotLost, Bound
    <3>3. QED
      BY <2>4, <3>1, <3>2, Zenon
  <2>5. CASE Bind
    BY <2>5, Zenon DEF Bind, WakeInv, WakerQueued, WakeUpNotLost, Bound, TypeOK
  <2>6. ASSUME ExitRun, UNCHANGED <<stopping, owner, cur>> PROVE WakeInv'
    BY <2>6 DEF ExitRun, WakeInv, WakerQueued, WakeUpNotLost, Bound, TypeOK
  <2>7. CASE LoopTest
    <3>1. CASE stopping
      BY <2>6, <2>7, <3>1, Zenon DEF LoopTest
    <3>2. CASE ~stopping
      BY <2>7, <3>2, Zenon DEF LoopTest, WakeInv, WakerQueued, WakeUpNotLost, Bound, TypeOK
    <3>3. QED
      BY <3>1, <3>2, Zenon
  <2>8. CASE Accept
    <3>1. backlog \in Seq(Clients \cup {Waker}) /\ backlog # <<>>
      BY <2>8, Zenon DEF Accept, TypeOK
    <3>2. /\ Len(Tail(backlog)) = Len(backlog) - 1 /\ Head(backlog) = backlog[1]
          /\ \A i \in 1..Len(Tail(backlog)) : Tail(backlog)[i] = backlog[i + 1]
      BY <3>1
    <3>3. WakerQueued' \/ cur' = Waker => WakerQueued
      BY <2>8, <3>1, <3>2 DEF Accept, WakerQueued
    <3>4. QED
      BY <2>8, <3>3, Zenon DEF Accept, WakeInv, WakeUpNotLost, Bound
  <2>9. ASSUME NEW a, CloseSession(a), UNCHANGED <<stopping, owner, backlog>>,
               worker \in {"accepted", "peek", "frame", "line"}
        PROVE  WakeInv'
    BY <2>9, Zenon DEF CloseSession, WakeInv, WakerQueued, WakeUpNotLost, Bound
  <2>10. CASE SecondLook
    <3>1. CASE stopping
      BY <2>9, <2>10, <3>1, Zenon DEF SecondLook
    <3>2. CASE ~stopping
      BY <2>10, <3>2, Zenon DEF SecondLook, WakeInv, WakerQueued, WakeUpNotLost, Bound, TypeOK
    <3>3. QED
      BY <3>1, <3>2, Zenon
  <2>11. CASE Peek
    <3>1. CASE CloseSession("none")
      BY <2>9, <2>11, <3>1, Zenon DEF Peek
    <3>2. CASE worker' \in {"frame", "line"} /\ UNCHANGED cur
      BY <2>11, <3>2, QuietStep, Zenon DEF Peek, Bound
    <3>3. QED
      BY <2>11, <3>1, <3>2, Zenon DEF Peek
  <2>12. CASE ServeFrame
    BY <2>9, <2>12, Zenon DEF ServeFrame
  <2>13. CASE ServeLine
    BY <2>9, <2>13, Zenon DEF ServeLine
  <2>14. CASE BindOrAcceptFails
    BY <2>6, <2>14, Zenon DEF BindOrAcceptFails
  <2>15. ASSUME NEW c \in Clients, Connect(c) PROVE WakeInv'
    <3>1. CASE ~Bound
      BY <2>15, <3>1, Zenon DEF Connect, WakeInv, WakerQueued, WakeUpNotLost, Bound
    <3>2. CASE Bound
      <4>1. /\ backlog' = Append(backlog, c) /\ backlog' # <<>>
            /\ Len(backlog') = Len(backlog) + 1 /\ backlog'[Len(backlog) + 1] = c
            /\ \A i \in 1..Len(backlog) : backlog'[i] = backlog[i]
        <5>1. backlog' = Append(backlog, c) /\ backlog \in Seq(Clients \cup {Waker})
          BY <2>15, <3>2, Zenon DEF Connect, TypeOK
        <5>2. c \in Clients \cup {Waker}
          BY Zenon
        <5>3. QED
          BY <5>1, <5>2
      <4>2. WakerQueued' => WakerQueued
        <5>1. \A i \in 1..Len(backlog) + 1 : i \in 1..Len(backlog) \/ i = Len(backlog) + 1
          BY DEF TypeOK
        <5>2. QED
          BY <4>1, <5>1, Zenon DEF WakerQueued
      <4>3. QED
        BY <2>15, <3>2, <4>1, <4>2, Zenon DEF Connect, WakeInv, WakeUpNotLost, Bound
    <3>3. QED
      BY <3>1, <3>2, Zenon
  <2>16. ASSUME NEW c \in Clients, Send(c) \/ Timeout(c) PROVE WakeInv'
    BY <2>16, Zenon DEF Send, Timeout, WakeInv, WakerQueued, WakeUpNotLost, Bound
  <2>17. CASE UNCHANGED vars
    BY <2>17, Zenon DEF vars, WakeInv, WakerQueued, WakeUpNotLost, Bound
  <2>18. QED
    BY <2>1, <2>2, <2>3, <2>4, <2>5, <2>7, <2>8, <2>10, <2>11, <2>12, <2>13, <2>14, <2>15,
       <2>16, <2>17, Zenon DEF Next, WorkerStep
<1>3. WakeInv => WakeUpNotLost
  BY Zenon DEF WakeInv
<1>4. QED
  BY <1>1, <1>2, <1>3, TypeCorrect, PTL DEF Spec

-----------------------------------------------------------------------------
(* Two bytes, high byte first, hold a number below Half, and two halves    *)
(* one below Half * Half.                                                  *)
LEMMA TwoBytes ==
  ASSUME NEW n \in Nat
  PROVE  /\ (n \div Base) % Base \in Nat /\ n % Base \in Nat
         /\ Base * ((n \div Base) % Base) + (n % Base) = n % Half
BY SMT DEF Base, Half

(* A number is its two halves; one that fits in them is kept by %.         *)
LEMMA TwoHalves ==
  ASSUME NEW n \in Nat
  PROVE  /\ n \div Half \in Nat /\ n % Half \in Nat /\ Half * (n \div Half) + (n % Half) = n
         /\ n < Half => n % Half = n
         /\ n < Half * Half => (n \div Half) % Half = n \div Half
BY SMT DEF Base, Half

(* What follows a header of nine bytes leaves them alone and can be cut    *)
(* off again.                                                              *)
LEMMA HeaderAndPayload ==
  ASSUME NEW S, NEW h \in Seq(S), NEW payload \in Seq(S), Len(h) = 9
  PROVE  LET e == h \o payload
         IN /\ e \in Seq(S) /\ Len(e) = 9 + Len(payload)
            /\ \A i \in 1..9 : e[i] = h[i]
            /\ SubSeq(e, 10, Len(e)) = payload
<1> DEFINE e == h \o payload
           n == Len(payload)
           s == SubSeq(e, 10, Len(e))
<1>1. n \in Nat
  BY LenProperties, Zenon
<1>2. /\ e \in Seq(S) /\ Len(e) = 9 + n
      /\ \A i \in 1..9 + n : e[i] = IF i <= 9 THEN h[i] ELSE payload[i - 9]
  <2>1. /\ e \in Seq(S) /\ Len(e) = Len(h) + Len(payload)
        /\ \A i \in 1..Len(h) + Len(payload) :
             e[i] = IF i <= Len(h) THEN h[i] ELSE payload[i - Len(h)]
    BY ConcatProperties, Zenon
  <2> HIDE DEF e
  <2>2. QED
    BY <2>1, Zenon
<1> HIDE DEF e, n
<1>3. \A i \in 1..9 : e[i] = h[i]
  BY <1>1, <1>2
<1>4. \A i \in 1..n : 9 + i \in 1..9 + n /\ ~(9 + i <= 9) /\ (9 + i) - 9 = i
  BY <1>1
<1>5. \A i \in 1..n : e[9 + i] = payload[i]
  BY <1>2, <1>4, Zenon
<1>6. /\ s \in Seq(S)
      /\ Len(s) = n
      /\ \A i \in 1..n : s[i] = e[9 + i]
  <2>1. \A i \in 10..Len(e) : e[i] \in S
    BY <1>1, <1>2, ElementOfSeq
  <2>2. /\ s \in Seq(S)
        /\ Len(s) = IF 10 <= Len(e) THEN Len(e) - 10 + 1 ELSE 0
        /\ \A i \in 1..Len(e) - 10 + 1 : s[i] = e[10 + i - 1]
    BY <1>1, <1>2, <2>1, SubSeqProperties
  <2>3. Len(e) - 10 + 1 = n /\ \A i \in 1..n : 10 + i - 1 = 9 + i
    BY <1>1, <1>2
  <2>4. QED
    BY <1>1, <1>2, <2>2, <2>3
<1>7. s = payload
  BY <1>5, <1>6, SeqEqual DEF n
<1>8. QED
  BY <1>2, <1>3, <1>7, Zenon DEF e, n

(* A header whose length is that of the payload, and the payload, decode.  *)
LEMMA FrameFields ==
  ASSUME NEW h \in Seq(Nat), NEW payload \in Seq(Nat), Len(h) = 9,
         is_binary_frame_header(h), h[3] = kVersion, read_u32(h, 6) = Len(payload)
  PROVE  LET e == h \o payload
         IN /\ decode_frame(e) = {[kind |-> read_u16(h, 4), payload |-> payload]}
            /\ e \in Seq(Nat) /\ FrameLength(e) = Len(e)
<1> DEFINE e == h \o payload
<1>1. /\ e \in Seq(Nat) /\ Len(e) = 9 + Len(payload)
      /\ \A i \in 1..9 : e[i] = h[i]
      /\ SubSeq(e, 10, Len(e)) = payload
  BY HeaderAndPayload
<1>2. Len(payload) \in Nat
  BY LenProperties, Zenon
<1> HIDE DEF e
<1>3. /\ e[1] = h[1] /\ e[2] = h[2] /\ e[3] = h[3] /\ e[4] = h[4] /\ e[4 + 1] = h[4 + 1]
      /\ e[6] = h[6] /\ e[6 + 1] = h[6 + 1] /\ e[6 + 2] = h[6 + 2]
      /\ e[6 + 2 + 1] = h[6 + 2 + 1]
  BY <1>1
<1>4. read_u16(e, 4) = read_u16(h, 4) /\ read_u32(e, 6) = read_u32(h, 6)
  BY <1>3, Zenon DEF read_u16, read_u32
<1>5. is_binary_frame_header(e) /\ e[3] = kVersion
  BY <1>3, Zenon DEF is_binary_frame_header
<1>6. Len(e) >= kHeaderSize /\ Len(e) = kHeaderSize + Len(payload) /\ kHeaderSize + 1 = 10
  BY <1>1, <1>2 DEF kHeaderSize
<1>7. Len(e) = kHeaderSize + read_u32(e, 6) /\ SubSeq(e, kHeaderSize + 1, Len(e)) = payload
  BY <1>1, <1>4, <1>6, Zenon
<1>8. decode_frame(e) = {[kind |-> read_u16(h, 4), payload |-> payload]}
  BY <1>4, <1>5, <1>6, <1>7, Zenon DEF decode_frame
<1>9. FrameLength(e) = Len(e)
  BY <1>7, Zenon DEF FrameLength
<1>10. QED
  BY <1>1, <1>8, <1>9, Zenon DEF e

(* The bytes of a number.                                                  *)
LEMMA Appended ==
  ASSUME NEW n \in Nat
  PROVE  /\ append_u16(n)[1] \in Nat /\ append_u16(n)[2] \in Nat
         /\ Base * append_u16(n)[1] + append_u16(n)[2] = n % Half
         /\ append_u32(n)[1] = append_u16(n \div Half)[1]
         /\ append_u32(n)[2] = append_u16(n \div Half)[2]
         /\ append_u32(n)[3] = append_u16(n)[1]
         /\ append_u32(n)[4] = append_u16(n)[2]
<1>1. /\ append_u16(n)[1] = (n \div Base) % Base /\ append_u16(n)[2] = n % Base
  BY SMT DEF append_u16
<1>2. append_u32(n) = <<append_u16(n \div Half)[1], append_u16(n \div Half)[2],
                        append_u16(n)[1], append_u16(n)[2]>>
  BY SMT DEF append_u32, append_u16
<1>3. QED
  BY <1>1, <1>2, TwoBytes

(* decode_frame() gives back what encode_frame() was given, and the server *)
(* reads off the header the length that the frame has.                     *)
LEMMA FrameRoundTrip ==
  ASSUME NEW payload \in Seq(Nat), Len(payload) < Half * Half,
         NEW kind \in Nat, kind < Half
  PROVE  LET e == encode_frame([kind |-> kind, payload |-> payload])
         IN /\ decode_frame(e) = {[kind |-> kind, payload |-> payload]}
            /\ e \in Seq(Nat) /\ FrameLength(e) = Len(e)
<1> DEFINE n == Len(payload)
           k == append_u16(kind)
           l == append_u32(n)
           h == <<kMagic0, kMagic1, kVersion, k[1], k[2], l[1], l[2], l[3], l[4]>>
           e == encode_frame([kind |-> kind, payload |-> payload])
<1>1. n \in Nat /\ n \div Half \in Nat
  BY LenProperties, TwoHalves, SMT
<1>2. k[1] \in Nat /\ k[2] \in Nat /\ Base * k[1] + k[2] = kind
  BY Appended, TwoHalves, Zenon
<1>3. /\ l[1] \in Nat /\ l[2] \in Nat /\ l[3] \in Nat /\ l[4] \in Nat
      /\ Base * l[1] + l[2] = n \div Half /\ Base * l[3] + l[4] = n % Half
  BY <1>1, Appended, TwoHalves, Zenon
<1>4. e = h \o payload
  BY Zenon DEF encode_frame
<1> HIDE DEF k, l, e
<1>5. /\ h \in Seq(Nat) /\ Len(h) = 9
      /\ h[1] = kMagic0 /\ h[2] = kMagic1 /\ h[3] = kVersion /\ h[4] = k[1] /\ h[4 + 1] = k[2]
      /\ h[6] = l[1] /\ h[6 + 1] = l[2] /\ h[6 + 2] = l[3] /\ h[6 + 2 + 1] = l[4]
  <2>1. kMagic0 \in Nat /\ kMagic1 \in Nat /\ kVersion \in Nat
    BY Zenon DEF kMagic0, kMagic1, kVersion
  <2>2. QED
    BY <1>2, <1>3, <2>1, SMT
<1> HIDE DEF h
<1>6. read_u16(h, 4) = kind
  BY <1>2, <1>5, Zenon DEF read_u16
<1>7. read_u32(h, 6) = n
  <2>1. read_u16(h, 6) = n \div Half /\ read_u16(h, 6 + 2) = n % Half
    BY <1>3, <1>5, Zenon DEF read_u16
  <2>2. QED
    BY <1>1, <2>1, TwoHalves, SMT DEF read_u32
<1>8. is_binary_frame_header(h) /\ h[3] = kVersion
  BY <1>5, Zenon DEF is_binary_frame_header
<1>9. LET f == h \o payload
      IN /\ decode_frame(f) = {[kind |-> kind, payload |-> payload]}
         /\ f \in Seq(Nat) /\ FrameLength(f) = Len(f)
  BY <1>5, <1>6, <1>7, <1>8, FrameFields, Zenon
<1>10. QED
  BY <1>4, <1>9, Zenon DEF e

-----------------------------------------------------------------------------
(* What a client of the binary protocol does, on a network that does not   *)
(* split the nine bytes of a header: it sends a control request through    *)
(* encode_frame().                                                         *)
HeadersArriveWhole ==
  \A c \in Clients : is_binary_frame_header(Request[c]) =>
    /\ \E payload \in Seq(Nat) :
         /\ Len(payload) < Half * Half
         /\ Request[c] = encode_frame([kind |-> ControlRequest, payload |-> payload])
    /\ \A n \in Cuts[c] : n >= kHeaderSize

(* The worker cuts such a frame where it ends, and decodes it.             *)
LEMMA FramesDecode ==
  ASSUME HeadersArriveWhole, NEW c \in Clients, is_binary_frame_header(Request[c])
  PROVE  FrameAnswer(c) = "frame"
<1> DEFINE r == Request[c]
<1>1. PICK payload \in Seq(Nat) :
        /\ Len(payload) < Half * Half
        /\ r = encode_frame([kind |-> ControlRequest, payload |-> payload])
  BY Zenon DEF HeadersArriveWhole
<1>2. ControlRequest \in Nat /\ ControlRequest < Half
  BY SMT DEF ControlRequest, Half, Base
<1>3. /\ decode_frame(r) = {[kind |-> ControlRequest, payload |-> payload]}
      /\ r \in Seq(Nat) /\ FrameLength(r) = Len(r)
  BY <1>1, <1>2, FrameRoundTrip, Zenon
<1>4. SubSeq(r, 1, FrameLength(r)) = r
  <2>1. SubSeq(r, 1, Len(r)) = r
    BY <1>3, SubSeqFull, Zenon
  <2>2. QED
    BY <1>3, <2>1, Zenon
<1>5. decode_frame(SubSeq(Request[c], 1, FrameLength(Request[c])))
        = {[kind |-> ControlRequest, payload |-> payload]}
  BY <1>3, <1>4, Zenon
<1>6. \E f \in {[kind |-> ControlRequest, payload |-> payload]} : f.kind = ControlRequest
  BY Zenon
<1>7. QED
  BY <1>5, <1>6, Zenon DEF FrameAnswer

(* A frame of which anything arrived has its header, so that the worker    *)
(* never takes it for a line.                                              *)
FrameInv ==
  \A c \in Clients : is_binary_frame_header(Request[c]) =>
    /\ arrived[c] = 0 \/ arrived[c] >= kHeaderSize
    /\ cur = c => worker # "line"
    /\ answer[c] \in {"none", "frame"}

(* A step that leaves FrameInv's variables alone, but for a worker that    *)
(* does not begin to read a line.                                          *)
LEMMA FrameInvKept ==
  ASSUME FrameInv, UNCHANGED <<arrived, answer>>, cur' = cur \/ cur' = NoClient \/ worker' # "line",
         worker' = "line" => worker = "line"
  PROVE  FrameInv'
BY Zenon DEF FrameInv

(* Under these conditions, for any number of clients, of lines and frames, *)
(* and however stops, failures and timeouts interleave, a frame is         *)
(* answered as a frame or not at all.                                      *)
THEOREM WholeHeadersAreServed ==
  ASSUME HeadersArriveWhole
  PROVE  Spec => []FramesAreServedAsFrames
<1>1. Init => FrameInv
  BY Zenon DEF Init, FrameInv
<1>2. TypeOK /\ FrameInv /\ [Next]_vars => FrameInv'
  <2> SUFFICES ASSUME TypeOK, FrameInv, [Next]_vars PROVE FrameInv'
    BY Zenon
  <2>1. CASE Start \/ Stop \/ Wake \/ WakeFails \/ Join \/ Bind \/ BindOrAcceptFails
    BY <2>1, FrameInvKept, Zenon DEF Start, Stop, Wake, WakeFails, Join, Bind,
       BindOrAcceptFails, ExitRun
  <2>2. CASE LoopTest \/ Accept
    BY <2>2, FrameInvKept, Zenon DEF LoopTest, Accept, ExitRun
  <2>3. ASSUME NEW a \in {"none", "line", "frame", "error"}, CloseSession(a), UNCHANGED arrived,
               cur \in Clients /\ is_binary_frame_header(Request[cur]) => a \in {"none", "frame"}
        PROVE  FrameInv'
    BY <2>3, Zenon DEF CloseSession, FrameInv
  <2>4. CASE SecondLook
    <3>1. CASE stopping
      BY <2>3, <2>4, <3>1, Zenon DEF SecondLook
    <3>2. CASE ~stopping
      BY <2>4, <3>2, FrameInvKept, Zenon DEF SecondLook
    <3>3. QED
      BY <3>1, <3>2, Zenon
  <2>5. CASE Peek
    <3>1. CASE CloseSession("none")
      BY <2>3, <2>5, <3>1, Zenon DEF Peek
    <3>2. CASE /\ arrived[cur] > 0 /\ worker' = IF HasHeader(cur) THEN "frame" ELSE "line"
               /\ UNCHANGED <<cur, answer>>
      <4>1. cur \in Clients /\ is_binary_frame_header(Request[cur]) => HasHeader(cur)
        BY <3>2 DEF FrameInv, HasHeader, TypeOK
      <4>2. QED
        BY <2>5, <3>2, <4>1, Zenon DEF Peek, FrameInv
    <3>3. QED
      BY <2>5, <3>1, <3>2, Zenon DEF Peek
  <2>6. CASE ServeFrame
    <3>1. CASE CloseSession("none")
      BY <2>3, <2>6, <3>1, Zenon DEF ServeFrame
    <3>2. CASE CloseSession(FrameAnswer(cur))
      <4>1. FrameAnswer(cur) \in {"frame", "error"}
        BY Zenon DEF FrameAnswer
      <4>2. cur \in Clients /\ is_binary_frame_header(Request[cur]) => FrameAnswer(cur) = "frame"
        BY FramesDecode, Zenon
      <4>3. QED
        BY <2>3, <2>6, <3>2, <4>1, <4>2, Zenon DEF ServeFrame
    <3>3. QED
      BY <2>6, <3>1, <3>2, Zenon DEF ServeFrame
  <2>7. CASE ServeLine
    <3>1. cur \in Clients => ~is_binary_frame_header(Request[cur])
      BY <2>7, Zenon DEF ServeLine, FrameInv
    <3>2. PICK a \in {"none", "line", "frame", "error"} : CloseSession(a)
      BY <2>7, Zenon DEF ServeLine, LineAnswer
    <3>3. QED
      BY <2>3, <2>7, <3>1, <3>2, Zenon DEF ServeLine
  <2>8. ASSUME NEW c \in Clients, Connect(c) \/ Timeout(c) PROVE FrameInv'
    <3>1. CASE Connect(c)
      BY <3>1, Zenon DEF Connect, FrameInv, TypeOK
    <3>2. CASE Timeout(c)
      BY <3>2, FrameInvKept, Zenon DEF Timeout
    <3>3. QED
      BY <2>8, <3>1, <3>2, Zenon
  <2>9. ASSUME NEW c \in Clients, Send(c) PROVE FrameInv'
    BY <2>9, Zenon DEF Send, FrameInv, TypeOK, HeadersArriveWhole
  <2>10. CASE UNCHANGED vars
    BY <2>10, FrameInvKept, Zenon DEF vars
  <2>11. QED
    BY <2>1, <2>2, <2>4, <2>5, <2>6, <2>7, <2>8, <2>9, <2>10, Zenon DEF Next, WorkerStep
<1>3. FrameInv => FramesAreServedAsFrames
  BY Zenon DEF FrameInv, FramesAreServedAsFrames
<1>4. QED
  BY <1>1, <1>2, <1>3, TypeCorrect, PTL DEF Spec

-----------------------------------------------------------------------------
(* A step of the gossip service or of the server is one that the server,   *)
(* its owner or its clients may take, or none to them.                     *)
LEMMA LinkStepsAreServerSteps == [LinkNext]_linkVars => [Next]_vars
<1> SUFFICES ASSUME [LinkNext]_linkVars PROVE [Next]_vars
  BY Zenon
<1>1. Gossiper \in Clients
  BY GossipAssumption, Zenon
<1>2. CASE GStart \/ GStop \/ GJoin
  BY <1>2, Zenon DEF GStart, GStop, GJoin
<1>3. CASE GossipStep
  BY <1>1, <1>3, Zenon DEF GossipStep, Schedule, TimerFires, SendCommand, Answered, Next
<1>4. CASE ServerStep
  BY <1>4, Zenon DEF ServerStep, Next
<1>5. CASE UNCHANGED linkVars
  BY <1>5, Zenon DEF linkVars
<1>6. QED
  BY <1>2, <1>3, <1>4, <1>5, Zenon DEF LinkNext

(* The gossip service, with its own worker, timer and owner, does nothing  *)
(* to its peer's server that a client may not do: what is proved of the    *)
(* server holds of the two together.                                       *)
THEOREM LinkUsesServer == LinkSpec => Spec
<1>1. LinkInit => Init
  BY Zenon DEF LinkInit
<1>2. QED
  BY <1>1, LinkStepsAreServerSteps, PTL DEF LinkSpec, Spec

-----------------------------------------------------------------------------
(* The client's connection waits at the server or is being served.         *)
Queued(c) == \E i \in DOMAIN backlog : backlog[i] = c

HeldInv == \A c \in Clients : client[c] = "open" => Bound /\ (cur = c \/ Queued(c))

(* A connection that joins the backlog pushes nobody out of it,            *)
LEMMA AppendKeepsQueue ==
  ASSUME TypeOK, NEW s \in Clients \cup {Waker}, backlog' = Append(backlog, s)
  PROVE  Queued(s)' /\ \A c \in Clients : Queued(c) => Queued(c)'
<1>1. backlog \in Seq(Clients \cup {Waker})
  BY Zenon DEF TypeOK
<1>2. /\ DOMAIN backlog \subseteq DOMAIN backlog'
      /\ \A i \in DOMAIN backlog : backlog'[i] = backlog[i]
      /\ Len(backlog) + 1 \in DOMAIN backlog' /\ backlog'[Len(backlog) + 1] = s
  BY <1>1
<1>3. QED
  BY <1>2, Zenon DEF Queued

(* and one that is accepted leaves the others there.                       *)
LEMMA AcceptKeepsQueue ==
  ASSUME TypeOK, Accept, NEW c \in Clients, Queued(c)
  PROVE  cur' = c \/ Queued(c)'
<1>1. /\ backlog \in Seq(Clients \cup {Waker}) /\ backlog # <<>>
      /\ cur' = Head(backlog) /\ backlog' = Tail(backlog)
  BY Zenon DEF Accept, TypeOK
<1>2. PICK i \in DOMAIN backlog : backlog[i] = c
  BY Zenon DEF Queued
<1>3. CASE i = 1
  BY <1>1, <1>2, <1>3
<1>4. CASE i # 1
  <2>1. i - 1 \in DOMAIN Tail(backlog) /\ Tail(backlog)[i - 1] = backlog[i]
    BY <1>1, <1>2, <1>4
  <2>2. QED
    BY <1>1, <1>2, <2>1, Zenon DEF Queued
<1>5. QED
  BY <1>3, <1>4, Zenon

(* The end of a session and the worker's return leave no connection open   *)
(* that they drop.                                                         *)
LEMMA DroppedIsClosed ==
  ASSUME TypeOK, HeldInv
  PROVE  /\ \A a : CloseSession(a) /\ UNCHANGED backlog /\ Bound => HeldInv'
         /\ ExitRun /\ cur = NoClient /\ UNCHANGED cur => HeldInv'
<1>1. ASSUME NEW a, CloseSession(a), UNCHANGED backlog, Bound
      PROVE  HeldInv'
  <2> SUFFICES ASSUME NEW c \in Clients, client'[c] = "open"
               PROVE  Bound' /\ Queued(c)'
    BY Zenon DEF HeldInv
  <2>1. c # cur /\ client[c] = "open" /\ worker' = "loop"
    BY <1>1, Zenon DEF CloseSession
  <2>2. Queued(c)
    BY <2>1, Zenon DEF HeldInv
  <2>3. QED
    BY <1>1, <2>1, <2>2, Zenon DEF Queued, Bound
<1>2. ASSUME ExitRun, cur = NoClient, UNCHANGED cur
      PROVE  HeldInv'
  <2> SUFFICES ASSUME NEW c \in Clients, client'[c] = "open"
               PROVE  FALSE
    BY Zenon DEF HeldInv
  <2>1. client[c] = "open" /\ ~Queued(c)
    BY <1>2, Zenon DEF ExitRun, Queued
  <2>2. QED
    BY <1>2, <2>1, Sockets, Zenon DEF HeldInv
<1>3. QED
  BY <1>1, <1>2, Zenon

(* Whoever has an open connection is in the hands of a running worker.     *)
LEMMA ConnectionsAreHeld == Spec => []HeldInv
<1>1. Init => HeldInv
  BY Zenon DEF Init, HeldInv
<1>2. TypeOK /\ HeldInv /\ [Next]_vars => HeldInv'
  <2> SUFFICES ASSUME TypeOK, HeldInv, [Next]_vars PROVE HeldInv'
    BY Zenon
  <2>1. ASSUME UNCHANGED <<backlog, cur>>, Bound => Bound',
               \A c \in Clients : client'[c] = "open" => client[c] = "open"
        PROVE  HeldInv'
    BY <2>1, Zenon DEF HeldInv, Queued
  <2>2. CASE Start \/ Stop \/ WakeFails \/ Join \/ Bind
    BY <2>1, <2>2, Zenon DEF Start, Stop, WakeFails, Join, Bind, Bound
  <2>3. CASE Wake
    <3>1. CASE Bound
      BY <2>3, <3>1, AppendKeepsQueue, Zenon DEF Wake, HeldInv, Bound
    <3>2. CASE ~Bound
      BY <2>1, <2>3, <3>2, Zenon DEF Wake
    <3>3. QED
      BY <3>1, <3>2, Zenon
  <2>4. CASE LoopTest
    <3>1. CASE stopping
      BY <2>4, <3>1, DroppedIsClosed, Zenon DEF LoopTest, TypeOK
    <3>2. CASE ~stopping
      BY <2>1, <2>4, <3>2, Zenon DEF LoopTest, Bound
    <3>3. QED
      BY <3>1, <3>2, Zenon
  <2>5. CASE Accept
    <3>1. cur = NoClient /\ worker' = "accepted" /\ client' = client
      BY <2>5, Zenon DEF Accept, TypeOK
    <3>2. QED
      BY <2>5, <3>1, AcceptKeepsQueue, Sockets, Zenon DEF HeldInv, Bound
  <2>6. CASE BindOrAcceptFails
    BY <2>6, DroppedIsClosed, Zenon DEF BindOrAcceptFails, TypeOK
  <2>7. CASE SecondLook \/ Peek \/ ServeFrame \/ ServeLine
    <3>1. Bound /\ backlog' = backlog
      BY <2>7, Zenon DEF SecondLook, Peek, ServeFrame, ServeLine, Bound
    <3>2. \/ \E a : CloseSession(a)
          \/ worker' \in {"peek", "frame", "line"} /\ UNCHANGED <<cur, client>>
      BY <2>7, Zenon DEF SecondLook, Peek, ServeFrame, ServeLine
    <3>3. QED
      BY <2>1, <3>1, <3>2, DroppedIsClosed, Zenon DEF Bound
  <2>8. ASSUME NEW c \in Clients, Connect(c) PROVE HeldInv'
    <3>1. worker' = worker /\ cur' = cur
          /\ \A d \in Clients : d # c => client'[d] = client[d]
      BY <2>8, Zenon DEF Connect, TypeOK
    <3>2. CASE Bound
      <4>1. backlog' = Append(backlog, c)
        BY <2>8, <3>2, Zenon DEF Connect
      <4>2. QED
        BY <3>1, <3>2, <4>1, AppendKeepsQueue, Zenon DEF HeldInv, Bound
    <3>3. CASE ~Bound
      <4>1. client'[c] = "failed" /\ backlog' = backlog
        BY <2>8, <3>3, Zenon DEF Connect, TypeOK
      <4>2. QED
        BY <3>1, <3>3, <4>1, Zenon DEF HeldInv
    <3>4. QED
      BY <3>2, <3>3, Zenon
  <2>9. ASSUME NEW c \in Clients, Send(c) \/ Timeout(c) PROVE HeldInv'
    <3>1. UNCHANGED <<backlog, cur, worker>>
          /\ \A d \in Clients : client'[d] = "open" => client[d] = "open"
      BY <2>9, Zenon DEF Send, Timeout, TypeOK
    <3>2. QED
      BY <2>1, <3>1, Zenon DEF Bound
  <2>10. CASE UNCHANGED vars
    BY <2>1, <2>10, Zenon DEF vars, Bound
  <2>11. QED
    BY <2>2, <2>3, <2>4, <2>5, <2>6, <2>7, <2>8, <2>9, <2>10, Zenon DEF Next, WorkerStep
<1>3. QED
  BY <1>1, <1>2, TypeCorrect, PTL DEF Spec

(* The gossip worker's part: it awaits a connection it has made, and a     *)
(* round has a number of commands left that each answer lowers.            *)
RoundInv ==
  /\ gworker \in {"send", "await"} => todo \in 1..MaxCommands
  /\ gworker = "await" => client[Gossiper] # "new"

(* No connection becomes new again.                                        *)
LEMMA ConnectionsAge ==
  ASSUME TypeOK, [Next]_vars, NEW c \in Clients, client[c] # "new"
  PROVE  client'[c] # "new"
<1>1. \A a : CloseSession(a) => client'[c] # "new"
  BY Zenon DEF CloseSession
<1>2. ExitRun => client'[c] # "new"
  BY Zenon DEF ExitRun
<1>3. CASE Next
  <2>1. CASE WorkerStep
    BY <1>1, <1>2, <2>1, Zenon DEF WorkerStep, Bind, LoopTest, Accept, SecondLook, Peek,
       ServeFrame, ServeLine
  <2>2. CASE BindOrAcceptFails
    BY <1>2, <2>2, Zenon DEF BindOrAcceptFails
  <2>3. ASSUME NEW d \in Clients, Connect(d) \/ Send(d) \/ Timeout(d)
        PROVE  client'[c] # "new"
    <3>1. \/ client' = client
          \/ \E v \in {"open", "failed"} : client' = [client EXCEPT ![d] = v]
      BY <2>3, Zenon DEF Connect, Send, Timeout
    <3>2. QED
      BY <3>1, Zenon DEF TypeOK
  <2>4. CASE Start \/ Stop \/ Wake \/ WakeFails \/ Join
    BY <2>4, Zenon DEF Start, Stop, Wake, WakeFails, Join
  <2>5. QED
    BY <1>3, <2>1, <2>2, <2>3, <2>4, Zenon DEF Next
<1>4. CASE UNCHANGED vars
  BY <1>4, Zenon DEF vars
<1>5. QED
  BY <1>3, <1>4, Zenon

(* Nobody waits in vain, the safety half of GossipStops and ClientsFinish, *)
(* for any clients, requests, segments, restarts and failures.             *)
THEOREM WaitsAreServed == LinkSpec => []NobodyWaitsInVain
<1>1. LinkInit => RoundInv
  BY Zenon DEF LinkInit, RoundInv
<1>2. [LinkNext]_linkVars => [Next]_vars
  BY LinkStepsAreServerSteps, Zenon
<1>3. TypeOK /\ RoundInv /\ [LinkNext]_linkVars => RoundInv'
  <2> SUFFICES ASSUME TypeOK, RoundInv, [LinkNext]_linkVars PROVE RoundInv'
    BY Zenon
  <2>1. Gossiper \in Clients
    BY GossipAssumption, Zenon
  <2>2. client[Gossiper] # "new" => client'[Gossiper] # "new"
    BY <1>2, <2>1, ConnectionsAge, Zenon
  <2>3. CASE SendCommand
    <3>1. gworker' = "await" => client'[Gossiper] = "open"
      BY <2>1, <2>3, Zenon DEF SendCommand, Connect, TypeOK
    <3>2. QED
      BY <2>3, <3>1, Zenon DEF SendCommand, RoundInv
  <2>4. CASE Answered
    <3>1. todo \in 1..MaxCommands /\ todo' = todo - 1 /\ MaxCommands \in Nat
      BY <2>4, GossipAssumption, Zenon DEF Answered, RoundInv
    <3>2. todo' > 0 => todo' \in 1..MaxCommands
      BY <3>1
    <3>3. gworker' = "schedule" \/ (gworker' = "send" /\ todo' > 0)
      BY <2>4, Zenon DEF Answered
    <3>4. QED
      BY <3>2, <3>3, Zenon DEF RoundInv
  <2>5. CASE GStart \/ GStop \/ GJoin \/ Schedule \/ TimerFires
    BY <2>2, <2>5, Zenon DEF GStart, GStop, GJoin, Schedule, TimerFires, RoundInv
  <2>6. CASE ServerStep \/ UNCHANGED linkVars
    <3>1. UNCHANGED <<gworker, todo>>
      BY <2>6, Zenon DEF ServerStep, linkVars, gossipVars
    <3>2. QED
      BY <2>2, <3>1, Zenon DEF RoundInv
  <2>7. QED
    BY <2>3, <2>4, <2>5, <2>6, Zenon DEF LinkNext, GossipStep
<1>4. HeldInv /\ RoundInv => NobodyWaitsInVain
  BY Zenon DEF HeldInv, Queued, RoundInv, NobodyWaitsInVain
<1>5. QED
  BY <1>1, <1>3, <1>4, LinkUsesServer, TypeCorrect, ConnectionsAreHeld, PTL DEF LinkSpec

(* So what the server promises holds with the gossip service as a client.  *)
THEOREM LinkIsSafe == LinkSpec => [](TypeOK /\ WakeUpNotLost /\ NobodyWaitsInVain)
BY LinkUsesServer, TypeCorrect, WakeUpIsNotLost, WaitsAreServed, PTL

=============================================================================
