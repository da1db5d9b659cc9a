--------------------- MODULE UdpHandshakeResponderProofs ---------------------
(***************************************************************************)
(* Proofs about UdpHandshakeResponder, for any buffer size and any number  *)
(* of restarts, datagrams and failures.                                    *)
(***************************************************************************)
EXTENDS UdpHandshakeResponder, Functions, FiniteSetTheorems, TLAPS

(* The bounds, apart from what the assumption says of texts.               *)
LEMMA BoundsAssumption ==
  /\ BufferSize \in Nat \ {0}
  /\ MaxStarts \in Nat /\ MaxDatagrams \in Nat /\ MaxFaults \in Nat
BY ResponderAssumption, Zenon

(* A datagram arrives or is dropped: the buffer stays within its size, and *)
(* is not empty afterwards if the port is bound.                           *)
LEMMA ArriveKeepsBuffer ==
  ASSUME TypeOK, NEW d \in Datagrams, Arrive(d)
  PROVE  /\ buffer' \in Seq(Datagrams) /\ Len(buffer') <= BufferSize
         /\ Bound => buffer' # <<>>
         /\ buffer # <<>> => buffer' # <<>>
         /\ ~Bound => buffer' = buffer
         /\ ~Bound => buffer' = <<>>
<1> USE BoundsAssumption
<1>1. buffer \in Seq(Datagrams) /\ Len(buffer) \in Nat
  BY DEF TypeOK
<1>2. CASE Bound /\ Len(buffer) < BufferSize
  BY <1>1, <1>2 DEF Arrive
<1>3. CASE ~(Bound /\ Len(buffer) < BufferSize)
  <2>1. buffer' = buffer
    BY <1>3, Zenon DEF Arrive
  <2>2. Bound => Len(buffer) > 0
    BY <1>1, <1>3
  <2>3. Bound => buffer # <<>>
    BY <2>2
  <2>4. QED
    BY <1>1, <2>1, <2>3, Zenon DEF TypeOK
<1>4. QED
  BY <1>2, <1>3, Zenon

(* The empty buffer.                                                       *)
LEMMA EmptyBuffer == <<>> \in Seq(Datagrams) /\ Len(<<>>) <= BufferSize
BY BoundsAssumption

(* A closed socket has it.                                                 *)
LEMMA ExitRunType ==
  ASSUME ExitRun
  PROVE  worker' = "exited" /\ data' = {} /\ buffer' = <<>>
         /\ buffer' \in Seq(Datagrams) /\ Len(buffer') <= BufferSize
BY EmptyBuffer, Zenon DEF ExitRun

(* The datagram BEACON_STOP.                                               *)
LEMMA StopperIsDatagram == Stopper \in Datagrams
BY Zenon DEF Datagrams

(* The answer of a decoder is at most one record, so a welcome counts at   *)
(* most once.                                                              *)
LEMMA DecodedOnce ==
  ASSUME NEW tokens
  PROVE  Cardinality(decode_peer_welcome(tokens)) \in {0, 1}
<1> DEFINE w == WelcomeOf(tokens)
<1>1. decode_peer_welcome(tokens) \subseteq {w}
  BY Zenon DEF decode_peer_welcome
<1>2. decode_peer_welcome(tokens) = {} \/ decode_peer_welcome(tokens) = {w}
  <2> HIDE DEF w
  <2>1. QED
    BY <1>1, Zenon
<1>3. Cardinality({}) = 0 /\ Cardinality({w}) = 1
  BY FS_EmptySet, FS_Singleton, Zenon
<1>4. QED
  BY <1>2, <1>3, Zenon

(* A welcome adds at most one to what its receiver got.                    *)
LEMMA WelcomeType ==
  ASSUME TypeOK, NEW d, NEW revision
  PROVE  /\ Welcome(d, revision) \in [Peers -> Nat]
         /\ \A p \in Peers : Welcome(d, revision)[p] <= welcomes[p] + 1
         /\ \A p \in Peers \ {d.from} : Welcome(d, revision)[p] = welcomes[p]
<1> DEFINE n == Cardinality(decode_peer_welcome(
                  encode_peer_welcome([node_id |-> NodeId, registry_revision |-> revision])))
           f == d.from
<1>1. n \in {0, 1}
  BY DecodedOnce, Zenon
<1>2. Welcome(d, revision) = [welcomes EXCEPT ![f] = @ + n]
  BY Zenon DEF Welcome
<1>3. welcomes \in [Peers -> Nat]
  BY Zenon DEF TypeOK
<1>4. Welcome(d, revision) = [p \in Peers |-> IF p = f THEN welcomes[p] + n ELSE welcomes[p]]
  <2> HIDE DEF n, f
  <2>1. QED
    BY <1>2, <1>3, Zenon
<1>5. \A p \in Peers : welcomes[p] \in Nat /\ welcomes[p] + n \in Nat /\ welcomes[p] + n <= welcomes[p] + 1
  <2> HIDE DEF n
  <2>1. QED
    BY <1>1, <1>3
<1>6. QED
  <2> HIDE DEF n
  <2>1. QED
    BY <1>4, <1>5

(* Type correctness.                                                       *)
THEOREM TypeCorrect == Spec => []TypeOK
<1> USE BoundsAssumption
<1>1. Init => TypeOK
  <2> SUFFICES ASSUME Init PROVE TypeOK
    BY Zenon
  <2>1. buffer \in Seq(Datagrams) /\ Len(buffer) <= BufferSize
    BY DEF Init
  <2>2. stopping \in BOOLEAN
    BY Zenon DEF Init
  <2>3. welcomes \in [Peers -> Nat] /\ hellos \in [Peers -> Nat]
    BY Zenon DEF Init
  <2>4. QED
    BY <2>1, <2>2, <2>3, Zenon DEF Init, TypeOK, Bound
<1>2. TypeOK /\ [Next]_vars => TypeOK'
  <2> SUFFICES ASSUME TypeOK, [Next]_vars PROVE TypeOK'
    BY Zenon
  <2>1. CASE Start
    <3>1. stopping' \in BOOLEAN
      BY <2>1, Zenon DEF Start
    <3>2. starts' \in Nat
      BY <2>1 DEF Start, TypeOK, Bound
    <3>3. QED
      BY <2>1, <3>1, <3>2, Zenon DEF Start, TypeOK, Bound
  <2>2. CASE Stop
    BY <2>2, Zenon DEF Stop, TypeOK, Bound
  <2>3. CASE Wake
    BY <2>3, ArriveKeepsBuffer, StopperIsDatagram, Zenon DEF Wake, TypeOK, Bound
  <2>4. CASE WakeFails \/ Join
    <3>1. faults' \in Nat
      BY <2>4 DEF WakeFails, Join, TypeOK, Bound
    <3>2. QED
      BY <2>4, <3>1, Zenon DEF WakeFails, Join, TypeOK, Bound
  <2>5. CASE Bind
    BY <2>5, Zenon DEF Bind, TypeOK, Bound
  <2>6. CASE LoopTest
    <3>1. CASE stopping
      BY <2>6, <3>1, ExitRunType, Zenon DEF LoopTest, TypeOK, Bound
    <3>2. CASE ~stopping
      BY <2>6, <3>2, Zenon DEF LoopTest, TypeOK, Bound
    <3>3. QED
      BY <3>1, <3>2, Zenon
  <2>7. CASE Receive
    <3>1. /\ Head(buffer) \in Datagrams /\ Tail(buffer) \in Seq(Datagrams)
          /\ Len(Tail(buffer)) <= BufferSize
      BY <2>7 DEF Receive, TypeOK, Bound
    <3>2. QED
      BY <2>7, <3>1, Zenon DEF Receive, TypeOK, Bound
  <2>8. CASE Answer
    <3>1. welcomes' \in [Peers -> Nat]
      BY <2>8, WelcomeType DEF Answer, TypeOK, Bound
    <3>2. CASE stopping
      BY <2>8, <3>1, <3>2, ExitRunType, Zenon DEF Answer, TypeOK, Bound
    <3>3. CASE ~stopping
      BY <2>8, <3>1, <3>3, Zenon DEF Answer, TypeOK, Bound
    <3>4. QED
      BY <3>2, <3>3, Zenon
  <2>9. CASE SocketFails
    <3>1. faults' \in Nat
      BY <2>9 DEF SocketFails, TypeOK, Bound
    <3>2. QED
      BY <2>9, <3>1, ExitRunType, Zenon DEF SocketFails, TypeOK, Bound
  <2>10. ASSUME NEW p \in Peers, NEW text \in Texts, PeerSends(p, text) PROVE TypeOK'
    <3>1. datagrams' \in Nat /\ hellos' \in [Peers -> Nat]
      BY <2>10 DEF PeerSends, TypeOK, Bound
    <3>2. [from |-> p, text |-> text] \in Datagrams
      BY Zenon DEF Datagrams
    <3>3. QED
      BY <2>10, <3>1, <3>2, ArriveKeepsBuffer, Zenon DEF PeerSends, TypeOK, Bound
  <2>11. CASE Killed
    <3>1. buffer' = <<>> /\ stopping' \in BOOLEAN
      BY <2>11, Zenon DEF Killed
    <3>2. buffer' \in Seq(Datagrams) /\ Len(buffer') <= BufferSize
      BY <3>1, EmptyBuffer, Zenon
    <3>3. QED
      BY <2>11, <3>1, <3>2, Zenon DEF Killed, TypeOK, Bound
  <2>12. CASE UNCHANGED vars
    BY <2>12, Zenon DEF vars, TypeOK, Bound
  <2>13. QED
    BY <2>1, <2>2, <2>3, <2>4, <2>5, <2>6, <2>7, <2>8, <2>9, <2>10, <2>11, <2>12, Zenon
       DEF Next, WorkerStep
<1>3. QED
  BY <1>1, <1>2, PTL DEF Spec

-----------------------------------------------------------------------------
(* A stop() in progress has set the flag, so the worker does not go back   *)
(* to receiving.                                                           *)
WakeInv ==
  /\ owner # "idle" => stopping
  /\ WakeUpNotLost

(* However starting, stopping, datagrams and failures interleave, a worker *)
(* that stop() waits for has a datagram to wake it, or needs none.         *)
THEOREM WakeUpIsNotLost == Spec => []WakeUpNotLost
<1>1. Init => WakeInv
  BY Zenon DEF Init, WakeInv, WakeUpNotLost
<1>2. TypeOK /\ WakeInv /\ [Next]_vars => WakeInv'
  <2> SUFFICES ASSUME TypeOK, WakeInv, [Next]_vars PROVE WakeInv'
    BY Zenon
  <2> USE DEF WakeInv, WakeUpNotLost
  <2>1. CASE Start
    BY <2>1, Zenon DEF Start
  <2>2. CASE Stop
    BY <2>2, Zenon DEF Stop
  <2>3. CASE Wake
    BY <2>3, ArriveKeepsBuffer, StopperIsDatagram, Zenon DEF Wake, Bound
  <2>4. CASE WakeFails \/ Join
    BY <2>4, Zenon DEF WakeFails, Join
  <2>5. CASE Bind
    BY <2>5, Zenon DEF Bind
  <2>6. CASE LoopTest
    BY <2>6, Zenon DEF LoopTest, ExitRun
  <2>7. CASE Receive
    BY <2>7, Zenon DEF Receive
  <2>8. CASE Answer
    BY <2>8, Zenon DEF Answer, ExitRun
  <2>9. CASE SocketFails
    BY <2>9, Zenon DEF SocketFails, ExitRun
  <2>10. ASSUME NEW p \in Peers, NEW text \in Texts, PeerSends(p, text) PROVE WakeInv'
    <3>1. [from |-> p, text |-> text] \in Datagrams
      BY Zenon DEF Datagrams
    <3>2. QED
      BY <2>10, <3>1, ArriveKeepsBuffer, Zenon DEF PeerSends
  <2>11. CASE Killed
    BY <2>11, Zenon DEF Killed
  <2>12. CASE UNCHANGED vars
    BY <2>12, Zenon DEF vars
  <2>13. QED
    BY <2>1, <2>2, <2>3, <2>4, <2>5, <2>6, <2>7, <2>8, <2>9, <2>10, <2>11, <2>12, Zenon
       DEF Next, WorkerStep
<1>3. WakeInv => WakeUpNotLost
  BY Zenon DEF WakeInv
<1>4. QED
  BY <1>1, <1>2, <1>3, TypeCorrect, PTL DEF Spec

-----------------------------------------------------------------------------
(* What the responder takes for a hello is one: of the texts that a peer   *)
(* can send, the decoder accepts only proper hellos.                       *)
LEMMA DecodesProperHellos ==
  ASSUME NEW text \in Texts, decode_peer_hello(text) # {}
  PROVE  Proper(text)
<1> DEFINE h == HelloOf(text)
<1>1. PICK x \in decode_peer_hello(text) : TRUE
  BY Zenon
<1>2. /\ text[1].name = "BEACON_HELLO" /\ h.node_id # "" /\ h.listen_port # 0
      /\ \A i \in Fields(text, "listen_port") : parse_u16(text[i].value)
  BY <1>1, Zenon DEF decode_peer_hello
<1>3. text = encode_peer_hello(h)
  BY <1>2, ResponderAssumption, Zenon
<1>4. Len(text) = 3 /\ text[3] = Field("listen_port", h.listen_port)
  <2> HIDE DEF h
  <2>1. QED
    BY <1>3, Zenon DEF encode_peer_hello
<1>5. text[3].name = "listen_port" /\ text[3].value = h.listen_port
  <2> HIDE DEF h
  <2>1. QED
    BY <1>4 DEF Field
<1>6. 3 \in Fields(text, "listen_port")
  BY <1>4, <1>5 DEF Fields
<1>7. h.listen_port \in 0..MaxPort
  <2>1. parse_u16(text[3].value)
    BY <1>2, <1>6, Zenon
  <2>2. text[3].value \in 0..MaxPort
    BY <2>1, Zenon DEF parse_u16
  <2>3. QED
    BY <1>5, <2>2, Zenon
<1>8. h.listen_port \in 1..MaxPort
  <2>0. MaxPort \in Nat
    BY DEF MaxPort
  <2>1. \A port \in 0..MaxPort : port # 0 => port \in 1..MaxPort
    BY <2>0
  <2>2. h.listen_port # 0
    BY <1>2, Zenon
  <2>3. QED
    BY <1>7, <2>1, <2>2, Zenon
<1>9. QED
  BY <1>2, <1>3, <1>8, Zenon DEF Proper

(* The proper hellos of p that wait in a buffer.                           *)
HelloPlaces(b, p) == {i \in 1..Len(b) : b[i].from = p /\ Proper(b[i].text)}
Held(D, p) == {d \in D : d.from = p /\ Proper(d.text)}

(* Every hello of p that waits, is being looked at or was answered is one  *)
(* that p sent.                                                            *)
HelloInv ==
  /\ \A p \in Peers :
       welcomes[p] + Cardinality(HelloPlaces(buffer, p)) + Cardinality(Held(data, p)) <= hellos[p]
  /\ \A d, e \in data : d = e

(* A buffer holds finitely many hellos.                                    *)
LEMMA PlacesFinite ==
  ASSUME NEW S, NEW b \in Seq(S), NEW p
  PROVE  IsFiniteSet(HelloPlaces(b, p)) /\ Cardinality(HelloPlaces(b, p)) \in Nat
<1>1. IsFiniteSet(1..Len(b))
  BY FS_Interval
<1>2. HelloPlaces(b, p) \subseteq 1..Len(b)
  BY Zenon DEF HelloPlaces
<1>3. QED
  BY <1>1, <1>2, FS_Subset, FS_CardinalityType, Zenon

(* A datagram that arrives adds one place, and only if it is a hello of p. *)
LEMMA AppendPlaces ==
  ASSUME NEW S, NEW b \in Seq(S), NEW d \in S, NEW p
  PROVE  Cardinality(HelloPlaces(Append(b, d), p)) =
           Cardinality(HelloPlaces(b, p)) + (IF d.from = p /\ Proper(d.text) THEN 1 ELSE 0)
<1> DEFINE c == Append(b, d)  n == Len(b) + 1
<1>1. Len(c) = n /\ c[n] = d /\ (\A i \in 1..Len(b) : c[i] = b[i]) /\ n \in Nat
  OBVIOUS
<1>2. 1..Len(c) = (1..Len(b)) \cup {n}
  BY <1>1
<1>3. n \notin HelloPlaces(b, p)
  BY DEF HelloPlaces
<1>4. CASE d.from = p /\ Proper(d.text)
  <2>1. HelloPlaces(c, p) = HelloPlaces(b, p) \cup {n}
    <3> HIDE DEF c, n
    <3>1. QED
      BY <1>1, <1>2, <1>4, Zenon DEF HelloPlaces
  <2>2. Cardinality(HelloPlaces(c, p)) = Cardinality(HelloPlaces(b, p)) + 1
    BY <2>1, <1>3, PlacesFinite, FS_AddElement, Zenon
  <2>3. QED
    BY <1>4, <2>2, Zenon
<1>5. CASE ~(d.from = p /\ Proper(d.text))
  <2>1. HelloPlaces(c, p) = HelloPlaces(b, p)
    <3> HIDE DEF c, n
    <3>1. QED
      BY <1>1, <1>2, <1>5, Zenon DEF HelloPlaces
  <2>2. QED
    BY <1>5, <2>1, PlacesFinite
<1>6. QED
  BY <1>4, <1>5, Zenon

(* Reading the first datagram moves its hello, if it is one, to data.      *)
LEMMA TailPlaces ==
  ASSUME NEW S, NEW b \in Seq(S), b # <<>>, NEW p
  PROVE  Cardinality(HelloPlaces(Tail(b), p)) + Cardinality(Held({Head(b)}, p)) =
           Cardinality(HelloPlaces(b, p))
<1> DEFINE t == Tail(b)
           P == HelloPlaces(b, p) \ {1}
           f == [i \in HelloPlaces(t, p) |-> i + 1]
<1>1. Len(t) = Len(b) - 1 /\ Len(b) \in Nat \ {0} /\ (\A i \in 1..Len(t) : t[i] = b[i + 1])
  OBVIOUS
<1>2. f \in Bijection(HelloPlaces(t, p), P)
  <2> HIDE DEF t
  <2>1. \A i \in HelloPlaces(t, p) : i \in Nat /\ i + 1 \in P
    BY <1>1 DEF HelloPlaces
  <2>2. \A j \in P : j - 1 \in HelloPlaces(t, p) /\ j = (j - 1) + 1
    BY <1>1 DEF HelloPlaces
  <2>3. f \in [HelloPlaces(t, p) -> P] /\ (\A i, j \in HelloPlaces(t, p) : f[i] = f[j] => i = j)
    BY <2>1
  <2>4. \A j \in P : \E i \in HelloPlaces(t, p) : f[i] = j
    BY <2>2, Zenon
  <2>5. QED
    BY <2>3, <2>4, Zenon DEF Bijection, Injection, Surjection, IsInjective
<1>3. /\ IsFiniteSet(HelloPlaces(b, p)) /\ Cardinality(HelloPlaces(b, p)) \in Nat
      /\ IsFiniteSet(P)
      /\ IsFiniteSet(HelloPlaces(t, p)) /\ Cardinality(HelloPlaces(t, p)) \in Nat
  <2>1. t \in Seq(S)
    OBVIOUS
  <2>2. QED
    BY <2>1, PlacesFinite, FS_RemoveElement, Zenon
<1>4. Cardinality(HelloPlaces(t, p)) = Cardinality(P)
  <2>1. ExistsBijection(HelloPlaces(t, p), P)
    BY <1>2, Zenon DEF ExistsBijection
  <2>2. QED
    BY <1>3, <2>1, FS_Bijection, Zenon
<1>5. Head(b) = b[1]
  OBVIOUS
<1>6. SUFFICES Cardinality(HelloPlaces(t, p)) + Cardinality(Held({Head(b)}, p)) =
               Cardinality(HelloPlaces(b, p))
  BY Zenon
<1> HIDE DEF t, f
<1>7. CASE b[1].from = p /\ Proper(b[1].text)
  <2>1. 1 \in HelloPlaces(b, p)
    BY <1>1, <1>7 DEF HelloPlaces
  <2>2. Cardinality(P) = Cardinality(HelloPlaces(b, p)) - 1
    BY <1>3, <2>1, FS_RemoveElement, Zenon
  <2>3. Held({Head(b)}, p) = {Head(b)}
    BY <1>5, <1>7, Zenon DEF Held
  <2>4. Cardinality({Head(b)}) = 1
    BY FS_Singleton, Zenon
  <2>5. Cardinality(Held({Head(b)}, p)) = 1
    BY <2>3, <2>4, Zenon
  <2>6. Cardinality(HelloPlaces(t, p)) = Cardinality(HelloPlaces(b, p)) - 1
    BY <1>4, <2>2, Zenon
  <2>7. QED
    BY <1>3, <2>5, <2>6
<1>8. CASE ~(b[1].from = p /\ Proper(b[1].text))
  <2>1. P = HelloPlaces(b, p)
    BY <1>8, Zenon DEF HelloPlaces
  <2>2. Held({Head(b)}, p) = {}
    BY <1>5, <1>8, Zenon DEF Held
  <2>3. Cardinality(Held({Head(b)}, p)) = 0
    BY <2>2, FS_EmptySet, Zenon
  <2>4. Cardinality(HelloPlaces(t, p)) = Cardinality(HelloPlaces(b, p))
    BY <1>4, <2>1, Zenon
  <2>5. QED
    BY <1>3, <2>3, <2>4
<1>9. QED
  BY <1>7, <1>8, Zenon

(* The counts are numbers.                                                 *)
LEMMA CountsAreNumbers ==
  ASSUME TypeOK, HelloInv, NEW p \in Peers
  PROVE  /\ welcomes[p] \in Nat /\ hellos[p] \in Nat
         /\ Cardinality(HelloPlaces(buffer, p)) \in Nat
         /\ IsFiniteSet(Held(data, p)) /\ Cardinality(Held(data, p)) \in Nat
<1>1. welcomes[p] \in Nat /\ hellos[p] \in Nat
  BY Zenon DEF TypeOK
<1>2. Cardinality(HelloPlaces(buffer, p)) \in Nat
  BY PlacesFinite, Zenon DEF TypeOK
<1>3. Held(data, p) = {} \/ \E d : Held(data, p) = {d}
  BY DEF HelloInv, Held
<1>4. IsFiniteSet(Held(data, p))
  BY <1>3, FS_EmptySet, FS_Singleton, Zenon
<1>5. QED
  BY <1>1, <1>2, <1>4, FS_CardinalityType, Zenon

(* An empty buffer and no datagram at hand keep the invariant.             *)
LEMMA NothingHeld ==
  ASSUME NEW p
  PROVE  Cardinality(HelloPlaces(<<>>, p)) = 0 /\ Cardinality(Held({}, p)) = 0
<1>1. HelloPlaces(<<>>, p) = {} /\ Held({}, p) = {}
  BY DEF HelloPlaces, Held
<1>2. QED
  BY <1>1, FS_EmptySet, Zenon

(* An arriving datagram adds at most one hello of its sender.              *)
LEMMA ArrivePlaces ==
  ASSUME TypeOK, NEW d \in Datagrams, Arrive(d), NEW p
  PROVE  Cardinality(HelloPlaces(buffer', p)) <=
           Cardinality(HelloPlaces(buffer, p)) + (IF d.from = p /\ Proper(d.text) THEN 1 ELSE 0)
<1>1. buffer \in Seq(Datagrams) /\ Cardinality(HelloPlaces(buffer, p)) \in Nat
  BY PlacesFinite, Zenon DEF TypeOK
<1>2. CASE buffer' = Append(buffer, d)
  BY <1>1, <1>2, AppendPlaces
<1>3. CASE buffer' = buffer
  BY <1>1, <1>3
<1>4. QED
  BY <1>2, <1>3, Zenon DEF Arrive

(* Closing the socket forgets hellos, and answers none.                    *)
LEMMA ExitKeepsHellos ==
  ASSUME TypeOK, HelloInv, ExitRun \/ Killed, UNCHANGED <<welcomes, hellos>>
  PROVE  HelloInv'
<1>1. buffer' = <<>> /\ data' = {}
  BY Zenon DEF ExitRun, Killed
<1>2. ASSUME NEW p \in Peers
      PROVE  welcomes'[p] + Cardinality(HelloPlaces(buffer', p)) + Cardinality(Held(data', p))
               <= hellos'[p]
  <2>1. Cardinality(HelloPlaces(buffer', p)) = 0 /\ Cardinality(Held(data', p)) = 0
    BY <1>1, NothingHeld, Zenon
  <2>2. QED
    BY <2>1, CountsAreNumbers DEF HelloInv
<1>3. QED
  BY <1>1, <1>2, Zenon DEF HelloInv

(* What is answered is a hello of a peer, and it is at hand.               *)
LEMMA GreetingIsHeld ==
  ASSUME TypeOK, NEW d \in Greeting
  PROVE  d \in data /\ d.from \in Peers /\ Proper(d.text)
<1>1. d \in data /\ d \in Datagrams /\ decode_peer_hello(d.text) # {}
  BY Zenon DEF Greeting, TypeOK
<1>2. d # Stopper
  <2>1. ASSUME d = Stopper PROVE FALSE
    <3>1. d.text[1].name = "BEACON_STOP"
      BY <2>1, Zenon DEF Stopper, Word
    <3>2. PICK x \in decode_peer_hello(d.text) : TRUE
      BY <1>1, Zenon
    <3>3. d.text[1].name = "BEACON_HELLO"
      BY <3>2, Zenon DEF decode_peer_hello
    <3>4. QED
      BY <3>1, <3>3, Zenon
  <2>2. QED
    BY <2>1, Zenon
<1>3. d.from \in Peers /\ d.text \in Texts
  BY <1>1, <1>2, Zenon DEF Datagrams
<1>4. QED
  BY <1>1, <1>3, DecodesProperHellos, Zenon

(* The hello that is answered was held, and no longer is.                  *)
LEMMA AnswerKeepsHellos ==
  ASSUME TypeOK, HelloInv, Answer
  PROVE  HelloInv'
<1>1. hellos' = hellos
  BY Zenon DEF Answer
<1>2. CASE stopping
  BY <1>2, ExitKeepsHellos, Zenon DEF Answer
<1>3. CASE ~stopping
  <2>1. data' = {} /\ buffer' = buffer
    BY <1>3, Zenon DEF Answer
  <2>2. ASSUME NEW p \in Peers
        PROVE  welcomes'[p] + Cardinality(HelloPlaces(buffer', p)) + Cardinality(Held(data', p))
                 <= hellos'[p]
    <3>1. Cardinality(Held(data', p)) = 0
      BY <2>1, NothingHeld, Zenon
    <3>2. /\ welcomes[p] + Cardinality(HelloPlaces(buffer, p)) + Cardinality(Held(data, p))
               <= hellos[p]
          /\ welcomes[p] \in Nat /\ hellos[p] \in Nat
          /\ Cardinality(HelloPlaces(buffer, p)) \in Nat /\ Cardinality(Held(data, p)) \in Nat
      BY CountsAreNumbers, Zenon DEF HelloInv
    <3>3. CASE Greeting = {}
      <4>1. welcomes' = welcomes
        BY <3>3, Zenon DEF Answer
      <4>2. QED
        BY <1>1, <2>1, <3>1, <3>2, <4>1
    <3>4. CASE Greeting # {}
      <4>1. PICK d \in Greeting, revision \in Revisions : welcomes' = Welcome(d, revision)
        BY <1>3, <3>4, Zenon DEF Answer
      <4>2. welcomes'[p] \in Nat /\ welcomes'[p] <= welcomes[p] + 1
            /\ (p # d.from => welcomes'[p] = welcomes[p])
        BY <4>1, WelcomeType, Zenon
      <4>3. CASE p = d.from
        <5>1. d \in Held(data, p)
          BY <4>3, GreetingIsHeld, Zenon DEF Held
        <5>2. Cardinality(Held(data, p)) # 0
          BY <5>1, CountsAreNumbers, FS_EmptySet, Zenon
        <5>3. QED
          BY <1>1, <2>1, <3>1, <3>2, <4>2, <5>2
      <4>4. CASE p # d.from
        BY <1>1, <2>1, <3>1, <3>2, <4>2, <4>4
      <4>5. QED
        BY <4>3, <4>4, Zenon
    <3>5. QED
      BY <3>3, <3>4, Zenon
  <2>3. QED
    BY <2>1, <2>2, Zenon DEF HelloInv
<1>4. QED
  BY <1>2, <1>3, Zenon

(* A hello that is received leaves the buffer and is held.                 *)
LEMMA ReceiveKeepsHellos ==
  ASSUME TypeOK, HelloInv, Receive
  PROVE  HelloInv'
<1>1. /\ data = {} /\ buffer # <<>> /\ data' = {Head(buffer)} /\ buffer' = Tail(buffer)
      /\ welcomes' = welcomes /\ hellos' = hellos
  BY Zenon DEF Receive, TypeOK
<1>2. ASSUME NEW p \in Peers
      PROVE  welcomes'[p] + Cardinality(HelloPlaces(buffer', p)) + Cardinality(Held(data', p))
               <= hellos'[p]
  <2>1. buffer \in Seq(Datagrams) /\ buffer' \in Seq(Datagrams)
    BY <1>1 DEF TypeOK
  <2>2. Cardinality(HelloPlaces(buffer', p)) + Cardinality(Held(data', p)) =
          Cardinality(HelloPlaces(buffer, p))
    BY <1>1, <2>1, TailPlaces, Zenon
  <2>3. Cardinality(HelloPlaces(buffer', p)) \in Nat
    BY <2>1, PlacesFinite, Zenon
  <2>4. Cardinality(Held(data', p)) \in Nat
    <3>1. Held(data', p) \subseteq {Head(buffer)}
      BY <1>1, Zenon DEF Held
    <3>2. QED
      BY <3>1, FS_Singleton, FS_Subset, FS_CardinalityType, Zenon
  <2>5. welcomes[p] + Cardinality(HelloPlaces(buffer, p)) <= hellos[p]
    <3>1. welcomes[p] + Cardinality(HelloPlaces(buffer, p)) + Cardinality(Held(data, p))
            <= hellos[p]
      BY Zenon DEF HelloInv
    <3>2. QED
      BY <3>1, CountsAreNumbers
  <2>6. welcomes[p] \in Nat
    BY CountsAreNumbers, Zenon
  <2>7. QED
    BY <1>1, <2>2, <2>3, <2>4, <2>5, <2>6
<1>3. QED
  BY <1>1, <1>2, Zenon DEF HelloInv

(* A datagram that arrives: stop()'s is nobody's hello, and a peer's is    *)
(* counted when it is sent.                                                *)
LEMMA ArrivalKeepsHellos ==
  ASSUME TypeOK, HelloInv, NEW d \in Datagrams, Arrive(d),
         UNCHANGED <<data, welcomes>>, hellos' \in [Peers -> Nat],
         \A p \in Peers : hellos'[p] >= hellos[p],
         d.from \in Peers /\ Proper(d.text) => hellos'[d.from] = hellos[d.from] + 1
  PROVE  HelloInv'
<1>1. ASSUME NEW p \in Peers
      PROVE  welcomes'[p] + Cardinality(HelloPlaces(buffer', p)) + Cardinality(Held(data', p))
               <= hellos'[p]
  <2>1. buffer' \in Seq(Datagrams)
    BY ArriveKeepsBuffer, Zenon
  <2>2. Cardinality(HelloPlaces(buffer', p)) \in Nat
    BY <2>1, PlacesFinite, Zenon
  <2>3. /\ welcomes[p] + Cardinality(HelloPlaces(buffer, p)) + Cardinality(Held(data, p))
             <= hellos[p]
        /\ welcomes[p] \in Nat /\ hellos[p] \in Nat /\ hellos'[p] \in Nat
        /\ Cardinality(HelloPlaces(buffer, p)) \in Nat /\ Cardinality(Held(data, p)) \in Nat
        /\ hellos'[p] >= hellos[p]
    BY CountsAreNumbers, Zenon DEF HelloInv
  <2>4. CASE d.from = p /\ Proper(d.text)
    <3>1. Cardinality(HelloPlaces(buffer', p)) <= Cardinality(HelloPlaces(buffer, p)) + 1
      BY <2>4, ArrivePlaces, Zenon
    <3>2. hellos'[p] = hellos[p] + 1
      BY <2>4, Zenon
    <3>3. QED
      BY <2>2, <2>3, <3>1, <3>2
  <2>5. CASE ~(d.from = p /\ Proper(d.text))
    <3>1. Cardinality(HelloPlaces(buffer', p)) <= Cardinality(HelloPlaces(buffer, p)) + 0
      BY <2>5, ArrivePlaces, Zenon
    <3>2. QED
      BY <2>2, <2>3, <3>1
  <2>6. QED
    BY <2>4, <2>5, Zenon
<1>2. QED
  BY <1>1, Zenon DEF HelloInv

(* However datagrams, stops, restarts and failures interleave, a peer gets *)
(* at most one welcome for each hello it sent, and nobody else any.        *)
THEOREM HellosAreAnsweredOnce == Spec => []OnlyHellosAnswered
<1>1. Init => HelloInv
  <2> SUFFICES ASSUME Init PROVE HelloInv
    BY Zenon
  <2>1. \A p \in Peers : /\ welcomes[p] = 0 /\ hellos[p] = 0
                         /\ Cardinality(HelloPlaces(buffer, p)) = 0
                         /\ Cardinality(Held(data, p)) = 0
    BY NothingHeld, Zenon DEF Init
  <2>2. data = {}
    BY Zenon DEF Init
  <2>3. QED
    BY <2>1, <2>2 DEF HelloInv
<1>2. TypeOK /\ HelloInv /\ [Next]_vars => HelloInv'
  <2> SUFFICES ASSUME TypeOK, HelloInv, [Next]_vars PROVE HelloInv'
    BY Zenon
  <2>1. CASE UNCHANGED <<buffer, data, welcomes, hellos>>
    BY <2>1, Zenon DEF HelloInv
  <2>2. CASE Start \/ Stop \/ WakeFails \/ Join \/ Bind \/ UNCHANGED vars
    BY <2>1, <2>2, Zenon DEF Start, Stop, WakeFails, Join, Bind, vars
  <2>3. CASE Wake
    <3>1. Stopper.from \notin Peers
      BY ResponderAssumption, Zenon DEF Stopper
    <3>2. hellos' = hellos /\ hellos \in [Peers -> Nat] /\ Arrive(Stopper)
          /\ UNCHANGED <<data, welcomes>>
      BY <2>3, Zenon DEF Wake, TypeOK
    <3>3. \A p \in Peers : hellos'[p] >= hellos[p]
      BY <3>2
    <3>4. QED
      BY <3>1, <3>2, <3>3, StopperIsDatagram, ArrivalKeepsHellos, Zenon
  <2>4. CASE LoopTest
    BY <2>1, <2>4, ExitKeepsHellos, Zenon DEF LoopTest
  <2>5. CASE Receive
    BY <2>5, ReceiveKeepsHellos, Zenon
  <2>6. CASE Answer
    BY <2>6, AnswerKeepsHellos, Zenon
  <2>7. CASE SocketFails \/ Killed
    BY <2>7, ExitKeepsHellos, Zenon DEF SocketFails, Killed
  <2>8. ASSUME NEW p \in Peers, NEW text \in Texts, PeerSends(p, text) PROVE HelloInv'
    <3> DEFINE d == [from |-> p, text |-> text]
    <3>1. d \in Datagrams /\ d.from = p /\ d.text = text
      BY Zenon DEF Datagrams
    <3>2. /\ Arrive(d) /\ UNCHANGED <<data, welcomes>>
          /\ hellos \in [Peers -> Nat]
          /\ hellos' = IF Proper(text) THEN [hellos EXCEPT ![p] = @ + 1] ELSE hellos
      BY <2>8, Zenon DEF PeerSends, TypeOK
    <3> HIDE DEF d
    <3>3. /\ hellos' \in [Peers -> Nat] /\ \A q \in Peers : hellos'[q] >= hellos[q]
          /\ Proper(text) => hellos'[p] = hellos[p] + 1
      BY <3>2
    <3>4. QED
      BY <3>1, <3>2, <3>3, ArrivalKeepsHellos, Zenon
  <2>9. QED
    BY <2>2, <2>3, <2>4, <2>5, <2>6, <2>7, <2>8, Zenon DEF Next, WorkerStep
<1>3. TypeOK /\ HelloInv => OnlyHellosAnswered
  BY CountsAreNumbers DEF HelloInv, OnlyHellosAnswered
<1>4. QED
  BY <1>1, <1>2, <1>3, TypeCorrect, PTL DEF Spec

=============================================================================
