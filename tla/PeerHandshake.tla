---------------------------- MODULE PeerHandshake ----------------------------
(***************************************************************************)
(* The texts of the peer handshake.  split_tokens() cuts a datagram at its *)
(* white space, so a text is the sequence of its tokens; a token name=value *)
(* is a record, and a bare word one without a value.  A value that is not  *)
(* the decimal text of a number is NotANumber where a number is asked for. *)
(* A std::optional is a set of at most one element.                        *)
(***************************************************************************)
EXTENDS Integers, Sequences

NotANumber == -1
MaxPort == 65535

Word(w) == [name |-> w, value |-> ""]
Field(n, v) == [name |-> n, value |-> v]

parse_u16(value) == value \in 0..MaxPort
parse_u64(value) == value >= 0

(* The tokens after the first that carry the name.                         *)
Fields(tokens, name) == {i \in 2..Len(tokens) : tokens[i].name = name}

(* Each token overwrites what an earlier one set.                          *)
LastValue(tokens, name, default) ==
  LET I == Fields(tokens, name)
  IN IF I = {} THEN default ELSE tokens[CHOOSE i \in I : \A j \in I : j <= i].value

encode_peer_hello(hello) ==
  <<Word("BEACON_HELLO"), Field("node_id", hello.node_id),
    Field("listen_port", hello.listen_port)>>

(* What the tokens leave in a PeerHello.                                   *)
HelloOf(tokens) == [node_id |-> LastValue(tokens, "node_id", ""),
                    listen_port |-> LastValue(tokens, "listen_port", 0)]

DecodeAnyPort(tokens) ==
  {hello \in {HelloOf(tokens)} :
     /\ tokens # <<>> /\ tokens[1].name = "BEACON_HELLO"
     /\ hello.node_id # "" /\ hello.listen_port # 0}

decode_peer_hello(tokens) ==
  {hello \in {HelloOf(tokens)} :
     /\ tokens # <<>> /\ tokens[1].name = "BEACON_HELLO"
     /\ \A i \in Fields(tokens, "listen_port") : parse_u16(tokens[i].value)
     /\ hello.node_id # "" /\ hello.listen_port # 0}

encode_peer_welcome(welcome) ==
  <<Word("BEACON_WELCOME"), Field("node_id", welcome.node_id),
    Field("registry_revision", welcome.registry_revision)>>

WelcomeOf(tokens) == [node_id |-> LastValue(tokens, "node_id", ""),
                      registry_revision |-> LastValue(tokens, "registry_revision", 0)]

decode_peer_welcome(tokens) ==
  {welcome \in {WelcomeOf(tokens)} :
     /\ tokens # <<>> /\ tokens[1].name = "BEACON_WELCOME"
     /\ \A i \in Fields(tokens, "registry_revision") : parse_u64(tokens[i].value)
     /\ welcome.node_id # ""}

=============================================================================
