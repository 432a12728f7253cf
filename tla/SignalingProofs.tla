--------------------------- MODULE SignalingProofs --------------------------
(***************************************************************************)
(* For every set of identities, spellings, sockets and streams: the tables *)
(* of the signaling server are exact, whatever the order in which old and  *)
(* new connections of a peer register and exit.                            *)
(***************************************************************************)
EXTENDS Signaling, FiniteSetTheorems, TLAPS

\* The empty map is a map.
LEMMA EmptyMapType ==
  ASSUME NEW K, NEW V
  PROVE  EmptyMap \in HashMap(K, V) /\ DOMAIN EmptyMap = {}
<1>1. EmptyMap \in [{} -> V]
  BY DEF EmptyMap
<1>2. {} \in SUBSET K
  OBVIOUS
<1> QED
  BY <1>1, <1>2 DEF HashMap, EmptyMap

\* The domain and the values of a map.
LEMMA MapValue ==
  ASSUME NEW K, NEW V, NEW f \in HashMap(K, V)
  PROVE  /\ DOMAIN f \subseteq K
         /\ \A k \in DOMAIN f : f[k] \in V
<1>1. PICK D \in SUBSET K : f \in [D -> V]
  BY DEF HashMap
<1> QED
  BY <1>1

\* A task that is handling a message has its sender, and one that is about to
\* report a disconnect had registered.
TasksOK ==
  \A s \in Socket : /\ ws[s].pc = "deliver" => ws[s].sender \in Key
                    /\ ws[s].pc = "disconnect" => ws[s].peer_id \in Key

Inv == /\ TypeOK
       /\ TasksOK
       /\ IsFiniteSet(DOMAIN peer_sockets)
       /\ CountExact
       /\ HexResolvesToOwner
       /\ RegisteredIsServed

-----------------------------------------------------------------------------
(* The two lock sections of a WebSocket task.                              *)

\* Registering a socket keeps the tables typed, counted and aliased.
LEMMA RegisterTables ==
  ASSUME Inv, NEW s \in Socket, NEW k \in Key, Register(s, k)
  PROVE  /\ peer_sockets' \in HashMap(Key, Socket)
         /\ peer_id_aliases' \in HashMap(PeerId, Key)
         /\ connected_count' \in Nat
         /\ IsFiniteSet(DOMAIN peer_sockets')
         /\ CountExact'
         /\ HexResolvesToOwner'
         /\ DOMAIN peer_sockets' = DOMAIN peer_sockets \cup {k}
         /\ peer_sockets'[k] = s
         /\ \A j \in DOMAIN peer_sockets \ {k} : peer_sockets'[j] = peer_sockets[j]
<1> DEFINE p == peer_id_alias_for[k]
<1>0. /\ peer_sockets \in HashMap(Key, Socket) /\ peer_id_aliases \in HashMap(PeerId, Key)
      /\ connected_count \in Nat /\ IsFiniteSet(DOMAIN peer_sockets)
      /\ CountExact /\ HexResolvesToOwner /\ p \in PeerId
  BY AliasAssumption DEF Inv, TypeOK
<1>1. /\ peer_sockets' = Put(peer_sockets, k, s)
      /\ peer_id_aliases' = Put(peer_id_aliases, p, k)
      /\ connected_count' = IF k \in DOMAIN peer_sockets THEN connected_count ELSE connected_count + 1
  BY DEF Register
<1>2. /\ peer_sockets' \in HashMap(Key, Socket)
      /\ DOMAIN peer_sockets' = DOMAIN peer_sockets \cup {k}
      /\ peer_sockets'[k] = s
      /\ \A j \in DOMAIN peer_sockets \ {k} : peer_sockets'[j] = peer_sockets[j]
  <2>1. PICK D \in SUBSET Key : peer_sockets \in [D -> Socket]
    BY <1>0 DEF HashMap
  <2>2. peer_sockets' \in [D \cup {k} -> Socket]
    BY <1>1, <2>1 DEF Put
  <2>3. peer_sockets' \in HashMap(Key, Socket)
    BY <2>1, <2>2 DEF HashMap
  <2> QED
    BY <1>1, <2>1, <2>2, <2>3 DEF Put
<1>3. /\ peer_id_aliases' \in HashMap(PeerId, Key)
      /\ DOMAIN peer_id_aliases' = DOMAIN peer_id_aliases \cup {p}
      /\ peer_id_aliases'[p] = k
      /\ \A q \in DOMAIN peer_id_aliases \ {p} : peer_id_aliases'[q] = peer_id_aliases[q]
  <2> HIDE DEF p
  <2>1. PICK D \in SUBSET PeerId : peer_id_aliases \in [D -> Key]
    BY <1>0 DEF HashMap
  <2>2. peer_id_aliases' \in [D \cup {p} -> Key]
    BY <1>1, <2>1 DEF Put
  <2>3. peer_id_aliases' \in HashMap(PeerId, Key)
    BY <1>0, <2>1, <2>2 DEF HashMap
  <2> QED
    BY <1>1, <2>1, <2>2, <2>3 DEF Put
<1>4. IsFiniteSet(DOMAIN peer_sockets') /\ connected_count' \in Nat
  BY <1>0, <1>1, <1>2, FS_AddElement
<1>5. CountExact'
  <2>1. CASE k \in DOMAIN peer_sockets
    <3>1. DOMAIN peer_sockets' = DOMAIN peer_sockets
      BY <1>2, <2>1
    <3> QED
      BY <1>0, <1>1, <2>1, <3>1 DEF CountExact
  <2>2. CASE k \notin DOMAIN peer_sockets
    <3>1. Cardinality(DOMAIN peer_sockets \cup {k}) = Cardinality(DOMAIN peer_sockets) + 1
      BY <1>0, <2>2, FS_AddElement
    <3> QED
      BY <1>0, <1>1, <1>2, <2>2, <3>1 DEF CountExact
  <2> QED
    BY <2>1, <2>2
<1>6. HexResolvesToOwner'
  BY <1>0, <1>2, <1>3 DEF HexResolvesToOwner
<1> QED
  BY <1>2, <1>3, <1>4, <1>5, <1>6

\* Unregistering one's own socket does too, and counts down from at least one.
LEMMA UnregisterTables ==
  ASSUME Inv, NEW k \in DOMAIN peer_sockets, remove_peer_socket(k),
         connected_count' = IF connected_count = 0 THEN 0 ELSE connected_count - 1
  PROVE  /\ peer_sockets' \in HashMap(Key, Socket)
         /\ peer_id_aliases' \in HashMap(PeerId, Key)
         /\ connected_count' \in Nat
         /\ IsFiniteSet(DOMAIN peer_sockets')
         /\ CountExact'
         /\ HexResolvesToOwner'
         /\ DOMAIN peer_sockets' = DOMAIN peer_sockets \ {k}
         /\ \A j \in DOMAIN peer_sockets' : peer_sockets'[j] = peer_sockets[j]
<1> DEFINE A == {p \in DOMAIN peer_id_aliases : peer_id_aliases[p] = k}
<1>0. /\ peer_sockets \in HashMap(Key, Socket) /\ peer_id_aliases \in HashMap(PeerId, Key)
      /\ connected_count \in Nat /\ IsFiniteSet(DOMAIN peer_sockets)
      /\ CountExact /\ HexResolvesToOwner
  BY DEF Inv, TypeOK
<1>1. /\ peer_sockets' = Without(peer_sockets, {k})
      /\ peer_id_aliases' = Without(peer_id_aliases, A)
  BY DEF remove_peer_socket
<1>2. /\ peer_sockets' \in HashMap(Key, Socket)
      /\ DOMAIN peer_sockets' = DOMAIN peer_sockets \ {k}
      /\ \A j \in DOMAIN peer_sockets' : peer_sockets'[j] = peer_sockets[j]
  <2>1. PICK D \in SUBSET Key : peer_sockets \in [D -> Socket]
    BY <1>0 DEF HashMap
  <2>2. peer_sockets' \in [D \ {k} -> Socket]
    BY <1>1, <2>1 DEF Without
  <2>3. peer_sockets' \in HashMap(Key, Socket)
    BY <2>1, <2>2 DEF HashMap
  <2> QED
    BY <1>1, <2>1, <2>2, <2>3 DEF Without
<1>3. /\ peer_id_aliases' \in HashMap(PeerId, Key)
      /\ DOMAIN peer_id_aliases' = DOMAIN peer_id_aliases \ A
      /\ \A q \in DOMAIN peer_id_aliases' : peer_id_aliases'[q] = peer_id_aliases[q]
  <2> HIDE DEF A
  <2>1. PICK D \in SUBSET PeerId : peer_id_aliases \in [D -> Key]
    BY <1>0 DEF HashMap
  <2>2. peer_id_aliases' \in [D \ A -> Key]
    BY <1>1, <2>1 DEF Without
  <2>3. peer_id_aliases' \in HashMap(PeerId, Key)
    BY <2>1, <2>2 DEF HashMap
  <2> QED
    BY <1>1, <2>1, <2>2, <2>3 DEF Without
<1>4. /\ IsFiniteSet(DOMAIN peer_sockets')
      /\ Cardinality(DOMAIN peer_sockets \ {k}) = Cardinality(DOMAIN peer_sockets) - 1
      /\ Cardinality(DOMAIN peer_sockets \ {k}) \in Nat
  BY <1>0, <1>2, FS_RemoveElement, FS_CardinalityType
<1>5. connected_count' = Cardinality(DOMAIN peer_sockets')
  BY <1>0, <1>2, <1>4 DEF CountExact
<1>6. HexResolvesToOwner'
  BY <1>0, <1>2, <1>3 DEF HexResolvesToOwner
<1> QED
  BY <1>2, <1>3, <1>4, <1>5, <1>6 DEF CountExact

-----------------------------------------------------------------------------
(* The steps of a WebSocket task.                                          *)

\* A step that leaves the tables, the streams and the tasks' registrations
\* alone keeps everything but possibly the tasks' own facts.
LEMMA TablesUntouched ==
  ASSUME Inv, UNCHANGED <<tables, quic_senders, stream>>, TypeOK', TasksOK',
         NEW s \in Socket,
         ws'[s].peer_id = ws[s].peer_id,
         ws'[s].pc \in {"reading", "deliver", "closing"} \/
           (\A k \in DOMAIN peer_sockets : peer_sockets[k] # s),
         \A t \in Socket \ {s} : ws'[t] = ws[t]
  PROVE  Inv'
<1>0. /\ peer_sockets' = peer_sockets /\ peer_id_aliases' = peer_id_aliases
      /\ connected_count' = connected_count /\ quic_senders' = quic_senders
      /\ stream' = stream
  BY DEF tables
<1>1. IsFiniteSet(DOMAIN peer_sockets') /\ CountExact'
  BY <1>0 DEF Inv, CountExact
<1>2. HexResolvesToOwner'
  BY <1>0 DEF Inv, HexResolvesToOwner
<1>3. \A k \in DOMAIN peer_sockets : peer_sockets[k] \in Socket
  BY MapValue DEF Inv, TypeOK
<1>4. RegisteredIsServed'
  BY <1>0, <1>3 DEF Inv, RegisteredIsServed
<1> QED
  BY <1>1, <1>2, <1>4 DEF Inv

\* Accepting a connection, and the end of one, change no table.
LEMMA AcceptHangup ==
  ASSUME Inv, NEW s \in Socket, Accept(s) \/ Hangup(s)
  PROVE  Inv'
<1>1. TypeOK'
  BY DEF Inv, TypeOK, Accept, Hangup, tables, WsTask
<1>2. TasksOK'
  BY DEF Inv, TypeOK, TasksOK, Accept, Hangup, WsTask
<1>3. /\ ws'[s].peer_id = ws[s].peer_id
      /\ ws'[s].pc \in {"reading", "deliver", "closing"}
      /\ \A t \in Socket \ {s} : ws'[t] = ws[t]
      /\ UNCHANGED <<tables, quic_senders, stream>>
  BY DEF Inv, TypeOK, Accept, Hangup, WsTask
<1> QED
  BY <1>1, <1>2, <1>3, TablesUntouched

\* Handling a message changes the room only.
LEMMA DeliverInv ==
  ASSUME Inv, NEW s \in Socket, Deliver(s)
  PROVE  Inv'
<1>0. ws[s].pc = "deliver" /\ ws[s].sender \in Key /\ ws \in [Socket -> WsTask]
  BY DEF Inv, TypeOK, TasksOK, Deliver
<1>1. ws' \in [Socket -> WsTask]
  BY <1>0 DEF Deliver, WsTask, Kind
<1>2. peer_id_alias_for[ws[s].sender] \in PeerId
  BY <1>0, AliasAssumption
<1>3. participants' \in SUBSET PeerId
  BY <1>2 DEF Deliver, Inv, TypeOK
<1>4. TypeOK'
  BY <1>1, <1>3 DEF Deliver, Inv, TypeOK, tables
<1>5. TasksOK'
  BY <1>0 DEF Deliver, Inv, TasksOK, WsTask
<1>6. /\ ws'[s].peer_id = ws[s].peer_id
      /\ ws'[s].pc \in {"reading", "deliver", "closing"}
      /\ \A t \in Socket \ {s} : ws'[t] = ws[t]
      /\ UNCHANGED <<tables, quic_senders, stream>>
  BY <1>0 DEF Deliver, WsTask
<1> QED
  BY <1>4, <1>5, <1>6, TablesUntouched

\* Reporting the disconnect happens after the tables were left.
LEMMA DisconnectedInv ==
  ASSUME Inv, NEW s \in Socket, Disconnected(s)
  PROVE  Inv'
<1>0. ws[s].pc = "disconnect" /\ ws \in [Socket -> WsTask]
  BY DEF Inv, TypeOK, Disconnected
<1>1. TypeOK'
  BY <1>0 DEF Disconnected, Inv, TypeOK, tables, WsTask
<1>2. TasksOK'
  BY <1>0 DEF Disconnected, Inv, TasksOK, WsTask
<1>3. \A k \in DOMAIN peer_sockets : peer_sockets[k] # s
  BY <1>0 DEF Inv, RegisteredIsServed
<1>4. /\ ws'[s].peer_id = ws[s].peer_id
      /\ \A t \in Socket \ {s} : ws'[t] = ws[t]
      /\ UNCHANGED <<tables, quic_senders, stream>>
  BY <1>0 DEF Disconnected, WsTask
<1> QED
  BY <1>1, <1>2, <1>3, <1>4, TablesUntouched

\* Reading a message registers the socket when it is the first.
LEMMA ReadInv ==
  ASSUME Inv, NEW s \in Socket, NEW k \in Key, NEW kind \in Kind, Read(s, k, kind)
  PROVE  Inv'
<1>0. ws[s].pc = "reading" /\ ws \in [Socket -> WsTask]
  BY DEF Inv, TypeOK, Read
<1>1. /\ ws' \in [Socket -> WsTask]
      /\ ws'[s].pc = "deliver" /\ ws'[s].sender = k
      /\ ws'[s].peer_id = IF ws[s].peer_id = None THEN k ELSE ws[s].peer_id
      /\ \A t \in Socket \ {s} : ws'[t] = ws[t]
  BY <1>0 DEF Read, WsTask
<1>2. TasksOK'
  BY <1>1 DEF Inv, TasksOK
<1>3. CASE ws[s].peer_id = None
  <2>1. Register(s, k) /\ UNCHANGED <<quic_senders, stream, participants>>
    BY <1>3 DEF Read
  <2>2. /\ peer_sockets' \in HashMap(Key, Socket)
        /\ peer_id_aliases' \in HashMap(PeerId, Key)
        /\ connected_count' \in Nat
        /\ IsFiniteSet(DOMAIN peer_sockets')
        /\ CountExact'
        /\ HexResolvesToOwner'
        /\ DOMAIN peer_sockets' = DOMAIN peer_sockets \cup {k}
        /\ peer_sockets'[k] = s
        /\ \A j \in DOMAIN peer_sockets \ {k} : peer_sockets'[j] = peer_sockets[j]
    BY <2>1, RegisterTables
  <2>3. TypeOK'
    BY <1>1, <2>1, <2>2 DEF Inv, TypeOK
  <2>4. /\ DOMAIN peer_sockets \subseteq Key
        /\ \A j \in DOMAIN peer_sockets : peer_sockets[j] \in Socket
    BY MapValue DEF Inv, TypeOK
  <2>5. \A j \in DOMAIN peer_sockets : peer_sockets[j] # s
    BY <1>3, <2>4, NoneAssumption DEF Inv, RegisteredIsServed
  <2>6. RegisteredIsServed'
    BY <1>1, <1>3, <2>1, <2>2, <2>4, <2>5 DEF Inv, RegisteredIsServed
  <2> QED
    BY <1>2, <2>2, <2>3, <2>6 DEF Inv
<1>4. CASE ws[s].peer_id # None
  <2>1. UNCHANGED <<tables, quic_senders, stream, participants>>
    BY <1>4 DEF Read
  <2>2. TypeOK'
    BY <1>1, <2>1 DEF Inv, TypeOK, tables
  <2> QED
    BY <1>1, <1>2, <1>4, <2>1, <2>2, TablesUntouched
<1> QED
  BY <1>3, <1>4

\* The cleanup removes what is registered only when it is its own.
LEMMA UnregisterInv ==
  ASSUME Inv, NEW s \in Socket, Unregister(s)
  PROVE  Inv'
<1>0. ws[s].pc = "closing" /\ ws \in [Socket -> WsTask]
  BY DEF Inv, TypeOK, Unregister
<1>a. /\ DOMAIN peer_sockets \subseteq Key
      /\ \A j \in DOMAIN peer_sockets : peer_sockets[j] \in Socket
  BY MapValue DEF Inv, TypeOK
<1>1. CASE is_ours(s)
  <2> DEFINE k == ws[s].peer_id
  <2>1. /\ k \in DOMAIN peer_sockets /\ peer_sockets[k] = s
        /\ remove_peer_socket(k)
        /\ connected_count' = IF connected_count = 0 THEN 0 ELSE connected_count - 1
        /\ UNCHANGED <<quic_senders, stream, participants>>
    BY <1>1 DEF Unregister, is_ours
  <2>2. /\ ws' \in [Socket -> WsTask]
        /\ ws'[s].pc = "disconnect" /\ ws'[s].peer_id = k
        /\ \A t \in Socket \ {s} : ws'[t] = ws[t]
    BY <1>0, <1>1 DEF Unregister, WsTask
  <2> HIDE DEF k
  <2>3. /\ peer_sockets' \in HashMap(Key, Socket)
        /\ peer_id_aliases' \in HashMap(PeerId, Key)
        /\ connected_count' \in Nat
        /\ IsFiniteSet(DOMAIN peer_sockets')
        /\ CountExact'
        /\ HexResolvesToOwner'
        /\ DOMAIN peer_sockets' = DOMAIN peer_sockets \ {k}
        /\ \A j \in DOMAIN peer_sockets' : peer_sockets'[j] = peer_sockets[j]
    BY <2>1, UnregisterTables
  <2>4. TypeOK'
    BY <2>1, <2>2, <2>3 DEF Inv, TypeOK
  <2>5. TasksOK'
    BY <1>a, <2>1, <2>2 DEF Inv, TasksOK
  <2>6. \A j \in DOMAIN peer_sockets' : peer_sockets[j] # s
    BY <2>3 DEF Inv, RegisteredIsServed, k
  <2>7. RegisteredIsServed'
    BY <1>a, <2>1, <2>2, <2>3, <2>6 DEF Inv, RegisteredIsServed
  <2> QED
    BY <2>3, <2>4, <2>5, <2>7 DEF Inv
<1>2. CASE ~ is_ours(s)
  <2>1. /\ ws' = [ws EXCEPT ![s].pc = "done"]
        /\ UNCHANGED <<tables, quic_senders, stream, participants>>
    BY <1>2 DEF Unregister
  <2>2. TypeOK'
    BY <1>0, <2>1 DEF Inv, TypeOK, tables, WsTask
  <2>3. TasksOK'
    BY <1>0, <2>1 DEF Inv, TasksOK, WsTask
  <2>4. \A j \in DOMAIN peer_sockets : peer_sockets[j] # s
    BY <1>2 DEF is_ours, Inv, RegisteredIsServed
  <2>5. ws'[s].peer_id = ws[s].peer_id /\ \A t \in Socket \ {s} : ws'[t] = ws[t]
    BY <1>0, <2>1 DEF WsTask
  <2> QED
    BY <2>1, <2>2, <2>3, <2>4, <2>5, TablesUntouched
<1> QED
  BY <1>1, <1>2

-----------------------------------------------------------------------------
(* The steps of a stream's task.                                           *)

\* A stream registers itself, replacing an older one, and takes only itself
\* out again.
LEMMA StreamInv ==
  ASSUME Inv, NEW x \in Stream, StreamStep(x)
  PROVE  Inv'
<1>0. /\ quic_senders \in HashMap(Key, Stream) /\ stream \in [Stream -> StreamTask]
      /\ RegisteredIsServed
  BY DEF Inv, TypeOK
<1>a. /\ DOMAIN quic_senders \subseteq Key
      /\ \A j \in DOMAIN quic_senders : quic_senders[j] \in Stream
  BY <1>0, MapValue
<1>b. UNCHANGED <<tables, ws, participants>>
  BY DEF StreamStep, register_quic_sender, unregister_quic_sender
<1> DEFINE StreamsOK ==
      /\ quic_senders \in HashMap(Key, Stream) /\ stream \in [Stream -> StreamTask]
      /\ \A k \in DOMAIN quic_senders :
           stream[quic_senders[k]].pc = "open" /\ stream[quic_senders[k]].peer_id = k
<1>1. StreamsOK'
  <2>1. PICK D \in SUBSET Key : quic_senders \in [D -> Stream]
    BY <1>0 DEF HashMap
  <2>2. ASSUME NEW k \in Key, register_quic_sender(x, k)
        PROVE  StreamsOK'
    <3>1. /\ stream' \in [Stream -> StreamTask]
          /\ stream'[x].pc = "open" /\ stream'[x].peer_id = k
          /\ \A y \in Stream \ {x} : stream'[y] = stream[y]
          /\ stream[x].pc = "unused"
      BY <1>0, <2>2 DEF register_quic_sender, StreamTask
    <3>2. quic_senders' \in [D \cup {k} -> Stream] /\ quic_senders' = Put(quic_senders, k, x)
      BY <2>1, <2>2 DEF register_quic_sender, Put
    <3>3. quic_senders' \in HashMap(Key, Stream)
      BY <2>1, <3>2 DEF HashMap
    <3>4. \A j \in DOMAIN quic_senders : quic_senders[j] # x
      BY <1>0, <3>1 DEF RegisteredIsServed
    <3>5. /\ DOMAIN quic_senders' = DOMAIN quic_senders \cup {k} /\ quic_senders'[k] = x
          /\ \A j \in DOMAIN quic_senders \ {k} : quic_senders'[j] = quic_senders[j]
      BY <2>1, <3>2 DEF Put
    <3> QED
      BY <1>0, <1>a, <3>1, <3>3, <3>4, <3>5 DEF RegisteredIsServed
  <2>3. ASSUME unregister_quic_sender(x)
        PROVE  StreamsOK'
    <3> DEFINE R == {k \in {stream[x].peer_id} \cap DOMAIN quic_senders : quic_senders[k] = x}
    <3>1. /\ stream' \in [Stream -> StreamTask]
          /\ \A y \in Stream \ {x} : stream'[y] = stream[y]
      BY <1>0, <2>3 DEF unregister_quic_sender, StreamTask
    <3>2. quic_senders' = Without(quic_senders, R)
      BY <2>3 DEF unregister_quic_sender
    <3>3. \A j \in DOMAIN quic_senders \ R : quic_senders[j] # x
      BY <1>0 DEF RegisteredIsServed
    <3> HIDE DEF R
    <3>4. quic_senders' \in [D \ R -> Stream]
      BY <2>1, <3>2 DEF Without
    <3>5. quic_senders' \in HashMap(Key, Stream)
      BY <2>1, <3>4 DEF HashMap
    <3>6. /\ DOMAIN quic_senders' = DOMAIN quic_senders \ R
          /\ \A j \in DOMAIN quic_senders' : quic_senders'[j] = quic_senders[j]
      BY <2>1, <3>2 DEF Without
    <3> QED
      BY <1>0, <1>a, <3>1, <3>3, <3>5, <3>6 DEF RegisteredIsServed
  <2> QED
    BY <2>2, <2>3 DEF StreamStep
<1>2. TypeOK'
  BY <1>1, <1>b DEF Inv, TypeOK, tables
<1>3. TasksOK'
  BY <1>b DEF Inv, TasksOK
<1>4. IsFiniteSet(DOMAIN peer_sockets') /\ CountExact' /\ HexResolvesToOwner'
  BY <1>b DEF Inv, CountExact, HexResolvesToOwner, tables
<1>5. RegisteredIsServed'
  BY <1>1, <1>b, <1>0 DEF RegisteredIsServed, tables
<1> QED
  BY <1>2, <1>3, <1>4, <1>5 DEF Inv

-----------------------------------------------------------------------------
(* The theorems.                                                           *)

\* The empty server satisfies the invariant.
LEMMA InitInv == Init => Inv
<1> SUFFICES ASSUME Init PROVE Inv
  OBVIOUS
<1>1. /\ EmptyMap \in HashMap(Key, Socket) /\ EmptyMap \in HashMap(PeerId, Key)
      /\ EmptyMap \in HashMap(Key, Stream) /\ DOMAIN EmptyMap = {}
  BY EmptyMapType
<1>2. TypeOK
  BY <1>1 DEF Init, TypeOK, WsTask, StreamTask, Kind
<1>3. TasksOK
  BY DEF Init, TasksOK
<1>4. IsFiniteSet(DOMAIN peer_sockets) /\ CountExact
  BY <1>1, FS_EmptySet DEF Init, CountExact
<1>5. HexResolvesToOwner /\ RegisteredIsServed
  BY <1>1 DEF Init, HexResolvesToOwner, RegisteredIsServed
<1> QED
  BY <1>2, <1>3, <1>4, <1>5 DEF Inv

\* Every step preserves the invariant.
LEMMA NextInv == Inv /\ [Next]_vars => Inv'
<1> SUFFICES ASSUME Inv, [Next]_vars PROVE Inv'
  OBVIOUS
<1>1. ASSUME NEW s \in Socket, SocketStep(s) PROVE Inv'
  BY <1>1, AcceptHangup, ReadInv, DeliverInv, UnregisterInv, DisconnectedInv DEF SocketStep
<1>2. ASSUME NEW x \in Stream, StreamStep(x) PROVE Inv'
  BY <1>2, StreamInv
<1>3. CASE UNCHANGED vars
  BY <1>3 DEF Inv, vars, tables, TypeOK, TasksOK, CountExact, HexResolvesToOwner,
              RegisteredIsServed
<1> QED
  BY <1>1, <1>2, <1>3 DEF Next

\* The invariant holds throughout.
THEOREM SignalingInvariant == Spec => []Inv
<1> QED
  BY InitInv, NextInv, PTL DEF Spec

\* Every table and every task keeps its type.
THEOREM SignalingTypeCorrect == Spec => []TypeOK
<1>1. Inv => TypeOK
  BY DEF Inv
<1> QED
  BY <1>1, SignalingInvariant, PTL

\* connected_count is the size of the table under every interleaving of
\* connects, reconnects and late exits.
THEOREM SignalingCountExact == Spec => []CountExact
<1>1. Inv => CountExact
  BY DEF Inv
<1> QED
  BY <1>1, SignalingInvariant, PTL

\* A hex peer_id never resolves to a key that is gone or to another identity,
\* however many spellings an identity uses.
THEOREM SignalingHexResolvesToOwner == Spec => []HexResolvesToOwner
<1>1. Inv => HexResolvesToOwner
  BY DEF Inv
<1> QED
  BY <1>1, SignalingInvariant, PTL

\* Everything registered belongs to a running task of that peer.
THEOREM SignalingRegisteredIsServed == Spec => []RegisteredIsServed
<1>1. Inv => RegisteredIsServed
  BY DEF Inv
<1> QED
  BY <1>1, SignalingInvariant, PTL

\* An entry leaves a table only by its own task's exit.
THEOREM SignalingOnlyOwnExit == Spec => OnlyOwnExitUnregisters
<1> DEFINE Own ==
      /\ \A k \in DOMAIN peer_sockets \ DOMAIN peer_sockets' :
           ws'[peer_sockets[k]].pc = "disconnect"
      /\ \A k \in DOMAIN quic_senders \ DOMAIN quic_senders' :
           stream'[quic_senders[k]].pc = "done"
<1>1. Inv /\ [Next]_vars => [Own]_vars
  <2> SUFFICES ASSUME Inv, Next PROVE Own
    OBVIOUS
  <2>0. ws \in [Socket -> WsTask] /\ stream \in [Stream -> StreamTask]
    BY DEF Inv, TypeOK
  <2>1. ASSUME NEW s \in Socket, SocketStep(s) PROVE Own
    <3>1. quic_senders' = quic_senders
      BY <2>1 DEF SocketStep, Accept, Read, Deliver, Hangup, Unregister, Disconnected
    <3>2. CASE UNCHANGED peer_sockets
      BY <3>1, <3>2
    <3>3. CASE \E k \in Key : Register(s, k)
      BY <3>1, <3>3 DEF Register, Put
    <3>4. CASE Unregister(s) /\ is_ours(s)
      <4>1. DOMAIN peer_sockets \ DOMAIN peer_sockets' \subseteq {ws[s].peer_id}
        BY <3>4 DEF Unregister, remove_peer_socket, Without
      <4>2. ws'[s].pc = "disconnect" /\ peer_sockets[ws[s].peer_id] = s
        BY <2>0, <3>4 DEF Unregister, is_ours, WsTask
      <4> QED
        BY <3>1, <4>1, <4>2
    <3> QED
      BY <2>1, <3>2, <3>3, <3>4
      DEF SocketStep, Accept, Read, Deliver, Hangup, Unregister, Disconnected, tables
  <2>2. ASSUME NEW x \in Stream, StreamStep(x) PROVE Own
    <3>1. peer_sockets' = peer_sockets
      BY <2>2 DEF StreamStep, register_quic_sender, unregister_quic_sender, tables
    <3>2. CASE \E k \in Key : register_quic_sender(x, k)
      BY <3>1, <3>2 DEF register_quic_sender, Put
    <3>3. CASE unregister_quic_sender(x)
      <4>1. stream'[x].pc = "done"
        BY <2>0, <3>3 DEF unregister_quic_sender, StreamTask
      <4>2. \A k \in DOMAIN quic_senders \ DOMAIN quic_senders' : quic_senders[k] = x
        BY <3>3 DEF unregister_quic_sender, Without
      <4> QED
        BY <3>1, <4>1, <4>2
    <3> QED
      BY <2>2, <3>2, <3>3 DEF StreamStep
  <2> QED
    BY <2>1, <2>2 DEF Next
<1> QED
  BY <1>1, SignalingInvariant, PTL DEF Spec, OnlyOwnExitUnregisters, Own
=============================================================================
