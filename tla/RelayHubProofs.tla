--------------------------- MODULE RelayHubProofs ---------------------------
(***************************************************************************)
(* What holds of the relay hub for every set of connections, every queue   *)
(* capacity and every budget.                                              *)
(***************************************************************************)
EXTENDS RelayHub, SequenceTheorems, TLAPS

-----------------------------------------------------------------------------
(* The inductive invariant.                                                *)

\* A connection is in a room from the moment its handler joined, and its
\* reader has handed over all it took but the frame in its hand.
Connections ==
  \A c \in Conn :
    /\ member[c] = None <=> status[c] \in {"away", "upgraded", "refused"}
    /\ member[c] = None => reader[c] = "off" /\ writer[c] = "off" /\ accepted[c] = 0
    /\ reader[c] = "off" => seen[c] = 0
    /\ reader[c] # "on" => ~hand[c]
    /\ reader[c] = "on" => seen[c] = IF hand[c] THEN accepted[c] + 1 ELSE accepted[c]
    /\ writer[c] \in {"off", "ended"} => got[c] = << >>

\* A room's creator is in it.
CreatorsJoin ==
  /\ room # None => member[room] = room
  /\ \A c \in Conn : member[c] # None => member[member[c]] = member[c]

\* Nobody left the room that is in the hub.
NobodyLeft ==
  \A c \in Conn : room # None /\ member[c] = room => status[c] \in {"running", "leaving"}

\* Until somebody leaves there is only one room.
OneRoom ==
  (\A e \in Conn : status[e] # "left") =>
    \A c \in Conn : member[c] # None => member[c] = room

\* A role is taken once in a room.
OneEach ==
  \A c, d \in Conn :
    member[c] # None /\ member[c] = member[d] /\ RoleOf(c) = RoleOf(d) => c = d

Peers(c) == Occupants(member[c], Opposite(RoleOf(c)))

\* Nothing waits for a role, and its connection was sent nothing, before the
\* other role is taken.
NothingFromNobody ==
  /\ \A k \in Conn, r \in Role : Occupants(k, Opposite(r)) = {} => queue[<<k, r>>] = << >>
  /\ \A c \in Conn : member[c] # None /\ Peers(c) = {} => got[c] = << >>

\* What was sent and what is queued is what the peer handed over.
Accounted ==
  \A c, p \in Conn :
    /\ member[p] # None
    /\ Inbox(c) = Outbox(p)
    /\ writer[c] \in {"on", "dry"}
    => got[c] \o queue[Inbox(c)] = Sent(p)

\* So it is while the other end waits to be taken.
Waiting ==
  \A p \in Conn :
    room # None /\ member[p] = room /\ Peers(p) = {} => queue[Outbox(p)] = Sent(p)

IInv ==
  /\ Connections
  /\ CreatorsJoin
  /\ NobodyLeft
  /\ OneRoom
  /\ OneEach
  /\ NothingFromNobody
  /\ Accounted
  /\ Waiting

-----------------------------------------------------------------------------
(* Roles, channels and frames.                                             *)

LEMMA Roles ==
  /\ \A c \in Conn : RoleOf(c) \in Role /\ Opposite(RoleOf(c)) \in Role
  /\ \A r \in Role : Opposite(r) \in Role /\ Opposite(r) # r /\ Opposite(Opposite(r)) = r
BY DEF RoleOf, Opposite, Role

\* A connection whose reader or writer was started is in a room.
LEMMA InARoom ==
  ASSUME TypeOK, Connections, NEW c \in Conn,
         reader[c] # "off" \/ writer[c] # "off"
  PROVE  member[c] \in Conn /\ Inbox(c) \in Conn \X Role /\ Outbox(c) \in Conn \X Role
BY Roles DEF TypeOK, Connections, Inbox, Outbox

\* The frame in a reader's hand is the one after those its peer's queue took.
LEMMA InHand ==
  ASSUME TypeOK, Connections, NEW c \in Conn, hand[c]
  PROVE  /\ reader[c] = "on"
         /\ seen[c] = accepted[c] + 1
         /\ [from |-> c, nr |-> seen[c]] \in Frame
BY DEF TypeOK, Connections, Frame

LEMMA InitHolds == Init => TypeOK /\ IInv
<1> SUFFICES ASSUME Init
             PROVE  TypeOK /\ IInv
  OBVIOUS
<1>1. TypeOK
  <2>1. << >> \in Seq(Frame) /\ Len(<< >>) = 0 /\ 0 <= Capacity
    BY ConstantsAssumption, EmptySeq
  <2> QED
    BY <2>1 DEF Init, TypeOK
<1>2. Connections /\ CreatorsJoin /\ NobodyLeft /\ OneRoom /\ OneEach
  BY DEF Init, Connections, CreatorsJoin, NobodyLeft, OneRoom, OneEach
<1>3. NothingFromNobody /\ Accounted /\ Waiting
  BY DEF Init, NothingFromNobody, Accounted, Waiting
<1> QED
  BY <1>1, <1>2, <1>3 DEF IInv

-----------------------------------------------------------------------------
(* Types.                                                                  *)

LEMMA EndReaderTypes ==
  ASSUME TypeOK, NEW c \in Conn, EndReader(c)
  PROVE  TypeOK'
BY DEF TypeOK, EndReader

LEMMA EndWriterTypes ==
  ASSUME TypeOK, NEW c \in Conn, EndWriter(c)
  PROVE  TypeOK'
<1>1. << >> \in Seq(Frame) /\ Len(<< >>) = 0 /\ 0 <= Capacity
  BY EmptySeq, ConstantsAssumption
<1>2. queue' \in [Conn \X Role -> Seq(Frame)] /\ \A m \in Conn \X Role : Len(queue'[m]) <= Capacity
  BY <1>1 DEF TypeOK, EndWriter
<1> QED
  BY <1>1, <1>2 DEF TypeOK, EndWriter

LEMMA TypeStep ==
  ASSUME TypeOK, Connections, [Next]_vars
  PROVE  TypeOK'
<1>1. CASE Expire
  BY <1>1 DEF Expire, TypeOK
<1>2. CASE UNCHANGED vars
  BY <1>2 DEF vars, TypeOK
<1>3. ASSUME NEW c \in Conn, Client(c) \/ Handler(c) \/ ReaderTask(c) \/ WriterTask(c)
      PROVE  TypeOK'
  <2>1. CASE Upgrade(c)
    BY <2>1 DEF Upgrade, TypeOK
  <2>2. CASE Read(c)
    <3>1. CASE EndReader(c)
      BY <3>1, EndReaderTypes
    <3>2. CASE ~EndReader(c)
      <4>1. seen[c] + 1 \in Nat /\ seen' = [seen EXCEPT ![c] = seen[c] + 1]
        BY <2>2, <3>2 DEF Read, TypeOK
      <4> QED
        BY <2>2, <3>2, <4>1 DEF Read, TypeOK
    <3> QED
      BY <3>1, <3>2
  <2>3. CASE SocketEnds(c) \/ PushFails(c) \/ AbortReader(c)
    BY <2>3, EndReaderTypes DEF SocketEnds, PushFails, AbortReader
  <2>4. CASE SinkFails(c) \/ AbortWriter(c)
    BY <2>4, EndWriterTypes DEF SinkFails, AbortWriter
  <2>5. CASE Join(c)
    <3> PICK k : k = IF room = None THEN c ELSE room
      OBVIOUS
    <3>1. k \in Conn
      BY DEF TypeOK
    <3>2. CASE Occupants(k, RoleOf(c)) = {}
      <4>1. room' = k /\ member' = [member EXCEPT ![c] = k]
        BY <2>5, <3>2 DEF Join
      <4>2. room' \in Conn \cup {None} /\ member' \in [Conn -> Conn \cup {None}]
        BY <3>1, <4>1 DEF TypeOK
      <4> QED
        BY <2>5, <3>2, <4>2 DEF Join, TypeOK
    <3>3. CASE Occupants(k, RoleOf(c)) # {}
      BY <2>5, <3>3 DEF Join, TypeOK
    <3> QED
      BY <3>2, <3>3
  <2>6. CASE Finish(c)
    BY <2>6 DEF Finish, TypeOK
  <2>7. CASE Leave(c)
    <3>1. << >> \in Seq(Frame) /\ Len(<< >>) = 0 /\ 0 <= Capacity
      BY EmptySeq, ConstantsAssumption
    <3>2. queue' \in [Conn \X Role -> Seq(Frame)] /\ \A m \in Conn \X Role : Len(queue'[m]) <= Capacity
      BY <2>7, <3>1 DEF Leave, TypeOK
    <3> QED
      BY <2>7, <3>2 DEF Leave, TypeOK
  <2>8. CASE Push(c)
    <3>1. Outbox(c) \in Conn \X Role /\ [from |-> c, nr |-> seen[c]] \in Frame
      BY <2>8, InARoom, InHand DEF Push
    <3> DEFINE q == queue[Outbox(c)]
               qq == Append(q, [from |-> c, nr |-> seen[c]])
    <3>2. qq \in Seq(Frame) /\ Len(qq) = Len(q) + 1 /\ Len(q) \in Nat
      BY <3>1, AppendProperties, LenProperties DEF TypeOK
    <3>3. Len(qq) <= Capacity
      BY <2>8, <3>2, ConstantsAssumption DEF Push
    <3>4. queue' = [queue EXCEPT ![Outbox(c)] = qq]
      BY <2>8 DEF Push
    <3> HIDE DEF qq
    <3>5. queue' \in [Conn \X Role -> Seq(Frame)] /\ \A m \in Conn \X Role : Len(queue'[m]) <= Capacity
      BY <3>1, <3>2, <3>3, <3>4 DEF TypeOK
    <3> QED
      BY <2>8, <3>5 DEF Push, TypeOK
  <2>9. CASE Deliver(c)
    <3>1. Inbox(c) \in Conn \X Role
      BY <2>9, InARoom DEF Deliver
    <3> DEFINE q == queue[Inbox(c)]
    <3>2. q \in Seq(Frame) /\ q # << >> /\ Len(q) <= Capacity
      BY <2>9, <3>1 DEF Deliver, TypeOK
    <3>3. Head(q) \in Frame /\ Tail(q) \in Seq(Frame) /\ Len(Tail(q)) = Len(q) - 1
      BY <3>2, HeadTailProperties
    <3>4. Append(got[c], Head(q)) \in Seq(Frame)
      BY <3>3, AppendProperties DEF TypeOK
    <3>5. Len(Tail(q)) <= Capacity
      BY <3>2, <3>3, LenProperties, ConstantsAssumption
    <3>6. queue' \in [Conn \X Role -> Seq(Frame)] /\ \A m \in Conn \X Role : Len(queue'[m]) <= Capacity
      BY <2>9, <3>1, <3>3, <3>5 DEF Deliver, TypeOK
    <3>7. got' \in [Conn -> Seq(Frame)]
      BY <2>9, <3>4 DEF Deliver, TypeOK
    <3> QED
      BY <2>9, <3>6, <3>7 DEF Deliver, TypeOK
  <2>10. CASE RunsDry(c)
    BY <2>10 DEF RunsDry, TypeOK
  <2> QED
    BY <1>3, <2>1, <2>2, <2>3, <2>4, <2>5, <2>6, <2>7, <2>8, <2>9, <2>10
    DEF Client, Handler, ReaderTask, WriterTask
<1> QED
  BY <1>1, <1>2, <1>3 DEF Next

-----------------------------------------------------------------------------
(* Rooms.                                                                  *)

Rooms == CreatorsJoin /\ NobodyLeft /\ OneRoom /\ OneEach

\* What a step does to rooms unless a handler joins or leaves.
LEMMA NobodyMoves ==
  ASSUME Rooms, UNCHANGED <<room, member>>,
         \A c \in Conn : /\ status[c] = "left" <=> status'[c] = "left"
                         /\ status[c] \in {"running", "leaving"} => status'[c] \in {"running", "leaving"}
  PROVE  Rooms'
<1>1. CreatorsJoin' /\ OneEach'
  BY DEF Rooms, CreatorsJoin, OneEach
<1>2. NobodyLeft' /\ OneRoom'
  BY DEF Rooms, NobodyLeft, OneRoom
<1> QED
  BY <1>1, <1>2 DEF Rooms

LEMMA JoinMoves ==
  ASSUME TypeOK, Connections, Rooms, NEW c \in Conn, Join(c)
  PROVE  Rooms'
<1>1. CASE Occupants(IF room = None THEN c ELSE room, RoleOf(c)) # {}
  BY <1>1, NobodyMoves DEF Join, TypeOK
<1>2. CASE Occupants(IF room = None THEN c ELSE room, RoleOf(c)) = {}
  <2> PICK k : k = IF room = None THEN c ELSE room
    OBVIOUS
  <2>1. /\ status[c] = "upgraded" /\ member[c] = None
        /\ room' = k /\ k \in Conn /\ k # None
        /\ status' = [status EXCEPT ![c] = "running"]
        /\ member' = [member EXCEPT ![c] = k]
        /\ \A d \in Conn : member[d] = k => RoleOf(d) # RoleOf(c)
    BY <1>2, ConstantsAssumption DEF Join, TypeOK, Connections, Occupants
  <2>2. k = c \/ member[k] = k
    BY <2>1 DEF Rooms, CreatorsJoin
  <2>3. \A d \in Conn : member[d] # c
    BY <2>1, ConstantsAssumption DEF Rooms, CreatorsJoin, TypeOK
  <2>4. CreatorsJoin'
    BY <2>1, <2>2, <2>3, ConstantsAssumption DEF Rooms, CreatorsJoin, TypeOK
  <2>5. NobodyLeft'
    BY <2>1, <2>3 DEF Rooms, NobodyLeft, TypeOK
  <2>6. OneRoom'
    BY <2>1 DEF Rooms, OneRoom, TypeOK
  <2>7. OneEach'
    BY <2>1 DEF Rooms, OneEach, TypeOK
  <2> QED
    BY <2>4, <2>5, <2>6, <2>7 DEF Rooms
<1> QED
  BY <1>1, <1>2

LEMMA LeaveMoves ==
  ASSUME TypeOK, Rooms, NEW c \in Conn, Leave(c)
  PROVE  Rooms'
<1>1. CreatorsJoin' /\ OneEach' /\ NobodyLeft'
  BY DEF Leave, Rooms, CreatorsJoin, OneEach, NobodyLeft
<1>2. OneRoom'
  BY DEF Leave, OneRoom, TypeOK
<1> QED
  BY <1>1, <1>2 DEF Rooms

LEMMA RoomsStep ==
  ASSUME TypeOK, Connections, Rooms, [Next]_vars
  PROVE  Rooms'
<1>1. CASE Expire \/ UNCHANGED vars
  BY <1>1, NobodyMoves DEF Expire, vars
<1>2. ASSUME NEW c \in Conn, Client(c) \/ Handler(c) \/ ReaderTask(c) \/ WriterTask(c)
      PROVE  Rooms'
  <2>1. CASE Join(c)
    BY <2>1, JoinMoves
  <2>2. CASE Leave(c)
    BY <2>2, LeaveMoves
  <2>3. CASE Upgrade(c)
    BY <2>3, NobodyMoves DEF Upgrade, TypeOK
  <2>4. CASE Finish(c)
    BY <2>4, NobodyMoves DEF Finish, TypeOK
  <2>5. CASE ReaderTask(c) \/ WriterTask(c) \/ Read(c) \/ SocketEnds(c) \/ SinkFails(c)
    <3>1. UNCHANGED <<room, status, member>>
      BY <2>5 DEF ReaderTask, WriterTask, Read, SocketEnds, SinkFails, Push, PushFails,
        AbortReader, Deliver, RunsDry, AbortWriter, EndReader, EndWriter
    <3> QED
      BY <3>1, NobodyMoves
  <2> QED
    BY <1>2, <2>1, <2>2, <2>3, <2>4, <2>5 DEF Client, Handler
<1> QED
  BY <1>1, <1>2 DEF Next

-----------------------------------------------------------------------------
(* Connections.                                                            *)

LEMMA EndReaderCounts ==
  ASSUME TypeOK, Connections, NEW c \in Conn, reader[c] = "on", EndReader(c)
  PROVE  Connections'
BY DEF TypeOK, Connections, EndReader

LEMMA EndWriterCounts ==
  ASSUME TypeOK, Connections, NEW c \in Conn, writer[c] = "on", EndWriter(c)
  PROVE  Connections'
BY DEF TypeOK, Connections, EndWriter

LEMMA ConnectionsStep ==
  ASSUME TypeOK, Connections, [Next]_vars
  PROVE  Connections'
<1>1. CASE Expire \/ UNCHANGED vars
  BY <1>1 DEF Expire, vars, Connections
<1>2. ASSUME NEW c \in Conn, Client(c) \/ Handler(c) \/ ReaderTask(c) \/ WriterTask(c)
      PROVE  Connections'
  <2>1. CASE Upgrade(c)
    BY <2>1 DEF Upgrade, TypeOK, Connections
  <2>2. CASE Read(c)
    <3>1. CASE EndReader(c)
      BY <2>2, <3>1, EndReaderCounts DEF Read
    <3>2. CASE ~EndReader(c)
      BY <2>2, <3>2 DEF Read, TypeOK, Connections
    <3> QED
      BY <3>1, <3>2
  <2>3. CASE SocketEnds(c) \/ PushFails(c) \/ AbortReader(c)
    BY <2>3, EndReaderCounts DEF SocketEnds, PushFails, AbortReader
  <2>4. CASE SinkFails(c) \/ AbortWriter(c)
    BY <2>4, EndWriterCounts DEF SinkFails, AbortWriter
  <2>5. CASE Join(c)
    <3>1. (IF room = None THEN c ELSE room) \in Conn
      BY DEF TypeOK
    <3> QED
      BY <2>5, <3>1, ConstantsAssumption DEF Join, TypeOK, Connections
  <2>6. CASE Finish(c)
    BY <2>6 DEF Finish, TypeOK, Connections
  <2>7. CASE Leave(c)
    BY <2>7 DEF Leave, TypeOK, Connections
  <2>8. CASE Push(c)
    BY <2>8 DEF Push, TypeOK, Connections
  <2>9. CASE Deliver(c)
    BY <2>9 DEF Deliver, TypeOK, Connections
  <2>10. CASE RunsDry(c)
    BY <2>10 DEF RunsDry, TypeOK, Connections
  <2> QED
    BY <1>2, <2>1, <2>2, <2>3, <2>4, <2>5, <2>6, <2>7, <2>8, <2>9, <2>10
    DEF Client, Handler, ReaderTask, WriterTask
<1> QED
  BY <1>1, <1>2 DEF Next

-----------------------------------------------------------------------------
(* What is in the pipes.                                                   *)

Pipes == NothingFromNobody /\ Accounted /\ Waiting

\* What a connection's peers are does not change while nobody joins.
LEMMA SamePeers ==
  ASSUME UNCHANGED member
  PROVE  /\ \A k \in Conn, r \in Role : Occupants(k, r)' = Occupants(k, r)
         /\ \A c \in Conn : Peers(c)' = Peers(c) /\ Inbox(c)' = Inbox(c) /\ Outbox(c)' = Outbox(c)
BY DEF Occupants, Peers, Inbox, Outbox

\* The frame a reader pushes is the next one its peer's queue took.
LEMMA SentGrows ==
  ASSUME TypeOK, NEW p \in Conn, accepted' = [accepted EXCEPT ![p] = @ + 1]
  PROVE  /\ Sent(p)' = Append(Sent(p), [from |-> p, nr |-> accepted[p] + 1])
         /\ \A o \in Conn \ {p} : Sent(o)' = Sent(o)
<1>1. accepted[p] \in Nat /\ accepted'[p] = accepted[p] + 1
  BY DEF TypeOK
<1>2. \A o \in Conn \ {p} : accepted'[o] = accepted[o]
  BY DEF TypeOK
<1> QED
  BY <1>1, <1>2 DEF Sent

LEMMA SentIsASequence ==
  ASSUME TypeOK, NEW p \in Conn
  PROVE  /\ Sent(p) \in Seq(Frame)
         /\ Len(Sent(p)) = accepted[p]
         /\ accepted[p] = 0 => Sent(p) = << >>
<1>1. accepted[p] \in Nat
  BY DEF TypeOK
<1>2. \A n \in 1 .. accepted[p] : [from |-> p, nr |-> n] \in Frame
  BY <1>1 DEF Frame
<1> QED
  BY <1>1, <1>2 DEF Sent

\* Steps that leave rooms and queues alone.
LEMMA PipesUntouched ==
  ASSUME Pipes, UNCHANGED <<room, member, accepted, queue, got>>,
         \A c \in Conn : writer'[c] \in {"on", "dry"} => writer[c] \in {"on", "dry"}
  PROVE  Pipes'
<1>1. \A p \in Conn : Sent(p)' = Sent(p)
  BY DEF Sent
<1>2. NothingFromNobody'
  BY SamePeers DEF Pipes, NothingFromNobody, Occupants, Peers
<1>3. Accounted'
  BY <1>1, SamePeers DEF Pipes, Accounted
<1>4. Waiting'
  BY <1>1, SamePeers DEF Pipes, Waiting
<1> QED
  BY <1>2, <1>3, <1>4 DEF Pipes

LEMMA EndWriterKeepsPipes ==
  ASSUME TypeOK, Connections, Rooms, Pipes, NEW c \in Conn, writer[c] = "on", EndWriter(c)
  PROVE  Pipes'
<1>1. /\ queue' = [queue EXCEPT ![Inbox(c)] = << >>] /\ got' = [got EXCEPT ![c] = << >>]
      /\ writer' = [writer EXCEPT ![c] = "ended"]
      /\ UNCHANGED <<room, member, accepted>>
  BY DEF EndWriter
<1>2. member[c] \in Conn /\ Inbox(c) \in Conn \X Role
  BY InARoom
<1>3. \A p \in Conn : Sent(p)' = Sent(p)
  BY <1>1 DEF Sent
<1>4. NothingFromNobody'
  <2>1. \A k \in Conn, r \in Role : queue[<<k, r>>] = << >> => queue'[<<k, r>>] = << >>
    BY <1>1 DEF TypeOK
  <2>2. \A d \in Conn : got[d] = << >> => got'[d] = << >>
    BY <1>1 DEF TypeOK
  <2> QED
    BY <1>1, <2>1, <2>2, SamePeers DEF Pipes, NothingFromNobody, Occupants
<1>5. Accounted'
  <2> SUFFICES ASSUME NEW d \in Conn, NEW p \in Conn, member[p] # None,
                      Inbox(d) = Outbox(p), writer'[d] \in {"on", "dry"}
               PROVE  got'[d] \o queue'[Inbox(d)] = Sent(p)'
    BY <1>1, SamePeers DEF Accounted
  <2>1. d # c /\ writer[d] \in {"on", "dry"} /\ member[d] # None
    BY <1>1 DEF TypeOK, Inbox, Outbox
  <2>2. Inbox(d) # Inbox(c)
    BY <2>1, <1>2, ConstantsAssumption DEF Rooms, OneEach, Inbox
  <2>3. got'[d] = got[d] /\ queue'[Inbox(d)] = queue[Inbox(d)]
    BY <1>1, <2>1, <2>2, InARoom DEF TypeOK
  <2> QED
    BY <1>3, <2>1, <2>3 DEF Pipes, Accounted
<1>6. Waiting'
  <2> SUFFICES ASSUME NEW p \in Conn, room # None, member[p] = room, Peers(p) = {}
               PROVE  queue'[Outbox(p)] = Sent(p)
    BY <1>1, <1>3, SamePeers DEF Waiting
  <2>1. Outbox(p) # Inbox(c) /\ Outbox(p) \in Conn \X Role
    BY Roles DEF Peers, Occupants, Inbox, Outbox, TypeOK
  <2> QED
    BY <1>1, <2>1 DEF Pipes, Waiting, TypeOK
<1> QED
  BY <1>4, <1>5, <1>6 DEF Pipes

\* Moving the head of a queue to what was sent loses and repeats nothing.
LEMMA MoveHead ==
  ASSUME NEW S, NEW g \in Seq(S), NEW q \in Seq(S), q # << >>
  PROVE  Append(g, Head(q)) \o Tail(q) = g \o q
OBVIOUS

LEMMA AppendLast ==
  ASSUME NEW S, NEW g \in Seq(S), NEW q \in Seq(S), NEW e \in S
  PROVE  g \o Append(q, e) = Append(g \o q, e)
OBVIOUS

LEMMA StartOfConcat ==
  ASSUME NEW S, NEW g \in Seq(S), NEW q \in Seq(S)
  PROVE  IsPrefixOf(g, g \o q)
<1>1. Len(g) \in Nat /\ Len(q) \in Nat /\ Len(g \o q) = Len(g) + Len(q) /\ g \o q \in Seq(S)
  BY LenProperties
<1>2. \A i \in 1 .. Len(g) : (g \o q)[i] = g[i]
  OBVIOUS
<1>3. /\ SubSeq(g \o q, 1, Len(g)) \in Seq(S)
      /\ Len(SubSeq(g \o q, 1, Len(g))) = Len(g)
      /\ \A i \in 1 .. Len(g) : SubSeq(g \o q, 1, Len(g))[i] = g[i]
  BY <1>1, <1>2
<1>4. g = SubSeq(g \o q, 1, Len(g))
  BY <1>3, SeqEqual
<1> QED
  BY <1>1, <1>4 DEF IsPrefixOf

LEMMA DeliverKeepsPipes ==
  ASSUME TypeOK, Connections, Rooms, Pipes, NEW c \in Conn, Deliver(c)
  PROVE  Pipes'
<1>1. /\ queue' = [queue EXCEPT ![Inbox(c)] = Tail(@)]
      /\ got' = [got EXCEPT ![c] = Append(@, Head(queue[Inbox(c)]))]
      /\ UNCHANGED <<room, member, writer, accepted>>
      /\ queue[Inbox(c)] # << >> /\ writer[c] = "on"
  BY DEF Deliver
<1>2. member[c] \in Conn /\ Inbox(c) \in Conn \X Role
  BY <1>1, InARoom
<1>3. \A p \in Conn : Sent(p)' = Sent(p)
  BY <1>1 DEF Sent
<1>4. Peers(c) # {}
  BY <1>1, <1>2, Roles DEF Pipes, NothingFromNobody, Peers, Inbox
<1>5. NothingFromNobody'
  <2>1. \A k \in Conn, r \in Role : Occupants(k, Opposite(r)) = {} => <<k, r>> # Inbox(c)
    BY <1>4, Roles DEF Peers, Inbox
  <2>2. \A k \in Conn, r \in Role : Occupants(k, Opposite(r)) = {} => queue'[<<k, r>>] = << >>
    BY <1>1, <2>1 DEF Pipes, NothingFromNobody, TypeOK
  <2>3. \A d \in Conn : member[d] # None /\ Peers(d) = {} => got'[d] = << >>
    BY <1>1, <1>4 DEF Pipes, NothingFromNobody, TypeOK
  <2> QED
    BY <1>1, <2>2, <2>3, SamePeers DEF NothingFromNobody, Occupants
<1>6. Accounted'
  <2> SUFFICES ASSUME NEW d \in Conn, NEW p \in Conn, member[p] # None,
                      Inbox(d) = Outbox(p), writer[d] \in {"on", "dry"}
               PROVE  got'[d] \o queue'[Inbox(d)] = Sent(p)'
    BY <1>1, SamePeers DEF Accounted
  <2>1. got[d] \o queue[Inbox(d)] = Sent(p)
    BY DEF Pipes, Accounted
  <2>2. CASE d # c
    <3>1. Inbox(d) # Inbox(c)
      BY <2>2, <1>2, ConstantsAssumption DEF Rooms, OneEach, Inbox
    <3>2. got'[d] = got[d] /\ queue'[Inbox(d)] = queue[Inbox(d)]
      BY <1>1, <2>2, <3>1, InARoom DEF TypeOK
    <3> QED
      BY <1>3, <2>1, <3>2
  <2>3. CASE d = c
    <3>1. /\ got'[c] = Append(got[c], Head(queue[Inbox(c)]))
          /\ queue'[Inbox(c)] = Tail(queue[Inbox(c)])
          /\ got[c] \in Seq(Frame) /\ queue[Inbox(c)] \in Seq(Frame)
      BY <1>1, <1>2 DEF TypeOK
    <3>2. got'[c] \o queue'[Inbox(c)] = got[c] \o queue[Inbox(c)]
      BY <1>1, <3>1, MoveHead
    <3> QED
      BY <1>3, <2>1, <2>3, <3>2
  <2> QED
    BY <2>2, <2>3
<1>7. Waiting'
  <2> SUFFICES ASSUME NEW p \in Conn, room # None, member[p] = room, Peers(p) = {}
               PROVE  queue'[Outbox(p)] = Sent(p)
    BY <1>1, <1>3, SamePeers DEF Waiting
  <2>1. Outbox(p) # Inbox(c) /\ Outbox(p) \in Conn \X Role
    BY Roles DEF Peers, Occupants, Inbox, Outbox, TypeOK
  <2> QED
    BY <1>1, <2>1 DEF Pipes, Waiting, TypeOK
<1> QED
  BY <1>5, <1>6, <1>7 DEF Pipes

LEMMA PushKeepsPipes ==
  ASSUME TypeOK, Connections, Rooms, Pipes, NEW c \in Conn, Push(c)
  PROVE  Pipes'
<1> PICK e : e = [from |-> c, nr |-> accepted[c] + 1]
  OBVIOUS
<1>1. /\ queue' = [queue EXCEPT ![Outbox(c)] = Append(@, e)]
      /\ accepted' = [accepted EXCEPT ![c] = @ + 1]
      /\ UNCHANGED <<room, member, writer, got>>
      /\ e \in Frame /\ reader[c] = "on"
  BY InHand DEF Push
<1>2. member[c] \in Conn /\ Outbox(c) \in Conn \X Role
  BY <1>1, InARoom
<1>3. Sent(c)' = Append(Sent(c), e) /\ \A o \in Conn \ {c} : Sent(o)' = Sent(o)
  BY <1>1, SentGrows
<1>4. /\ queue'[Outbox(c)] = Append(queue[Outbox(c)], e)
      /\ \A m \in Conn \X Role : m # Outbox(c) => queue'[m] = queue[m]
      /\ queue[Outbox(c)] \in Seq(Frame)
  BY <1>1, <1>2 DEF TypeOK
<1>5. \A o \in Conn : o # c /\ member[o] # None => Outbox(o) # Outbox(c)
  BY <1>2, Roles, ConstantsAssumption DEF Rooms, OneEach, Outbox
<1>6. NothingFromNobody'
  <2>1. \A k \in Conn, r \in Role : Occupants(k, Opposite(r)) = {} => <<k, r>> # Outbox(c)
    BY Roles DEF Occupants, Outbox
  <2>2. \A k \in Conn, r \in Role : Occupants(k, Opposite(r)) = {} => queue'[<<k, r>>] = << >>
    BY <1>4, <2>1 DEF Pipes, NothingFromNobody
  <2> QED
    BY <1>1, <2>2, SamePeers DEF Pipes, NothingFromNobody, Occupants
<1>7. Accounted'
  <2> SUFFICES ASSUME NEW d \in Conn, NEW p \in Conn, member[p] # None,
                      Inbox(d) = Outbox(p), writer[d] \in {"on", "dry"}
               PROVE  got[d] \o queue'[Inbox(d)] = Sent(p)'
    BY <1>1, SamePeers DEF Accounted
  <2>1. got[d] \o queue[Inbox(d)] = Sent(p)
    BY DEF Pipes, Accounted
  <2>2. Inbox(d) \in Conn \X Role
    BY Roles DEF Outbox, TypeOK
  <2>3. CASE p # c
    BY <1>3, <1>4, <1>5, <2>1, <2>2, <2>3
  <2>4. CASE p = c
    <3>1. got[d] \in Seq(Frame)
      BY DEF TypeOK
    <3>2. got[d] \o Append(queue[Outbox(c)], e) = Append(got[d] \o queue[Outbox(c)], e)
      <4>1. \A g \in Seq(Frame), q \in Seq(Frame) : g \o Append(q, e) = Append(g \o q, e)
        BY <1>1, AppendLast
      <4> QED
        BY <1>4, <3>1, <4>1
    <3> QED
      BY <1>3, <1>4, <2>1, <2>4, <3>2
  <2> QED
    BY <2>3, <2>4
<1>8. Waiting'
  <2> SUFFICES ASSUME NEW p \in Conn, room # None, member[p] = room, Peers(p) = {}
               PROVE  queue'[Outbox(p)] = Sent(p)'
    BY <1>1, SamePeers DEF Waiting
  <2>1. queue[Outbox(p)] = Sent(p)
    BY DEF Pipes, Waiting
  <2>2. Outbox(p) \in Conn \X Role
    BY Roles DEF Outbox, TypeOK
  <2> QED
    BY <1>3, <1>4, <1>5, <2>1, <2>2
<1> QED
  BY <1>6, <1>7, <1>8 DEF Pipes

LEMMA LeaveKeepsPipes ==
  ASSUME TypeOK, Rooms, Pipes, NEW c \in Conn, Leave(c)
  PROVE  Pipes'
<1>1. /\ room' = None
      /\ queue' = [m \in Conn \X Role |->
                 IF m[1] = room /\ Occupants(m[1], m[2]) = {} THEN << >> ELSE queue[m]]
      /\ UNCHANGED <<member, writer, accepted, got>>
  BY DEF Leave
<1>2. \A p \in Conn : Sent(p)' = Sent(p)
  BY <1>1 DEF Sent
<1>3. NothingFromNobody'
  <2>1. \A k \in Conn, r \in Role : queue[<<k, r>>] = << >> => queue'[<<k, r>>] = << >>
    BY <1>1
  <2> QED
    BY <1>1, <2>1, SamePeers DEF Pipes, NothingFromNobody, Occupants
<1>4. Accounted'
  <2> SUFFICES ASSUME NEW d \in Conn, NEW p \in Conn, member[p] # None,
                      Inbox(d) = Outbox(p), writer[d] \in {"on", "dry"}
               PROVE  got[d] \o queue'[Inbox(d)] = Sent(p)'
    BY <1>1, SamePeers DEF Accounted
  <2>1. Inbox(d) \in Conn \X Role /\ d \in Occupants(member[d], RoleOf(d))
    BY Roles DEF Outbox, TypeOK, Occupants
  <2>2. queue'[Inbox(d)] = queue[Inbox(d)]
    BY <1>1, <2>1 DEF Inbox
  <2> QED
    BY <1>2, <2>2 DEF Pipes, Accounted
<1>5. Waiting'
  BY <1>1 DEF Waiting
<1> QED
  BY <1>3, <1>4, <1>5 DEF Pipes

LEMMA JoinKeepsPipes ==
  ASSUME TypeOK, Connections, Rooms, Pipes, NEW c \in Conn, Join(c)
  PROVE  Pipes'
<1>1. CASE Occupants(IF room = None THEN c ELSE room, RoleOf(c)) # {}
  BY <1>1, PipesUntouched DEF Join, TypeOK
<1>2. CASE Occupants(IF room = None THEN c ELSE room, RoleOf(c)) = {}
  <2> PICK k : k = IF room = None THEN c ELSE room
    OBVIOUS
  <2>1. /\ member[c] = None /\ room' = k /\ k \in Conn /\ k # None
        /\ member' = [member EXCEPT ![c] = k]
        /\ \A d \in Conn \ {c} : writer'[d] = writer[d]
        /\ Occupants(k, RoleOf(c)) = {}
        /\ accepted[c] = 0 /\ got[c] = << >>
        /\ UNCHANGED <<accepted, queue, got>>
    BY <1>2, ConstantsAssumption DEF Join, TypeOK, Connections
  <2>2. member'[c] = k /\ \A d \in Conn \ {c} : member'[d] = member[d]
    BY <2>1 DEF TypeOK
  <2>3. \A d \in Conn : member[d] = k => room = k /\ room # None
    BY <2>1, ConstantsAssumption DEF Rooms, CreatorsJoin, TypeOK
  <2>4. /\ \A p \in Conn : Sent(p)' = Sent(p)
        /\ Sent(c) = << >>
    BY <2>1, SentIsASequence DEF Sent
  <2>5. queue[<<k, Opposite(RoleOf(c))>>] = << >>
    BY <2>1, Roles DEF Pipes, NothingFromNobody
  <2>6. \A d \in Conn \ {c} : Inbox(d)' = Inbox(d) /\ Outbox(d)' = Outbox(d)
    BY <2>2 DEF Inbox, Outbox
  <2>7. Inbox(c)' = <<k, RoleOf(c)>> /\ Outbox(c)' = <<k, Opposite(RoleOf(c))>>
    BY <2>2 DEF Inbox, Outbox
  <2>8. \A j \in Conn, r \in Role : Occupants(j, r)' = {} => Occupants(j, r) = {}
    BY <2>1, <2>2, ConstantsAssumption DEF Occupants
  <2>9. \A d \in Conn \ {c} : member[d] # None /\ Peers(d)' = {} => Peers(d) = {}
    BY <2>2, <2>8, Roles DEF Peers, TypeOK
  <2>10. NothingFromNobody'
    BY <2>1, <2>2, <2>8, <2>9, Roles DEF Pipes, NothingFromNobody
  <2>11. Accounted'
    <3> SUFFICES ASSUME NEW d \in Conn, NEW p \in Conn, member'[p] # None,
                        Inbox(d)' = Outbox(p)', writer'[d] \in {"on", "dry"}
                 PROVE  got[d] \o queue[Inbox(d)'] = Sent(p)
      BY <2>1, <2>4 DEF Accounted
    <3>1. CASE d # c /\ p # c
      <4>1. member[p] # None /\ Inbox(d) = Outbox(p) /\ writer[d] \in {"on", "dry"}
        BY <3>1, <2>1, <2>2, <2>6
      <4>2. got[d] \o queue[Inbox(d)] = Sent(p)
        BY <4>1 DEF Pipes, Accounted
      <4> QED
        BY <3>1, <4>2, <2>6
    <3>2. CASE d = c /\ p # c
      <4>1. Outbox(p) = <<k, RoleOf(c)>> /\ member[p] = k /\ Opposite(RoleOf(p)) = RoleOf(c)
        BY <3>2, <2>6, <2>7 DEF Outbox
      <4>2. Peers(p) = {} /\ room = k /\ room # None
        BY <4>1, <2>1, <2>3 DEF Peers
      <4>3. queue[Outbox(p)] = Sent(p)
        BY <4>1, <4>2 DEF Pipes, Waiting
      <4>4. << >> \o Sent(p) = Sent(p)
        BY SentIsASequence
      <4> QED
        BY <3>2, <4>1, <4>3, <4>4, <2>1, <2>7
    <3>3. CASE d # c /\ p = c
      <4>1. Inbox(d) = <<k, Opposite(RoleOf(c))>> /\ member[d] = k /\ RoleOf(d) = Opposite(RoleOf(c))
        BY <3>3, <2>6, <2>7 DEF Inbox
      <4>2. Peers(d) = {}
        BY <4>1, <2>1, Roles DEF Peers
      <4>3. got[d] = << >>
        BY <4>1, <4>2, <2>1 DEF Pipes, NothingFromNobody
      <4> QED
        BY <3>3, <4>1, <4>3, <2>4, <2>5, <2>6
    <3>4. ~(d = c /\ p = c)
      BY <2>7, Roles
    <3> QED
      BY <3>1, <3>2, <3>3, <3>4
  <2>12. Waiting'
    <3> SUFFICES ASSUME NEW p \in Conn, member'[p] = k, Peers(p)' = {}
                 PROVE  queue[Outbox(p)'] = Sent(p)
      BY <2>1, <2>4 DEF Waiting
    <3>1. CASE p = c
      BY <3>1, <2>4, <2>5, <2>7
    <3>2. CASE p # c
      <4>1. member[p] = k /\ room = k /\ room # None
        BY <3>2, <2>2, <2>3
      <4>2. Peers(p) = {}
        BY <3>2, <4>1, <2>1, <2>9
      <4> QED
        BY <3>2, <4>1, <4>2, <2>6 DEF Pipes, Waiting
    <3> QED
      BY <3>1, <3>2
  <2> QED
    BY <2>10, <2>11, <2>12 DEF Pipes
<1> QED
  BY <1>1, <1>2

LEMMA PipesStep ==
  ASSUME TypeOK, Connections, Rooms, Pipes, [Next]_vars
  PROVE  Pipes'
<1>1. CASE Expire \/ UNCHANGED vars
  BY <1>1, PipesUntouched DEF Expire, vars
<1>2. ASSUME NEW c \in Conn, Client(c) \/ Handler(c) \/ ReaderTask(c) \/ WriterTask(c)
      PROVE  Pipes'
  <2>1. CASE Join(c)
    BY <2>1, JoinKeepsPipes
  <2>2. CASE Leave(c)
    BY <2>2, LeaveKeepsPipes
  <2>3. CASE Push(c)
    BY <2>3, PushKeepsPipes
  <2>4. CASE Deliver(c)
    BY <2>4, DeliverKeepsPipes
  <2>5. CASE SinkFails(c) \/ AbortWriter(c)
    BY <2>5, EndWriterKeepsPipes DEF SinkFails, AbortWriter
  <2>6. CASE Upgrade(c) \/ Read(c) \/ SocketEnds(c) \/ Finish(c) \/ PushFails(c) \/ AbortReader(c)
    <3>1. UNCHANGED <<room, member, accepted, queue, got, writer>>
      BY <2>6 DEF Upgrade, Read, SocketEnds, Finish, PushFails, AbortReader, EndReader
    <3> QED
      BY <3>1, PipesUntouched
  <2>7. CASE RunsDry(c)
    BY <2>7, PipesUntouched DEF RunsDry, TypeOK
  <2> QED
    BY <1>2, <2>1, <2>2, <2>3, <2>4, <2>5, <2>6, <2>7
    DEF Client, Handler, ReaderTask, WriterTask
<1> QED
  BY <1>1, <1>2 DEF Next

-----------------------------------------------------------------------------
(* The theorems.                                                           *)

\* Whatever the connections do, the state keeps its shape, and the invariants
\* above hold.
THEOREM Inductive == Spec => [](TypeOK /\ IInv)
<1>1. TypeOK /\ IInv /\ [Next]_vars => (TypeOK /\ IInv)'
  BY TypeStep, ConnectionsStep, RoomsStep, PipesStep DEF IInv, Rooms, Pipes
<1> QED
  BY <1>1, InitHolds, PTL DEF Spec

\* Every variable of the hub keeps its type; no queue ever holds more than its
\* capacity.
THEOREM TypeCorrect == Spec => []TypeOK
BY Inductive, PTL

\* What a connection was sent is what its own peer handed over, in order and
\* without a gap, and a connection that ran dry missed nothing.
THEOREM FramesArriveAsSent == Spec => []PipeIsFaithful
<1>1. TypeOK /\ IInv => PipeIsFaithful
  <2> SUFFICES ASSUME TypeOK, IInv, NEW c \in Conn
               PROVE  /\ \A f \in {got[c][n] : n \in 1 .. Len(got[c])} : member[f.from] = member[c]
                      /\ \A p \in Conn :
                           p # c /\ member[p] # None /\ Inbox(c) = Outbox(p) =>
                             /\ IsPrefixOf(got[c], Sent(p))
                             /\ writer[c] \in {"on", "dry"} => got[c] \o queue[Inbox(c)] = Sent(p)
    BY DEF PipeIsFaithful
  <2>1. got[c] \in Seq(Frame) /\ Len(got[c]) \in Nat
    BY LenProperties DEF TypeOK
  <2>2. ASSUME NEW p \in Conn, member[p] # None, Inbox(c) = Outbox(p)
        PROVE  /\ IsPrefixOf(got[c], Sent(p))
               /\ writer[c] \in {"on", "dry"} => got[c] \o queue[Inbox(c)] = Sent(p)
    <3>1. writer[c] \in {"on", "dry"} => got[c] \o queue[Inbox(c)] = Sent(p)
      BY <2>2 DEF IInv, Accounted
    <3>2. CASE writer[c] \in {"on", "dry"}
      <4>1. Inbox(c) \in Conn \X Role
        BY <2>2, Roles DEF Outbox, TypeOK
      <4>2. queue[Inbox(c)] \in Seq(Frame)
        BY <4>1 DEF TypeOK
      <4>3. IsPrefixOf(got[c], got[c] \o queue[Inbox(c)])
        BY <2>1, <4>2, StartOfConcat
      <4> QED
        BY <3>1, <3>2, <4>3
    <3>3. CASE writer[c] \notin {"on", "dry"}
      <4>1. got[c] = << >>
        BY <3>3 DEF IInv, Connections, TypeOK
      <4>2. Sent(p) \in Seq(Frame)
        BY SentIsASequence
      <4>3. Len(<< >>) = 0 /\ Len(Sent(p)) \in Nat /\ SubSeq(Sent(p), 1, 0) = << >>
        BY <4>2, EmptySeq, LenProperties, SubSeqEmpty
      <4> QED
        BY <3>1, <3>3, <4>1, <4>3 DEF IsPrefixOf
    <3> QED
      BY <3>2, <3>3
  <2>3. ASSUME NEW n \in 1 .. Len(got[c])
        PROVE  member[got[c][n].from] = member[c]
    <3>1. got[c] # << >> /\ writer[c] \in {"on", "dry"} /\ member[c] \in Conn
      BY <2>1, <2>3, EmptySeq DEF IInv, Connections, TypeOK
    <3>2. PICK p \in Conn : member[p] = member[c] /\ RoleOf(p) = Opposite(RoleOf(c))
      BY <3>1, ConstantsAssumption DEF IInv, NothingFromNobody, Peers, Occupants
    <3>3. member[p] # None /\ Inbox(c) = Outbox(p)
      BY <3>1, <3>2, Roles, ConstantsAssumption DEF Inbox, Outbox
    <3>4. IsPrefixOf(got[c], Sent(p))
      BY <3>3, <2>2
    <3>5. got[c][n] = Sent(p)[n] /\ n \in 1 .. accepted[p]
      BY <3>4, <2>1, <2>3, SentIsASequence DEF IsPrefixOf
    <3> QED
      BY <3>2, <3>5 DEF Sent
  <2> QED
    BY <2>2, <2>3
<1> QED
  BY <1>1, Inductive, PTL

\* A room in the hub has a member whose handler has yet to leave: its creator.
THEOREM RoomsHaveMembers == Spec => []NoOrphanRoom
<1>1. TypeOK /\ IInv => NoOrphanRoom
  BY DEF TypeOK, IInv, CreatorsJoin, NobodyLeft, NoOrphanRoom
<1> QED
  BY <1>1, Inductive, PTL

\* Two connections of one device run at once only in different rooms, after
\* somebody left.
THEOREM NobodyIsReplaced == Spec => []SecondOnlyAfterALeave
<1>1. TypeOK /\ IInv => SecondOnlyAfterALeave
  <2> SUFFICES ASSUME TypeOK, IInv, NEW c \in Conn, NEW d \in Conn, c # d,
                      RoleOf(c) = RoleOf(d), status[c] = "running", status[d] = "running"
               PROVE  /\ member[c] # member[d]
                      /\ \E e \in Conn : status[e] = "left"
    BY DEF SecondOnlyAfterALeave
  <2>1. member[c] # None /\ member[d] # None
    BY DEF IInv, Connections
  <2>2. member[c] # member[d]
    BY <2>1 DEF IInv, OneEach
  <2> QED
    BY <2>1, <2>2 DEF IInv, OneRoom
<1> QED
  BY <1>1, Inductive, PTL
=============================================================================
