------------------------------ MODULE RelayHub ------------------------------
(***************************************************************************)
(* The relay of airpaste-server (relay.rs): websocket connections of the   *)
(* two devices of one relay session meet in a room and forward each        *)
(* other's frames through two bounded queues.  Sessions share nothing, so  *)
(* one is enough.                                                          *)
(*                                                                         *)
(* A connection's handler joins, runs a reader and a writer task until one *)
(* of them ends or the session expires, asks for both to be aborted and    *)
(* then leaves.  An aborted task runs on until the abort reaches it.  A    *)
(* room is named by the connection that created it: a connection joins     *)
(* once.                                                                   *)
(***************************************************************************)
EXTENDS Naturals, Sequences

CONSTANTS
  SourceConn,     \* connections the source device may make
  RecipientConn,  \* connections the recipient device may make
  Capacity,       \* frames a queue holds (RELAY_QUEUE_CAPACITY)
  MaxBytes,       \* the session's budget, counted in frames of one byte
  MaxFrames,      \* bound on the frames the client of each connection sends
  None            \* no room

Conn == SourceConn \cup RecipientConn
Role == {"source", "recipient"}
RoleOf(c) == IF c \in SourceConn THEN "source" ELSE "recipient"
Opposite(r) == IF r = "source" THEN "recipient" ELSE "source"

ASSUME ConstantsAssumption ==
  /\ SourceConn \cap RecipientConn = {}
  /\ None \notin Conn
  /\ Capacity \in Nat \ {0}
  /\ MaxBytes \in Nat
  /\ MaxFrames \in [Conn -> Nat]

\* The n-th frame a connection reads from its client.
Frame == [from : Conn, nr : Nat \ {0}]

VARIABLES
  expired,   \* the session's deadline has passed
  room,      \* the session's entry in the hub, or None
  status,    \* where each connection's handler is
  member,    \* the room each connection joined, or None
  reader,    \* its reader task
  writer,    \* its writer task; "dry" if it ended because recv returned None
  seen,      \* frames its running reader has taken from the socket (forwarded)
  accepted,  \* history: frames of its reader that the peer's queue took
  hand,      \* its reader waits for room in the queue
  queue,     \* the frames waiting for each role of each room
  got        \* history: the frames its writer put on the socket, unless it failed

vars == <<expired, room, status, member, reader, writer, seen, accepted, hand,
          queue, got>>

TypeOK ==
  /\ expired \in BOOLEAN
  /\ room \in Conn \cup {None}
  /\ status \in [Conn -> {"away", "upgraded", "refused", "running", "leaving", "left"}]
  /\ member \in [Conn -> Conn \cup {None}]
  /\ reader \in [Conn -> {"off", "on", "ended"}]
  /\ writer \in [Conn -> {"off", "on", "dry", "ended"}]
  /\ seen \in [Conn -> Nat]
  /\ accepted \in [Conn -> Nat]
  /\ hand \in [Conn -> BOOLEAN]
  /\ queue \in [Conn \X Role -> Seq(Frame)]
  /\ \A m \in Conn \X Role : Len(queue[m]) <= Capacity
  /\ got \in [Conn -> Seq(Frame)]

Init ==
  /\ expired = FALSE
  /\ room = None
  /\ status = [c \in Conn |-> "away"]
  /\ member = [c \in Conn |-> None]
  /\ reader = [c \in Conn |-> "off"]
  /\ writer = [c \in Conn |-> "off"]
  /\ seen = [c \in Conn |-> 0]
  /\ accepted = [c \in Conn |-> 0]
  /\ hand = [c \in Conn |-> FALSE]
  /\ queue = [m \in Conn \X Role |-> << >>]
  /\ got = [c \in Conn |-> << >>]

-----------------------------------------------------------------------------
(* The two channels of a room.                                             *)

Inbox(c) == <<member[c], RoleOf(c)>>
Outbox(c) == <<member[c], Opposite(RoleOf(c))>>

\* The connections that joined room k as r: source_rx.take() and
\* recipient_rx.take() succeed once.
Occupants(k, r) == {c \in Conn : member[c] = k /\ RoleOf(c) = r}

\* The receiving end waits in the room until it is taken, then lives in the
\* writer task.
ReceiverAlive(m) ==
  \/ room = m[1] /\ Occupants(m[1], m[2]) = {}
  \/ \E c \in Occupants(m[1], m[2]) : writer[c] = "on"

\* The room keeps a sender of its own; the other lives in the reader task.
SenderAlive(m) ==
  \/ room = m[1]
  \/ \E c \in Occupants(m[1], Opposite(m[2])) : reader[c] = "on"

-----------------------------------------------------------------------------
(* Joining and leaving, under the hub's lock.                              *)

\* The upgrade is answered only before the deadline; the handler starts later.
Upgrade(c) ==
  /\ status[c] = "away"
  /\ ~expired
  /\ status' = [status EXCEPT ![c] = "upgraded"]
  /\ UNCHANGED <<expired, room, member, reader, writer, seen, accepted, hand, queue, got>>

\* Mutant: a role that is connected is admitted again.
Mutant_Join(c) ==
  LET k == IF room = None THEN c ELSE room IN
  /\ status[c] = "upgraded"
  /\ room' = k
  /\ status' = [status EXCEPT ![c] = "running"]
  /\ member' = [member EXCEPT ![c] = k]
  /\ reader' = [reader EXCEPT ![c] = "on"]
  /\ writer' = [writer EXCEPT ![c] = "on"]
  /\ UNCHANGED <<expired, seen, accepted, hand, queue, got>>

\* The entry is made on demand.  A role whose receiver is taken is refused,
\* and a refused handler returns without leaving.
Join(c) ==
  LET k == IF room = None THEN c ELSE room IN
  /\ status[c] = "upgraded"
  /\ IF Occupants(k, RoleOf(c)) = {}
     THEN /\ room' = k
          /\ status' = [status EXCEPT ![c] = "running"]
          /\ member' = [member EXCEPT ![c] = k]
          /\ reader' = [reader EXCEPT ![c] = "on"]
          /\ writer' = [writer EXCEPT ![c] = "on"]
     ELSE /\ status' = [status EXCEPT ![c] = "refused"]
          /\ UNCHANGED <<room, member, reader, writer>>
  /\ UNCHANGED <<expired, seen, accepted, hand, queue, got>>

\* Mutant: a handler whose session expired does not clean up.
Mutant_Leave(c) ==
  /\ status[c] = "leaving"
  /\ status' = [status EXCEPT ![c] = "left"]
  /\ room' = IF expired THEN room ELSE None
  /\ UNCHANGED <<expired, member, reader, writer, seen, accepted, hand, queue, got>>

\* leave removes the session's entry, whichever room it is by now.  The
\* receivers nobody took go with it.
Leave(c) ==
  /\ status[c] = "leaving"
  /\ status' = [status EXCEPT ![c] = "left"]
  /\ room' = None
  /\ queue' = [m \in Conn \X Role |->
                 IF m[1] = room /\ Occupants(m[1], m[2]) = {} THEN << >> ELSE queue[m]]
  /\ UNCHANGED <<expired, member, reader, writer, seen, accepted, hand, got>>

-----------------------------------------------------------------------------
(* The reader task.                                                        *)

\* The reader ends, and the count it kept with it.
EndReader(c) ==
  /\ reader' = [reader EXCEPT ![c] = "ended"]
  /\ seen' = [seen EXCEPT ![c] = 0]
  /\ hand' = [hand EXCEPT ![c] = FALSE]
  /\ UNCHANGED <<expired, room, status, member, writer, accepted, queue, got>>

\* A frame arrives; it counts against the budget before it is forwarded.
Read(c) ==
  /\ reader[c] = "on"
  /\ ~hand[c]
  /\ seen[c] < MaxFrames[c]
  /\ \/ /\ seen[c] + 1 <= MaxBytes
        /\ seen' = [seen EXCEPT ![c] = @ + 1]
        /\ hand' = [hand EXCEPT ![c] = TRUE]
        /\ UNCHANGED <<expired, room, status, member, reader, writer, accepted, queue, got>>
     \/ seen[c] + 1 > MaxBytes /\ EndReader(c)

\* Close frame, end of the stream or receive error.
SocketEnds(c) ==
  /\ reader[c] = "on"
  /\ ~hand[c]
  /\ EndReader(c)

\* Mutant: a full queue drops its oldest frame instead of holding the reader.
Mutant_PushDropsOldest(c) ==
  /\ reader[c] = "on"
  /\ hand[c]
  /\ ReceiverAlive(Outbox(c))
  /\ queue' = [queue EXCEPT ![Outbox(c)] =
                 Append(IF Len(@) = Capacity THEN Tail(@) ELSE @,
                        [from |-> c, nr |-> seen[c]])]
  /\ accepted' = [accepted EXCEPT ![c] = @ + 1]
  /\ hand' = [hand EXCEPT ![c] = FALSE]
  /\ UNCHANGED <<expired, room, status, member, reader, writer, seen, got>>

\* Mutant: the queue is unbounded.
Mutant_PushUnbounded(c) ==
  /\ reader[c] = "on"
  /\ hand[c]
  /\ ReceiverAlive(Outbox(c))
  /\ queue' = [queue EXCEPT ![Outbox(c)] = Append(@, [from |-> c, nr |-> seen[c]])]
  /\ accepted' = [accepted EXCEPT ![c] = @ + 1]
  /\ hand' = [hand EXCEPT ![c] = FALSE]
  /\ UNCHANGED <<expired, room, status, member, reader, writer, seen, got>>

\* peer_tx.send: a full queue holds the reader.
Push(c) ==
  /\ reader[c] = "on"
  /\ hand[c]
  /\ ReceiverAlive(Outbox(c))
  /\ Len(queue[Outbox(c)]) < Capacity
  /\ queue' = [queue EXCEPT ![Outbox(c)] = Append(@, [from |-> c, nr |-> seen[c]])]
  /\ accepted' = [accepted EXCEPT ![c] = @ + 1]
  /\ hand' = [hand EXCEPT ![c] = FALSE]
  /\ UNCHANGED <<expired, room, status, member, reader, writer, seen, got>>

PushFails(c) ==
  /\ reader[c] = "on"
  /\ hand[c]
  /\ ~ReceiverAlive(Outbox(c))
  /\ EndReader(c)

-----------------------------------------------------------------------------
(* The writer task.  A frame it is sending still counts as queued.         *)

\* Mutant: one task reads and writes, so that a held reader writes nothing.
Mutant_Deliver(c) ==
  /\ writer[c] = "on"
  /\ ~hand[c]
  /\ queue[Inbox(c)] # << >>
  /\ got' = [got EXCEPT ![c] = Append(@, Head(queue[Inbox(c)]))]
  /\ queue' = [queue EXCEPT ![Inbox(c)] = Tail(@)]
  /\ UNCHANGED <<expired, room, status, member, reader, writer, seen, accepted, hand>>

Deliver(c) ==
  /\ writer[c] = "on"
  /\ queue[Inbox(c)] # << >>
  /\ got' = [got EXCEPT ![c] = Append(@, Head(queue[Inbox(c)]))]
  /\ queue' = [queue EXCEPT ![Inbox(c)] = Tail(@)]
  /\ UNCHANGED <<expired, room, status, member, reader, writer, seen, accepted, hand>>

\* The writer ends, and the receiver with what it holds is dropped.
EndWriter(c) ==
  /\ writer' = [writer EXCEPT ![c] = "ended"]
  /\ queue' = [queue EXCEPT ![Inbox(c)] = << >>]
  /\ got' = [got EXCEPT ![c] = << >>]
  /\ UNCHANGED <<expired, room, status, member, reader, seen, accepted, hand>>

SinkFails(c) ==
  /\ writer[c] = "on"
  /\ queue[Inbox(c)] # << >>
  /\ EndWriter(c)

\* recv returns None: every sender is gone and the queue is drained.
RunsDry(c) ==
  /\ writer[c] = "on"
  /\ queue[Inbox(c)] = << >>
  /\ ~SenderAlive(Inbox(c))
  /\ writer' = [writer EXCEPT ![c] = "dry"]
  /\ UNCHANGED <<expired, room, status, member, reader, seen, accepted, hand, queue, got>>

-----------------------------------------------------------------------------
(* The handler.                                                            *)

Expire ==
  /\ ~expired
  /\ expired' = TRUE
  /\ UNCHANGED <<room, status, member, reader, writer, seen, accepted, hand, queue, got>>

\* select! returns: a task ended or the deadline passed.
Finish(c) ==
  /\ status[c] = "running"
  /\ reader[c] # "on" \/ writer[c] # "on" \/ expired
  /\ status' = [status EXCEPT ![c] = "leaving"]
  /\ UNCHANGED <<expired, room, member, reader, writer, seen, accepted, hand, queue, got>>

\* The aborts reach the tasks some time after they were asked for.
AbortReader(c) ==
  /\ status[c] \in {"leaving", "left"}
  /\ reader[c] = "on"
  /\ EndReader(c)

AbortWriter(c) ==
  /\ status[c] \in {"leaving", "left"}
  /\ writer[c] = "on"
  /\ EndWriter(c)

Handler(c) == Join(c) \/ Finish(c) \/ Leave(c)
ReaderTask(c) == Push(c) \/ PushFails(c) \/ AbortReader(c)
WriterTask(c) == Deliver(c) \/ RunsDry(c) \/ AbortWriter(c)

\* What the clients and the network do.
Client(c) == Upgrade(c) \/ Read(c) \/ SocketEnds(c) \/ SinkFails(c)

Next ==
  \/ Expire
  \/ \E c \in Conn : Client(c) \/ Handler(c) \/ ReaderTask(c) \/ WriterTask(c)

Spec == Init /\ [][Next]_vars

\* The runtime never starves a task that can run, and a client that stays
\* connected goes on reading its socket, so a queued frame is eventually sent.
\* Nothing makes the deadline pass, a client connect or a client send.
Fairness ==
  \A c \in Conn :
    WF_vars(Handler(c)) /\ WF_vars(ReaderTask(c)) /\ WF_vars(WriterTask(c))

FairSpec == Spec /\ Fairness

-----------------------------------------------------------------------------
(* Properties.                                                             *)

IsPrefixOf(s, t) == Len(s) <= Len(t) /\ s = SubSeq(t, 1, Len(s))

\* The frames the peer's queue took from p, in order.
Sent(p) == [n \in 1 .. accepted[p] |-> [from |-> p, nr |-> n]]

\* Relayed frames arrive as they were sent: what a connection was sent is a
\* prefix of what the one peer of its own room handed over, in order, with
\* nothing lost, repeated or mixed in from another connection.  As long as its
\* writer lives the rest is in the queue, and a connection that ends because
\* its queue ran dry missed nothing, even if the peer left at once.
PipeIsFaithful ==
  \A c \in Conn :
    /\ \A f \in {got[c][n] : n \in 1 .. Len(got[c])} : member[f.from] = member[c]
    /\ \A p \in Conn :
         p # c /\ member[p] # None /\ Inbox(c) = Outbox(p) =>
           /\ IsPrefixOf(got[c], Sent(p))
           /\ writer[c] \in {"on", "dry"} => got[c] \o queue[Inbox(c)] = Sent(p)

\* A room in the hub always has a member whose handler has yet to leave:
\* however handlers interleave, no room is left behind for good.
NoOrphanRoom ==
  room # None =>
    \E c \in Conn : member[c] = room /\ status[c] \in {"running", "leaving"}

\* Once the deadline has passed the hub forgets the session for good, whatever
\* the clients do with their sockets.
RoomsAreFreed == <>[](expired => room = None)

\* Two directions never block each other: a reader held by a full queue moves
\* on once its peer is there, even if the peer's reader is held as well.
FullDuplex ==
  \A c \in Conn :
    (hand[c] /\ Occupants(member[c], Opposite(RoleOf(c))) # {}) ~> ~hand[c]

\* A role that is connected is admitted a second time only to another room,
\* after somebody's leave removed the first one from under it: within a room
\* nobody is replaced.
SecondOnlyAfterALeave ==
  \A c, d \in Conn :
    c # d /\ RoleOf(c) = RoleOf(d) /\ status[c] = "running" /\ status[d] = "running"
      => /\ member[c] # member[d]
         /\ \E e \in Conn : status[e] = "left"
=============================================================================
