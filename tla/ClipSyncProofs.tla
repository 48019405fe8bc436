--------------------------- MODULE ClipSyncProofs ---------------------------
(***************************************************************************)
(* Proofs about ClipSync for every set of texts, channel capacity and      *)
(* number of events.                                                       *)
(***************************************************************************)
EXTENDS ClipSync, SequenceTheorems, TLAPS

\* Position i was taken from the log and left the wire.
Passed(i) == i < cursor /\ \A k \in 1 .. Len(wire) : i < wire[k]

WireSorted ==
  /\ \A j, k \in 1 .. Len(wire) : j < k => wire[j] < wire[k]
  /\ \A k \in 1 .. Len(wire) : wire[k] < cursor

\* Clips move from the cursor over the wire and the loop into got, and never
\* overtake each other on the way.
InOrder ==
  /\ conn \in {"down", "greeted"} => wire = <<>>
  /\ WireSorted
  /\ \A i \in got : Passed(i)
  /\ loop # Idle => Passed(loop.clip)
  /\ loop.at = "fetching" => \A i \in got : i < loop.clip

\* A remote text that stands on the clipboard, and that the poller has not
\* seen or is not just reading, is named by the guard, unless the loop is
\* about to name it; and so is a remote text the poller has read undisturbed.
Guarded ==
  /\ board.by = "remote" /\ loop.at = "written" => board.text = log[loop.clip].text
  /\ board.by = "remote" /\ loop.at # "written" =>
       \/ guard = board.text
       \/ poll.at # "read" /\ seen = board.text
       \/ poll.at = "read" /\ poll.text = board.text
  /\ poll.at = "read" /\ poll.by = "remote" => guard = poll.text
  /\ EchoNeedsOverlap

IInv == TypeOK /\ InOrder /\ Guarded

-----------------------------------------------------------------------------
\* What is left of the wire after an event was read or some were lost.
LEMMA TailOfWire ==
  ASSUME NEW S, NEW s \in Seq(S), s # <<>>
  PROVE  /\ Tail(s) \in Seq(S)
         /\ Head(s) = s[1] /\ Head(s) \in S
         /\ Len(s) \in Nat \ {0}
         /\ Len(Tail(s)) = Len(s) - 1
         /\ \A i \in 1 .. Len(Tail(s)) : Tail(s)[i] = s[i + 1]
BY HeadTailProperties, EmptySeq, LenProperties

LEMMA PrefixOfWire ==
  ASSUME NEW S, NEW s \in Seq(S), NEW n \in 0 .. Len(s)
  PROVE  /\ SubSeq(s, 1, n) \in Seq(S)
         /\ Len(SubSeq(s, 1, n)) = n
         /\ \A i \in 1 .. n : SubSeq(s, 1, n)[i] = s[i]
<1>1. Len(s) \in Nat /\ n \in Nat
  BY LenProperties
<1>2. \A i \in 1 .. n : s[i] \in S
  BY <1>1, ElementOfSeq
<1>3. CASE n = 0
  <2>1. SubSeq(s, 1, 0) = <<>>
    BY SubSeqEmpty
  <2>2. QED
    BY <1>3, <2>1, EmptySeq
<1>4. CASE n # 0
  BY <1>1, <1>4, SubSeqProperties
<1>5. QED
  BY <1>3, <1>4

-----------------------------------------------------------------------------
\* What is sent keeps its type, whoever sends, reads or loses it.
LEMMA HubTypeStep ==
  ASSUME HubTypeOK,
         \/ \E e \in Event : Broadcast(e)
         \/ Connect \/ Subscribe \/ Forward \/ Lag \/ Disconnect \/ Take \/ Abandon
  PROVE  HubTypeOK'
<1> USE HubAssumption DEF HubTypeOK
<1>0. /\ Len(log) \in Nat /\ Len(wire) \in Nat
      /\ {Capacity, WireMax, MaxEvents} \subseteq Nat
  BY LenProperties
<1>1. ASSUME NEW e \in Event, Broadcast(e)
      PROVE  HubTypeOK'
  <2>1. /\ Append(log, e) \in Seq(Event)
        /\ Len(Append(log, e)) = Len(log) + 1
    BY AppendProperties
  <2>2. QED
    BY <1>0, <1>1, <2>1 DEF Broadcast
<1>2. CASE Connect
  BY <1>2 DEF Connect
<1>3. CASE Subscribe
  BY <1>0, <1>3 DEF Subscribe
<1>4. CASE Forward
  <2>1. cursor \in 1 .. MaxEvents
    BY <1>0, <1>4 DEF Forward, Behind
  <2>2. /\ Append(wire, cursor) \in Seq(1 .. MaxEvents)
        /\ Len(Append(wire, cursor)) = Len(wire) + 1
    BY <2>1, AppendProperties
  <2>3. QED
    BY <1>0, <1>4, <2>2 DEF Forward, Behind
<1>5. CASE Lag
  <2>1. Len(log) + 1 - Capacity \in cursor .. Len(log)
    BY <1>0, <1>5 DEF Lag, Behind
  <2>2. cursor .. (Len(log) - Capacity) \subseteq 1 .. MaxEvents
    BY <1>0
  <2>3. missed' \subseteq 1 .. MaxEvents
    BY <1>5, <2>2 DEF Lag
  <2>4. cursor' \in 1 .. (Len(log) + 1)
    BY <1>0, <1>5, <2>1 DEF Lag
  <2>5. UNCHANGED <<log, conn, wire>>
    BY <1>5 DEF Lag
  <2>6. QED
    BY <2>3, <2>4, <2>5
<1>6. CASE Disconnect
  <2>1. PICK n \in 0 .. Len(wire) : wire' = SubSeq(wire, 1, n)
    BY <1>6 DEF Disconnect
  <2>2. wire' \in Seq(1 .. MaxEvents) /\ Len(wire') = n
    BY <2>1, PrefixOfWire
  <2>3. QED
    BY <1>0, <1>6, <2>2 DEF Disconnect
<1>7. CASE Take
  <2>1. Tail(wire) \in Seq(1 .. MaxEvents) /\ Len(Tail(wire)) = Len(wire) - 1
    BY <1>7, TailOfWire DEF Take
  <2>2. QED
    BY <1>0, <1>7, <2>1 DEF Take
<1>8. CASE Abandon
  BY <1>0, <1>8, EmptySeq DEF Abandon
<1>9. QED
  BY <1>1, <1>2, <1>3, <1>4, <1>5, <1>6, <1>7, <1>8

\* The clip the loop handles is in the log.
LEMMA HandledClip ==
  ASSUME TypeOK, InOrder, loop # Idle
  PROVE  /\ loop \in Handling
         /\ loop.clip \in 1 .. Len(log)
         /\ log[loop.clip] \in Event
         /\ log[loop.clip].text \in Text
<1>1. loop \in Handling /\ loop.clip < cursor
  BY DEF TypeOK, InOrder, Passed
<1>2. loop.clip \in 1 .. Len(log)
  BY <1>1, HubAssumption, LenProperties DEF TypeOK, HubTypeOK, Handling
<1>3. log[loop.clip] \in Event
  BY <1>2, ElementOfSeq DEF TypeOK, HubTypeOK
<1>4. QED
  BY <1>1, <1>2, <1>3, ClipAssumption

\* Every variable keeps its type under every step of every task.
LEMMA TypeStep == TypeOK /\ InOrder /\ [Next]_vars => TypeOK'
<1> SUFFICES ASSUME TypeOK, InOrder, [Next]_vars
             PROVE  TypeOK'
  OBVIOUS
<1> USE ClipAssumption
    DEF TypeOK, Board, Reading, Handling, Borrowed, Idle, TextOrNone
<1>0. UNCHANGED hubVars => HubTypeOK'
  BY DEF hubVars, HubTypeOK
<1>1. ASSUME NEW t \in Text, Copy(t)
      PROVE  TypeOK'
  BY <1>0, <1>1 DEF Copy, pollVars, loopVars, modeVars
<1>2. CASE SetIsolated
  BY <1>0, <1>2 DEF SetIsolated, pollVars, loopVars, boardVars
<1>3. ASSUME NEW t \in Text, Announce(t)
      PROVE  TypeOK'
  <2>1. HubTypeOK'
    BY <1>3, HubTypeStep DEF Announce
  <2>2. QED
    BY <1>3, <2>1 DEF Announce, pollVars, loopVars, boardVars, modeVars
<1>4. CASE Read
  BY <1>0, <1>4 DEF Read, loopVars, boardVars, modeVars
<1>5. CASE Ignore
  BY <1>0, <1>5 DEF Ignore, loopVars, modeVars
<1>6. CASE Accept
  BY <1>0, <1>6 DEF Accept, loopVars, boardVars, modeVars
<1>7. CASE Publish
  <2>1. poll.text \in Text
    BY <1>7 DEF Publish
  <2>2. [from |-> Me, text |-> poll.text] \in Event
    BY <2>1
  <2>3. HubTypeOK'
    BY <1>7, <2>2, HubTypeStep DEF Publish
  <2>4. QED
    BY <1>7, <2>1, <2>3 DEF Publish, boardVars, modeVars
<1>8. CASE PublishFails
  BY <1>0, <1>8 DEF PublishFails, loopVars, boardVars, modeVars
<1>9. CASE Connects
  <2>1. HubTypeOK'
    BY <1>9, HubTypeStep DEF Connects
  <2>2. QED
    BY <1>9, <2>1 DEF Connects, pollVars, loopVars, boardVars, modeVars
<1>10. CASE Receive
  <2>1. HubTypeOK'
    BY <1>10, HubTypeStep DEF Receive
  <2>2. Head(wire) \in 1 .. MaxEvents
    BY <1>10, TailOfWire DEF Receive, Take, HubTypeOK
  <2>3. QED
    BY <1>10, <2>1, <2>2 DEF Receive, pollVars, boardVars, modeVars
<1>11. CASE Apply
  <2>1. loop \in Handling /\ log[loop.clip].text \in Text
    BY <1>11, HandledClip DEF Apply
  <2>2. QED
    BY <1>0, <1>11, <2>1 DEF Apply, pollVars
<1>12. CASE SetGuard
  <2>1. log[loop.clip].text \in Text
    BY <1>12, HandledClip DEF SetGuard
  <2>2. QED
    BY <1>0, <1>12, <2>1 DEF SetGuard, modeVars
<1>13. CASE Unreadable
  <2>1. loop.clip \in 1 .. MaxEvents
    BY <1>13 DEF Unreadable
  <2>2. HubTypeOK'
    BY <1>13, <2>1 DEF Unreadable, HubTypeOK
  <2>3. QED
    BY <1>13, <2>2 DEF Unreadable, pollVars, boardVars, modeVars
<1>14. CASE HandlerFails
  <2>1. HubTypeOK'
    BY <1>14, HubTypeStep DEF HandlerFails
  <2>2. QED
    BY <1>14, <2>1 DEF HandlerFails, pollVars, boardVars, modeVars
<1>15. CASE SessionEnds
  <2>1. HubTypeOK'
    BY <1>15, HubTypeStep DEF SessionEnds
  <2>2. QED
    BY <1>15, <2>1 DEF SessionEnds, pollVars, loopVars, boardVars, modeVars
<1>16. CASE BorrowBoard
  BY <1>0, <1>16 DEF BorrowBoard, pollVars, loopVars
<1>17. CASE ReturnBoard
  BY <1>0, <1>17 DEF ReturnBoard, pollVars, loopVars
<1>18. CASE Server
  <2>1. HubTypeOK'
    BY <1>18, HubTypeStep DEF Server
  <2>2. QED
    BY <1>18, <2>1 DEF Server, pollVars, loopVars, boardVars, modeVars
<1>19. CASE UNCHANGED vars
  BY <1>0, <1>19 DEF vars, pollVars, loopVars, boardVars, modeVars
<1>20. QED
  BY <1>1, <1>2, <1>3, <1>4, <1>5, <1>6, <1>7, <1>8, <1>9, <1>10, <1>11, <1>12,
     <1>13, <1>14, <1>15, <1>16, <1>17, <1>18, <1>19
     DEF Next, User, Poller, WsLoop, Hotkey

-----------------------------------------------------------------------------
\* No task makes a clip overtake another.
LEMMA InOrderStep == TypeOK /\ InOrder /\ [Next]_vars => InOrder'
<1> SUFFICES ASSUME TypeOK, InOrder, [Next]_vars
             PROVE  InOrder'
  OBVIOUS
<1> USE HubAssumption
<1>0. /\ Len(log) \in Nat /\ Len(wire) \in Nat
      /\ cursor \in Nat /\ cursor <= Len(log) + 1
      /\ wire \in Seq(1 .. MaxEvents)
      /\ \A k \in 1 .. Len(wire) : wire[k] \in Nat
      /\ got \subseteq Nat
      /\ {Capacity, WireMax, MaxEvents} \subseteq Nat
      /\ loop # Idle => loop.clip \in Nat /\ loop.at \in {"fetching", "written"}
      /\ Idle.at = "idle"
  <2>1. Len(wire) \in Nat /\ \A k \in 1 .. Len(wire) : wire[k] \in 1 .. MaxEvents
    BY ElementOfSeq, LenProperties DEF TypeOK, HubTypeOK
  <2>2. QED
    BY <2>1, LenProperties DEF TypeOK, HubTypeOK, Handling, Idle
<1>1. CASE UNCHANGED <<conn, cursor, wire, loop, got>>
  BY <1>1 DEF InOrder, WireSorted, Passed
<1>2. CASE Connects
  BY <1>2 DEF Connects, Connect, loopVars, InOrder, WireSorted, Passed
<1>3. CASE Receive
  <2>1. /\ Head(wire) = wire[1] /\ Len(wire) # 0
        /\ Len(Tail(wire)) = Len(wire) - 1
        /\ \A k \in 1 .. Len(Tail(wire)) : Tail(wire)[k] = wire[k + 1]
    BY <1>0, <1>3, TailOfWire DEF Receive, Take
  <2>2. /\ wire' = Tail(wire) /\ wire # <<>>
        /\ UNCHANGED <<conn, cursor, got>>
        /\ loop' = Idle \/ loop' = [at |-> "fetching", clip |-> wire[1]]
    BY <1>3, <2>1 DEF Receive, Take
  <2>3. QED
    BY <1>0, <2>1, <2>2 DEF InOrder, WireSorted, Passed
<1>4. CASE Apply
  <2>1. /\ loop # Idle /\ loop.at = "fetching"
        /\ got' = got \cup {loop.clip}
        /\ loop' = Idle \/ loop' = [loop EXCEPT !.at = "written"]
        /\ UNCHANGED <<conn, cursor, wire>>
    BY <1>0, <1>4 DEF Apply, hubVars
  <2>2. loop' # Idle => loop'.clip = loop.clip /\ loop'.at = "written"
    BY <2>1 DEF TypeOK, Handling
  <2>3. QED
    BY <1>0, <2>1, <2>2 DEF InOrder, WireSorted, Passed
<1>5. ASSUME loop' = Idle, UNCHANGED <<conn, cursor, wire, got>>
      PROVE  InOrder'
  BY <1>0, <1>5 DEF InOrder, WireSorted, Passed
<1>6. CASE SetGuard \/ Unreadable
  BY <1>5, <1>6 DEF SetGuard, Unreadable, hubVars
<1>7. CASE HandlerFails \/ SessionEnds
  <2>1. /\ loop' = Idle /\ wire' = <<>> /\ conn' = "down"
        /\ UNCHANGED <<cursor, got>>
    BY <1>7 DEF HandlerFails, SessionEnds, Abandon, loopVars
  <2>2. QED
    BY <1>0, <2>1, EmptySeq DEF InOrder, WireSorted, Passed
<1>8. CASE Server
  <2>1. UNCHANGED <<loop, got>>
    BY <1>8 DEF Server, loopVars
  <2>2. CASE Subscribe
    BY <1>0, <2>1, <2>2, EmptySeq DEF Subscribe, InOrder, WireSorted, Passed
  <2>3. CASE Forward
    <3>1. cursor \in 1 .. MaxEvents
      BY <1>0, <2>3 DEF Forward, Behind, TypeOK, HubTypeOK
    <3>2. /\ wire' = Append(wire, cursor) /\ cursor' = cursor + 1
          /\ conn' = "live"
      BY <2>3 DEF Forward
    <3>3. /\ Len(wire') = Len(wire) + 1
          /\ \A k \in 1 .. Len(wire) : wire'[k] = wire[k]
          /\ wire'[Len(wire) + 1] = cursor
      BY <1>0, <3>1, <3>2, AppendProperties
    <3>4. ASSUME NEW k \in 1 .. Len(wire')
          PROVE  \/ k \in 1 .. Len(wire) /\ wire'[k] = wire[k]
                 \/ k = Len(wire) + 1 /\ wire'[k] = cursor
      BY <1>0, <3>3
    <3>5. WireSorted'
      <4>1. ASSUME NEW j \in 1 .. Len(wire'), NEW k \in 1 .. Len(wire'), j < k
            PROVE  wire'[j] < wire'[k]
        <5>1. j \in 1 .. Len(wire) /\ wire'[j] = wire[j]
          BY <1>0, <3>3, <4>1
        <5>2. CASE k \in 1 .. Len(wire)
          BY <3>3, <4>1, <5>1, <5>2 DEF InOrder, WireSorted
        <5>3. CASE k = Len(wire) + 1
          BY <3>3, <5>1, <5>3 DEF InOrder, WireSorted
        <5>4. QED
          BY <3>4, <5>2, <5>3
      <4>2. ASSUME NEW k \in 1 .. Len(wire')
            PROVE  wire'[k] < cursor'
        BY <1>0, <3>2, <3>4 DEF InOrder, WireSorted
      <4>3. QED
        BY <4>1, <4>2 DEF WireSorted
    <3>6. ASSUME NEW i \in Nat, Passed(i)
          PROVE  Passed(i)'
      BY <1>0, <3>2, <3>4, <3>6 DEF Passed
    <3>7. QED
      BY <1>0, <2>1, <3>2, <3>5, <3>6 DEF InOrder
  <2>4. CASE Lag
    <3>1. cursor' \in Nat /\ cursor < cursor' /\ UNCHANGED <<conn, wire>>
      BY <1>0, <2>4 DEF Lag, Behind
    <3>2. QED
      BY <1>0, <2>1, <3>1 DEF InOrder, WireSorted, Passed
  <2>5. CASE Disconnect
    <3>1. PICK n \in 0 .. Len(wire) : wire' = SubSeq(wire, 1, n)
      BY <2>5 DEF Disconnect
    <3>2. /\ Len(wire') = n
          /\ \A k \in 1 .. n : wire'[k] = wire[k]
      BY <1>0, <3>1, PrefixOfWire
    <3>3. conn' = "closing" /\ UNCHANGED cursor
      BY <2>5 DEF Disconnect
    <3>4. WireSorted'
      <4>1. 1 .. n \subseteq 1 .. Len(wire)
        BY <1>0, <3>1
      <4>2. QED
        BY <3>2, <3>3, <4>1 DEF InOrder, WireSorted
    <3>5. ASSUME NEW i \in Nat, Passed(i)
          PROVE  Passed(i)'
      BY <1>0, <3>1, <3>2, <3>3, <3>5 DEF Passed
    <3>6. QED
      BY <1>0, <2>1, <3>3, <3>4, <3>5 DEF InOrder
  <2>6. QED
    BY <1>8, <2>2, <2>3, <2>4, <2>5 DEF Server
<1>9. CASE User \/ Poller \/ Hotkey \/ UNCHANGED vars
  BY <1>1, <1>9
     DEF User, Copy, SetIsolated, Announce, Broadcast, Poller, Read, Ignore, Accept,
         Publish, PublishFails, Hotkey, BorrowBoard, ReturnBoard, vars, hubVars, loopVars
<1>10. QED
  BY <1>2, <1>3, <1>4, <1>6, <1>7, <1>8, <1>9 DEF Next, WsLoop

-----------------------------------------------------------------------------
\* No step leaves a remote text to the poller without its guard.
LEMMA GuardedStep == TypeOK /\ InOrder /\ Guarded /\ [Next]_vars => Guarded'
<1> SUFFICES ASSUME TypeOK, InOrder, Guarded, [Next]_vars
             PROVE  Guarded'
  OBVIOUS
<1> USE DEF Guarded, EchoNeedsOverlap
<1>0. /\ poll \in Reading \cup {Idle} /\ board \in Board
      /\ loop \in Handling \cup {Idle}
      /\ Idle.at = "idle"
  BY DEF TypeOK, Idle
<1>1. ASSUME loop.at = "written"
      PROVE  loop.clip \in 1 .. Len(log)
  BY <1>0, <1>1, HandledClip
<1>2. CASE UNCHANGED <<log, pollVars, boardVars, loop>>
  BY <1>2 DEF pollVars, boardVars
<1>3. ASSUME NEW e \in Event, Broadcast(e), UNCHANGED <<boardVars, loop>>
      PROVE  log'[loop'.clip].text = log[loop.clip].text \/ loop.at # "written"
  BY <1>1, <1>3, AppendProperties DEF Broadcast, TypeOK, HubTypeOK
<1>4. ASSUME NEW t \in Text, Announce(t)
      PROVE  Guarded'
  <2>1. [from |-> Other, text |-> t] \in Event
    BY ClipAssumption
  <2>2. QED
    BY <1>3, <1>4, <2>1 DEF Announce, pollVars, loopVars, boardVars
<1>5. ASSUME NEW t \in Text, Copy(t)
      PROVE  Guarded'
  BY <1>5 DEF Copy, pollVars, loopVars
<1>6. CASE Read
  <2>1. UNCHANGED <<log, seen, boardVars, loop>>
    BY <1>6 DEF Read, hubVars, loopVars
  <2>2. /\ poll.at = "idle" /\ board.text # seen
        /\ poll'.at = "read" /\ poll'.text = board.text
        /\ poll'.by = "remote" => board.by = "remote" /\ loop.at # "written"
    BY <1>0, <1>6 DEF Read, Board
  <2>3. QED
    BY <2>1, <2>2 DEF boardVars
<1>7. CASE Ignore
  BY <1>0, <1>7 DEF Ignore, hubVars, loopVars
<1>8. CASE Accept
  <2>1. UNCHANGED <<log, boardVars, loop>>
    BY <1>8 DEF Accept, hubVars, loopVars
  <2>2. /\ poll.at = "read" /\ guard # poll.text /\ seen' = poll.text
        /\ poll'.at \in {"idle", "publishing"}
        /\ poll'.at = "publishing" => poll'.by = poll.by
    BY <1>0, <1>8 DEF Accept, Reading
  <2>3. QED
    BY <2>1, <2>2 DEF boardVars
<1>9. CASE Publish
  <2>1. poll.text \in Text
    BY <1>0, <1>9 DEF Publish, Reading
  <2>2. [from |-> Me, text |-> poll.text] \in Event
    BY <2>1, ClipAssumption
  <2>3. QED
    BY <1>0, <1>3, <1>9, <2>2 DEF Publish, boardVars
<1>10. CASE PublishFails
  BY <1>0, <1>10 DEF PublishFails, hubVars, loopVars, boardVars
<1>11. CASE Receive
  <2>1. loop.at = "idle" /\ loop'.at # "written"
    BY <1>0, <1>11 DEF Receive
  <2>2. UNCHANGED <<log, pollVars, boardVars>>
    BY <1>11 DEF Receive, Take
  <2>3. QED
    BY <2>1, <2>2 DEF pollVars, boardVars
<1>12. CASE Apply
  <2>1. loop.at = "fetching" /\ UNCHANGED <<log, pollVars, guard>>
    BY <1>12 DEF Apply, hubVars
  <2>2. CASE isolated
    <3>1. loop'.at # "written" /\ UNCHANGED board
      BY <1>0, <1>12, <2>2 DEF Apply
    <3>2. QED
      BY <2>1, <3>1 DEF pollVars
  <2>3. CASE ~isolated
    <3>1. /\ board'.text = log[loop.clip].text
          /\ loop'.at = "written" /\ loop'.clip = loop.clip
      BY <1>0, <1>12, <2>3 DEF Apply, Handling
    <3>2. QED
      BY <2>1, <3>1 DEF pollVars
  <2>4. QED
    BY <2>2, <2>3
<1>13. CASE SetGuard
  <2>1. /\ loop.at = "written" /\ loop'.at = "idle"
        /\ guard' = log[loop.clip].text
        /\ UNCHANGED <<log, seen, board>>
    BY <1>0, <1>13 DEF SetGuard, hubVars
  <2>2. /\ poll'.at = poll.at
        /\ poll'.at = "read" => poll'.by # "remote"
        /\ poll.at # "read" => poll' = poll
    BY <1>0, <1>13 DEF SetGuard, Reading
  <2>3. QED
    BY <2>1, <2>2
<1>14. CASE Unreadable \/ HandlerFails
  <2>1. /\ loop.at = "fetching" /\ loop'.at = "idle"
        /\ UNCHANGED <<log, pollVars, boardVars>>
    BY <1>0, <1>14 DEF Unreadable, HandlerFails, Abandon
  <2>2. QED
    BY <2>1 DEF pollVars, boardVars
<1>15. CASE Hotkey
  BY <1>15 DEF Hotkey, BorrowBoard, ReturnBoard, hubVars, pollVars, loopVars
<1>16. CASE SetIsolated \/ Connects \/ SessionEnds \/ Server \/ UNCHANGED vars
  BY <1>2, <1>16
     DEF SetIsolated, Connects, Connect, SessionEnds, Abandon, Server, Subscribe,
         Forward, Lag, Disconnect, vars, hubVars, loopVars
<1>17. QED
  BY <1>4, <1>5, <1>6, <1>7, <1>8, <1>9, <1>10, <1>11, <1>12, <1>13, <1>14, <1>15,
     <1>16 DEF Next, User, Poller, WsLoop

-----------------------------------------------------------------------------
LEMMA Inductive == Spec => []IInv
<1>1. Init => IInv
  <2>1. ASSUME Init
        PROVE  TypeOK /\ Guarded
    BY <2>1, EmptySeq, HubAssumption
       DEF Init, HubInit, TypeOK, HubTypeOK, Board, Idle, TextOrNone, Guarded,
           EchoNeedsOverlap
  <2>2. ASSUME Init
        PROVE  InOrder
    BY <2>2, EmptySeq DEF Init, HubInit, InOrder, WireSorted, Passed, Idle
  <2>3. QED
    BY <2>1, <2>2 DEF IInv
<1>2. IInv /\ [Next]_vars => IInv'
  BY TypeStep, InOrderStep, GuardedStep DEF IInv
<1>3. QED
  BY <1>1, <1>2, PTL DEF Spec

\* Every variable of ClipSync and of the hub keeps its type.
THEOREM TypeCorrect == Spec => []TypeOK
<1>1. IInv => TypeOK
  BY DEF IInv
<1>2. QED
  BY <1>1, Inductive, PTL

\* The guard works outside the window: a text that the websocket loop put on
\* the clipboard is never published back unless that poll and the loop
\* overlapped, for any number of clips, texts and mode changes.
THEOREM NoEchoWithoutOverlap == Spec => []EchoNeedsOverlap
<1>1. IInv => EchoNeedsOverlap
  BY DEF IInv, Guarded
<1>2. QED
  BY <1>1, Inductive, PTL

\* Clips take effect in the order of their announcement and at most once, for
\* any channel capacity and any number of reconnects and lags.
THEOREM ClipsAppliedInOrder == Spec => AppliedInOrder
<1>1. IInv => [Apply => \A j \in got : j < loop.clip]_vars
  BY DEF IInv, InOrder, Apply
<1>2. QED
  BY <1>1, Inductive, PTL DEF AppliedInOrder
=============================================================================
