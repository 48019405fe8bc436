------------------------------ MODULE EventHub ------------------------------
(***************************************************************************)
(* The server's event channel and the websocket through which one device   *)
(* listens to it (EventHub and ws_handler of airpaste-server).  The        *)
(* channel is a log with a cursor per receiver; a receiver that falls more *)
(* than Capacity events behind is moved forward.  A websocket announces    *)
(* itself and acknowledges the hello before it subscribes, and starts at   *)
(* the end of the log: nothing is delivered from before.                   *)
(*                                                                         *)
(* Each device has its own websocket and its own cursor, so the module     *)
(* follows one of them.  Only the events the device acts on are in the     *)
(* log; the others (online, offline, acknowledgements) fill the channel,   *)
(* which a small Capacity stands for.                                      *)
(***************************************************************************)
EXTENDS Naturals, Sequences

CONSTANTS
  Event,     \* what can be broadcast
  Capacity,  \* events the channel keeps for a slow receiver
  WireMax,   \* events under way between the server and the device
  MaxEvents  \* bound: events broadcast in a behaviour

ASSUME HubAssumption == {Capacity, WireMax, MaxEvents} \subseteq Nat \ {0}

VARIABLES
  log,     \* the events broadcast so far
  conn,    \* the device's connection
  cursor,  \* the next event its receiver takes
  wire,    \* positions of the events sent and not yet read by the device
  missed   \* positions of the events it will never be sent (history)

hubVars == <<log, conn, cursor, wire, missed>>

HubTypeOK ==
  /\ log \in Seq(Event) /\ Len(log) <= MaxEvents
  /\ conn \in {"down", "greeted", "live", "closing"}
  /\ cursor \in 1 .. (Len(log) + 1)
  /\ wire \in Seq(1 .. MaxEvents) /\ Len(wire) <= WireMax
  /\ missed \subseteq 1 .. MaxEvents

HubInit ==
  /\ log = <<>>
  /\ conn = "down"
  /\ cursor = 1
  /\ wire = <<>>
  /\ missed = {}

\* hub.broadcast, whoever's request it is part of.
Broadcast(e) ==
  /\ Len(log) < MaxEvents
  /\ log' = Append(log, e)
  /\ UNCHANGED <<conn, cursor, wire, missed>>

\* The hello has been received: the device counts as connected from here on.
Connect ==
  /\ conn = "down"
  /\ conn' = "greeted"
  /\ UNCHANGED <<log, cursor, wire, missed>>

\* Mutant: the first event after the subscription is left out.
Mutant_Subscribe ==
  /\ conn = "greeted"
  /\ conn' = "live"
  /\ cursor' = Len(log) + 2
  /\ UNCHANGED <<log, wire, missed>>

\* Mutant: a new connection is sent what the channel still holds.
Mutant_SubscribeFromStart ==
  /\ conn = "greeted"
  /\ conn' = "live"
  /\ cursor' = 1
  /\ UNCHANGED <<log, wire, missed>>

Subscribe ==
  /\ conn = "greeted"
  /\ conn' = "live"
  /\ cursor' = Len(log) + 1
  /\ UNCHANGED <<log, wire, missed>>

Behind == Len(log) + 1 - cursor

\* recv_event and send_json; a full connection holds the task back.
Forward ==
  /\ conn = "live" /\ Behind \in 1 .. Capacity
  /\ Len(wire) < WireMax
  /\ wire' = Append(wire, cursor)
  /\ cursor' = cursor + 1
  /\ UNCHANGED <<log, conn, missed>>

\* Mutant: a receiver that lags also loses the newest event.
Mutant_Lag ==
  /\ conn = "live" /\ Behind > Capacity
  /\ Len(wire) < WireMax
  /\ cursor' = Len(log) + 1
  /\ missed' = missed \cup cursor .. (Len(log) - Capacity)
  /\ UNCHANGED <<log, conn, wire>>

\* Lagged: the receiver goes on with the oldest event that is left.
Lag ==
  /\ conn = "live" /\ Behind > Capacity
  /\ Len(wire) < WireMax
  /\ cursor' = Len(log) + 1 - Capacity
  /\ missed' = missed \cup cursor .. (Len(log) - Capacity)
  /\ UNCHANGED <<log, conn, wire>>

\* The connection breaks; the device still reads a part of what was sent.
Disconnect ==
  /\ conn \in {"greeted", "live"}
  /\ conn' = "closing"
  /\ \E n \in 0 .. Len(wire) : wire' = SubSeq(wire, 1, n)
  /\ UNCHANGED <<log, cursor, missed>>

\* The device reads the next event, or gives the connection up.
Take ==
  /\ wire # <<>>
  /\ wire' = Tail(wire)
  /\ UNCHANGED <<log, conn, cursor, missed>>

Abandon ==
  /\ conn' = "down"
  /\ wire' = <<>>
  /\ UNCHANGED <<log, cursor, missed>>
=============================================================================
