------------------------------ MODULE ClipSync ------------------------------
(***************************************************************************)
(* Text clips between the system clipboard of one device and the server:   *)
(* the poller that publishes what the user copies, the websocket loop that *)
(* puts other devices' clips on the clipboard, and the hotkey that borrows *)
(* it to paste (airpaste-agent).  The three are concurrent tasks.  They    *)
(* share the clipboard, the mode and last_local_write, the text of the     *)
(* last remote write, by which the poller tells its own agent's writes     *)
(* from the user's copies.                                                 *)
(*                                                                         *)
(* The other devices only announce clips; what they do with this device's  *)
(* clips is this same module, seen from there.  A clip is stored before it *)
(* is announced and is fetched by its identity, here its position in the   *)
(* log.  File clips are left out: the poller handles them by a guard of    *)
(* their own.  Publishing and applying are switched on.  What a task reads *)
(* or writes without an await in between, the mode and the clipboard above *)
(* all, it does in one step.                                               *)
(***************************************************************************)
EXTENDS EventHub

CONSTANTS
  Text,       \* the texts that are copied
  NoText,     \* no text, or none any more
  Sensitive,  \* the texts text_publish_skip_reason refuses
  Me, Other   \* where a clip comes from

ASSUME ClipAssumption ==
  /\ NoText \notin Text
  /\ Sensitive \subseteq Text
  /\ Me # Other
  /\ Event = [from : {Me, Other}, text : Text]

VARIABLES
  board,     \* the clipboard's text, and who put it there
  guard,     \* last_local_write
  seen,      \* last_seen, the poller's
  isolated,  \* the mode
  poll,      \* what the poller has read and does with it
  loop,      \* the clip the websocket loop handles
  inbox,     \* the newest text received in isolated mode
  paste,     \* the text the hotkey's paste will put back
  got,       \* positions of the clips put on the clipboard or in the inbox (history)
  shared     \* the text this device published or applied last (history)

pollVars == <<seen, poll>>
loopVars == <<loop, got, shared>>
boardVars == <<board, guard>>
modeVars == <<isolated, inbox, paste>>
vars == <<hubVars, pollVars, loopVars, boardVars, modeVars>>

TextOrNone == Text \cup {NoText}

\* A text is there by the user's copy, by the loop's write ("remote") or by
\* the hotkey's ("pasted").  The poller's reading is "raced" if the loop
\* overlapped it.
Board == [text : TextOrNone, by : {"user", "remote", "pasted"}]
Reading == [at : {"read", "publishing"}, text : Text,
            by : {"user", "remote", "pasted", "raced"}]
Handling == [at : {"fetching", "written"}, clip : 1 .. MaxEvents]
Borrowed == [saved : TextOrNone]

Idle == [at |-> "idle"]

TypeOK ==
  /\ HubTypeOK
  /\ board \in Board
  /\ guard \in TextOrNone
  /\ seen \in TextOrNone
  /\ isolated \in BOOLEAN
  /\ poll \in Reading \cup {Idle}
  /\ loop \in Handling \cup {Idle}
  /\ inbox \in TextOrNone
  /\ paste \in Borrowed \cup {Idle}
  /\ got \subseteq 1 .. MaxEvents
  /\ shared \in TextOrNone

\* The poller starts from what the clipboard holds.
Init ==
  /\ HubInit
  /\ board \in [text : TextOrNone, by : {"user"}]
  /\ guard = NoText
  /\ seen = board.text
  /\ isolated \in BOOLEAN
  /\ poll = Idle
  /\ loop = Idle
  /\ inbox = NoText
  /\ paste = Idle
  /\ got = {}
  /\ shared = NoText

-----------------------------------------------------------------------------
(* The user and the other devices.                                         *)

Copy(t) ==
  /\ board' = [text |-> t, by |-> "user"]
  /\ UNCHANGED <<hubVars, pollVars, loopVars, guard, modeVars>>

SetIsolated ==
  /\ isolated' = ~isolated
  /\ UNCHANGED <<hubVars, pollVars, loopVars, boardVars, inbox, paste>>

\* Another device's publish_text_clip.  What this device sends explicitly
\* passes the poller, the clipboard and the guard by.
Announce(t) ==
  /\ Broadcast([from |-> Other, text |-> t])
  /\ UNCHANGED <<pollVars, loopVars, boardVars, modeVars>>

-----------------------------------------------------------------------------
(* The poller.  It reads the clipboard, then takes the guard's lock, then  *)
(* publishes; others run in between.                                       *)

Read ==
  /\ poll = Idle /\ ~isolated
  /\ board.text \notin {NoText, seen}
  /\ poll' = [at |-> "read", text |-> board.text,
              by |-> IF loop.at = "written" /\ board.by = "remote"
                     THEN "raced" ELSE board.by]
  /\ UNCHANGED <<hubVars, seen, loopVars, boardVars, modeVars>>

\* Mutant: an ignored text does not count as seen.
Mutant_Ignore ==
  /\ poll.at = "read" /\ guard = poll.text
  /\ guard' = NoText
  /\ poll' = Idle
  /\ UNCHANGED <<hubVars, seen, loopVars, board, modeVars>>

\* The guard names this text: it is the agent's own write.
Ignore ==
  /\ poll.at = "read" /\ guard = poll.text
  /\ guard' = NoText
  /\ seen' = poll.text
  /\ poll' = Idle
  /\ UNCHANGED <<hubVars, loopVars, board, modeVars>>

Accept ==
  /\ poll.at = "read" /\ guard # poll.text
  /\ seen' = poll.text
  /\ poll' = IF poll.text \in Sensitive THEN Idle
             ELSE [poll EXCEPT !.at = "publishing"]
  /\ UNCHANGED <<hubVars, loopVars, boardVars, modeVars>>

Publish ==
  /\ poll.at = "publishing"
  /\ Broadcast([from |-> Me, text |-> poll.text])
  /\ poll' = Idle
  /\ shared' = poll.text
  /\ UNCHANGED <<seen, loop, got, boardVars, modeVars>>

\* Logged, and not tried again: the text counts as seen.
PublishFails ==
  /\ poll.at = "publishing"
  /\ poll' = Idle
  /\ UNCHANGED <<hubVars, seen, loopVars, boardVars, modeVars>>

-----------------------------------------------------------------------------
(* The websocket loop.  It handles one event after the other and awaits    *)
(* the clip; an error ends the session.                                    *)

Connects ==
  /\ loop = Idle
  /\ Connect
  /\ UNCHANGED <<pollVars, loopVars, boardVars, modeVars>>

Receive ==
  /\ loop = Idle /\ Take
  /\ loop' = IF log[Head(wire)].from = Me THEN Idle
             ELSE [at |-> "fetching", clip |-> Head(wire)]
  /\ UNCHANGED <<pollVars, got, shared, boardVars, modeVars>>

\* The clip is there and decrypted, for the clipboard or for the inbox.
Apply ==
  /\ loop.at = "fetching"
  /\ LET text == log[loop.clip].text IN
       IF isolated
       THEN /\ inbox' = text
            /\ loop' = Idle
            /\ UNCHANGED board
       ELSE /\ board' = [text |-> text, by |-> "remote"]
            /\ loop' = [loop EXCEPT !.at = "written"]
            /\ UNCHANGED inbox
  /\ shared' = log[loop.clip].text
  /\ got' = got \cup {loop.clip}
  /\ UNCHANGED <<hubVars, pollVars, guard, isolated, paste>>

\* The guard follows the write.
SetGuard ==
  /\ loop.at = "written"
  /\ guard' = log[loop.clip].text
  /\ loop' = Idle
  /\ poll' = IF poll.at = "read" /\ poll.by = "remote"
             THEN [poll EXCEPT !.by = "raced"] ELSE poll
  /\ UNCHANGED <<hubVars, seen, got, shared, board, modeVars>>

\* The clip cannot be read with this device's key: logged only.
Unreadable ==
  /\ loop.at = "fetching"
  /\ loop' = Idle
  /\ missed' = missed \cup {loop.clip}
  /\ UNCHANGED <<log, conn, cursor, wire, pollVars, got, shared, boardVars, modeVars>>

\* The clip is gone, the server does not answer or the clipboard is refused.
HandlerFails ==
  /\ loop.at = "fetching"
  /\ Abandon
  /\ loop' = Idle
  /\ UNCHANGED <<pollVars, got, shared, boardVars, modeVars>>

SessionEnds ==
  /\ conn = "closing" /\ wire = <<>> /\ loop = Idle
  /\ Abandon
  /\ UNCHANGED <<pollVars, loopVars, boardVars, modeVars>>

-----------------------------------------------------------------------------
(* The hotkey's paste of the newest inbox text.                            *)

BorrowBoard ==
  /\ paste = Idle /\ isolated /\ inbox # NoText
  /\ paste' = [saved |-> board.text]
  /\ board' = [text |-> inbox, by |-> "pasted"]
  /\ UNCHANGED <<hubVars, pollVars, loopVars, guard, isolated, inbox>>

\* The paste succeeded, and the old text is put back if there was one; or it
\* failed, and the text stays for the user to paste.
ReturnBoard ==
  /\ paste # Idle
  /\ board' \in {board} \cup
       (IF paste.saved = NoText THEN {} ELSE {[text |-> paste.saved, by |-> "pasted"]})
  /\ paste' = Idle
  /\ UNCHANGED <<hubVars, pollVars, loopVars, guard, isolated, inbox>>

-----------------------------------------------------------------------------
\* The server's end of the websocket.
Server ==
  /\ Subscribe \/ Forward \/ Lag \/ Disconnect
  /\ UNCHANGED <<pollVars, loopVars, boardVars, modeVars>>

Poller == Read \/ Ignore \/ Accept \/ Publish \/ PublishFails
WsLoop == \/ Connects \/ Receive \/ Apply \/ SetGuard
          \/ Unreadable \/ HandlerFails \/ SessionEnds
Hotkey == BorrowBoard \/ ReturnBoard
User == SetIsolated \/ \E t \in Text : Copy(t) \/ Announce(t)

Next ==
  \/ User \/ Poller \/ WsLoop \/ Hotkey \/ Server

Spec == Init /\ [][Next]_vars

\* The server's task keeps forwarding while the connection lasts, and the
\* agent's loop keeps reading and ends every handling it begins.  Of the
\* requests it awaits this assumes that they are answered or fail: the client
\* sets no timeout of its own.  The poller needs no fairness here.
FairSpec ==
  /\ Spec
  /\ WF_vars(Server /\ (Forward \/ Lag))
  /\ WF_vars(Receive \/ Apply \/ Unreadable \/ HandlerFails \/ SetGuard)

-----------------------------------------------------------------------------
(* Properties.                                                             *)

\* The design: the agent must avoid feedback loops, tag the clipboard writes it
\* performs and ignore self-originated clipboard changes.  So no poll publishes
\* what the loop wrote.  The code does not keep this: the guard is set after the
\* write, and a poll between the two takes the text for the user's.
NoEcho ==
  poll.at = "publishing" => poll.by \notin {"remote", "raced"}

\* What is left of it: the loop's text is published back only if the loop was
\* between its write and its guard, or set the guard anew, during that one poll.
\* Polls and applications that do not overlap never echo, in whatever order the
\* user's copies, mode changes and further clips come.
EchoNeedsOverlap ==
  poll.at = "publishing" => poll.by # "remote"

\* Clips take effect in the order they were announced, each at most once,
\* over reconnects, lag and handlers that fail.
AppliedInOrder ==
  [][Apply => \A j \in got : j < loop.clip]_vars

\* A clip announced while the device is subscribed takes effect, unless the
\* connection ends first or the device falls behind or cannot read it.
Delivered ==
  \A i \in 1 .. MaxEvents :
    (conn = "live" /\ cursor <= i /\ i <= Len(log) /\ log[i].from = Other)
      ~> (i \in got \cup missed \/ conn # "live")

\* The README: in system mode every local text copy is published.  A copy
\* may be ignored when its text is what the device shared last anyway.  The
\* code does not keep this: a guard that no poll consumed, because its text
\* was already on the clipboard or was replaced before the poll, swallows a
\* later copy of that text, whatever the device published since.
EveryCopyIsPublished ==
  [][Ignore /\ poll.by = "user" /\ loop = Idle
       => shared = poll.text]_vars
=============================================================================
