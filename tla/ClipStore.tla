----------------------------- MODULE ClipStore -----------------------------
(***************************************************************************)
(* The clips and relay sessions the server stores and the requests for     *)
(* them (the clip half of store.rs and its handlers in routes.rs), with    *)
(* the inbox for devices without encryption (state.rs) and the events that *)
(* tell the devices.  Requests come through RequestGate; those of simple   *)
(* devices are let in by a bearer token alone.  Every transaction of the   *)
(* database, and every lock of the inbox, is one step, so the calls of     *)
(* several requests interleave between them.                               *)
(*                                                                         *)
(* A clip is its identifier, which the server makes up; kind, ciphertext   *)
(* and wrapped keys are left out, and so are the source and recipient of a *)
(* relay session, whose two trust checks may refuse it at any time.        *)
(***************************************************************************)
EXTENDS RequestGate

CONSTANTS
  Clip,     \* clips ever created
  Session,  \* relay sessions ever created
  Life      \* lifetimes a clip may be created with

ASSUME StoreAssumption ==
  /\ Life \subseteq Nat
  /\ None \notin Clip \cup Session
  /\ Clip \cap Session = {}

VARIABLES
  made,      \* the clips that were given an identifier
  until,     \* expires_at of each clip
  clips,     \* the clips in the database
  sessions,  \* the relay sessions in the database
  inbox,     \* the clip whose text the simple inbox holds, or None
  arg,       \* the clip or session each slot is about
  stored,    \* history: when each clip was stored, or None
  told,      \* history: clips and sessions the devices were told of
  deleted    \* history: clips deleted by a request

storeVars == <<made, until, clips, sessions, inbox, arg, stored, told, deleted>>
vars == <<gateVars, storeVars>>

TypeOK ==
  /\ GateTypeOK
  /\ made \subseteq Clip
  /\ until \in [Clip -> Nat]
  /\ clips \subseteq Clip
  /\ sessions \subseteq Session
  /\ inbox \in Clip \cup {None}
  /\ arg \in [Slot -> Clip \cup Session \cup {None}]
  /\ stored \in [Clip -> Time \cup {None}]
  /\ told \subseteq Clip \cup Session
  /\ deleted \subseteq Clip

Init ==
  /\ GateInit
  /\ made = {}
  /\ until = [c \in Clip |-> 0]
  /\ clips = {} /\ sessions = {}
  /\ inbox = None
  /\ arg = [r \in Slot |-> None]
  /\ stored = [c \in Clip |-> None]
  /\ told = {} /\ deleted = {}

\* clip_is_expired.
Expired(c) == until[c] <= now

\* A slot begins with p on x: a simple request at once, a signed one after the
\* gate let it pass.
Begin(r, p, x) ==
  /\ Goes(r, p)
  /\ since' = [since EXCEPT ![r] = now]
  /\ arg' = [arg EXCEPT ![r] = x]
  /\ UNCHANGED <<now, stamp, request, expiry, came, last>>

Signed(r) == At(r, "granted")
Simple(r) == At(r, "idle")

Step(r, p, q) ==
  /\ At(r, p)
  /\ Goes(r, q)
  /\ UNCHANGED <<now, stamp, request, since, expiry, came, last, arg>>

\* The answer is sent.
Leave(r) ==
  /\ Freed(r)
  /\ arg' = [arg EXCEPT ![r] = None]
  /\ UNCHANGED <<now, stamp, expiry, last>>

-----------------------------------------------------------------------------
(* create_clip, simple_create_clip.                                        *)

Create(r, c) ==
  /\ Signed(r) \/ Simple(r)
  /\ c \notin made
  /\ made' = made \cup {c}
  /\ \E l \in Life : until' = [until EXCEPT ![c] = now + l]
  /\ Begin(r, "clean", c)
  /\ UNCHANGED <<clips, sessions, inbox, stored, told, deleted>>

\* Mutant: what is live is removed and what is expired kept.
Mutant_Clean(r) ==
  /\ Step(r, "clean", IF arg[r] = None THEN "list" ELSE "put")
  /\ \E t \in since[r] .. now : clips' = {c \in clips : until[c] <= t}
  /\ UNCHANGED <<made, until, sessions, inbox, stored, told, deleted>>

\* Mutant: a call that only cleans up goes on as if it had a clip to store.
Mutant_CleanForAll(r) ==
  /\ Step(r, "clean", "put")
  /\ \E t \in since[r] .. now : clips' = {c \in clips : until[c] > t}
  /\ UNCHANGED <<made, until, sessions, inbox, stored, told, deleted>>

\* cleanup_expired_clips, the first transaction.  Its time was read before the
\* writer's turn came.
Clean(r) ==
  /\ Step(r, "clean", IF arg[r] = None THEN "list" ELSE "put")
  /\ \E t \in since[r] .. now : clips' = {c \in clips : until[c] > t}
  /\ UNCHANGED <<made, until, sessions, inbox, stored, told, deleted>>

Put(r) ==
  /\ Step(r, "put", "announce")
  /\ clips' = clips \cup {arg[r]}
  /\ stored' = [stored EXCEPT ![arg[r]] = now]
  /\ UNCHANGED <<made, until, sessions, inbox, told, deleted>>

\* The event goes to every device.
Announce(r) ==
  /\ At(r, "announce")
  /\ told' = told \cup {arg[r]}
  /\ Step(r, "announce", "mirror") \/ Leave(r)
  /\ UNCHANGED <<made, until, clips, sessions, inbox, stored, deleted>>

\* set_simple_inbox, for a simple upload or a clip with a plaintext copy.
Mirror(r) ==
  /\ At(r, "mirror")
  /\ inbox' = arg[r]
  /\ Leave(r)
  /\ UNCHANGED <<made, until, clips, sessions, stored, told, deleted>>

-----------------------------------------------------------------------------
(* get_clip, latest_clip, clip_history, delete_clip.                       *)

\* Mutant: the expiry is not looked at.
Mutant_Get(r, c) ==
  /\ Signed(r)
  /\ c \in clips /\ Begin(r, "answer", c)
  /\ UNCHANGED <<made, until, clips, sessions, inbox, stored, told, deleted>>

\* An expired clip is deleted in a transaction of its own.
Get(r, c) ==
  /\ Signed(r)
  /\ \/ c \notin clips /\ Begin(r, "answer", None)
     \/ c \in clips /\ Begin(r, IF Expired(c) THEN "drop" ELSE "answer", c)
  /\ UNCHANGED <<made, until, clips, sessions, inbox, stored, told, deleted>>

Drop(r) ==
  /\ At(r, "drop")
  /\ clips' = clips \ {arg[r]}
  /\ Leave(r)
  /\ UNCHANGED <<made, until, sessions, inbox, stored, told, deleted>>

Latest(r) ==
  /\ Signed(r)
  /\ Begin(r, "clean", None)
  /\ UNCHANGED <<made, until, clips, sessions, inbox, stored, told, deleted>>

\* The newest is the answer of the one call, all that fit are the answer of the
\* other: arg is any of them.
List(r) ==
  /\ At(r, "list")
  /\ Goes(r, "answer")
  /\ IF clips = {} THEN UNCHANGED arg ELSE \E c \in clips : arg' = [arg EXCEPT ![r] = c]
  /\ UNCHANGED <<now, stamp, request, since, expiry, came, last>>
  /\ UNCHANGED <<made, until, clips, sessions, inbox, stored, told, deleted>>

Delete(r, c) ==
  /\ Signed(r)
  /\ clips' = clips \ {c}
  /\ deleted' = deleted \cup (clips \cap {c})
  /\ Leave(r)
  /\ UNCHANGED <<made, until, sessions, inbox, stored, told>>

-----------------------------------------------------------------------------
(* simple_latest_clip.                                                     *)

\* Mutant: the comparison is the wrong way round.
Mutant_ReadInbox(r) ==
  /\ Simple(r)
  /\ inbox # None
  /\ Begin(r, IF ~Expired(inbox) THEN "clear" ELSE "answer", inbox)
  /\ UNCHANGED <<made, until, clips, sessions, inbox, stored, told, deleted>>

\* simple_inbox: read under one lock ...
ReadInbox(r) ==
  /\ Simple(r)
  /\ inbox # None
  /\ Begin(r, IF Expired(inbox) THEN "clear" ELSE "answer", inbox)
  /\ UNCHANGED <<made, until, clips, sessions, inbox, stored, told, deleted>>

\* ... and dropped under another, whatever it holds by then.
ClearInbox(r) ==
  /\ At(r, "clear")
  /\ inbox' = None
  /\ Leave(r)
  /\ UNCHANGED <<made, until, clips, sessions, stored, told, deleted>>

-----------------------------------------------------------------------------
(* create_relay_session.                                                   *)

CreateSession(r, s) ==
  /\ Signed(r)
  /\ s \notin sessions
  /\ Begin(r, "tell", s)
  /\ sessions' = sessions \cup {s}
  /\ UNCHANGED <<made, until, clips, inbox, stored, told, deleted>>

\* Each party in turn: source, then recipient.
Tell(r) ==
  /\ At(r, "tell") \/ At(r, "tell recipient")
  /\ told' = told \cup {arg[r]}
  /\ Step(r, "tell", "tell recipient") \/ (At(r, "tell recipient") /\ Leave(r))
  /\ UNCHANGED <<made, until, clips, sessions, inbox, stored, deleted>>

-----------------------------------------------------------------------------
\* An answer goes out; a request for another device, to an untrusted one or
\* for what is not there is refused.
Answer(r) ==
  /\ At(r, "answer") \/ Signed(r)
  /\ Leave(r)
  /\ UNCHANGED <<made, until, clips, sessions, inbox, stored, told, deleted>>

\* The server starts again: the database is what it was, memory is empty.
Restart ==
  /\ GateRestarts
  /\ inbox' = None
  /\ arg' = [r \in Slot |-> None]
  /\ UNCHANGED <<made, until, clips, sessions, stored, told, deleted>>

Handler(r) ==
  \/ Clean(r) \/ Put(r) \/ Announce(r) \/ Mirror(r)
  \/ Drop(r) \/ Latest(r) \/ List(r)
  \/ ReadInbox(r) \/ ClearInbox(r) \/ Tell(r) \/ Answer(r)
  \/ \E c \in Clip : Create(r, c) \/ Get(r, c) \/ Delete(r, c)
  \/ \E s \in Session : CreateSession(r, s)

Next ==
  \/ (Tick \/ (\E q \in Request : Sign(q)) \/ \E r \in Slot : Gate(r)) /\ UNCHANGED storeVars
  \/ \E r \in Slot : Handler(r)
  \/ Restart

Spec == Init /\ [][Next]_vars

-----------------------------------------------------------------------------
(* Properties.                                                             *)

\* Whoever is told of a clip finds it in the database until it is deleted or
\* expires, and a relay session for good: through cleaning up on behalf of
\* other calls, which work with a time that may have passed, and restarts.
ToldOfWhatIsStored ==
  \A x \in told : x \in clips \cup sessions \cup deleted \/ (x \in Clip /\ Expired(x))

\* No call answers with a clip, or a simple text, that had expired when the
\* call began, unless it was stored, late, while the call was under way.
AnswersAreFresh ==
  \A r \in Slot : At(r, "answer") /\ arg[r] \in Clip =>
    until[arg[r]] > since[r] \/ stored[arg[r]] >= since[r]

\* A text leaves the simple inbox before its time only for a newer one, by a
\* restart, or by a reader that found an expired text there which was replaced
\* while the reader went from one lock to the other.
TextIsLostOnlyToOverlap ==
  [][inbox # None /\ ~Expired(inbox) /\ inbox' = None =>
       \/ \A r \in Slot : place'[r] = "idle"
       \/ \E r \in Slot : At(r, "clear") /\ arg[r] # inbox /\ Expired(arg[r])]_vars
=============================================================================
