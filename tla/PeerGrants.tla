----------------------------- MODULE PeerGrants -----------------------------
(***************************************************************************)
(* The source side of a file transfer: the registry of one-time file       *)
(* grants of airpaste-agent (peer.rs) and the transfers that use it, the   *)
(* HTTP handlers of the LAN peer server (peer.rs) and the tasks that serve *)
(* a relay session (relay.rs).  Every access to the registry happens under *)
(* its mutex, so each registry call is one step; what a transfer does      *)
(* between two calls interleaves with every other transfer.                *)
(*                                                                         *)
(* Abstracted: a transfer token is its publication, and the clip published *)
(* with token t is also called t; of a request's source id, algorithm and  *)
(* signature only remains whether they check out; file contents are a      *)
(* number of chunks.                                                       *)
(***************************************************************************)
EXTENDS Naturals, FiniteSets

CONSTANTS
  Token,      \* the transfer tokens ever drawn (each is fresh)
  Device,     \* the devices that may ask for a file
  Source,     \* the publishing device itself, a member of Device
  KeySets,    \* the sets of devices a publication may find trusted
  Worker,     \* the concurrent transfers the source can be running
  FileCount,  \* files of a publication (its manifest's length)
  Ttl,        \* life of a grant, in ticks
  MaxTime,    \* bound on the clock
  MaxChunks,  \* bound on the chunks of a file
  None        \* no grant, no clip bound yet, no transfer

Index == 0 .. (FileCount - 1)

\* The registry's entry for a token.
Grant == [clip     : Token \cup {None},
          keys     : SUBSET Device,
          expires  : Nat,
          served   : SUBSET Index,
          inFlight : SUBSET Index]

\* What a transfer is doing: a direct one opens the file and then streams it,
\* a relayed one seals it and then sends it.  left counts the chunks a direct
\* stream has yet to produce.
Job == [step  : {"opening", "streaming", "sealing", "sending"},
        token : Token,
        index : Index,
        left  : 0 .. MaxChunks]

\* A request as the registry sees it.
Request == [clip : Token, requester : Device, signed : BOOLEAN]

ASSUME ConstantsAssumption ==
  /\ Source \in Device
  /\ KeySets \subseteq SUBSET Device
  /\ FileCount \in Nat
  /\ Ttl \in Nat
  /\ MaxTime \in Nat
  /\ MaxChunks \in Nat
  /\ None \notin Grant
  /\ None \notin Job
  /\ None \notin Token

VARIABLES
  now,        \* the monotonic clock (Instant)
  grants,     \* the registry: each token's grant, or None
  phase,      \* how far publish_file_manifest is with the token
  jobs,       \* each worker's transfer, or None
  delivered,  \* history: transfers of the file that ran to their end
  abandoned   \* history: files whose transfer vanished without settling

vars == <<now, grants, phase, jobs, delivered, abandoned>>

TypeOK ==
  /\ now \in Nat
  /\ grants \in [Token -> Grant \cup {None}]
  /\ phase \in [Token -> {"unused", "creating", "published", "failed"}]
  /\ jobs \in [Worker -> Job \cup {None}]
  /\ delivered \in [Token \X Index -> Nat]
  /\ abandoned \subseteq Token \X Index

Init ==
  /\ now = 0
  /\ grants = [t \in Token |-> None]
  /\ phase = [t \in Token |-> "unused"]
  /\ jobs = [w \in Worker |-> None]
  /\ delivered = [s \in Token \X Index |-> 0]
  /\ abandoned = {}

-----------------------------------------------------------------------------
(* The registry's operations, as functions of the registry.                *)

\* cleanup_expired: keeps the grants that expire after now.
Cleaned(reg) ==
  [t \in Token |-> IF reg[t] # None /\ reg[t].expires > now THEN reg[t] ELSE None]

\* Mutant: claim looks at in_flight only.
Mutant_AcceptsServed(reg, t, i, req) ==
  /\ reg[t] # None
  /\ reg[t].clip \in {None, req.clip}
  /\ req.requester \in reg[t].keys /\ req.signed
  /\ i \in Index
  /\ i \notin reg[t].inFlight

\* Mutant: claim looks at served_indexes only.
Mutant_AcceptsInFlight(reg, t, i, req) ==
  /\ reg[t] # None
  /\ reg[t].clip \in {None, req.clip}
  /\ req.requester \in reg[t].keys /\ req.signed
  /\ i \in Index
  /\ i \notin reg[t].served

\* Mutant: claim reserves before it looks the path up.
Mutant_AcceptsAnyIndex(reg, t, i, req) ==
  /\ reg[t] # None
  /\ req.requester \in reg[t].keys
  /\ req.signed
  /\ i \notin reg[t].served \cup reg[t].inFlight

\* claim's chain of checks.  The second look at the clock inside claim can
\* only turn an acceptance into the removal a later claim would make, so it
\* is covered by the claim arriving one tick later.
Accepts(reg, t, i, req) ==
  /\ reg[t] # None
  /\ reg[t].clip \in {None, req.clip}
  /\ req.requester # Source
  /\ req.requester \in reg[t].keys
  /\ req.signed
  /\ i \notin reg[t].served \cup reg[t].inFlight
  /\ i \in Index

\* Mutant: committing forgets to record the index as served.
Mutant_CommitKeepsOpen(reg, t, i) ==
  IF reg[t] = None THEN reg
  ELSE [reg EXCEPT ![t].inFlight = @ \ {i}]

\* commit_served: a missing grant makes it a no-op.
Committed(reg, t, i) ==
  IF reg[t] = None THEN reg
  ELSE [reg EXCEPT ![t].inFlight = @ \ {i}, ![t].served = @ \cup {i}]

\* Mutant: a failed transfer keeps its reservation.
Mutant_ReleaseNothing(reg, t, i) == reg

\* Mutant: a failed transfer frees every reservation of the grant.
Mutant_ReleaseAll(reg, t, i) ==
  IF reg[t] = None THEN reg ELSE [reg EXCEPT ![t].inFlight = {}]

\* release: the index can be claimed again.
Released(reg, t, i) ==
  IF reg[t] = None THEN reg
  ELSE [reg EXCEPT ![t].inFlight = @ \ {i}]

-----------------------------------------------------------------------------
(* Publishing: publish_file_manifest registers the grant before the clip   *)
(* exists and binds the clip's id when the server has answered.            *)

\* register, with the keys of the devices that are trusted at this moment.
Register(t, keys) ==
  /\ phase[t] = "unused"
  /\ grants' = [Cleaned(grants) EXCEPT ![t] =
                  [clip |-> None, keys |-> keys, expires |-> now + Ttl,
                   served |-> {}, inFlight |-> {}]]
  /\ phase' = [phase EXCEPT ![t] = "creating"]
  /\ UNCHANGED <<now, jobs, delivered, abandoned>>

\* create_clip answered: bind_clip_id, a no-op when the grant is gone.
Bind(t) ==
  /\ phase[t] = "creating"
  /\ phase' = [phase EXCEPT ![t] = "published"]
  /\ grants' = IF grants[t] = None THEN grants
               ELSE [grants EXCEPT ![t].clip = t]
  /\ UNCHANGED <<now, jobs, delivered, abandoned>>

\* create_clip failed: the error leaves the grant registered and unbound.
\* The server may have stored the clip all the same.
CreateFails(t) ==
  /\ phase[t] = "creating"
  /\ phase' = [phase EXCEPT ![t] = "failed"]
  /\ UNCHANGED <<now, grants, jobs, delivered, abandoned>>

-----------------------------------------------------------------------------
(* Claiming, on behalf of a direct request ("opening") or of a relayed one *)
(* ("sealing").  A refused claim has still cleaned the registry.           *)

Claim(w, t, i, req, step) ==
  LET reg == Cleaned(grants) IN
  /\ jobs[w] = None
  /\ Accepts(reg, t, i, req)
  /\ grants' = [reg EXCEPT ![t].inFlight = @ \cup {i}]
  /\ jobs' = [jobs EXCEPT ![w] =
                [step |-> step, token |-> t, index |-> i, left |-> 0]]
  /\ UNCHANGED <<now, phase, delivered, abandoned>>

Refuse(t, i, req) ==
  LET reg == Cleaned(grants) IN
  /\ ~Accepts(reg, t, i, req)
  /\ grants' = reg
  /\ UNCHANGED <<now, phase, jobs, delivered, abandoned>>

\* The worker's transfer is at this step.
At(w, step) == jobs[w] # None /\ jobs[w].step = step

Slot(w) == <<jobs[w].token, jobs[w].index>>

\* The worker's transfer ran to its end: commit_served.
Finish(w) ==
  /\ grants' = Committed(grants, jobs[w].token, jobs[w].index)
  /\ delivered' = [delivered EXCEPT ![Slot(w)] = @ + 1]
  /\ jobs' = [jobs EXCEPT ![w] = None]
  /\ UNCHANGED <<now, phase, abandoned>>

\* The worker's transfer failed: release.
GiveUp(w) ==
  /\ grants' = Released(grants, jobs[w].token, jobs[w].index)
  /\ jobs' = [jobs EXCEPT ![w] = None]
  /\ UNCHANGED <<now, phase, delivered, abandoned>>

-----------------------------------------------------------------------------
(* A direct download (download_file_inner, GrantStream).                   *)

\* metadata and open succeeded: the body stream owns the reservation from
\* here.  The file's length is read now, not when it was published.
OpenFile(w, chunks) ==
  /\ At(w, "opening")
  /\ jobs' = [jobs EXCEPT ![w].step = "streaming", ![w].left = chunks]
  /\ UNCHANGED <<now, grants, phase, delivered, abandoned>>

\* metadata or open fails, the path is no longer a file, or the client hangs
\* up and the handler is dropped at an await: no code settles the index.
OpenFails(w) ==
  /\ At(w, "opening")
  /\ abandoned' = abandoned \cup {Slot(w)}
  /\ jobs' = [jobs EXCEPT ![w] = None]
  /\ UNCHANGED <<now, grants, phase, delivered>>

\* The connection takes one more chunk out of the stream.
StreamChunk(w) ==
  /\ At(w, "streaming")
  /\ jobs[w].left > 0
  /\ jobs' = [jobs EXCEPT ![w].left = @ - 1]
  /\ UNCHANGED <<now, grants, phase, delivered, abandoned>>

\* settle, at the end of the stream or when it is dropped.  The two may come
\* in any order with the last chunk: what counts is what was taken out.
StreamEnds(w) ==
  /\ At(w, "streaming")
  /\ \/ jobs[w].left = 0 /\ Finish(w)
     \/ jobs[w].left > 0 /\ GiveUp(w)

-----------------------------------------------------------------------------
(* A relayed file (serve_one_file, then the sends of serve_relay_session). *)

\* prepare_relay_file read and sealed the file.
SealFile(w) ==
  /\ At(w, "sealing")
  /\ jobs' = [jobs EXCEPT ![w].step = "sending"]
  /\ UNCHANGED <<now, grants, phase, delivered, abandoned>>

SealFails(w) == At(w, "sealing") /\ GiveUp(w)

\* Header, chunks and FileEnd were all handed to the websocket.
SendSucceeds(w) == At(w, "sending") /\ Finish(w)

SendFails(w) == At(w, "sending") /\ GiveUp(w)

-----------------------------------------------------------------------------
Tick ==
  /\ now < MaxTime
  /\ now' = now + 1
  /\ UNCHANGED <<grants, phase, jobs, delivered, abandoned>>

\* The agent process is replaced: the registry lives in memory only, and a
\* publication under way dies with it.  Tokens are never drawn again.
Restart ==
  /\ grants' = [t \in Token |-> None]
  /\ jobs' = [w \in Worker |-> None]
  /\ phase' = [t \in Token |-> IF phase[t] = "creating" THEN "failed" ELSE phase[t]]
  /\ abandoned' = {}
  /\ UNCHANGED <<now, delivered>>

Publishing ==
  \E t \in Token :
    \/ \E keys \in KeySets : Register(t, keys)
    \/ Bind(t)
    \/ CreateFails(t)

\* A peer may ask for one index past the manifest's end.
Claiming ==
  \E t \in Token, i \in 0 .. FileCount, req \in Request :
    \/ \E w \in Worker, step \in {"opening", "sealing"} : Claim(w, t, i, req, step)
    \/ Refuse(t, i, req)

Transferring ==
  \E w \in Worker :
    \/ \E chunks \in 0 .. MaxChunks : OpenFile(w, chunks)
    \/ OpenFails(w)
    \/ StreamChunk(w)
    \/ StreamEnds(w)
    \/ SealFile(w)
    \/ SealFails(w)
    \/ SendSucceeds(w)
    \/ SendFails(w)

Next == Publishing \/ Claiming \/ Transferring \/ Tick \/ Restart

Spec == Init /\ [][Next]_vars

-----------------------------------------------------------------------------
(* Properties.                                                             *)

Serves(w, t, i) == jobs[w] # None /\ Slot(w) = <<t, i>>

\* Two transfers never carry the same file of the same publication at the
\* same time, whatever mix of direct and relayed requests arrives and even
\* when a transfer outlives the grant it was started under (peer.rs:38-41).
OneTransferPerFile ==
  \A v, w \in Worker :
    jobs[v] # None /\ jobs[w] # None /\ Slot(v) = Slot(w) => v = w

\* No file of a publication runs to its end more than once: the one-time
\* grant of peer.rs:35-37 holds across both transports, retries and expiry.
DeliveredAtMostOnce ==
  \A s \in Token \X Index : delivered[s] <= 1

\* A reserved index is held by a transfer that is still running, except when
\* its transfer vanished between the claim and the body stream: those are the
\* only reservations nobody will settle.
ReservationsAccountedFor ==
  \A t \in Token : grants[t] # None =>
    \A i \in grants[t].inFlight :
      \/ \E w \in Worker : Serves(w, t, i)
      \/ <<t, i>> \in abandoned

\* What the comment at peer.rs:38-40 says of in_flight: the indexes "currently
\* being streamed", cleared on completion or on failure.  The code does not
\* keep this: see OpenFails.
ReservationsAreLive ==
  \A t \in Token : grants[t] # None =>
    \A i \in grants[t].inFlight : \E w \in Worker : Serves(w, t, i)

\* While a grant lives, only the transfer that holds a reservation ends it,
\* and a served index never becomes claimable again ("releasing a committed
\* index must not re-open it", test completed_transfer_is_one_time).
OnlyTheHolderSettles ==
  [][\A t \in Token : grants[t] # None /\ grants'[t] # None =>
       /\ grants[t].served \subseteq grants'[t].served
       /\ \A i \in grants[t].inFlight \ grants'[t].inFlight :
            \E w \in Worker : Serves(w, t, i) /\ jobs'[w] = None]_vars

\* The registry keeps the promise of OneTimeGrants.
SlotStatus(s) ==
  LET g == grants[s[1]] IN
  IF phase[s[1]] = "unused" THEN "unborn"
  ELSE IF g = None THEN "gone"
  ELSE IF s[2] \in g.served THEN "spent"
  ELSE IF s[2] \in g.inFlight THEN "busy" ELSE "free"

Promise == INSTANCE OneTimeGrants WITH
  Publication <- Token,
  File        <- Index,
  status      <- [s \in Token \X Index |-> SlotStatus(s)],
  running     <- {s \in Token \X Index : \E w \in Worker : Serves(w, s[1], s[2])},
  deliveries  <- delivered

ImplementsPromise == Promise!Spec
=============================================================================
