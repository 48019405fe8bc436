---------------------------- MODULE RequestGate ----------------------------
(***************************************************************************)
(* The middleware every request to the server passes (require_auth and     *)
(* verify_signed_request in routes.rs) with the cache of nonces already    *)
(* used (NonceCache in state.rs).  A client signs each request with a      *)
(* nonce of its own, so a request here is its nonce, and what arrives      *)
(* twice is one request delivered twice.                                   *)
(*                                                                         *)
(* A delivered request has its timestamp compared with the clock, has its  *)
(* signature checked, notes the time, and only then asks for the cache's   *)
(* lock.  Any time may pass between these steps, and other requests may    *)
(* take theirs in between: the one that noted the later time may ask for   *)
(* the lock first, so the lock comes to the waiting slots in any order.    *)
(* The timestamp is compared with the wall clock and the time noted is a   *)
(* monotonic one; they are one clock here, that is, nobody sets the wall   *)
(* clock while the server runs.                                            *)
(*                                                                         *)
(* Bodies, hashes, signatures and bearer tokens are the client's own and   *)
(* right; a device that is not trusted at the moment is refused before     *)
(* anything is recorded, which may happen to any request.                  *)
(***************************************************************************)
EXTENDS Integers

CONSTANTS
  Slot,     \* requests the server handles at a time
  Request,  \* signed requests
  Drift,    \* differences between a client's clock and the server's
  Skew,     \* MAX_REST_SIGNATURE_SKEW
  Ttl,      \* what NonceCache::new is given
  MaxTime,  \* bound on the server's clock
  None

ASSUME GateAssumption ==
  /\ Drift \subseteq Int
  /\ Skew \in Nat /\ Ttl \in Nat /\ MaxTime \in Nat
  /\ None \notin Request \cup Int

VARIABLES
  now,      \* the server's clock
  stamp,    \* when each request says it was signed, or None if not sent yet
  place,    \* what each slot does
  request,  \* the signed request in each slot
  since,    \* the time each slot noted last
  expiry,   \* the cache: when each nonce may be forgotten, or None
  came,     \* history: when the timestamp of the request in each slot was checked
  last      \* history: the time noted for the last acceptance of each request
            \* since the server started, or None

gateVars == <<now, stamp, place, request, since, expiry, came, last>>


Time == 0 .. MaxTime
Place == {"idle", "checked", "locking", "granted", "clean", "put", "announce", "mirror",
          "drop", "list", "clear", "tell", "tell recipient", "answer"}

GateTypeOK ==
  /\ now \in Time
  /\ stamp \in [Request -> Int \cup {None}]
  /\ place \in [Slot -> Place]
  /\ request \in [Slot -> Request \cup {None}]
  /\ since \in [Slot -> Time]
  /\ expiry \in [Request -> Int \cup {None}]
  /\ came \in [Slot -> Time]
  /\ last \in [Request -> Time \cup {None}]

GateInit ==
  /\ now = 0
  /\ stamp = [q \in Request |-> None]
  /\ place = [r \in Slot |-> "idle"]
  /\ request = [r \in Slot |-> None]
  /\ since = [r \in Slot |-> 0]
  /\ expiry = [q \in Request |-> None]
  /\ came = [r \in Slot |-> 0]
  /\ last = [q \in Request |-> None]

At(r, p) == place[r] = p
Goes(r, p) == place' = [place EXCEPT ![r] = p]

\* The slot is free for another request; what it noted is forgotten.
Freed(r) ==
  /\ Goes(r, "idle")
  /\ request' = [request EXCEPT ![r] = None]
  /\ since' = [since EXCEPT ![r] = 0]
  /\ came' = [came EXCEPT ![r] = 0]

-----------------------------------------------------------------------------
Tick ==
  /\ now < MaxTime
  /\ now' = now + 1
  /\ UNCHANGED <<stamp, place, request, since, expiry, came, last>>

\* sign: the client's clock may be off.
Sign(q) ==
  /\ stamp[q] = None
  /\ \E d \in Drift : stamp' = [stamp EXCEPT ![q] = now + d]
  /\ UNCHANGED <<now, place, request, since, expiry, came, last>>

\* Mutant: a timestamp is never too old.
Mutant_InTime(q) == stamp[q] - now <= Skew

\* validate_timestamp.
InTime(q) == stamp[q] - now \in -Skew .. Skew

\* A request arrives, for the first time or again, and its timestamp is right.
Deliver(r, q) ==
  /\ At(r, "idle")
  /\ stamp[q] # None
  /\ InTime(q)
  /\ Goes(r, "checked")
  /\ request' = [request EXCEPT ![r] = q]
  /\ came' = [came EXCEPT ![r] = now]
  /\ UNCHANGED <<now, stamp, since, expiry, last>>

\* record_nonce notes the time and asks for the lock.
Note(r) ==
  /\ At(r, "checked")
  /\ Goes(r, "locking")
  /\ since' = [since EXCEPT ![r] = now]
  /\ UNCHANGED <<now, stamp, request, expiry, came, last>>

\* retain: what the cache keeps at time t.
Kept(t) == [q \in Request |-> IF expiry[q] # None /\ expiry[q] > t THEN expiry[q] ELSE None]

\* record_nonce with the lock held works with the time noted before.
Record(r) ==
  /\ At(r, "locking")
  /\ LET q == request[r]
         cache == Kept(since[r])
     IN IF cache[q] # None
        THEN /\ expiry' = cache
             /\ Freed(r)
             /\ UNCHANGED last
        ELSE /\ expiry' = [cache EXCEPT ![q] = since[r] + Ttl]
             /\ last' = [last EXCEPT ![q] = since[r]]
             /\ Goes(r, "granted")
             /\ came' = [came EXCEPT ![r] = 0]
             /\ UNCHANGED <<request, since>>
  /\ UNCHANGED <<now, stamp>>

\* The server starts again, with an empty cache.
GateRestarts ==
  /\ place' = [r \in Slot |-> "idle"]
  /\ request' = [r \in Slot |-> None]
  /\ since' = [r \in Slot |-> 0]
  /\ expiry' = [q \in Request |-> None]
  /\ came' = [r \in Slot |-> 0]
  /\ last' = [q \in Request |-> None]
  /\ UNCHANGED <<now, stamp>>

Gate(r) == (\E q \in Request : Deliver(r, q)) \/ Note(r) \/ Record(r)

-----------------------------------------------------------------------------
(* Properties.                                                             *)

\* A request that comes again to one run of the server is refused: while the
\* cache has to keep its nonce by the nonce, whatever other requests make the
\* cache forget meanwhile, and after that by its timestamp.  What passes after
\* all was stamped ahead of the server's clock, or had its timestamp checked
\* before the nonce ran out and noted the time, or got the lock, afterwards.
RepeatsAreRefused ==
  [][\A r \in Slot :
       At(r, "locking") /\ place'[r] = "granted" /\ last[request[r]] # None =>
         LET end == last[request[r]] + Ttl
         IN end <= now /\ (stamp[request[r]] + Skew >= end \/ came[r] < end)]_gateVars
=============================================================================
