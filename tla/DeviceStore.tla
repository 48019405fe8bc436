----------------------------- MODULE DeviceStore -----------------------------
(***************************************************************************)
(* The device and pairing tables of airpaste-server (store.rs) under       *)
(* concurrent requests (routes.rs, ws.rs).  The database makes one get or  *)
(* one put atomic, and no operation here uses more than that: a device is  *)
(* read in one transaction and written back whole in another, so between   *)
(* the two every other request may run.                                    *)
(*                                                                         *)
(* Abstracted: keys, creation and last-seen times of a device, and the     *)
(* candidate of a pairing session, which nothing reads; a signature that   *)
(* does not verify is a request that does nothing.                         *)
(***************************************************************************)
EXTENDS Naturals

CONSTANTS
  Device,   \* the device ids ever drawn
  Name,     \* device names
  Code,     \* pairing codes
  Worker,   \* requests the server handles at once
  Ttl,      \* life of a pairing code, in ticks
  MaxTime,  \* bound on the clock
  None      \* nothing there

DeviceRecord == [name : Name, trusted : BOOLEAN]

PairingSession == [by : Device, expires : Nat, confirmed : BOOLEAN]

\* A request between two of its transactions.  snap is what it read of its
\* target, None before it did; by is who answers for the trust it gives.
Snap == DeviceRecord \cup {None}
Trusting == [kind : {"trust", "pair"}, by : Device, target : Device, snap : Snap]
Renaming == [kind : {"rename"}, name : Name, target : Device, snap : Snap]
Touching == [kind : {"touch"}, target : Device, snap : Snap]
Registering == [kind : {"register"}, trusted : BOOLEAN]
Minting == [kind : {"mint"}, by : Device]
Confirming == [kind : {"confirm"}, code : Code, session : PairingSession]

Request ==
  Trusting \cup Renaming \cup Touching \cup Registering \cup Minting \cup Confirming

ASSUME ConstantsAssumption ==
  /\ Ttl \in Nat /\ MaxTime \in Nat
  /\ None \notin DeviceRecord
  /\ None \notin PairingSession
  /\ None \notin Request

VARIABLES
  now,       \* the wall clock
  devices,   \* the DEVICES table
  pairings,  \* the PAIRINGS table
  requests,  \* what each worker is in the middle of, or None
  founders,  \* history: devices trusted because the table was empty
  vouches,   \* history: <<a, d>> if a's request, or a's code, trusted d
  demoted    \* history: trusted devices that a rename wrote back as untrusted

vars == <<now, devices, pairings, requests, founders, vouches, demoted>>

TypeOK ==
  /\ now \in Nat
  /\ devices \in [Device -> DeviceRecord \cup {None}]
  /\ pairings \in [Code -> PairingSession \cup {None}]
  /\ requests \in [Worker -> Request \cup {None}]
  /\ founders \subseteq Device
  /\ vouches \subseteq Device \X Device
  /\ demoted \subseteq Device

Init ==
  /\ now = 0
  /\ devices = [d \in Device |-> None]
  /\ pairings = [c \in Code |-> None]
  /\ requests = [w \in Worker |-> None]
  /\ founders = {}
  /\ vouches = {}
  /\ demoted = {}

Trusted(d) == devices[d] # None /\ devices[d].trusted

-----------------------------------------------------------------------------
(* Registering, open to everyone.                                          *)

\* register_device reads whether the table is empty ...
ReadTable(w) ==
  /\ requests[w] = None
  /\ requests' = [requests EXCEPT ![w] =
       [kind |-> "register", trusted |-> \A d \in Device : devices[d] = None]]
  /\ UNCHANGED <<now, devices, pairings, founders, vouches, demoted>>

\* ... and puts the new device under a fresh id.
PutNewDevice(w, d, name) ==
  /\ requests[w] # None /\ requests[w].kind = "register"
  /\ devices[d] = None
  /\ devices' = [devices EXCEPT ![d] =
                   [name |-> name, trusted |-> requests[w].trusted]]
  /\ founders' = IF requests[w].trusted THEN founders \cup {d} ELSE founders
  /\ requests' = [requests EXCEPT ![w] = None]
  /\ UNCHANGED <<now, pairings, vouches, demoted>>

-----------------------------------------------------------------------------
(* Requests of a trusted device: validate_trusted_device, then the handler. *)

\* Mutant: any registered device may make them.
Mutant_Verified(by) == devices[by] # None

Verified(by) == devices[by] # None /\ devices[by].trusted

AskTrust(w, by, d) ==
  /\ requests[w] = None
  /\ Verified(by)
  /\ requests' = [requests EXCEPT ![w] =
       [kind |-> "trust", by |-> by, target |-> d, snap |-> None]]
  /\ UNCHANGED <<now, devices, pairings, founders, vouches, demoted>>

\* A trusted device may rename any device.
AskRename(w, by, d, name) ==
  /\ requests[w] = None
  /\ Verified(by)
  /\ requests' = [requests EXCEPT ![w] =
       [kind |-> "rename", name |-> name, target |-> d, snap |-> None]]
  /\ UNCHANGED <<now, devices, pairings, founders, vouches, demoted>>

AskCode(w, by) ==
  /\ requests[w] = None
  /\ Verified(by)
  /\ requests' = [requests EXCEPT ![w] = [kind |-> "mint", by |-> by]]
  /\ UNCHANGED <<now, devices, pairings, founders, vouches, demoted>>

\* ws_upgrade.  The websocket stays open without another look at whether its
\* device is trusted; its hello and its heartbeats touch the device.
Connect(w, d) ==
  /\ requests[w] = None
  /\ Verified(d)
  /\ requests' = [requests EXCEPT ![w] =
       [kind |-> "touch", target |-> d, snap |-> None]]
  /\ UNCHANGED <<now, devices, pairings, founders, vouches, demoted>>

-----------------------------------------------------------------------------
(* The store's read-modify-write operations.                               *)

Updating(w) == requests[w] # None /\ requests[w].kind \in {"trust", "pair", "rename", "touch"}

\* get; NotFound ends the request (a websocket's device is always there).
GetDevice(w) ==
  /\ Updating(w)
  /\ requests[w].snap = None
  /\ requests' = IF devices[requests[w].target] = None
                 THEN [requests EXCEPT ![w] = None]
                 ELSE [requests EXCEPT ![w].snap = devices[requests[w].target]]
  /\ UNCHANGED <<now, devices, pairings, founders, vouches, demoted>>

\* Mutant: trusting writes a fresh record instead of the one it read.
Mutant_Updated(r) ==
  CASE r.kind \in {"trust", "pair"} -> [name |-> None, trusted |-> TRUE]
    [] r.kind = "rename"            -> [r.snap EXCEPT !.name = r.name]
    [] OTHER                        -> r.snap

\* Mutant: renaming resets the rest of the record.
Mutant_UpdatedResets(r) ==
  CASE r.kind \in {"trust", "pair"} -> [r.snap EXCEPT !.trusted = TRUE]
    [] r.kind = "rename"            -> [name |-> r.name, trusted |-> FALSE]
    [] OTHER                        -> r.snap

\* What the request writes back.
Updated(r) ==
  CASE r.kind \in {"trust", "pair"} -> [r.snap EXCEPT !.trusted = TRUE]
    [] r.kind = "rename"            -> [r.snap EXCEPT !.name = r.name]
    [] OTHER                        -> r.snap

\* put.  A websocket then waits for its next heartbeat.
PutDevice(w) ==
  LET r == requests[w] IN
  /\ Updating(w)
  /\ r.snap # None
  /\ devices' = [devices EXCEPT ![r.target] = Updated(r)]
  /\ requests' = IF r.kind = "touch" THEN [requests EXCEPT ![w].snap = None]
                 ELSE [requests EXCEPT ![w] = None]
  /\ vouches' = IF r.kind \in {"trust", "pair"} /\ ~r.snap.trusted
                THEN vouches \cup {<<r.by, r.target>>} ELSE vouches
  /\ demoted' = IF r.kind = "rename" /\ Trusted(r.target) /\ ~r.snap.trusted
                THEN demoted \cup {r.target} ELSE demoted
  /\ UNCHANGED <<now, pairings, founders>>

-----------------------------------------------------------------------------
(* Pairing.                                                                *)

\* start_pairing: a code that is drawn again replaces the older session.
PutCode(w, c) ==
  /\ requests[w] # None /\ requests[w].kind = "mint"
  /\ pairings' = [pairings EXCEPT ![c] =
       [by |-> requests[w].by, expires |-> now + Ttl, confirmed |-> FALSE]]
  /\ requests' = [requests EXCEPT ![w] = None]
  /\ UNCHANGED <<now, devices, founders, vouches, demoted>>

\* confirm_pairing, open to everyone who knows a code: the session is read and
\* its expiry checked (confirmed is not), ...
ReadCode(w, c) ==
  /\ requests[w] = None
  /\ pairings[c] # None
  /\ pairings[c].expires >= now
  /\ requests' = [requests EXCEPT ![w] =
       [kind |-> "confirm", code |-> c, session |-> pairings[c]]]
  /\ UNCHANGED <<now, devices, pairings, founders, vouches, demoted>>

\* ... written back as confirmed, and the device d that the request names, which
\* matters from here on only, trusted like any other.
PutConfirmed(w, d) ==
  LET r == requests[w] IN
  /\ r # None /\ r.kind = "confirm"
  /\ pairings' = [pairings EXCEPT ![r.code] =
       [r.session EXCEPT !.confirmed = TRUE]]
  /\ requests' = [requests EXCEPT ![w] =
       [kind |-> "pair", by |-> r.session.by, target |-> d, snap |-> None]]
  /\ UNCHANGED <<now, devices, founders, vouches, demoted>>

-----------------------------------------------------------------------------
Tick ==
  /\ now < MaxTime
  /\ now' = now + 1
  /\ UNCHANGED <<devices, pairings, requests, founders, vouches, demoted>>

\* A request is dropped before its handler runs, or a websocket closes between
\* two heartbeats.  Nothing is awaited between a get and its put.
Abandon(w) ==
  /\ requests[w] # None
  /\ requests[w].kind \in {"trust", "rename", "touch"} => requests[w].snap = None
  /\ requests[w].kind \in {"mint", "trust", "rename", "touch"}
  /\ requests' = [requests EXCEPT ![w] = None]
  /\ UNCHANGED <<now, devices, pairings, founders, vouches, demoted>>

\* The server stops, between two transactions of a request as well: what was
\* put stays, the rest never happens.
Restart ==
  /\ requests' = [w \in Worker |-> None]
  /\ UNCHANGED <<now, devices, pairings, founders, vouches, demoted>>

Next ==
  \/ \E w \in Worker :
       \/ ReadTable(w)
       \/ \E d \in Device, name \in Name : PutNewDevice(w, d, name)
       \/ \E by, d \in Device :
            AskTrust(w, by, d) \/ \E name \in Name : AskRename(w, by, d, name)
       \/ \E d \in Device : AskCode(w, d) \/ Connect(w, d) \/ PutConfirmed(w, d)
       \/ GetDevice(w) \/ PutDevice(w) \/ Abandon(w)
       \/ \E c \in Code : PutCode(w, c) \/ ReadCode(w, c)
  \/ Tick
  \/ Restart

Spec == Init /\ [][Next]_vars

-----------------------------------------------------------------------------
(* Properties.                                                             *)

\* Trust is only ever handed on: whoever is trusted is linked to a device that
\* registered with an empty table by a chain of requests and codes of devices
\* that were trusted themselves, whatever stale record a request writes back.
\* (S is closed under vouching; the smallest such S is what the founders'
\* trust reaches.)
TrustIsHandedOn ==
  \A S \in SUBSET Device :
    founders \subseteq S /\ (\A v \in vouches : v[1] \in S => v[2] \in S)
      => \A d \in Device : Trusted(d) => d \in S

\* No update takes a device's trust away except a rename that had read it
\* before it was trusted: heartbeats, approvals and confirmations, which write
\* back what they read as well, never do unless such a rename did it before.
TrustLostOnlyToStaleRename ==
  [][\A d \in Device : Trusted(d) /\ ~Trusted(d)' => d \in demoted']_vars
=============================================================================
