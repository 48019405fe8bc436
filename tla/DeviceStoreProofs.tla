-------------------------- MODULE DeviceStoreProofs --------------------------
(***************************************************************************)
(* Proofs about DeviceStore for every set of devices, codes and requests.  *)
(***************************************************************************)
EXTENDS DeviceStore, TLAPS

\* S holds the founders and whoever a member of S vouched for.
Closed(S) ==
  /\ founders \subseteq S
  /\ \A v \in vouches : v[1] \in S => v[2] \in S

\* What a request carries from one transaction to the next deserves no more
\* trust than the table itself: who answers for it, and the trust it read.
RequestBacked(r, S) ==
  /\ r.kind \in {"trust", "pair", "mint"} => r.by \in S
  /\ r.kind = "confirm" => r.session.by \in S
  /\ r.kind \in {"trust", "pair", "rename", "touch"} =>
       (r.snap # None /\ r.snap.trusted => r.target \in S)

\* Everything that can hand trust on is reached from the founders.
Backed(S) ==
  /\ \A d \in Device : Trusted(d) => d \in S
  /\ \A c \in Code : pairings[c] # None => pairings[c].by \in S
  /\ \A w \in Worker : requests[w] # None => RequestBacked(requests[w], S)

\* The inductive strengthening of TrustIsHandedOn.
TrustIsBacked == \A S \in SUBSET Device : Closed(S) => Backed(S)

-----------------------------------------------------------------------------
\* A request's kind tells its fields.
LEMMA RequestFields ==
  ASSUME NEW r \in Request
  PROVE  /\ r.kind \in {"trust", "pair"} => r \in Trusting
         /\ r.kind = "rename" => r \in Renaming
         /\ r.kind = "touch" => r \in Touching
         /\ r.kind = "register" => r \in Registering
         /\ r.kind = "mint" => r \in Minting
         /\ r.kind = "confirm" => r \in Confirming
BY DEF Request, Trusting, Renaming, Touching, Registering, Minting, Confirming

\* What an update writes back is a device record, trusted if the update trusts
\* or if what it read was.
LEMMA UpdatedRecord ==
  ASSUME NEW r \in Trusting \cup Renaming \cup Touching, r.snap # None
  PROVE  /\ Updated(r) \in DeviceRecord
         /\ Updated(r).trusted = (r.kind \in {"trust", "pair"} \/ r.snap.trusted)
         /\ r.target \in Device
<1>1. r.snap \in DeviceRecord
  BY DEF Trusting, Renaming, Touching, Snap
<1>2. CASE r \in Trusting
  BY <1>1, <1>2 DEF Updated, DeviceRecord, Trusting
<1>3. CASE r \in Renaming
  BY <1>1, <1>3 DEF Updated, DeviceRecord, Renaming
<1>4. CASE r \in Touching
  BY <1>1, <1>4 DEF Updated, DeviceRecord, Touching
<1>5. QED
  BY <1>2, <1>3, <1>4

\* A request that read its target is still a request.
LEMMA SnapTaken ==
  ASSUME NEW r \in Trusting \cup Renaming \cup Touching, NEW s \in Snap
  PROVE  /\ [r EXCEPT !.snap = s] \in Request
         /\ [r EXCEPT !.snap = s].snap = s
         /\ [r EXCEPT !.snap = s].kind = r.kind
         /\ [r EXCEPT !.snap = s].target = r.target
         /\ r.kind \in {"trust", "pair"} => [r EXCEPT !.snap = s].by = r.by
BY DEF Request, Trusting, Renaming, Touching

-----------------------------------------------------------------------------
\* Every variable of DeviceStore keeps its type under every operation.
THEOREM TypeCorrect == Spec => []TypeOK
<1>1. Init => TypeOK
  BY DEF Init, TypeOK
<1>2. TypeOK /\ [Next]_vars => TypeOK'
  <2> SUFFICES ASSUME TypeOK, [Next]_vars
               PROVE  TypeOK'
    OBVIOUS
  <2> USE ConstantsAssumption DEF TypeOK
  <2>1. ASSUME NEW w \in Worker, ReadTable(w)
        PROVE  TypeOK'
    BY <2>1 DEF ReadTable, Request, Registering
  <2>2. ASSUME NEW w \in Worker, NEW d \in Device, NEW name \in Name,
               PutNewDevice(w, d, name)
        PROVE  TypeOK'
    <3>1. requests[w].trusted \in BOOLEAN
      BY <2>2, RequestFields DEF PutNewDevice, Registering
    <3>2. [name |-> name, trusted |-> requests[w].trusted] \in DeviceRecord
      BY <3>1 DEF DeviceRecord
    <3>3. QED
      BY <2>2, <3>2 DEF PutNewDevice
  <2>3. ASSUME NEW w \in Worker, NEW by \in Device, NEW d \in Device, AskTrust(w, by, d)
        PROVE  TypeOK'
    BY <2>3 DEF AskTrust, Request, Trusting, Snap
  <2>4. ASSUME NEW w \in Worker, NEW by \in Device, NEW d \in Device,
               NEW name \in Name, AskRename(w, by, d, name)
        PROVE  TypeOK'
    BY <2>4 DEF AskRename, Request, Renaming, Snap
  <2>5. ASSUME NEW w \in Worker, NEW by \in Device, AskCode(w, by)
        PROVE  TypeOK'
    BY <2>5 DEF AskCode, Request, Minting
  <2>6. ASSUME NEW w \in Worker, NEW d \in Device, Connect(w, d)
        PROVE  TypeOK'
    BY <2>6 DEF Connect, Request, Touching, Snap
  <2>7. ASSUME NEW w \in Worker, GetDevice(w)
        PROVE  TypeOK'
    <3>1. requests[w] \in Trusting \cup Renaming \cup Touching
      BY <2>7, RequestFields DEF GetDevice, Updating
    <3>2. requests[w].target \in Device
      BY <3>1 DEF Trusting, Renaming, Touching
    <3>3. [requests[w] EXCEPT !.snap = devices[requests[w].target]] \in Request
      BY <3>1, <3>2, SnapTaken DEF Snap
    <3>4. QED
      BY <2>7, <3>3 DEF GetDevice
  <2>8. ASSUME NEW w \in Worker, PutDevice(w)
        PROVE  TypeOK'
    <3>1. requests[w] \in Trusting \cup Renaming \cup Touching
      BY <2>8, RequestFields DEF PutDevice, Updating
    <3>2. Updated(requests[w]) \in DeviceRecord /\ requests[w].target \in Device
      BY <2>8, <3>1, UpdatedRecord DEF PutDevice
    <3>3. [requests[w] EXCEPT !.snap = None] \in Request
      BY <3>1, SnapTaken DEF Snap
    <3>4. requests[w].kind \in {"trust", "pair"} => requests[w].by \in Device
      BY <2>8, RequestFields DEF PutDevice, Updating, Trusting
    <3>5. devices' \in [Device -> DeviceRecord \cup {None}]
      BY <2>8, <3>2 DEF PutDevice
    <3>6. requests' \in [Worker -> Request \cup {None}]
      BY <2>8, <3>3 DEF PutDevice
    <3>7. vouches' \subseteq Device \X Device /\ demoted' \subseteq Device
      BY <2>8, <3>2, <3>4 DEF PutDevice
    <3>8. QED
      BY <2>8, <3>5, <3>6, <3>7 DEF PutDevice
  <2>9. ASSUME NEW w \in Worker, NEW d \in Device, PutConfirmed(w, d)
        PROVE  TypeOK'
    <3>1. requests[w] \in Confirming
      BY <2>9, RequestFields DEF PutConfirmed
    <3>2. [requests[w].session EXCEPT !.confirmed = TRUE] \in PairingSession
      BY <3>1 DEF Confirming, PairingSession
    <3>3. [kind |-> "pair", by |-> requests[w].session.by,
           target |-> d, snap |-> None] \in Request
      BY <3>1 DEF Confirming, PairingSession, Request, Trusting, Snap
    <3>4. QED
      BY <2>9, <3>2, <3>3 DEF PutConfirmed
  <2>10. ASSUME NEW w \in Worker, Abandon(w)
         PROVE  TypeOK'
    BY <2>10 DEF Abandon
  <2>11. ASSUME NEW w \in Worker, NEW c \in Code, PutCode(w, c)
         PROVE  TypeOK'
    <3>1. requests[w] \in Minting
      BY <2>11, RequestFields DEF PutCode
    <3>2. [by |-> requests[w].by, expires |-> now + Ttl, confirmed |-> FALSE]
            \in PairingSession
      BY <3>1 DEF Minting, PairingSession
    <3>3. QED
      BY <2>11, <3>2 DEF PutCode
  <2>12. ASSUME NEW w \in Worker, NEW c \in Code, ReadCode(w, c)
         PROVE  TypeOK'
    BY <2>12 DEF ReadCode, Request, Confirming
  <2>13. CASE Tick
    BY <2>13 DEF Tick
  <2>14. CASE Restart
    BY <2>14 DEF Restart
  <2>15. CASE UNCHANGED vars
    BY <2>15 DEF vars
  <2>16. QED
    BY <2>1, <2>2, <2>3, <2>4, <2>5, <2>6, <2>7, <2>8, <2>9, <2>10, <2>11, <2>12,
       <2>13, <2>14, <2>15 DEF Next
<1>3. QED
  BY <1>1, <1>2, PTL DEF Spec

-----------------------------------------------------------------------------
(* Trust is handed on.                                                     *)

\* The part of the invariant that speaks of one set S, carried over one step.
LEMMA BackedStep ==
  ASSUME TypeOK, TypeOK', NEW S \in SUBSET Device, Backed(S), Closed(S)', Next
  PROVE  Backed(S)'
<1> USE ConstantsAssumption DEF TypeOK
<1>1. ASSUME UNCHANGED <<devices, pairings>>,
             NEW w \in Worker, requests'[w] # None => RequestBacked(requests'[w], S),
             \A u \in Worker : u # w => requests'[u] = requests[u]
      PROVE  Backed(S)'
  BY <1>1 DEF Backed, Trusted, RequestBacked
<1>2. \A d \in Device : Verified(d) => d \in S
  BY DEF Backed, Trusted, Verified
<1>3. ASSUME NEW w \in Worker, ReadTable(w)
      PROVE  Backed(S)'
  BY <1>1, <1>3 DEF ReadTable, RequestBacked
<1>4. ASSUME NEW w \in Worker, NEW d \in Device, NEW name \in Name,
             PutNewDevice(w, d, name)
      PROVE  Backed(S)'
  <2>1. \A e \in Device : Trusted(e)' => e \in S
    BY <1>4 DEF PutNewDevice, Backed, Trusted, Closed
  <2>2. UNCHANGED pairings /\ \A u \in Worker : requests'[u] \in {requests[u], None}
    BY <1>4 DEF PutNewDevice
  <2>3. QED
    BY <2>1, <2>2 DEF Backed, RequestBacked
<1>5. ASSUME NEW w \in Worker, NEW by \in Device, NEW d \in Device, AskTrust(w, by, d)
      PROVE  Backed(S)'
  BY <1>1, <1>2, <1>5 DEF AskTrust, RequestBacked
<1>6. ASSUME NEW w \in Worker, NEW by \in Device, NEW d \in Device,
             NEW name \in Name, AskRename(w, by, d, name)
      PROVE  Backed(S)'
  BY <1>1, <1>6 DEF AskRename, RequestBacked
<1>7. ASSUME NEW w \in Worker, NEW by \in Device, AskCode(w, by)
      PROVE  Backed(S)'
  BY <1>1, <1>2, <1>7 DEF AskCode, RequestBacked
<1>8. ASSUME NEW w \in Worker, NEW d \in Device, Connect(w, d)
      PROVE  Backed(S)'
  BY <1>1, <1>8 DEF Connect, RequestBacked
<1>9. ASSUME NEW w \in Worker, GetDevice(w)
      PROVE  Backed(S)'
  <2> DEFINE r == requests[w]
             q == [r EXCEPT !.snap = devices[r.target]]
  <2>1. r \in Trusting \cup Renaming \cup Touching
    BY <1>9, RequestFields DEF GetDevice, Updating
  <2>2. r.target \in Device
    BY <2>1 DEF Trusting, Renaming, Touching
  <2>3. CASE devices[r.target] = None
    BY <1>1, <1>9, <2>3 DEF GetDevice
  <2>4. CASE devices[r.target] # None
    <3>1. /\ q.snap = devices[r.target]
          /\ q.kind = r.kind
          /\ q.target = r.target
          /\ r.kind \in {"trust", "pair"} => q.by = r.by
      BY <2>1, <2>2, SnapTaken DEF Snap
    <3>2. requests'[w] = q /\ UNCHANGED <<devices, pairings>>
      BY <1>9, <2>4 DEF GetDevice
    <3>3. r.kind \in {"trust", "pair", "rename", "touch"} /\ RequestBacked(r, S)
      BY <1>9 DEF GetDevice, Updating, Backed
    <3>4. q.snap.trusted => q.target \in S
      BY <2>2, <2>4, <3>1 DEF Backed, Trusted
    <3> HIDE DEF q, r
    <3>5. RequestBacked(q, S)
      BY <3>1, <3>3, <3>4 DEF RequestBacked
    <3>6. \A u \in Worker : u # w => requests'[u] = requests[u]
      BY <1>9, <2>4 DEF GetDevice
    <3>7. QED
      BY <1>1, <3>2, <3>5, <3>6
  <2>5. QED
    BY <2>3, <2>4
<1>10. ASSUME NEW w \in Worker, PutDevice(w)
       PROVE  Backed(S)'
  <2> DEFINE r == requests[w]
  <2>1. /\ r \in Trusting \cup Renaming \cup Touching
        /\ r.snap # None
        /\ r.kind \in {"trust", "pair", "rename", "touch"}
    BY <1>10, RequestFields DEF PutDevice, Updating
  <2>2. RequestBacked(r, S)
    BY <1>10 DEF PutDevice, Updating, Backed
  <2>3. /\ Updated(r).trusted = (r.kind \in {"trust", "pair"} \/ r.snap.trusted)
        /\ r.target \in Device
    BY <2>1, UpdatedRecord
  <2>4. r.kind \in {"trust", "pair"} => r.target \in S
    <3>1. CASE r.snap.trusted
      BY <2>1, <2>2, <3>1 DEF RequestBacked
    <3>2. CASE ~r.snap.trusted
      <4>1. r.kind \in {"trust", "pair"} => <<r.by, r.target>> \in vouches'
        BY <1>10, <3>2 DEF PutDevice
      <4>2. r.kind \in {"trust", "pair"} => r.by \in S
        BY <2>2 DEF RequestBacked
      <4>3. QED
        BY <4>1, <4>2 DEF Closed
    <3>3. QED
      BY <3>1, <3>2
  <2>5. \A d \in Device : Trusted(d)' => d \in S
    <3>1. Updated(r).trusted => r.target \in S
      BY <2>1, <2>2, <2>3, <2>4 DEF RequestBacked
    <3>2. devices' = [devices EXCEPT ![r.target] = Updated(r)]
      BY <1>10 DEF PutDevice
    <3> HIDE DEF r
    <3>3. QED
      BY <2>3, <3>1, <3>2 DEF Backed, Trusted
  <2>6. \A c \in Code : pairings'[c] # None => pairings'[c].by \in S
    BY <1>10 DEF PutDevice, Backed
  <2>7. \A u \in Worker : requests'[u] # None => RequestBacked(requests'[u], S)
    <3>1. CASE r.kind = "touch"
      <4>1. /\ [r EXCEPT !.snap = None].snap = None
            /\ [r EXCEPT !.snap = None].kind = "touch"
        BY <2>1, <3>1, SnapTaken DEF Snap
      <4>2. RequestBacked([r EXCEPT !.snap = None], S)
        BY <4>1 DEF RequestBacked
      <4>3. \A u \in Worker : requests'[u] = IF u = w THEN [r EXCEPT !.snap = None]
                                             ELSE requests[u]
        BY <1>10, <3>1 DEF PutDevice
      <4> HIDE DEF r
      <4>4. QED
        BY <4>2, <4>3 DEF Backed
    <3>2. CASE r.kind # "touch"
      BY <1>10, <3>2 DEF PutDevice, Backed
    <3>3. QED
      BY <3>1, <3>2
  <2>8. QED
    BY <2>5, <2>6, <2>7 DEF Backed, RequestBacked
<1>11. ASSUME NEW w \in Worker, NEW d \in Device, PutConfirmed(w, d)
       PROVE  Backed(S)'
  <2> DEFINE r == requests[w]
             q == [kind |-> "pair", by |-> r.session.by, target |-> d, snap |-> None]
  <2>1. r \in Confirming /\ r.session.by \in S
    BY <1>11, RequestFields DEF PutConfirmed, Backed, RequestBacked
  <2>2. [r.session EXCEPT !.confirmed = TRUE].by = r.session.by /\ r.code \in Code
    BY <2>1 DEF Confirming, PairingSession
  <2>3. RequestBacked(q, S)
    BY <2>1 DEF RequestBacked
  <2>4. /\ UNCHANGED devices
        /\ pairings' = [pairings EXCEPT ![r.code] =
                          [r.session EXCEPT !.confirmed = TRUE]]
        /\ requests' = [requests EXCEPT ![w] = q]
    BY <1>11 DEF PutConfirmed
  <2> HIDE DEF r, q
  <2>5. QED
    BY <2>1, <2>2, <2>3, <2>4 DEF Backed, Trusted, RequestBacked
<1>12. ASSUME NEW w \in Worker, Abandon(w)
       PROVE  Backed(S)'
  BY <1>1, <1>12 DEF Abandon
<1>13. ASSUME NEW w \in Worker, NEW c \in Code, PutCode(w, c)
       PROVE  Backed(S)'
  <2>1. requests[w].by \in S
    BY <1>13 DEF PutCode, Backed, RequestBacked
  <2>2. QED
    BY <1>13, <2>1 DEF PutCode, Backed, Trusted, RequestBacked
<1>14. ASSUME NEW w \in Worker, NEW c \in Code, ReadCode(w, c)
       PROVE  Backed(S)'
  <2>1. pairings[c].by \in S
    BY <1>14 DEF ReadCode, Backed
  <2>2. QED
    BY <1>1, <1>14, <2>1 DEF ReadCode, RequestBacked
<1>15. CASE Tick
  BY <1>15 DEF Tick, Backed, Trusted, RequestBacked
<1>16. CASE Restart
  BY <1>16 DEF Restart, Backed, Trusted
<1>17. QED
  BY <1>3, <1>4, <1>5, <1>6, <1>7, <1>8, <1>9, <1>10, <1>11, <1>12, <1>13, <1>14,
     <1>15, <1>16 DEF Next

\* What can hand trust on is reached from the founders, in every state.
THEOREM BackedAlways == Spec => []TrustIsBacked
<1>1. Init => TrustIsBacked
  BY DEF Init, TrustIsBacked, Backed, Trusted
<1>2. TypeOK /\ TypeOK' /\ TrustIsBacked /\ [Next]_vars => TrustIsBacked'
  <2> SUFFICES ASSUME TypeOK, TypeOK', TrustIsBacked, [Next]_vars,
                      NEW S \in SUBSET Device, Closed(S)'
               PROVE  Backed(S)'
    BY DEF TrustIsBacked
  <2>1. CASE UNCHANGED vars
    BY <2>1 DEF vars, TrustIsBacked, Closed, Backed, Trusted, RequestBacked
  <2>2. CASE Next
    <3>1. founders \subseteq founders' /\ vouches \subseteq vouches'
      BY <2>2 DEF Next, ReadTable, PutNewDevice, AskTrust, AskRename, AskCode, Connect,
                  GetDevice, PutDevice, PutConfirmed, Abandon, PutCode, ReadCode,
                  Tick, Restart
    <3>2. Backed(S)
      BY <3>1 DEF TrustIsBacked, Closed
    <3>3. QED
      BY <2>2, <3>2, BackedStep
  <2>3. QED
    BY <2>1, <2>2
<1>3. QED
  BY <1>1, <1>2, TypeCorrect, PTL DEF Spec

\* The chain of trust: whatever requests race, every trusted device is linked
\* to a founder by devices that were trusted when they vouched.
THEOREM ChainOfTrust == Spec => []TrustIsHandedOn
<1>1. TrustIsBacked => TrustIsHandedOn
  BY DEF TrustIsBacked, TrustIsHandedOn, Closed, Backed
<1>2. QED
  BY <1>1, BackedAlways, PTL

-----------------------------------------------------------------------------
(* Trust is not lost by a heartbeat.                                       *)

\* A websocket's device was trusted when it connected: it still is, or a rename
\* took that away, and so is what the websocket read of it.
TouchFits(r) ==
  r.kind = "touch" =>
    /\ Trusted(r.target) \/ r.target \in demoted
    /\ r.snap # None /\ ~r.snap.trusted => r.target \in demoted

TouchedWereTrusted ==
  \A w \in Worker : requests[w] # None => TouchFits(requests[w])

\* Only an update can take trust away: a rename that is noted, or a heartbeat
\* that repeats what one did.
LEMMA TrustLost ==
  ASSUME TypeOK, TouchedWereTrusted, [Next]_vars,
         NEW d \in Device, Trusted(d), ~Trusted(d)'
  PROVE  d \in demoted'
<1>1. PICK w \in Worker : PutDevice(w)
  <2>1. devices' # devices
    BY DEF Trusted
  <2>2. ~ \E w \in Worker, e \in Device, name \in Name : PutNewDevice(w, e, name)
    BY ConstantsAssumption DEF PutNewDevice, Trusted, TypeOK, DeviceRecord
  <2> QED
    BY <2>1, <2>2 DEF Next, vars, ReadTable, AskTrust, AskRename, AskCode, Connect, GetDevice,
                      PutConfirmed, Abandon, PutCode, ReadCode, Tick, Restart
<1> PICK r : r = requests[w]
  OBVIOUS
<1>2. /\ r \in Trusting \cup Renaming \cup Touching /\ r.snap # None
      /\ r.kind \in {"trust", "pair", "rename", "touch"}
      /\ devices' = [devices EXCEPT ![r.target] = Updated(r)]
      /\ demoted' = IF r.kind = "rename" /\ Trusted(r.target) /\ ~r.snap.trusted
                    THEN demoted \cup {r.target} ELSE demoted
  BY <1>1, RequestFields DEF PutDevice, Updating, TypeOK
<1>3. d = r.target
  BY <1>2 DEF Trusted, TypeOK
<1>4. r.kind \notin {"trust", "pair"} /\ ~r.snap.trusted
  BY <1>2, <1>3, UpdatedRecord, ConstantsAssumption DEF Trusted, TypeOK
<1>5. CASE r.kind = "rename"
  BY <1>2, <1>3, <1>4, <1>5
<1>6. CASE r.kind = "touch"
  BY <1>1, <1>2, <1>3, <1>4, <1>6 DEF TouchedWereTrusted, TouchFits, PutDevice, Updating
<1> QED
  BY <1>2, <1>4, <1>5, <1>6

LEMMA TouchedStep ==
  ASSUME TypeOK, TypeOK', TouchedWereTrusted, [Next]_vars
  PROVE  TouchedWereTrusted'
<1>1. /\ demoted \subseteq demoted'
      /\ \A d \in Device : Trusted(d) \/ d \in demoted => Trusted(d)' \/ d \in demoted'
  <2>1. demoted \subseteq demoted'
    BY DEF Next, vars, ReadTable, PutNewDevice, AskTrust, AskRename, AskCode, Connect, GetDevice,
           PutDevice, PutConfirmed, Abandon, PutCode, ReadCode, Tick, Restart
  <2> QED
    BY <2>1, TrustLost
<1> DEFINE Fits(w) == \A q : q = requests'[w] /\ q # None => TouchFits(q)'
<1>2. ASSUME NEW w \in Worker, requests'[w] = requests[w]
      PROVE  Fits(w)
  <2> SUFFICES ASSUME NEW q, q = requests[w], q # None, q.kind = "touch"
               PROVE  TouchFits(q)'
    BY <1>2 DEF TouchFits
  <2>1. q.target \in Device
    BY RequestFields DEF TypeOK, Touching
  <2>2. TouchFits(q)
    BY DEF TouchedWereTrusted
  <2> QED
    BY <1>1, <2>1, <2>2 DEF TouchFits
<1>3. ASSUME NEW w \in Worker, requests'[w] = None \/ requests'[w].kind # "touch"
      PROVE  Fits(w)
  BY <1>3 DEF TouchFits
<1>4. ASSUME NEW w \in Worker, NEW d \in Device, Connect(w, d)
      PROVE  Fits(w)
  <2>1. /\ requests'[w].target = d /\ requests'[w].snap = None
        /\ Trusted(d) /\ d \in Device
    BY <1>4 DEF Connect, Verified, Trusted, TypeOK
  <2> QED
    BY <1>1, <2>1 DEF TouchFits
<1>5. ASSUME NEW w \in Worker, GetDevice(w) \/ PutDevice(w)
      PROVE  Fits(w)
  <2> PICK r : r = requests[w]
    OBVIOUS
  <2>1. r \in Trusting \cup Renaming \cup Touching
    BY <1>5, RequestFields DEF GetDevice, PutDevice, Updating, TypeOK
  <2>2. requests'[w] = None \/ \E s \in Snap :
          /\ requests'[w] = [r EXCEPT !.snap = s]
          /\ s \in {None, devices[r.target]}
    BY <1>5, <2>1 DEF GetDevice, PutDevice, TypeOK, Snap, Trusting, Renaming, Touching
  <2>3. ASSUME NEW s \in Snap, s \in {None, devices[r.target]},
               requests'[w] = [r EXCEPT !.snap = s]
        PROVE  Fits(w)
    <3>1. PICK q : q = [r EXCEPT !.snap = s]
      OBVIOUS
    <3>2. q.kind = r.kind /\ q.target = r.target /\ q.snap = s /\ r.target \in Device
      BY <2>1, <3>1, SnapTaken DEF Trusting, Renaming, Touching
    <3>3. r.kind = "touch" => Trusted(r.target) \/ r.target \in demoted
      BY <1>5 DEF TouchedWereTrusted, TouchFits, GetDevice, PutDevice, Updating
    <3>4. s # None /\ ~s.trusted => ~Trusted(r.target)
      BY <2>3 DEF Trusted
    <3>5. TouchFits(q)'
      BY <1>1, <3>2, <3>3, <3>4 DEF TouchFits
    <3> QED
      BY <2>3, <3>1, <3>5
  <2> QED
    BY <2>2, <2>3, <1>3
<1> HIDE DEF Fits
<1>6. ASSUME NEW w \in Worker,
             \/ ReadTable(w) \/ Abandon(w) \/ \E c \in Code : PutCode(w, c) \/ ReadCode(w, c)
             \/ \E d \in Device : AskCode(w, d) \/ PutConfirmed(w, d)
             \/ \E d \in Device, name \in Name : PutNewDevice(w, d, name)
             \/ \E by, d \in Device : AskTrust(w, by, d) \/ \E name \in Name : AskRename(w, by, d, name)
      PROVE  Fits(w)
  <2>1. requests'[w] = None \/ requests'[w].kind # "touch"
    BY <1>6 DEF ReadTable, Abandon, PutCode, ReadCode, AskCode, PutConfirmed, PutNewDevice,
                AskTrust, AskRename, TypeOK
  <2> QED
    BY <1>3, <2>1
<1>7. ASSUME NEW w \in Worker
      PROVE  Fits(w)
  <2>1. CASE requests'[w] = requests[w]
    BY <1>2, <2>1
  <2>2. CASE Restart
    BY <1>3, <2>2 DEF Restart
  <2>3. ASSUME requests'[w] # requests[w], ~Restart
        PROVE  Fits(w)
    <3>1. \A u \in Worker : u # w =>
            /\ ~ReadTable(u) /\ ~GetDevice(u) /\ ~PutDevice(u) /\ ~Abandon(u)
            /\ \A d \in Device : ~AskCode(u, d) /\ ~Connect(u, d) /\ ~PutConfirmed(u, d)
            /\ \A d \in Device, name \in Name : ~PutNewDevice(u, d, name)
            /\ \A by, d \in Device : ~AskTrust(u, by, d) /\ \A name \in Name : ~AskRename(u, by, d, name)
            /\ \A c \in Code : ~PutCode(u, c) /\ ~ReadCode(u, c)
      BY <2>3 DEF ReadTable, GetDevice, PutDevice, Abandon, AskCode, Connect, PutConfirmed,
                  PutNewDevice, AskTrust, AskRename, PutCode, ReadCode, TypeOK
    <3>2. ~Tick /\ ~UNCHANGED vars
      BY <2>3 DEF Tick, vars
    <3> QED
      BY <1>4, <1>5, <1>6, <2>3, <3>1, <3>2 DEF Next
  <2> QED
    BY <2>1, <2>2, <2>3
<1> QED
  BY <1>7 DEF Fits, TouchedWereTrusted

\* No update takes trust away but a rename that had read the device before it
\* was trusted (TrustLostOnlyToStaleRename), or a heartbeat that repeats what
\* such a rename did: approvals, confirmations and heartbeats never start it.
THEOREM RenamesDemote == Spec => TrustLostOnlyToStaleRename
<1> DEFINE Kept == \A d \in Device : Trusted(d) /\ ~Trusted(d)' => d \in demoted'
<1>1. Init => TouchedWereTrusted
  BY DEF Init, TouchedWereTrusted
<1>2. TypeOK /\ TypeOK' /\ TouchedWereTrusted /\ [Next]_vars => TouchedWereTrusted'
  BY TouchedStep
<1>3. TypeOK /\ TouchedWereTrusted /\ [Next]_vars => [Kept]_vars
  BY TrustLost
<1> QED
  BY <1>1, <1>2, <1>3, TypeCorrect, PTL DEF Spec, TrustLostOnlyToStaleRename
=============================================================================
