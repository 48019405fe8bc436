--------------------------- MODULE OneTimeGrants ---------------------------
(***************************************************************************)
(* What the peer file registry of the agent promises, without workers,     *)
(* clocks or signatures: a publication hands out every one of its files at *)
(* most once, to one transfer at a time, until the publication expires.    *)
(* A slot <<p, i>> is file i of publication p.  PeerGrants implements this *)
(* specification.                                                          *)
(***************************************************************************)
EXTENDS Naturals

CONSTANTS
  Publication,  \* the publications (one transfer token each)
  File          \* the file indexes of a publication

VARIABLES
  status,       \* what a claim of the slot would meet
  running,      \* the slots whose transfer is still in progress
  deliveries    \* how many transfers of the slot ran to their end

vars == <<status, running, deliveries>>

Slot == Publication \X File

\* A slot is unborn until its publication is registered and gone after the
\* publication expired; in between it is free, busy or spent.
Status == {"unborn", "free", "busy", "spent", "gone"}

TypeOK ==
  /\ status \in [Slot -> Status]
  /\ running \subseteq Slot
  /\ deliveries \in [Slot -> Nat]

Init ==
  /\ status = [s \in Slot |-> "unborn"]
  /\ running = {}
  /\ deliveries = [s \in Slot |-> 0]

\* The status map once the publications of E, all registered, have expired.
Expired(E) ==
  [s \in Slot |-> IF s[1] \in E THEN "gone" ELSE status[s]]

Registered(p) == \A i \in File : status[<<p, i>>] # "unborn"

\* Expiry is noticed whenever the registry is used, alone or on the way to
\* something else.
Expire(E) ==
  /\ \A p \in E : Registered(p)
  /\ status' = Expired(E)
  /\ UNCHANGED <<running, deliveries>>

Publish(p, E) ==
  /\ \A q \in E : Registered(q)
  /\ \A i \in File : status[<<p, i>>] = "unborn"
  /\ status' = [s \in Slot |-> IF s[1] = p THEN "free" ELSE Expired(E)[s]]
  /\ UNCHANGED <<running, deliveries>>

Reserve(s, E) ==
  /\ \A q \in E : Registered(q)
  /\ s[1] \notin E
  /\ status[s] = "free"
  /\ s \notin running
  /\ status' = [Expired(E) EXCEPT ![s] = "busy"]
  /\ running' = running \cup {s}
  /\ UNCHANGED deliveries

\* A transfer that ends whole spends the slot; one that outlived its
\* publication still counts as a delivery.
Deliver(s) ==
  /\ s \in running
  /\ deliveries[s] = 0
  /\ status' = [status EXCEPT ![s] = IF @ = "busy" THEN "spent" ELSE @]
  /\ running' = running \ {s}
  /\ deliveries' = [deliveries EXCEPT ![s] = @ + 1]

\* A transfer that fails gives the slot back.
GiveBack(s) ==
  /\ s \in running
  /\ status' = [status EXCEPT ![s] = IF @ = "busy" THEN "free" ELSE @]
  /\ running' = running \ {s}
  /\ UNCHANGED deliveries

\* A transfer may also vanish without giving the slot back, which then stays
\* busy until its publication expires.
Abandon(s) ==
  /\ s \in running
  /\ running' = running \ {s}
  /\ UNCHANGED <<status, deliveries>>

\* The source restarts: whatever was registered is gone, nothing runs on.
Restart ==
  /\ status' = [s \in Slot |-> IF status[s] = "unborn" THEN "unborn" ELSE "gone"]
  /\ running' = {}
  /\ UNCHANGED deliveries

Next ==
  \/ \E E \in SUBSET Publication :
       \/ Expire(E)
       \/ \E p \in Publication : Publish(p, E)
       \/ \E s \in Slot : Reserve(s, E)
  \/ \E s \in Slot : Deliver(s) \/ GiveBack(s) \/ Abandon(s)
  \/ Restart

Spec == Init /\ [][Next]_vars
=============================================================================
