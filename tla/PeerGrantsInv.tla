---------------------------- MODULE PeerGrantsInv ----------------------------
(***************************************************************************)
(* The inductive invariant behind the safety of PeerGrants.  None of the   *)
(* properties of PeerGrants is inductive as it stands: that two transfers  *)
(* never share a file rests on every running transfer still holding its    *)
(* reservation, or on its grant being gone for good; that a file is        *)
(* delivered once rests on the registry and the history agreeing.          *)
(***************************************************************************)
EXTENDS PeerGrants

\* A running transfer holds its reservation as long as the grant lives.
HolderIsReserved ==
  \A w \in Worker :
    jobs[w] # None /\ grants[jobs[w].token] # None
      => jobs[w].index \in grants[jobs[w].token].inFlight

\* What a live grant calls served is what was delivered, and is not reserved.
ServedIsDelivered ==
  \A t \in Token : grants[t] # None =>
    \A i \in Index :
      /\ i \in grants[t].served => i \notin grants[t].inFlight
      /\ delivered[<<t, i>>] = IF i \in grants[t].served THEN 1 ELSE 0

\* A transfer only ever runs for a file that was not delivered yet.
RunningIsUndelivered ==
  \A w \in Worker : jobs[w] # None => delivered[Slot(w)] = 0

\* Nothing has happened to a token that was never drawn.
UnusedIsUntouched ==
  \A t \in Token : phase[t] = "unused" =>
    /\ grants[t] = None
    /\ \A i \in Index : delivered[<<t, i>>] = 0
    /\ \A w \in Worker : jobs[w] # None => jobs[w].token # t

\* Nobody will be given the file again: nothing carries it, and the grant is
\* gone for good or has the file as served.
Closed(t, i) ==
  /\ phase[t] # "unused"
  /\ grants[t] # None => i \in grants[t].served
  /\ \A w \in Worker : ~Serves(w, t, i)

\* Inductive together with TypeOK.
IInv ==
  /\ HolderIsReserved
  /\ OneTransferPerFile
  /\ ServedIsDelivered
  /\ RunningIsUndelivered
  /\ UnusedIsUntouched
  /\ DeliveredAtMostOnce
  /\ ReservationsAccountedFor
=============================================================================
