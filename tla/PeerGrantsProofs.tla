-------------------------- MODULE PeerGrantsProofs --------------------------
(***************************************************************************)
(* Proofs about PeerGrants for every set of tokens, devices and workers,   *)
(* every number of files and every time to live.                           *)
(***************************************************************************)
EXTENDS PeerGrantsInv, TLAPS

(* The registry's operations.                                              *)

\* Cleaning keeps a grant as it is or drops it.
LEMMA CleanedGrants ==
  ASSUME NEW reg \in [Token -> Grant \cup {None}]
  PROVE  /\ Cleaned(reg) \in [Token -> Grant \cup {None}]
         /\ \A t \in Token : Cleaned(reg)[t] # None => Cleaned(reg)[t] = reg[t]
BY DEF Cleaned

\* Committing an index takes it from in-flight to served and touches no other
\* grant.
LEMMA CommittedGrants ==
  ASSUME NEW reg \in [Token -> Grant \cup {None}],
         NEW t \in Token, NEW i \in Index
  PROVE  /\ Committed(reg, t, i) \in [Token -> Grant \cup {None}]
         /\ \A u \in Token : u # t => Committed(reg, t, i)[u] = reg[u]
         /\ Committed(reg, t, i)[t] = None <=> reg[t] = None
         /\ reg[t] # None =>
              /\ Committed(reg, t, i)[t].inFlight = reg[t].inFlight \ {i}
              /\ Committed(reg, t, i)[t].served = reg[t].served \cup {i}
<1>1. CASE reg[t] = None
  BY <1>1 DEF Committed
<1>2. CASE reg[t] # None
  <2> DEFINE g == [reg[t] EXCEPT !.inFlight = @ \ {i}, !.served = @ \cup {i}]
  <2>1. reg[t] \in Grant
    BY <1>2
  <2>2. /\ g \in Grant
        /\ g.inFlight = reg[t].inFlight \ {i}
        /\ g.served = reg[t].served \cup {i}
    BY <2>1 DEF Grant
  <2>3. Committed(reg, t, i) = [reg EXCEPT ![t] = g]
    BY <1>2, <2>1 DEF Committed, Grant
  <2>4. g # None
    BY <2>2, ConstantsAssumption
  <2> HIDE DEF g
  <2>5. QED
    BY <1>2, <2>2, <2>3, <2>4
<1>3. QED
  BY <1>1, <1>2

\* Releasing an index takes it out of in-flight and touches nothing else.
LEMMA ReleasedGrants ==
  ASSUME NEW reg \in [Token -> Grant \cup {None}],
         NEW t \in Token, NEW i \in Index
  PROVE  /\ Released(reg, t, i) \in [Token -> Grant \cup {None}]
         /\ \A u \in Token : u # t => Released(reg, t, i)[u] = reg[u]
         /\ Released(reg, t, i)[t] = None <=> reg[t] = None
         /\ reg[t] # None =>
              /\ Released(reg, t, i)[t].inFlight = reg[t].inFlight \ {i}
              /\ Released(reg, t, i)[t].served = reg[t].served
BY ConstantsAssumption DEF Released, Grant

-----------------------------------------------------------------------------
(* Type correctness.                                                       *)

\* No operation of PeerGrants takes a variable out of its type.
LEMMA TypeStep ==
  ASSUME TypeOK, [Next]_vars
  PROVE  TypeOK'
<1> USE ConstantsAssumption DEF TypeOK
<1>1. ASSUME NEW t \in Token, NEW keys \in KeySets, Register(t, keys)
      PROVE  TypeOK'
  <2>1. [clip |-> None, keys |-> keys, expires |-> now + Ttl,
         served |-> {}, inFlight |-> {}] \in Grant
    BY DEF Grant
  <2>2. QED
    BY <1>1, <2>1, CleanedGrants DEF Register
<1>2. ASSUME NEW t \in Token, Bind(t)
      PROVE  TypeOK'
  <2>1. grants[t] # None => [grants[t] EXCEPT !.clip = t] \in Grant
    BY DEF Grant
  <2>2. QED
    BY <1>2, <2>1 DEF Bind
<1>3. ASSUME NEW t \in Token, CreateFails(t)
      PROVE  TypeOK'
  BY <1>3 DEF CreateFails
<1>4. ASSUME NEW w \in Worker, NEW t \in Token, NEW i \in 0 .. FileCount,
             NEW req \in Request, NEW step \in {"opening", "sealing"},
             Claim(w, t, i, req, step)
      PROVE  TypeOK'
  <2>1. i \in Index /\ Cleaned(grants)[t] # None
    BY <1>4 DEF Claim, Accepts
  <2>2. [Cleaned(grants)[t] EXCEPT !.inFlight = @ \cup {i}] \in Grant
    BY <2>1, CleanedGrants DEF Grant
  <2>3. [step |-> step, token |-> t, index |-> i, left |-> 0] \in Job
    BY <2>1 DEF Job
  <2>4. QED
    BY <1>4, <2>1, <2>2, <2>3, CleanedGrants DEF Claim
<1>5. ASSUME NEW t \in Token, NEW i \in 0 .. FileCount, NEW req \in Request,
             Refuse(t, i, req)
      PROVE  TypeOK'
  BY <1>5, CleanedGrants DEF Refuse
<1>6. ASSUME NEW w \in Worker, jobs[w] # None, Finish(w)
      PROVE  TypeOK'
  <2>1. jobs[w].token \in Token /\ jobs[w].index \in Index
    BY <1>6 DEF Job
  <2>2. QED
    BY <1>6, <2>1, CommittedGrants DEF Finish, Slot
<1>7. ASSUME NEW w \in Worker, jobs[w] # None, GiveUp(w)
      PROVE  TypeOK'
  <2>1. jobs[w].token \in Token /\ jobs[w].index \in Index
    BY <1>7 DEF Job
  <2>2. QED
    BY <1>7, <2>1, ReleasedGrants DEF GiveUp
<1>8. ASSUME NEW w \in Worker, NEW chunks \in 0 .. MaxChunks, OpenFile(w, chunks)
      PROVE  TypeOK'
  <2>1. [jobs[w] EXCEPT !.step = "streaming", !.left = chunks] \in Job
    BY <1>8 DEF OpenFile, At, Job
  <2>2. QED
    BY <1>8, <2>1 DEF OpenFile, At
<1>9. ASSUME NEW w \in Worker, OpenFails(w)
      PROVE  TypeOK'
  BY <1>9 DEF OpenFails, At, Slot, Job
<1>10. ASSUME NEW w \in Worker, StreamChunk(w)
       PROVE  TypeOK'
  <2>1. [jobs[w] EXCEPT !.left = @ - 1] \in Job
    BY <1>10 DEF StreamChunk, At, Job
  <2>2. QED
    BY <1>10, <2>1 DEF StreamChunk, At
<1>11. ASSUME NEW w \in Worker, SealFile(w)
       PROVE  TypeOK'
  <2>1. [jobs[w] EXCEPT !.step = "sending"] \in Job
    BY <1>11 DEF SealFile, At, Job
  <2>2. QED
    BY <1>11, <2>1 DEF SealFile, At
<1>12. CASE Tick
  BY <1>12 DEF Tick
<1>13. CASE Restart
  BY <1>13 DEF Restart
<1>14. CASE UNCHANGED vars
  BY <1>14 DEF vars
<1>15. CASE Transferring
  BY <1>6, <1>7, <1>8, <1>9, <1>10, <1>11, <1>15
     DEF Transferring, StreamEnds, SealFails, SendSucceeds, SendFails, At
<1>16. QED
  BY <1>1, <1>2, <1>3, <1>4, <1>5, <1>12, <1>13, <1>14, <1>15
     DEF Next, Publishing, Claiming

\* Every variable of PeerGrants keeps its type under every operation.
THEOREM TypeCorrect == Spec => []TypeOK
<1>1. Init => TypeOK
  BY DEF Init, TypeOK
<1>2. QED
  BY <1>1, TypeStep, PTL DEF Spec

-----------------------------------------------------------------------------
(* The inductive invariant: one lemma for each kind of step.               *)

\* A job is what Job says, so its slot is a slot.
LEMMA JobFields ==
  ASSUME TypeOK, NEW w \in Worker, jobs[w] # None
  PROVE  /\ jobs[w] \in Job
         /\ jobs[w].token \in Token
         /\ jobs[w].index \in Index
         /\ Slot(w) = <<jobs[w].token, jobs[w].index>>
         /\ Slot(w) \in Token \X Index
BY DEF TypeOK, Job, Slot

\* Dropping expired grants disturbs no part of the invariant: a transfer whose
\* grant is gone needs no reservation.
LEMMA RegistryCleaned ==
  ASSUME TypeOK, IInv, NEW reg,
         reg = Cleaned(grants), grants' = reg,
         UNCHANGED <<phase, jobs, delivered, abandoned>>
  PROVE  IInv'
<1> USE CleanedGrants DEF TypeOK
<1>1. HolderIsReserved'
  BY JobFields DEF IInv, HolderIsReserved
<1>2. OneTransferPerFile'
  BY DEF IInv, OneTransferPerFile, Slot
<1>3. ServedIsDelivered'
  BY DEF IInv, ServedIsDelivered
<1>4. RunningIsUndelivered'
  BY DEF IInv, RunningIsUndelivered, Slot
<1>5. UnusedIsUntouched'
  BY DEF IInv, UnusedIsUntouched
<1>6. DeliveredAtMostOnce'
  BY DEF IInv, DeliveredAtMostOnce
<1>7. ReservationsAccountedFor'
  BY DEF IInv, ReservationsAccountedFor, Serves, Slot
<1>8. QED
  BY <1>1, <1>2, <1>3, <1>4, <1>5, <1>6, <1>7 DEF IInv

LEMMA RegisterKeepsIInv ==
  ASSUME TypeOK, IInv, NEW t \in Token, NEW keys \in KeySets, Register(t, keys)
  PROVE  IInv'
<1> USE CleanedGrants DEF TypeOK
<1>1. /\ grants'[t].served = {}
      /\ grants'[t].inFlight = {}
      /\ \A u \in Token : u # t /\ grants'[u] # None => grants'[u] = grants[u]
      /\ \A i \in Index : delivered[<<t, i>>] = 0
      /\ \A w \in Worker : jobs[w] # None => jobs[w].token # t
      /\ UNCHANGED <<jobs, delivered, abandoned>>
  BY DEF Register, IInv, UnusedIsUntouched
<1>2. HolderIsReserved'
  BY <1>1, JobFields DEF IInv, HolderIsReserved
<1>3. OneTransferPerFile'
  BY <1>1 DEF IInv, OneTransferPerFile, Slot
<1>4. ServedIsDelivered'
  BY <1>1 DEF IInv, ServedIsDelivered
<1>5. RunningIsUndelivered'
  BY <1>1 DEF IInv, RunningIsUndelivered, Slot
<1>6. UnusedIsUntouched'
  BY <1>1 DEF Register, IInv, UnusedIsUntouched
<1>7. DeliveredAtMostOnce'
  BY <1>1 DEF IInv, DeliveredAtMostOnce
<1>8. ReservationsAccountedFor'
  BY <1>1 DEF IInv, ReservationsAccountedFor, Serves, Slot
<1>9. QED
  BY <1>2, <1>3, <1>4, <1>5, <1>6, <1>7, <1>8 DEF IInv

\* A claim is granted only if no transfer runs for the file and it was not
\* delivered: the new transfer is the only one and holds the reservation.
LEMMA ClaimKeepsIInv ==
  ASSUME TypeOK, IInv,
         NEW w \in Worker, NEW t \in Token, NEW i \in 0 .. FileCount,
         NEW req \in Request, NEW step \in {"opening", "sealing"},
         Claim(w, t, i, req, step)
  PROVE  IInv'
<1> USE CleanedGrants, ConstantsAssumption DEF TypeOK
<1> DEFINE job == [step |-> step, token |-> t, index |-> i, left |-> 0]
<1>1. /\ i \in Index
      /\ grants[t] # None
      /\ i \notin grants[t].served
      /\ i \notin grants[t].inFlight
      /\ jobs[w] = None
  BY DEF Claim, Accepts
<1>2. /\ grants' \in [Token -> Grant \cup {None}]
      /\ grants'[t] # None
      /\ grants'[t].inFlight = grants[t].inFlight \cup {i}
      /\ grants'[t].served = grants[t].served
      /\ \A u \in Token : u # t /\ grants'[u] # None => grants'[u] = grants[u]
  <2>1. Cleaned(grants)[t] = grants[t] /\ grants[t] \in Grant
    BY DEF Claim, Accepts
  <2>2. [grants[t] EXCEPT !.inFlight = @ \cup {i}] \in Grant
    BY <1>1, <2>1 DEF Grant
  <2>3. QED
    BY <2>1, <2>2 DEF Claim, Grant
<1>3. /\ jobs'[w] = job
      /\ job # None
      /\ \A v \in Worker : v # w => jobs'[v] = jobs[v]
      /\ UNCHANGED <<phase, delivered, abandoned>>
  BY <1>1 DEF Claim, Job
<1>4. \A v \in Worker : jobs[v] # None => Slot(v) # <<t, i>>
  BY <1>1, JobFields DEF IInv, HolderIsReserved
<1>5. delivered[<<t, i>>] = 0
  BY <1>1 DEF IInv, ServedIsDelivered
<1>6. phase[t] # "unused"
  BY <1>1 DEF IInv, UnusedIsUntouched
<1>7. HolderIsReserved'
  BY <1>1, <1>2, <1>3, JobFields DEF IInv, HolderIsReserved
<1>8. OneTransferPerFile'
  BY <1>3, <1>4, JobFields DEF IInv, OneTransferPerFile, Slot
<1>9. ServedIsDelivered'
  BY <1>1, <1>2, <1>3 DEF IInv, ServedIsDelivered
<1>10. RunningIsUndelivered'
  BY <1>3, <1>5 DEF IInv, RunningIsUndelivered, Slot
<1>11. UnusedIsUntouched'
  BY <1>2, <1>3, <1>6 DEF IInv, UnusedIsUntouched
<1>12. DeliveredAtMostOnce'
  BY <1>3 DEF IInv, DeliveredAtMostOnce
<1>13. ReservationsAccountedFor'
  BY <1>1, <1>2, <1>3 DEF IInv, ReservationsAccountedFor, Serves, Slot
<1>14. QED
  BY <1>7, <1>8, <1>9, <1>10, <1>11, <1>12, <1>13 DEF IInv

\* A finished transfer turns its reservation into a served index.
LEMMA FinishKeepsIInv ==
  ASSUME TypeOK, IInv, NEW w \in Worker, jobs[w] # None, Finish(w)
  PROVE  IInv'
<1> USE ConstantsAssumption DEF TypeOK
<1> DEFINE t == jobs[w].token
           i == jobs[w].index
<1>1. t \in Token /\ i \in Index /\ Slot(w) = <<t, i>>
  BY JobFields
<1>2. /\ \A u \in Token : u # t => grants'[u] = grants[u]
      /\ grants'[t] = None <=> grants[t] = None
      /\ grants[t] # None =>
           /\ grants'[t].inFlight = grants[t].inFlight \ {i}
           /\ grants'[t].served = grants[t].served \cup {i}
  BY <1>1, CommittedGrants DEF Finish
<1>3. /\ jobs'[w] = None
      /\ \A v \in Worker : v # w => jobs'[v] = jobs[v]
      /\ UNCHANGED <<phase, abandoned>>
  BY DEF Finish
<1>4. /\ delivered[<<t, i>>] = 0
      /\ delivered'[<<t, i>>] = 1
      /\ \A s \in Token \X Index : s # <<t, i>> => delivered'[s] = delivered[s]
  <2>1. delivered[<<t, i>>] = 0
    BY <1>1 DEF IInv, RunningIsUndelivered
  <2>2. QED
    BY <1>1, <2>1 DEF Finish
<1>5. \A v \in Worker : v # w /\ jobs[v] # None => Slot(v) # <<t, i>>
  BY <1>1 DEF IInv, OneTransferPerFile
<1> HIDE DEF t, i
<1>6. HolderIsReserved'
  BY <1>1, <1>2, <1>3, <1>5, JobFields DEF IInv, HolderIsReserved
<1>7. OneTransferPerFile'
  BY <1>3 DEF IInv, OneTransferPerFile, Slot
<1>8. ServedIsDelivered'
  BY <1>1, <1>2, <1>4 DEF IInv, ServedIsDelivered
<1>9. RunningIsUndelivered'
  BY <1>3, <1>4, <1>5, JobFields DEF IInv, RunningIsUndelivered, Slot
<1>10. phase[t] # "unused"
  BY <1>1 DEF IInv, UnusedIsUntouched, t
<1>11. UnusedIsUntouched'
  <2> SUFFICES ASSUME NEW u \in Token, phase[u] = "unused"
               PROVE  /\ grants'[u] = None
                      /\ \A j \in Index : delivered'[<<u, j>>] = 0
                      /\ \A v \in Worker : jobs'[v] # None => jobs'[v].token # u
    BY <1>3 DEF UnusedIsUntouched
  <2>1. u # t
    BY <1>10
  <2>2. QED
    BY <1>2, <1>3, <1>4, <2>1 DEF IInv, UnusedIsUntouched
<1>12. DeliveredAtMostOnce'
  BY <1>4 DEF IInv, DeliveredAtMostOnce
<1>13. ReservationsAccountedFor'
  BY <1>1, <1>2, <1>3 DEF IInv, ReservationsAccountedFor, Serves, Slot
<1>14. QED
  BY <1>6, <1>7, <1>8, <1>9, <1>11, <1>12, <1>13 DEF IInv

\* A failed transfer takes its reservation back and nothing else.
LEMMA GiveUpKeepsIInv ==
  ASSUME TypeOK, IInv, NEW w \in Worker, jobs[w] # None, GiveUp(w)
  PROVE  IInv'
<1> USE ConstantsAssumption DEF TypeOK
<1> DEFINE t == jobs[w].token
           i == jobs[w].index
<1>1. t \in Token /\ i \in Index /\ Slot(w) = <<t, i>>
  BY JobFields
<1>2. /\ \A u \in Token : u # t => grants'[u] = grants[u]
      /\ grants'[t] = None <=> grants[t] = None
      /\ grants[t] # None =>
           /\ grants'[t].inFlight = grants[t].inFlight \ {i}
           /\ grants'[t].served = grants[t].served
  BY <1>1, ReleasedGrants DEF GiveUp
<1>3. /\ jobs'[w] = None
      /\ \A v \in Worker : v # w => jobs'[v] = jobs[v]
      /\ UNCHANGED <<phase, delivered, abandoned>>
  BY DEF GiveUp
<1>4. \A v \in Worker : v # w /\ jobs[v] # None => Slot(v) # <<t, i>>
  BY <1>1 DEF IInv, OneTransferPerFile
<1> HIDE DEF t, i
<1>5. HolderIsReserved'
  BY <1>1, <1>2, <1>3, <1>4, JobFields DEF IInv, HolderIsReserved
<1>6. OneTransferPerFile'
  BY <1>3 DEF IInv, OneTransferPerFile, Slot
<1>7. ServedIsDelivered'
  BY <1>1, <1>2, <1>3 DEF IInv, ServedIsDelivered
<1>8. RunningIsUndelivered'
  BY <1>3 DEF IInv, RunningIsUndelivered, Slot
<1>9. UnusedIsUntouched'
  BY <1>1, <1>2, <1>3 DEF IInv, UnusedIsUntouched
<1>10. DeliveredAtMostOnce'
  BY <1>3 DEF IInv, DeliveredAtMostOnce
<1>11. ReservationsAccountedFor'
  BY <1>1, <1>2, <1>3 DEF IInv, ReservationsAccountedFor, Serves, Slot
<1>12. QED
  BY <1>5, <1>6, <1>7, <1>8, <1>9, <1>10, <1>11 DEF IInv

\* A transfer that moves on keeps its slot, so nothing else changes.
LEMMA ProgressKeepsIInv ==
  ASSUME TypeOK, TypeOK', IInv, NEW w \in Worker,
         jobs[w] # None, jobs'[w] # None,
         jobs'[w].token = jobs[w].token, jobs'[w].index = jobs[w].index,
         \A v \in Worker : v # w => jobs'[v] = jobs[v],
         UNCHANGED <<grants, phase, delivered, abandoned>>
  PROVE  IInv'
<1>1. HolderIsReserved'
  BY DEF IInv, HolderIsReserved
<1>2. OneTransferPerFile'
  BY DEF IInv, OneTransferPerFile, Slot
<1>3. ServedIsDelivered'
  BY DEF IInv, ServedIsDelivered
<1>4. RunningIsUndelivered'
  BY DEF IInv, RunningIsUndelivered, Slot
<1>5. UnusedIsUntouched'
  BY DEF IInv, UnusedIsUntouched
<1>6. DeliveredAtMostOnce'
  BY DEF IInv, DeliveredAtMostOnce
<1>7. ReservationsAccountedFor'
  BY DEF IInv, ReservationsAccountedFor, Serves, Slot
<1>8. QED
  BY <1>1, <1>2, <1>3, <1>4, <1>5, <1>6, <1>7 DEF IInv

\* A transfer that vanishes leaves its reservation behind, on record.
LEMMA OpenFailsKeepsIInv ==
  ASSUME TypeOK, IInv, NEW w \in Worker, OpenFails(w)
  PROVE  IInv'
<1> USE DEF TypeOK, OpenFails, At
<1>1. HolderIsReserved'
  BY DEF IInv, HolderIsReserved
<1>2. OneTransferPerFile'
  BY DEF IInv, OneTransferPerFile, Slot
<1>3. ServedIsDelivered'
  BY DEF IInv, ServedIsDelivered
<1>4. RunningIsUndelivered'
  BY DEF IInv, RunningIsUndelivered, Slot
<1>5. UnusedIsUntouched'
  BY DEF IInv, UnusedIsUntouched
<1>6. DeliveredAtMostOnce'
  BY DEF IInv, DeliveredAtMostOnce
<1>7. ReservationsAccountedFor'
  BY DEF IInv, ReservationsAccountedFor, Serves, Slot
<1>8. QED
  BY <1>1, <1>2, <1>3, <1>4, <1>5, <1>6, <1>7 DEF IInv

\* Binding the clip, failing to create it, time and a restart.
LEMMA OtherStepsKeepIInv ==
  ASSUME TypeOK, IInv,
         \/ \E t \in Token : Bind(t) \/ CreateFails(t)
         \/ Tick
         \/ Restart
         \/ UNCHANGED vars
  PROVE  IInv'
<1> USE ConstantsAssumption DEF TypeOK
<1>1. ASSUME NEW t \in Token, Bind(t)
      PROVE  IInv'
  <2>1. /\ \A u \in Token : grants'[u] = None <=> grants[u] = None
        /\ \A u \in Token : grants[u] # None =>
             /\ grants'[u].served = grants[u].served
             /\ grants'[u].inFlight = grants[u].inFlight
    <3>1. grants[t] # None => [grants[t] EXCEPT !.clip = t] \in Grant
      BY DEF Grant
    <3>2. QED
      BY <1>1, <3>1 DEF Bind, Grant
  <2>2. /\ UNCHANGED <<jobs, delivered, abandoned>>
        /\ \A u \in Token : phase'[u] = "unused" => phase[u] = "unused"
    BY <1>1 DEF Bind
  <2> HIDE DEF TypeOK
  <2>3. HolderIsReserved'
    BY <2>1, <2>2, JobFields DEF IInv, HolderIsReserved
  <2>4. OneTransferPerFile'
    BY <2>2 DEF IInv, OneTransferPerFile, Slot
  <2>5. ServedIsDelivered'
    BY <2>1, <2>2 DEF IInv, ServedIsDelivered
  <2>6. RunningIsUndelivered'
    BY <2>2 DEF IInv, RunningIsUndelivered, Slot
  <2>7. UnusedIsUntouched'
    BY <2>1, <2>2 DEF IInv, UnusedIsUntouched
  <2>8. DeliveredAtMostOnce'
    BY <2>2 DEF IInv, DeliveredAtMostOnce
  <2>9. ReservationsAccountedFor'
    BY <2>1, <2>2 DEF IInv, ReservationsAccountedFor, Serves, Slot
  <2>10. QED
    BY <2>3, <2>4, <2>5, <2>6, <2>7, <2>8, <2>9 DEF IInv
<1>2. ASSUME NEW t \in Token, CreateFails(t)
      PROVE  IInv'
  BY <1>2 DEF CreateFails, IInv, HolderIsReserved, OneTransferPerFile, Slot,
              ServedIsDelivered, RunningIsUndelivered, UnusedIsUntouched,
              DeliveredAtMostOnce, ReservationsAccountedFor, Serves
<1>3. ASSUME Tick \/ UNCHANGED vars
      PROVE  IInv'
  BY <1>3 DEF Tick, vars, IInv, HolderIsReserved, OneTransferPerFile, Slot,
              ServedIsDelivered, RunningIsUndelivered, UnusedIsUntouched,
              DeliveredAtMostOnce, ReservationsAccountedFor, Serves
<1>4. ASSUME Restart
      PROVE  IInv'
  BY <1>4 DEF Restart, IInv, HolderIsReserved, OneTransferPerFile,
              ServedIsDelivered, RunningIsUndelivered, UnusedIsUntouched,
              DeliveredAtMostOnce, ReservationsAccountedFor
<1>5. QED
  BY <1>1, <1>2, <1>3, <1>4
-----------------------------------------------------------------------------
(* What follows from the lemmas above.                                     *)

\* No operation breaks the strengthened invariant.
LEMMA InvStep ==
  ASSUME TypeOK, TypeOK', IInv, [Next]_vars
  PROVE  IInv'
<1>1. CASE Publishing
  BY <1>1, RegisterKeepsIInv, OtherStepsKeepIInv DEF Publishing
<1>2. CASE Claiming
  <2>1. ASSUME NEW t \in Token, NEW i \in 0 .. FileCount, NEW req \in Request,
               Refuse(t, i, req)
        PROVE  IInv'
    BY <2>1, RegistryCleaned DEF Refuse
  <2>2. QED
    BY <1>2, <2>1, ClaimKeepsIInv DEF Claiming
<1>3. CASE Transferring
  <2>1. ASSUME NEW w \in Worker, NEW chunks \in 0 .. MaxChunks, OpenFile(w, chunks)
        PROVE  IInv'
    <3>1. jobs[w] # None /\ jobs[w] \in Job
      BY <2>1 DEF OpenFile, At, TypeOK
    <3>2. /\ jobs'[w] = [jobs[w] EXCEPT !.step = "streaming", !.left = chunks]
          /\ jobs'[w] \in Job
      BY <2>1, <3>1 DEF OpenFile, TypeOK, Job
    <3>3. QED
      BY <2>1, <3>1, <3>2, ProgressKeepsIInv, ConstantsAssumption
         DEF OpenFile, TypeOK, Job
  <2>2. ASSUME NEW w \in Worker, StreamChunk(w)
        PROVE  IInv'
    <3>1. jobs[w] # None /\ jobs[w] \in Job
      BY <2>2 DEF StreamChunk, At, TypeOK
    <3>2. /\ jobs'[w] = [jobs[w] EXCEPT !.left = @ - 1]
          /\ jobs'[w] \in Job
      BY <2>2, <3>1, ConstantsAssumption DEF StreamChunk, TypeOK, Job
    <3>3. QED
      BY <2>2, <3>1, <3>2, ProgressKeepsIInv, ConstantsAssumption
         DEF StreamChunk, TypeOK, Job
  <2>3. ASSUME NEW w \in Worker, SealFile(w)
        PROVE  IInv'
    <3>1. jobs[w] # None /\ jobs[w] \in Job
      BY <2>3 DEF SealFile, At, TypeOK
    <3>2. /\ jobs'[w] = [jobs[w] EXCEPT !.step = "sending"]
          /\ jobs'[w] \in Job
      BY <2>3, <3>1 DEF SealFile, TypeOK, Job
    <3>3. QED
      BY <2>3, <3>1, <3>2, ProgressKeepsIInv, ConstantsAssumption
         DEF SealFile, TypeOK, Job
  <2>4. QED
    BY <1>3, <2>1, <2>2, <2>3, OpenFailsKeepsIInv, FinishKeepsIInv, GiveUpKeepsIInv
       DEF Transferring, StreamEnds, SealFails, SendSucceeds, SendFails, At
<1>4. CASE Tick \/ Restart \/ UNCHANGED vars
  BY <1>4, OtherStepsKeepIInv
<1>5. QED
  BY <1>1, <1>2, <1>3, <1>4 DEF Next

LEMMA InitHolds == Init => TypeOK /\ IInv
BY DEF Init, TypeOK, IInv, HolderIsReserved, OneTransferPerFile, ServedIsDelivered,
       RunningIsUndelivered, UnusedIsUntouched, DeliveredAtMostOnce,
       ReservationsAccountedFor

\* The strengthened invariant holds in every reachable state.
THEOREM Inductive == Spec => []IInv
BY InitHolds, TypeCorrect, InvStep, PTL DEF Spec

\* What is closed stays closed, whatever the source does.
LEMMA ClosedStays ==
  ASSUME TypeOK, IInv, [Next]_vars, NEW t \in Token, NEW i \in Index, Closed(t, i)
  PROVE  Closed(t, i)'
<1> DEFINE Kept == /\ grants[t] = None => grants'[t] = None
                   /\ grants[t] # None /\ grants'[t] # None
                        => grants[t].served \subseteq grants'[t].served
           Fewer == \A w \in Worker : Serves(w, t, i)' => Serves(w, t, i)
<1>1. phase'[t] # "unused"
  BY DEF Closed, TypeOK, Next, Publishing, Claiming, Transferring, Tick, Restart,
         Register, Bind, CreateFails, Claim, Refuse, OpenFile, OpenFails, StreamChunk,
         StreamEnds, SealFile, SealFails, SendSucceeds, SendFails, Finish, GiveUp, vars
<1>2. Kept /\ Fewer => Closed(t, i)'
  BY <1>1 DEF Closed
<1>3. ASSUME NEW u \in Token, NEW keys \in KeySets, Register(u, keys)
      PROVE  Kept /\ Fewer
  <2>1. u # t
    BY <1>3 DEF Register, Closed
  <2>2. QED
    BY <1>3, <2>1, CleanedGrants DEF Register, TypeOK, Serves, Slot
<1>4. ASSUME NEW u \in Token, Bind(u)
      PROVE  Kept /\ Fewer
  <2>1. grants[u] # None => [grants[u] EXCEPT !.clip = u] \in Grant
    BY DEF Grant, TypeOK
  <2>2. QED
    BY <1>4, <2>1 DEF Bind, TypeOK, Grant, Serves, Slot
<1>5. ASSUME NEW u \in Token, CreateFails(u) \/ Tick \/ UNCHANGED vars
      PROVE  Kept /\ Fewer
  BY <1>5 DEF CreateFails, Tick, vars, Serves, Slot
<1>6. ASSUME NEW w \in Worker, NEW u \in Token, NEW j \in 0 .. FileCount,
             NEW req \in Request, NEW step \in {"opening", "sealing"},
             Claim(w, u, j, req, step)
      PROVE  Kept /\ Fewer
  <2>1. /\ Cleaned(grants)[u] = grants[u] /\ grants[u] \in Grant
        /\ grants[u] # None /\ j \notin grants[u].served
    BY <1>6, CleanedGrants DEF Claim, Accepts, TypeOK
  <2>2. Kept
    BY <1>6, <2>1, CleanedGrants DEF Claim, Grant, TypeOK
  <2>3. <<u, j>> # <<t, i>>
    BY <2>1 DEF Closed
  <2>4. Fewer
    BY <1>6, <2>3 DEF Claim, TypeOK, Serves, Slot
  <2>5. QED
    BY <2>2, <2>4
<1>7. ASSUME NEW u \in Token, NEW j \in 0 .. FileCount, NEW req \in Request,
             Refuse(u, j, req)
      PROVE  Kept /\ Fewer
  BY <1>7, CleanedGrants DEF Refuse, TypeOK, Serves, Slot
<1>8. ASSUME NEW w \in Worker, jobs[w] # None, Finish(w) \/ GiveUp(w)
      PROVE  Kept /\ Fewer
  <2>1. grants \in [Token -> Grant \cup {None}]
    BY DEF TypeOK
  <2>2. jobs[w].token \in Token /\ jobs[w].index \in Index
    BY <1>8, JobFields
  <2>3. Kept
    <3>1. PICK u \in Token, j \in Index :
            grants' = Committed(grants, u, j) \/ grants' = Released(grants, u, j)
      BY <1>8, <2>2 DEF Finish, GiveUp
    <3>2. CASE grants' = Committed(grants, u, j)
      BY <2>1, <3>2, CommittedGrants
    <3>3. CASE grants' = Released(grants, u, j)
      BY <2>1, <3>3, ReleasedGrants
    <3>4. QED
      BY <3>1, <3>2, <3>3
  <2>4. Fewer
    BY <1>8 DEF Finish, GiveUp, TypeOK, Serves, Slot
  <2>5. QED
    BY <2>3, <2>4
<1>9. ASSUME NEW w \in Worker, NEW chunks \in 0 .. MaxChunks,
             OpenFile(w, chunks) \/ StreamChunk(w) \/ SealFile(w) \/ OpenFails(w)
      PROVE  Kept /\ Fewer
  BY <1>9 DEF OpenFile, StreamChunk, SealFile, OpenFails, At, TypeOK, Job, Serves, Slot
<1>10. ASSUME Restart
       PROVE  Kept /\ Fewer
  BY <1>10 DEF Restart, Serves
<1> HIDE DEF Kept, Fewer
<1>11. CASE Publishing
  BY <1>2, <1>3, <1>4, <1>5, <1>11 DEF Publishing
<1>12. CASE Claiming
  BY <1>2, <1>6, <1>7, <1>12 DEF Claiming
<1>13. CASE Transferring
  BY <1>2, <1>8, <1>9, <1>13, ConstantsAssumption
     DEF Transferring, StreamEnds, SealFails, SendSucceeds, SendFails, At
<1>14. QED
  BY <1>2, <1>5, <1>10, <1>11, <1>12, <1>13 DEF Next

\* A transfer that ran to its end has closed its file, and so has a restart.
LEMMA Closing ==
  ASSUME TypeOK, IInv, NEW w \in Worker, NEW t \in Token, NEW i \in Index,
         Serves(w, t, i), Finish(w) \/ Restart
  PROVE  Closed(t, i)'
<1>1. /\ jobs[w] # None /\ jobs[w].token = t /\ jobs[w].index = i
      /\ phase[t] # "unused"
      /\ \A v \in Worker : v # w => ~Serves(v, t, i)
  BY JobFields DEF Serves, Slot, IInv, UnusedIsUntouched, OneTransferPerFile
<1>2. CASE Finish(w)
  <2>1. grants' = Committed(grants, t, i)
    BY <1>1, <1>2 DEF Finish
  <2>2. grants'[t] # None => i \in grants'[t].served
    BY <2>1, CommittedGrants DEF TypeOK
  <2>3. \A v \in Worker : ~Serves(v, t, i)'
    BY <1>1, <1>2 DEF Finish, TypeOK, Serves, Slot
  <2>4. QED
    BY <1>1, <1>2, <2>2, <2>3 DEF Finish, Closed
<1>3. CASE Restart
  BY <1>1, <1>3 DEF Restart, TypeOK, Closed, Serves
<1>4. QED
  BY <1>2, <1>3

\* Mutual exclusion of transfers: however many transfers the source runs, two
\* of them never carry the same file of a publication.
THEOREM TransfersExclude == Spec => []OneTransferPerFile
<1>1. IInv => OneTransferPerFile
  BY DEF IInv
<1>2. QED
  BY <1>1, Inductive, PTL

\* The one-time grant: no interleaving of claims, expiries, retries and
\* restarts lets a file of a publication run to its end twice.
THEOREM AtMostOnce == Spec => []DeliveredAtMostOnce
<1>1. IInv => DeliveredAtMostOnce
  BY DEF IInv
<1>2. QED
  BY <1>1, Inductive, PTL

\* Every reservation has a running transfer, or is one of those a failed open
\* left behind: there is no third way to lose an index.
THEOREM Accounted == Spec => []ReservationsAccountedFor
<1>1. IInv => ReservationsAccountedFor
  BY DEF IInv
<1>2. QED
  BY <1>1, Inductive, PTL

\* While a grant lives, only the transfer that holds a reservation ends it, and
\* a served index stays served.
THEOREM HolderSettles == Spec => OnlyTheHolderSettles
<1> DEFINE Settled(t) ==
             /\ grants[t].served \subseteq grants'[t].served
             /\ \A i \in grants[t].inFlight \ grants'[t].inFlight :
                  \E w \in Worker : Serves(w, t, i) /\ jobs'[w] = None
           Step == \A t \in Token : grants[t] # None /\ grants'[t] # None => Settled(t)
<1>1. TypeOK /\ IInv /\ [Next]_vars => [Step]_vars
  <2> SUFFICES ASSUME TypeOK, IInv, Next
               PROVE  Step
    OBVIOUS
  <2>1. ASSUME \A u \in Token : grants[u] # None /\ grants'[u] # None =>
                 /\ grants[u].served \subseteq grants'[u].served
                 /\ grants[u].inFlight \subseteq grants'[u].inFlight
        PROVE  Step
    BY <2>1
  <2>2. ASSUME NEW t \in Token, NEW keys \in KeySets, Register(t, keys)
        PROVE  Step
    <3>1. grants[t] = None
      BY <2>2 DEF Register, IInv, UnusedIsUntouched
    <3>2. \A u \in Token : u # t /\ grants'[u] # None => grants'[u] = grants[u]
      BY <2>2, CleanedGrants DEF Register, TypeOK
    <3>3. QED
      BY <2>1, <3>1, <3>2
  <2>3. ASSUME NEW t \in Token, Bind(t) \/ CreateFails(t)
        PROVE  Step
    <3>1. \A u \in Token : grants[u] # None =>
            /\ grants'[u].served = grants[u].served
            /\ grants'[u].inFlight = grants[u].inFlight
      <4>1. grants[t] # None => [grants[t] EXCEPT !.clip = t] \in Grant
        BY DEF Grant, TypeOK
      <4>2. QED
        BY <2>3, <4>1 DEF Bind, CreateFails, Grant, TypeOK
    <3>2. QED
      BY <2>1, <3>1
  <2>4. ASSUME NEW w \in Worker, NEW t \in Token, NEW i \in 0 .. FileCount,
               NEW req \in Request, NEW step \in {"opening", "sealing"},
               Claim(w, t, i, req, step)
        PROVE  Step
    <3>1. Cleaned(grants)[t] = grants[t] /\ grants[t] \in Grant
      BY <2>4, CleanedGrants DEF Claim, Accepts, TypeOK
    <3>2. /\ grants'[t].served = grants[t].served
          /\ grants'[t].inFlight = grants[t].inFlight \cup {i}
          /\ \A u \in Token : u # t => grants'[u] = Cleaned(grants)[u]
      BY <2>4, <3>1, CleanedGrants DEF Claim, Grant, TypeOK
    <3>3. QED
      BY <2>1, <3>2, CleanedGrants DEF TypeOK
  <2>5. ASSUME NEW t \in Token, NEW i \in 0 .. FileCount, NEW req \in Request,
               Refuse(t, i, req)
        PROVE  Step
    BY <2>1, <2>5, CleanedGrants DEF Refuse, TypeOK
  <2>6. ASSUME NEW w \in Worker, jobs[w] # None, Finish(w) \/ GiveUp(w)
        PROVE  Step
    <3> DEFINE t == jobs[w].token
               i == jobs[w].index
    <3>1. t \in Token /\ i \in Index /\ Serves(w, t, i)
      BY <2>6, JobFields DEF Serves
    <3>2. jobs'[w] = None
      BY <2>6 DEF Finish, GiveUp, TypeOK
    <3>3. /\ \A u \in Token : u # t => grants'[u] = grants[u]
          /\ grants[t] # None =>
               /\ grants[t].served \subseteq grants'[t].served
               /\ grants'[t].inFlight = grants[t].inFlight \ {i}
      <4> HIDE DEF Step
      <4>1. CASE Finish(w)
        <5>1. grants \in [Token -> Grant \cup {None}] /\ grants' = Committed(grants, t, i)
          BY <4>1 DEF Finish, TypeOK
        <5> HIDE DEF t, i
        <5>2. QED
          BY <5>1, <3>1, CommittedGrants
      <4>2. CASE GiveUp(w)
        BY <4>2, <3>1, ReleasedGrants DEF GiveUp, TypeOK
      <4>3. QED
        BY <2>6, <4>1, <4>2
    <3> HIDE DEF t, i
    <3>4. QED
      BY <3>1, <3>2, <3>3
  <2>7. ASSUME UNCHANGED grants
        PROVE  Step
    BY <2>1, <2>7
  <2>8. CASE Restart
    BY <2>8 DEF Restart
  <2> HIDE DEF Step
  <2>9. CASE Publishing
    BY <2>2, <2>3, <2>9 DEF Publishing
  <2>10. CASE Claiming
    BY <2>4, <2>5, <2>10 DEF Claiming
  <2>11. CASE Transferring
    BY <2>6, <2>7, <2>11
       DEF Transferring, OpenFile, OpenFails, StreamChunk, StreamEnds, SealFile,
           SealFails, SendSucceeds, SendFails, At
  <2>12. CASE Tick
    BY <2>7, <2>12 DEF Tick
  <2>13. QED
    BY <2>8, <2>9, <2>10, <2>11, <2>12 DEF Next
<1>2. QED
  BY <1>1, TypeCorrect, Inductive, PTL DEF Spec, OnlyTheHolderSettles

-----------------------------------------------------------------------------
(* PeerGrants implements OneTimeGrants, step by step.                      *)

\* The two mapped variables.
Statuses == [s \in Token \X Index |-> SlotStatus(s)]

Running == {s \in Token \X Index : \E w \in Worker : Serves(w, s[1], s[2])}

\* What a claim of the slot would meet, read off the registry.
LEMMA StatusIs ==
  ASSUME NEW t \in Token, NEW i \in Index
  PROVE  /\ phase[t] = "unused" => SlotStatus(<<t, i>>) = "unborn"
         /\ phase[t] # "unused" =>
              /\ grants[t] = None => SlotStatus(<<t, i>>) = "gone"
              /\ grants[t] # None =>
                   /\ i \in grants[t].served => SlotStatus(<<t, i>>) = "spent"
                   /\ i \notin grants[t].served =>
                        SlotStatus(<<t, i>>) = IF i \in grants[t].inFlight THEN "busy" ELSE "free"
BY DEF SlotStatus

LEMMA StatusBecomes ==
  ASSUME NEW t \in Token, NEW i \in Index
  PROVE  /\ phase'[t] = "unused" => SlotStatus(<<t, i>>)' = "unborn"
         /\ phase'[t] # "unused" =>
              /\ grants'[t] = None => SlotStatus(<<t, i>>)' = "gone"
              /\ grants'[t] # None =>
                   /\ i \in grants'[t].served => SlotStatus(<<t, i>>)' = "spent"
                   /\ i \notin grants'[t].served =>
                        SlotStatus(<<t, i>>)' = IF i \in grants'[t].inFlight THEN "busy" ELSE "free"
BY DEF SlotStatus

\* A token whose entry and publication a step leaves alone keeps its statuses.
LEMMA SameStatus ==
  ASSUME NEW t \in Token, NEW i \in Index,
         phase'[t] = "unused" <=> phase[t] = "unused",
         grants'[t] = None <=> grants[t] = None,
         grants[t] # None => /\ grants'[t].served = grants[t].served
                             /\ grants'[t].inFlight = grants[t].inFlight
  PROVE  SlotStatus(<<t, i>>)' = SlotStatus(<<t, i>>)
BY StatusIs, StatusBecomes

\* The publications a use of the registry finds expired.
Dropped == {t \in Token : grants[t] # None /\ Cleaned(grants)[t] = None}

LEMMA DroppedWereRegistered ==
  ASSUME TypeOK, IInv, NEW t \in Dropped
  PROVE  Promise!Registered(t)
<1>1. t \in Token /\ phase[t] # "unused"
  BY DEF Dropped, IInv, UnusedIsUntouched
<1>2. \A i \in Index : Statuses[<<t, i>>] # "unborn"
  BY <1>1, StatusIs DEF Statuses
<1> QED
  BY <1>2 DEF Promise!Registered, Statuses

\* Cleaning makes the statuses of the dropped publications gone.
LEMMA CleaningExpires ==
  ASSUME TypeOK, IInv, NEW t \in Token, NEW i \in Index,
         grants'[t] = Cleaned(grants)[t], phase'[t] = phase[t]
  PROVE  SlotStatus(<<t, i>>)' = IF t \in Dropped THEN "gone" ELSE SlotStatus(<<t, i>>)
<1>1. CASE t \in Dropped
  <2>1. phase[t] # "unused" /\ grants'[t] = None
    BY <1>1 DEF Dropped, IInv, UnusedIsUntouched
  <2> QED
    BY <1>1, <2>1, StatusBecomes
<1>2. CASE t \notin Dropped
  <2>1. grants'[t] = grants[t]
    BY <1>2, CleanedGrants DEF Dropped, TypeOK
  <2> QED
    BY <1>2, <2>1, SameStatus
<1> QED
  BY <1>1, <1>2

\* What is running depends on the slots of the transfers only.
LEMMA SameRunning ==
  ASSUME \A w \in Worker : /\ jobs'[w] = None <=> jobs[w] = None
                           /\ jobs[w] # None => Slot(w)' = Slot(w)
  PROVE  Running' = Running
BY DEF Running, Serves

\* A transfer's end takes its slot out, for no other carries the same file.
LEMMA EndsRunning ==
  ASSUME TypeOK, IInv, NEW w \in Worker, jobs[w] # None,
         jobs' = [jobs EXCEPT ![w] = None]
  PROVE  /\ Slot(w) \in Running
         /\ Running' = Running \ {Slot(w)}
<1>1. Slot(w) \in Token \X Index /\ Slot(w) = <<jobs[w].token, jobs[w].index>>
  BY JobFields
<1>2. Slot(w) \in Running
  BY <1>1 DEF Running, Serves
<1>3. jobs'[w] = None /\ \A v \in Worker \ {w} : jobs'[v] = jobs[v]
  BY DEF TypeOK
<1>4. ASSUME NEW s \in Token \X Index
      PROVE  s \in Running' <=> s \in Running /\ s # Slot(w)
  <2>1. s = <<s[1], s[2]>>
    OBVIOUS
  <2>2. \A v \in Worker : Serves(v, s[1], s[2])' <=> v # w /\ Serves(v, s[1], s[2])
    BY <1>3 DEF Serves, Slot
  <2>3. \A v \in Worker : Serves(v, s[1], s[2]) <=> jobs[v] # None /\ Slot(v) = s
    BY <2>1 DEF Serves
  <2>4. (\E v \in Worker : v # w /\ Serves(v, s[1], s[2]))
          <=> (\E v \in Worker : Serves(v, s[1], s[2])) /\ s # Slot(w)
    BY <2>3 DEF IInv, OneTransferPerFile
  <2> QED
    BY <2>2, <2>4 DEF Running
<1>5. Running' \subseteq Token \X Index /\ Running \subseteq Token \X Index
  BY DEF Running
<1> QED
  BY <1>2, <1>4, <1>5

LEMMA RegisterPublishes ==
  ASSUME TypeOK, IInv, NEW t \in Token, NEW keys \in KeySets, Register(t, keys)
  PROVE  Promise!Publish(t, Dropped)
<1>1. /\ phase[t] = "unused" /\ grants[t] = None /\ t \notin Dropped
      /\ UNCHANGED <<jobs, delivered>>
  BY DEF Register, IInv, UnusedIsUntouched, Dropped
<1>2. /\ phase'[t] # "unused" /\ grants'[t] # None
      /\ grants'[t].served = {} /\ grants'[t].inFlight = {}
      /\ \A u \in Token \ {t} : grants'[u] = Cleaned(grants)[u] /\ phase'[u] = phase[u]
  <2>1. [clip |-> None, keys |-> keys, expires |-> now + Ttl, served |-> {}, inFlight |-> {}] \in Grant
    BY ConstantsAssumption DEF Grant, TypeOK
  <2> QED
    BY <2>1, CleanedGrants, ConstantsAssumption DEF Register, TypeOK
<1>3. \A u \in Token, i \in Index :
        SlotStatus(<<u, i>>)' = IF u = t THEN "free" ELSE IF u \in Dropped THEN "gone" ELSE SlotStatus(<<u, i>>)
  BY <1>2, StatusBecomes, CleaningExpires
<1>4. Statuses' = [s \in Token \X Index |->
                     IF s[1] = t THEN "free" ELSE IF s[1] \in Dropped THEN "gone" ELSE Statuses[s]]
  BY <1>3 DEF Statuses
<1>5. \A i \in Index : Statuses[<<t, i>>] = "unborn"
  BY <1>1, StatusIs DEF Statuses
<1>6. Running' = Running
  BY <1>1, SameRunning DEF Slot
<1> QED
  BY <1>1, <1>4, <1>5, <1>6, DroppedWereRegistered
     DEF Promise!Publish, Promise!Expired, Promise!Slot, Statuses, Running

LEMMA ClaimReserves ==
  ASSUME TypeOK, IInv,
         NEW w \in Worker, NEW t \in Token, NEW i \in 0 .. FileCount,
         NEW req \in Request, NEW step \in {"opening", "sealing"},
         Claim(w, t, i, req, step)
  PROVE  i \in Index /\ Promise!Reserve(<<t, i>>, Dropped)
<1>1. /\ i \in Index /\ Cleaned(grants)[t] # None /\ jobs[w] = None
      /\ i \notin Cleaned(grants)[t].served /\ i \notin Cleaned(grants)[t].inFlight
      /\ UNCHANGED <<phase, delivered>>
  BY DEF Claim, Accepts
<1>2. Cleaned(grants)[t] = grants[t] /\ grants[t] \in Grant /\ t \notin Dropped
  BY <1>1, CleanedGrants DEF TypeOK, Dropped
<1>3. phase[t] # "unused"
  BY <1>1, <1>2 DEF IInv, UnusedIsUntouched
<1>4. /\ grants'[t] # None
      /\ grants'[t].served = grants[t].served
      /\ grants'[t].inFlight = grants[t].inFlight \cup {i}
      /\ \A u \in Token \ {t} : grants'[u] = Cleaned(grants)[u]
  <2>1. [grants[t] EXCEPT !.inFlight = @ \cup {i}] \in Grant
    BY <1>1, <1>2 DEF Grant
  <2>2. grants' = [Cleaned(grants) EXCEPT ![t] = [grants[t] EXCEPT !.inFlight = @ \cup {i}]]
    BY <1>2, CleanedGrants DEF Claim, TypeOK
  <2> QED
    BY <1>2, <2>1, <2>2, CleanedGrants, ConstantsAssumption DEF TypeOK, Grant
<1>5. \A u \in Token, j \in Index :
        SlotStatus(<<u, j>>)' = IF u = t /\ j = i THEN "busy"
                                ELSE IF u \in Dropped THEN "gone" ELSE SlotStatus(<<u, j>>)
  <2>1. ASSUME NEW u \in Token, NEW j \in Index, u # t
        PROVE  SlotStatus(<<u, j>>)' = IF u \in Dropped THEN "gone" ELSE SlotStatus(<<u, j>>)
    BY <1>1, <1>4, <2>1, CleaningExpires
  <2>2. ASSUME NEW j \in Index
        PROVE  SlotStatus(<<t, j>>)' = IF j = i THEN "busy" ELSE SlotStatus(<<t, j>>)
    BY <1>1, <1>2, <1>3, <1>4, StatusIs, StatusBecomes
  <2> QED
    BY <1>2, <2>1, <2>2
<1>6. Statuses' = [[s \in Token \X Index |-> IF s[1] \in Dropped THEN "gone" ELSE Statuses[s]]
                     EXCEPT ![<<t, i>>] = "busy"]
  <2>1. ASSUME NEW s \in Token \X Index
        PROVE  SlotStatus(s)' = IF s = <<t, i>> THEN "busy"
                                ELSE IF s[1] \in Dropped THEN "gone" ELSE SlotStatus(s)
    <3>1. PICK u \in Token, j \in Index : s = <<u, j>>
      OBVIOUS
    <3>2. s = <<t, i>> <=> u = t /\ j = i
      BY <3>1
    <3>3. s[1] = u
      BY <3>1
    <3> QED
      BY <1>5, <3>1, <3>2, <3>3
  <2> QED
    BY <2>1 DEF Statuses
<1>7. Statuses[<<t, i>>] = "free"
  BY <1>1, <1>2, <1>3, StatusIs DEF Statuses
<1>8. <<t, i>> \notin Running
  <2>1. \A v \in Worker : ~Serves(v, t, i)
    BY <1>1, <1>2, JobFields DEF IInv, HolderIsReserved, Serves
  <2> QED
    BY <2>1 DEF Running
<1>9. Running' = Running \cup {<<t, i>>}
  <2>1. /\ \A v \in Worker \ {w} : jobs'[v] = jobs[v]
        /\ jobs'[w] # None /\ Slot(w)' = <<t, i>>
    <3>1. [step |-> step, token |-> t, index |-> i, left |-> 0] \in Job
      BY <1>1, ConstantsAssumption DEF Job
    <3> QED
      BY <3>1, ConstantsAssumption DEF Claim, TypeOK, Slot
  <2>2. ASSUME NEW s \in Token \X Index
        PROVE  s \in Running' <=> s \in Running \/ s = <<t, i>>
    <3>1. s = <<s[1], s[2]>>
      OBVIOUS
    <3>2. \A v \in Worker \ {w} : Serves(v, s[1], s[2])' <=> Serves(v, s[1], s[2])
      BY <2>1 DEF Serves, Slot
    <3>3. Serves(w, s[1], s[2])' <=> s = <<t, i>>
      BY <2>1, <3>1 DEF Serves
    <3>4. ~Serves(w, s[1], s[2])
      BY <1>1 DEF Serves
    <3> QED
      BY <3>2, <3>3, <3>4 DEF Running
  <2> QED
    BY <1>1, <2>2 DEF Running
<1> QED
  BY <1>1, <1>2, <1>6, <1>7, <1>8, <1>9, DroppedWereRegistered
     DEF Promise!Reserve, Promise!Expired, Promise!Slot, Statuses, Running

LEMMA RefuseExpires ==
  ASSUME TypeOK, IInv, NEW t, NEW i, NEW req, Refuse(t, i, req)
  PROVE  Promise!Expire(Dropped)
<1>1. grants' = Cleaned(grants) /\ UNCHANGED <<phase, jobs, delivered>>
  BY DEF Refuse
<1>2. Statuses' = [s \in Token \X Index |-> IF s[1] \in Dropped THEN "gone" ELSE Statuses[s]]
  BY <1>1, CleaningExpires DEF Statuses
<1>3. Running' = Running
  BY <1>1, SameRunning DEF Slot
<1> QED
  BY <1>1, <1>2, <1>3, DroppedWereRegistered
     DEF Promise!Expire, Promise!Expired, Promise!Slot, Statuses, Running

\* A transfer settles its own slot, and only while the grant is there.
LEMMA Settling ==
  ASSUME TypeOK, IInv, NEW w \in Worker, jobs[w] # None,
         UNCHANGED phase,
         \A u \in Token : grants'[u] = None <=> grants[u] = None,
         \A u \in Token \ {jobs[w].token} : grants'[u] = grants[u],
         NEW end \in {"spent", "free"},
         grants[jobs[w].token] # None =>
           /\ grants'[jobs[w].token].inFlight = grants[jobs[w].token].inFlight \ {jobs[w].index}
           /\ grants'[jobs[w].token].served =
                IF end = "spent" THEN grants[jobs[w].token].served \cup {jobs[w].index}
                ELSE grants[jobs[w].token].served
  PROVE  Statuses' = [Statuses EXCEPT ![Slot(w)] = IF @ = "busy" THEN end ELSE @]
<1> PICK t \in Token, i \in Index : t = jobs[w].token /\ i = jobs[w].index
  BY JobFields
<1>1. Slot(w) = <<t, i>> /\ phase[t] # "unused"
  BY DEF Slot, IInv, UnusedIsUntouched
<1>2. grants[t] # None => i \in grants[t].inFlight /\ i \notin grants[t].served
  BY DEF IInv, HolderIsReserved, ServedIsDelivered
<1>3. \A u \in Token \ {t}, j \in Index : SlotStatus(<<u, j>>)' = SlotStatus(<<u, j>>)
  BY SameStatus
<1>4. \A j \in Index : SlotStatus(<<t, j>>)' =
        IF j = i /\ SlotStatus(<<t, j>>) = "busy" THEN end ELSE SlotStatus(<<t, j>>)
  BY <1>1, <1>2, StatusIs, StatusBecomes
<1>5. ASSUME NEW s \in Token \X Index
      PROVE  SlotStatus(s)' = IF s = Slot(w) /\ SlotStatus(s) = "busy" THEN end ELSE SlotStatus(s)
  <2>1. PICK u \in Token, j \in Index : s = <<u, j>>
    OBVIOUS
  <2>2. s = Slot(w) <=> u = t /\ j = i
    BY <1>1, <2>1
  <2> QED
    BY <1>3, <1>4, <2>1, <2>2
<1>6. Slot(w) \in Token \X Index
  BY <1>1
<1> QED
  BY <1>5, <1>6 DEF Statuses

LEMMA FinishDelivers ==
  ASSUME TypeOK, IInv, NEW w \in Worker, jobs[w] # None, Finish(w)
  PROVE  Slot(w) \in Token \X Index /\ Promise!Deliver(Slot(w))
<1> PICK t \in Token, i \in Index : t = jobs[w].token /\ i = jobs[w].index
  BY JobFields
<1>1. Statuses' = [Statuses EXCEPT ![Slot(w)] = IF @ = "busy" THEN "spent" ELSE @]
  <2>1. grants' = Committed(grants, t, i) /\ UNCHANGED phase /\ grants \in [Token -> Grant \cup {None}]
    BY DEF Finish, TypeOK
  <2> QED
    BY <2>1, CommittedGrants, Settling
<1>2. Slot(w) \in Running /\ Running' = Running \ {Slot(w)}
  BY EndsRunning DEF Finish
<1>3. delivered[Slot(w)] = 0 /\ delivered' = [delivered EXCEPT ![Slot(w)] = @ + 1]
  BY DEF Finish, IInv, RunningIsUndelivered
<1> QED
  BY <1>1, <1>2, <1>3, JobFields DEF Promise!Deliver, Statuses, Running

LEMMA GiveUpGivesBack ==
  ASSUME TypeOK, IInv, NEW w \in Worker, jobs[w] # None, GiveUp(w)
  PROVE  Slot(w) \in Token \X Index /\ Promise!GiveBack(Slot(w))
<1> PICK t \in Token, i \in Index : t = jobs[w].token /\ i = jobs[w].index
  BY JobFields
<1>1. Statuses' = [Statuses EXCEPT ![Slot(w)] = IF @ = "busy" THEN "free" ELSE @]
  <2>1. grants' = Released(grants, t, i) /\ UNCHANGED phase /\ grants \in [Token -> Grant \cup {None}]
    BY DEF GiveUp, TypeOK
  <2> QED
    BY <2>1, ReleasedGrants, Settling
<1>2. Slot(w) \in Running /\ Running' = Running \ {Slot(w)}
  BY EndsRunning DEF GiveUp
<1>3. UNCHANGED delivered
  BY DEF GiveUp
<1> QED
  BY <1>1, <1>2, <1>3, JobFields DEF Promise!GiveBack, Statuses, Running

LEMMA OpenFailsAbandons ==
  ASSUME TypeOK, IInv, NEW w \in Worker, OpenFails(w)
  PROVE  Slot(w) \in Token \X Index /\ Promise!Abandon(Slot(w))
<1>1. jobs[w] # None /\ jobs' = [jobs EXCEPT ![w] = None] /\ UNCHANGED <<grants, phase, delivered>>
  BY DEF OpenFails, At
<1>2. Statuses' = Statuses
  BY <1>1, SameStatus DEF Statuses
<1>3. Slot(w) \in Running /\ Running' = Running \ {Slot(w)}
  BY <1>1, EndsRunning
<1> QED
  BY <1>1, <1>2, <1>3, JobFields DEF Promise!Abandon, Statuses, Running

LEMMA RestartRestarts ==
  ASSUME TypeOK, IInv, Restart
  PROVE  Promise!Restart
<1>1. /\ \A t \in Token : grants'[t] = None /\ (phase'[t] = "unused" <=> phase[t] = "unused")
      /\ \A w \in Worker : jobs'[w] = None
      /\ UNCHANGED delivered
  BY DEF Restart, TypeOK
<1>2. \A t \in Token, i \in Index :
        SlotStatus(<<t, i>>)' = IF SlotStatus(<<t, i>>) = "unborn" THEN "unborn" ELSE "gone"
  BY <1>1, StatusIs, StatusBecomes
<1>3. Statuses' = [s \in Token \X Index |-> IF Statuses[s] = "unborn" THEN "unborn" ELSE "gone"]
  BY <1>2 DEF Statuses
<1>4. Running' = {}
  BY <1>1 DEF Running, Serves
<1> QED
  BY <1>1, <1>3, <1>4 DEF Promise!Restart, Promise!Slot, Statuses, Running

\* Binding, a failed publication, progress inside a transfer and the clock are
\* no steps of the promise.
LEMMA OtherStepsStutter ==
  ASSUME TypeOK, IInv,
         \/ \E t \in Token : Bind(t) \/ CreateFails(t)
         \/ \E w \in Worker : \/ \E chunks \in 0 .. MaxChunks : OpenFile(w, chunks)
                              \/ StreamChunk(w) \/ SealFile(w)
         \/ Tick \/ UNCHANGED vars
  PROVE  UNCHANGED Promise!vars
<1>1. ASSUME NEW t \in Token, Bind(t)
      PROVE  UNCHANGED <<Statuses, Running, delivered>>
  <2>1. grants[t] # None => [grants[t] EXCEPT !.clip = t] \in Grant
    BY DEF Grant, TypeOK
  <2>2. \A u \in Token : /\ grants'[u] = None <=> grants[u] = None
                         /\ phase'[u] = "unused" <=> phase[u] = "unused"
                         /\ grants[u] # None => /\ grants'[u].served = grants[u].served
                                                /\ grants'[u].inFlight = grants[u].inFlight
    BY <1>1, <2>1, ConstantsAssumption DEF Bind, TypeOK, Grant
  <2>3. UNCHANGED <<jobs, delivered>>
    BY <1>1 DEF Bind
  <2> QED
    BY <2>2, <2>3, SameStatus, SameRunning DEF Statuses, Slot
<1>2. ASSUME NEW t \in Token, CreateFails(t)
      PROVE  UNCHANGED <<Statuses, Running, delivered>>
  BY <1>2, SameStatus, SameRunning DEF CreateFails, TypeOK, Statuses, Slot
<1>3. ASSUME NEW w \in Worker, NEW chunks \in 0 .. MaxChunks,
             OpenFile(w, chunks) \/ StreamChunk(w) \/ SealFile(w)
      PROVE  UNCHANGED <<Statuses, Running, delivered>>
  <2>1. jobs[w] \in Job /\ jobs[w] # None /\ UNCHANGED <<grants, phase, delivered>>
    BY <1>3 DEF OpenFile, StreamChunk, SealFile, At, TypeOK
  <2>2. jobs'[w] # None /\ Slot(w)' = Slot(w) /\ \A v \in Worker \ {w} : jobs'[v] = jobs[v]
    <3>1. jobs[w].left > 0 => jobs[w].left - 1 \in 0 .. MaxChunks
      BY <2>1, ConstantsAssumption DEF Job
    <3>2. PICK j \in Job : /\ jobs' = [jobs EXCEPT ![w] = j]
                           /\ j.token = jobs[w].token /\ j.index = jobs[w].index
      BY <1>3, <2>1, <3>1 DEF OpenFile, StreamChunk, SealFile, Job, TypeOK
    <3> QED
      BY <3>2, ConstantsAssumption DEF TypeOK, Slot
  <2> QED
    BY <2>1, <2>2, SameStatus, SameRunning DEF Statuses, Slot
<1>4. ASSUME Tick \/ UNCHANGED vars
      PROVE  UNCHANGED <<Statuses, Running, delivered>>
  BY <1>4, SameStatus, SameRunning DEF Tick, vars, Statuses, Slot
<1>5. UNCHANGED <<Statuses, Running, delivered>>
  BY <1>1, <1>2, <1>3, <1>4, ConstantsAssumption
<1> QED
  BY <1>5 DEF Promise!vars, Statuses, Running

LEMMA PromiseStep ==
  ASSUME TypeOK, IInv, [Next]_vars
  PROVE  [Promise!Next]_(Promise!vars)
<1>0. Dropped \in SUBSET Token
  BY DEF Dropped
<1>1. ASSUME NEW t \in Token, NEW keys \in KeySets, Register(t, keys)
      PROVE  Promise!Next
  BY <1>0, <1>1, RegisterPublishes DEF Promise!Next
<1>2. ASSUME NEW w \in Worker, NEW t \in Token, NEW i \in 0 .. FileCount,
             NEW req \in Request, NEW step \in {"opening", "sealing"},
             Claim(w, t, i, req, step)
      PROVE  Promise!Next
  <2>1. i \in Index /\ Promise!Reserve(<<t, i>>, Dropped)
    BY <1>2, ClaimReserves
  <2>2. <<t, i>> \in Promise!Slot
    BY <2>1 DEF Promise!Slot
  <2> QED
    BY <1>0, <2>1, <2>2 DEF Promise!Next
<1>3. ASSUME NEW t \in Token, NEW i \in 0 .. FileCount, NEW req \in Request, Refuse(t, i, req)
      PROVE  Promise!Next
  BY <1>0, <1>3, RefuseExpires DEF Promise!Next
<1>4. ASSUME NEW w \in Worker, jobs[w] # None, Finish(w) \/ GiveUp(w)
      PROVE  Promise!Next
  BY <1>4, FinishDelivers, GiveUpGivesBack DEF Promise!Next, Promise!Slot
<1>5. ASSUME NEW w \in Worker, OpenFails(w)
      PROVE  Promise!Next
  BY <1>5, OpenFailsAbandons DEF Promise!Next, Promise!Slot
<1>6. CASE Restart
  BY <1>6, RestartRestarts DEF Promise!Next
<1>7. CASE Publishing
  BY <1>1, <1>7, OtherStepsStutter DEF Publishing
<1>8. CASE Claiming
  BY <1>2, <1>3, <1>8 DEF Claiming
<1>9. CASE Transferring
  BY <1>4, <1>5, <1>9, OtherStepsStutter
     DEF Transferring, StreamEnds, SealFails, SendSucceeds, SendFails, At
<1>10. CASE Tick \/ UNCHANGED vars
  BY <1>10, OtherStepsStutter
<1> QED
  BY <1>6, <1>7, <1>8, <1>9, <1>10 DEF Next

\* The registry and its transfers keep the promise of OneTimeGrants
\* (ImplementsPromise): seen without workers, clocks and signatures, every step
\* of peer.rs and relay.rs publishes, expires, reserves, delivers, gives back,
\* abandons or restarts as that specification allows, or changes nothing.
THEOREM KeepsThePromise == Spec => ImplementsPromise
<1>1. Init => Promise!Init
  <2> SUFFICES ASSUME Init
               PROVE  Promise!Init
    OBVIOUS
  <2>1. \A t \in Token, i \in Index : SlotStatus(<<t, i>>) = "unborn"
    BY StatusIs DEF Init
  <2> QED
    BY <2>1 DEF Init, Promise!Init, Promise!Slot, Serves
<1> QED
  BY <1>1, TypeCorrect, Inductive, PromiseStep, PTL DEF Spec, ImplementsPromise, Promise!Spec
=============================================================================
