------------------------- MODULE FileTransferProofs -------------------------
(***************************************************************************)
(* Proofs about FileTransfer for every number of attempts, workers, files  *)
(* and chunks.  The source in it takes registry steps only, so what        *)
(* PeerGrantsProofs shows of the registry holds here (Inv!...); what is    *)
(* left is the other half of a transfer: who is linked to whom, how much   *)
(* of a file is on its way, and whose file it is once it has arrived.      *)
(***************************************************************************)
EXTENDS FileTransfer, WellFoundedInduction, TLAPS

Inv == INSTANCE PeerGrantsProofs

-----------------------------------------------------------------------------
(* The registry inside FileTransfer is the one of PeerGrantsProofs.        *)

\* The assumptions of PeerGrants hold here.
LEMMA RegistryConstants == Inv!ConstantsAssumption
BY RegistryAssumption DEF Inv!ConstantsAssumption, Inv!Grant, Inv!Job, Inv!Index,
   Registry!Grant, Registry!Job, Registry!Index

LEMMA SameRegistry ==
  /\ Registry!Init <=> Inv!Init
  /\ Registry!TypeOK <=> Inv!TypeOK
  /\ Registry!Next <=> Inv!Next
  /\ Registry!Restart <=> Inv!Restart
  /\ \A w : Registry!Finish(w) <=> Inv!Finish(w)
  /\ \A w, t, i : Registry!Serves(w, t, i) <=> Inv!Serves(w, t, i)
<1> USE DEF Registry!Index, Inv!Index, Registry!Slot, Inv!Slot, Registry!Grant,
            Inv!Grant, Registry!Job, Inv!Job
<1>1. Registry!Init <=> Inv!Init
  BY DEF Registry!Init, Inv!Init
<1>2. Registry!TypeOK <=> Inv!TypeOK
  BY DEF Registry!TypeOK, Inv!TypeOK
<1>3. Registry!Restart <=> Inv!Restart
  BY DEF Registry!Restart, Inv!Restart
<1>4. \A w : Registry!Finish(w) <=> Inv!Finish(w)
  BY DEF Registry!Finish, Inv!Finish, Registry!Committed, Inv!Committed
<1>5. \A w, t, i : Registry!Serves(w, t, i) <=> Inv!Serves(w, t, i)
  BY DEF Registry!Serves, Inv!Serves
<1>6. Registry!Next <=> Inv!Next
  BY DEF Registry!Next, Inv!Next, Registry!Publishing, Inv!Publishing,
     Registry!Claiming, Inv!Claiming, Registry!Transferring, Inv!Transferring,
     Registry!Tick, Inv!Tick, Registry!Restart, Inv!Restart,
     Registry!Request, Inv!Request, Registry!Register, Inv!Register,
     Registry!Bind, Inv!Bind, Registry!CreateFails, Inv!CreateFails,
     Registry!Claim, Inv!Claim, Registry!Refuse, Inv!Refuse,
     Registry!Cleaned, Inv!Cleaned, Registry!Accepts, Inv!Accepts,
     Registry!OpenFile, Inv!OpenFile, Registry!OpenFails, Inv!OpenFails,
     Registry!StreamChunk, Inv!StreamChunk, Registry!StreamEnds, Inv!StreamEnds,
     Registry!SealFile, Inv!SealFile, Registry!SealFails, Inv!SealFails,
     Registry!SendSucceeds, Inv!SendSucceeds, Registry!SendFails, Inv!SendFails,
     Registry!At, Inv!At, Registry!Finish, Inv!Finish, Registry!GiveUp, Inv!GiveUp,
     Registry!Committed, Inv!Committed, Registry!Released, Inv!Released
<1>7. QED
  BY <1>1, <1>2, <1>3, <1>4, <1>5, <1>6

\* A job is typed, and its slot is a slot.
LEMMA JobsTyped ==
  ASSUME Inv!TypeOK
  PROVE  /\ jobs \in [Worker -> Registry!Job \cup {None}]
         /\ \A w \in Worker : jobs[w] # None =>
              /\ jobs[w] \in Registry!Job
              /\ jobs[w].token \in Token
              /\ jobs[w].index \in Index
              /\ jobs[w].left \in 0 .. MaxChunks
              /\ Registry!Serves(w, jobs[w].token, jobs[w].index)
BY DEF Inv!TypeOK, Inv!Job, Registry!Job, Inv!Index, Registry!Index, Index,
       Registry!Serves, Registry!Slot

-----------------------------------------------------------------------------
(* What an attempt is, apart from its counters.                            *)

\* The first file an attempt misses exists unless it has them all.  The least
\* element comes from the order of the natural numbers being well-founded.
LEMMA FirstMissingExists ==
  ASSUME NEW have \in SUBSET Index, have # Index
  PROVE  FirstMissing(have) \in Index \ have
<1> DEFINE Missing == Index \ have
           Less == {ss \in Nat \X Nat : ss[1] < ss[2]}
<1>1. Missing \subseteq Nat /\ Missing # {}
  <2>1. Index \subseteq Nat
    BY RegistryAssumption DEF Index
  <2>2. \E i \in Index : i \notin have
    OBVIOUS
  <2>3. QED
    BY <2>1, <2>2
<1>2. OpToRel(<, Nat) = Less
  BY DEF OpToRel
<1>3. IsWellFoundedOn(Less, Nat)
  BY <1>2, NatLessThanWellFounded
<1> HIDE DEF Less, Missing
<1>4. PICK i \in Missing : \A j \in Missing : <<j, i>> \notin Less
  BY <1>1, <1>3, WFMin
<1>5. \A j \in Missing : i <= j
  <2>1. ASSUME NEW j \in Missing
        PROVE  i <= j
    <3>1. i \in Nat /\ j \in Nat
      BY <1>1
    <3>2. ~ (j < i)
      BY <1>4, <3>1 DEF Less
    <3>3. QED
      BY <3>1, <3>2
  <2>2. QED
    BY <2>1
<1>6. QED
  BY <1>4, <1>5 DEF FirstMissing, Missing

Active == {"asking", "receiving", "connecting", "requesting", "pulling"}

AttemptShape ==
  [step  : Active \cup {"new", "done", "failed"},
   token : Token \cup {None},
   index : Index \cup {None},
   have  : SUBSET Index,
   size  : 0 .. (MaxChunks + 1),
   sent  : Nat,
   taken : Nat]

\* An attempt has a token once it began, and a file it is after while it runs.
WellFormed(r) ==
  /\ r \in AttemptShape
  /\ r.step = "new" <=> r.token = None
  /\ r.step = "new" => r.have = {}
  /\ r.step \in Active => r.index # None

Shape ==
  /\ attempts \in [Attempt -> AttemptShape]
  /\ \A a \in Attempt : WellFormed(attempts[a])
  /\ client \in [Worker -> Attempt \cup {None}]
  /\ flushed \subseteq Worker

\* The record of an attempt that goes for the first file it misses, and of
\* one that failed.
Pursued(r, step, have) ==
  [r EXCEPT !.step  = IF have = Index THEN "done" ELSE step,
            !.index = IF have = Index THEN None ELSE FirstMissing(have),
            !.have  = have, !.size = 0, !.sent = 0, !.taken = 0]

GivenUp(r) ==
  [r EXCEPT !.step = "failed", !.index = None, !.size = 0, !.sent = 0, !.taken = 0]

\* What the recipient's bookkeeping makes of an attempt's record.
LEMMA Bookkeeping ==
  ASSUME Shape, NEW a \in Attempt
  PROVE  /\ \A step \in Active, have \in SUBSET Index :
              Pursuing(a, step, have)
                = [attempts EXCEPT ![a] = Pursued(attempts[a], step, have)]
         /\ Failed(a) = [attempts EXCEPT ![a] = GivenUp(attempts[a])]
         /\ FallenBack(a) = [attempts EXCEPT
              ![a] = Pursued(attempts[a], "connecting", attempts[a].have)]
<1>1. a # None
  BY TransferAssumption
<1>2. attempts[a] \in AttemptShape /\ attempts[a].have \in SUBSET Index
  BY DEF Shape, AttemptShape
<1>3. \A step \in Active, have \in SUBSET Index :
        Pursuing(a, step, have) = [attempts EXCEPT ![a] = Pursued(attempts[a], step, have)]
  <2>1. ASSUME NEW step \in Active, NEW have \in SUBSET Index
        PROVE  Pursuing(a, step, have) = [attempts EXCEPT ![a] = Pursued(attempts[a], step, have)]
    <3> DEFINE s == IF have = Index THEN "done" ELSE step
               i == IF have = Index THEN None ELSE FirstMissing(have)
    <3>1. /\ Pursuing(a, step, have) =
               [attempts EXCEPT ![a].step = s, ![a].index = i, ![a].have = have,
                                ![a].size = 0, ![a].sent = 0, ![a].taken = 0]
          /\ Pursued(attempts[a], step, have) =
               [attempts[a] EXCEPT !.step = s, !.index = i, !.have = have,
                                   !.size = 0, !.sent = 0, !.taken = 0]
      BY DEF Pursuing, Pursued
    <3> HIDE DEF s, i
    <3>2. QED
      BY <1>2, <3>1 DEF Shape, AttemptShape
  <2>2. QED
    BY <2>1
<1>4. Failed(a) = [attempts EXCEPT ![a] = GivenUp(attempts[a])]
  BY <1>1, <1>2 DEF Shape, Failed, GivenUp, AttemptShape
<1>5. QED
  BY <1>1, <1>2, <1>3, <1>4 DEF FallenBack, Active

\* Both keep the token, and leave an attempt that began well-formed.
LEMMA Outcomes ==
  ASSUME NEW r, WellFormed(r), r.step # "new"
  PROVE  /\ \A step \in Active, have \in SUBSET Index :
              /\ WellFormed(Pursued(r, step, have))
              /\ Pursued(r, step, have).token = r.token
              /\ Pursued(r, step, have).have = have
              /\ Pursued(r, step, have).step = IF have = Index THEN "done" ELSE step
              /\ Pursued(r, step, have).size = 0
              /\ Pursued(r, step, have).sent = 0
              /\ Pursued(r, step, have).taken = 0
         /\ WellFormed(GivenUp(r))
         /\ GivenUp(r).token = r.token
         /\ GivenUp(r).have = r.have
         /\ GivenUp(r).step = "failed"
         /\ GivenUp(r).size = 0
         /\ GivenUp(r).sent = 0
         /\ GivenUp(r).taken = 0
<1>1. r \in AttemptShape /\ 0 \in 0 .. (MaxChunks + 1)
  BY RegistryAssumption DEF WellFormed
<1>2. ASSUME NEW step \in Active, NEW have \in SUBSET Index
      PROVE  /\ WellFormed(Pursued(r, step, have))
             /\ Pursued(r, step, have).token = r.token
             /\ Pursued(r, step, have).have = have
             /\ Pursued(r, step, have).step = IF have = Index THEN "done" ELSE step
             /\ Pursued(r, step, have).size = 0
             /\ Pursued(r, step, have).sent = 0
             /\ Pursued(r, step, have).taken = 0
  <2>1. have # Index => FirstMissing(have) \in Index /\ FirstMissing(have) # None
    BY FirstMissingExists, TransferAssumption
  <2>2. QED
    BY <1>1, <2>1 DEF WellFormed, Pursued, AttemptShape, Active
<1>3. QED
  BY <1>1, <1>2 DEF WellFormed, GivenUp, AttemptShape, Active

\* Changing one attempt for a well-formed one keeps the shape.
LEMMA OneAttemptChanges ==
  ASSUME Shape, NEW a \in Attempt, NEW r, WellFormed(r),
         attempts' = [attempts EXCEPT ![a] = r],
         client' \in [Worker -> Attempt \cup {None}],
         flushed' \subseteq Worker
  PROVE  Shape'
BY DEF Shape, WellFormed

\* Hanging up and ending a worker only take connections away.
LEMMA Disconnecting ==
  ASSUME Shape
  PROVE  /\ \A a \in Attempt :
              /\ HungUp(a) \in [Worker -> Attempt \cup {None}]
              /\ \A w \in Worker :
                   HungUp(a)[w] = IF client[w] = a THEN None ELSE client[w]
         /\ \A w \in Worker :
              /\ Unlinked(w) \in [Worker -> Attempt \cup {None}]
              /\ \A v \in Worker :
                   Unlinked(w)[v] = IF v = w THEN None ELSE client[v]
BY DEF Shape, HungUp, Unlinked

-----------------------------------------------------------------------------
(* The inductive invariant.                                                *)

\* The worker and the attempt at the ends of one connection agree on the file
\* and on how far it is.  A worker whose last frame is with the relay may have
\* been left behind by an attempt that has the file and goes on.
Agrees(w, a) ==
  /\ jobs[w] # None
  /\ w \notin flushed =>
       /\ attempts[a].token = jobs[w].token
       /\ attempts[a].index = jobs[w].index
       /\ <<jobs[w].step, attempts[a].step>> \in
            {<<"opening", "asking">>, <<"streaming", "receiving">>,
             <<"sealing", "requesting">>, <<"sending", "pulling">>}
       /\ jobs[w].step = "streaming" => attempts[a].size = attempts[a].sent + jobs[w].left
       /\ jobs[w].step = "sending" => attempts[a].sent < attempts[a].size
  /\ w \in flushed =>
       /\ In(a, {"pulling", "requesting", "done"})
       /\ In(a, {"pulling"}) =>
            /\ attempts[a].token = jobs[w].token
            /\ attempts[a].index = jobs[w].index
            /\ attempts[a].sent = attempts[a].size

LinkedAgree ==
  \A w \in Worker : client[w] # None => Agrees(w, client[w])

\* An attempt has one connection at a time.
OneConnection ==
  \A v, w \in Worker : client[v] # None /\ client[v] = client[w] => v = w

FlushedAreSending ==
  \A w \in flushed : Registry!At(w, "sending")

\* What has arrived was sent, what was sent is part of the file, and there is
\* nothing to count unless a file is on its way.
Counted(a) ==
  /\ attempts[a].taken <= attempts[a].sent
  /\ attempts[a].sent <= attempts[a].size
  /\ ~In(a, {"receiving", "pulling"}) => attempts[a].size = 0

AttemptsCounted == \A a \in Attempt : Counted(a)

\* The file is the attempt's: it is in the cache, or all of it is on the way.
Holds(a, i) ==
  \/ i \in attempts[a].have
  \/ /\ In(a, {"receiving", "pulling"})
     /\ attempts[a].index = i
     /\ attempts[a].sent = attempts[a].size

\* Nobody will be given the file again: its worker can only commit it, or it
\* has no worker and no claim of it is ever accepted.
Spent(t, i) ==
  Inv!Closed(t, i) \/ \E w \in Worker : Committing(w, t, i)

HeldIsSpent ==
  \A a \in Attempt, i \in Index :
    Holds(a, i) => Spent(attempts[a].token, i)

OneHolder ==
  \A a, b \in Attempt, i \in Index :
    attempts[a].token = attempts[b].token /\ Holds(a, i) /\ Holds(b, i) => a = b

IInv ==
  /\ LinkedAgree
  /\ OneConnection
  /\ FlushedAreSending
  /\ AttemptsCounted
  /\ HeldIsSpent
  /\ OneHolder
-----------------------------------------------------------------------------
(* The two shapes a step can have: it changes one attempt, or none.        *)

\* Who holds a file has a token, so the file is one of a publication.
LEMMA HolderHasToken ==
  ASSUME Shape, NEW a \in Attempt, NEW i \in Index, Holds(a, i)
  PROVE  attempts[a].token \in Token
BY DEF Shape, WellFormed, AttemptShape, Holds, In

\* A step of one attempt a, with the workers that stay linked to others left
\* alone, keeps the invariant if what a holds afterwards it held before, or
\* is something nobody could hold before.
LEMMA AttemptMoves ==
  ASSUME Shape, IInv,
         NEW a \in Attempt, NEW r, WellFormed(r),
         attempts' = [attempts EXCEPT ![a] = r],
         client' \in [Worker -> Attempt \cup {None}],
         flushed' \subseteq Worker,
         FlushedAreSending',
         \A v \in Worker : client'[v] \in {None, a, client[v]},
         \A u, v \in Worker : client'[u] = a /\ client'[v] = a => u = v,
         \A v \in Worker : client'[v] # None /\ client'[v] # a =>
           /\ jobs'[v] = jobs[v]
           /\ v \in flushed' <=> v \in flushed,
         \A v \in Worker : client'[v] = a => Agrees(v, a)',
         Counted(a)',
         \A t \in Token, i \in Index : Spent(t, i) => Spent(t, i)',
         \A i \in Index : Holds(a, i)' =>
           /\ r.token = attempts[a].token
           /\ Holds(a, i) \/ (Spent(r.token, i)' /\ ~Spent(r.token, i))
  PROVE  Shape' /\ IInv'
<1>1. Shape'
  BY OneAttemptChanges
<1>2. /\ attempts'[a] = r
      /\ \A b \in Attempt : b # a => attempts'[b] = attempts[b]
  BY DEF Shape
<1>3. \A b \in Attempt, i \in Index : b # a => (Holds(b, i)' <=> Holds(b, i))
  BY <1>2 DEF Holds, In
<1>4. LinkedAgree'
  <2> SUFFICES ASSUME NEW v \in Worker, client'[v] # None, client'[v] # a
               PROVE  Agrees(v, client[v])'
    BY DEF LinkedAgree
  <2>1. /\ client'[v] = client[v]
        /\ client[v] \in Attempt
        /\ attempts'[client[v]] = attempts[client[v]]
    BY <1>2 DEF Shape
  <2>2. Agrees(v, client[v])
    BY <2>1 DEF IInv, LinkedAgree
  <2>3. QED
    BY <2>1, <2>2 DEF Agrees, In
<1>5. OneConnection'
  BY DEF IInv, OneConnection
<1>6. AttemptsCounted'
  BY <1>2 DEF IInv, AttemptsCounted, Counted, In
<1>7. HeldIsSpent'
  <2> SUFFICES ASSUME NEW b \in Attempt, NEW i \in Index, Holds(b, i)'
               PROVE  Spent(attempts[b].token, i)'
    BY DEF HeldIsSpent
  <2>1. CASE Holds(b, i)
    <3>1. PICK t \in Token : attempts[b].token = t /\ Spent(t, i)
      BY <2>1, HolderHasToken DEF IInv, HeldIsSpent
    <3>2. attempts'[b].token = t
      BY <1>2, <3>1
    <3>3. Spent(t, i)'
      BY <3>1
    <3>4. QED
      BY <3>2, <3>3
  <2>2. CASE ~Holds(b, i)
    <3>1. b = a /\ Spent(r.token, i)'
      BY <1>3, <2>2
    <3>2. attempts'[b].token = r.token
      BY <1>2, <3>1
    <3>3. QED
      BY <3>1, <3>2
  <2>3. QED
    BY <2>1, <2>2
<1>8. OneHolder'
  <2> SUFFICES ASSUME NEW b \in Attempt, NEW i \in Index, b # a,
                      Holds(a, i)', Holds(b, i)', attempts'[a].token = attempts'[b].token
               PROVE  FALSE
    BY <1>2, <1>3 DEF IInv, OneHolder
  <2>1. Holds(b, i) /\ attempts[a].token = attempts[b].token
    BY <1>2, <1>3
  <2>2. Spent(r.token, i)
    BY <1>2, <2>1 DEF IInv, HeldIsSpent
  <2>3. QED
    BY <2>1, <2>2 DEF IInv, OneHolder
<1>9. QED
  BY <1>1, <1>4, <1>5, <1>6, <1>7, <1>8 DEF IInv

\* A step that changes no attempt, and no worker that stays linked to one.
LEMMA NoAttemptMoves ==
  ASSUME Shape, IInv, UNCHANGED attempts,
         client' \in [Worker -> Attempt \cup {None}],
         flushed' \subseteq Worker,
         FlushedAreSending',
         \A v \in Worker : client'[v] \in {None, client[v]},
         \A v \in Worker : client'[v] # None =>
           /\ jobs'[v] = jobs[v]
           /\ v \in flushed' <=> v \in flushed,
         \A t \in Token, i \in Index : Spent(t, i) => Spent(t, i)'
  PROVE  Shape' /\ IInv'
<1>1. Shape'
  BY DEF Shape, WellFormed
<1>2. \A b \in Attempt, i \in Index : Holds(b, i)' <=> Holds(b, i)
  BY DEF Holds, In
<1>3. LinkedAgree'
  <2> SUFFICES ASSUME NEW v \in Worker, client'[v] # None
               PROVE  Agrees(v, client[v])'
    BY DEF LinkedAgree
  <2>1. client'[v] = client[v] /\ Agrees(v, client[v])
    BY DEF IInv, LinkedAgree
  <2>2. QED
    BY <2>1 DEF Agrees, In
<1>4. OneConnection'
  BY DEF IInv, OneConnection
<1>5. AttemptsCounted'
  BY DEF IInv, AttemptsCounted, Counted, In
<1>6. HeldIsSpent'
  BY <1>2, HolderHasToken DEF IInv, HeldIsSpent
<1>7. OneHolder'
  BY <1>2 DEF IInv, OneHolder
<1>8. QED
  BY <1>1, <1>3, <1>4, <1>5, <1>6, <1>7 DEF IInv
-----------------------------------------------------------------------------
(* What the source does is a step of the registry.                         *)

LEMMA RegistryClaims ==
  ASSUME NEW t \in Token, NEW i \in Index, NEW d \in Device,
         LET req == [clip |-> t, requester |-> d, signed |-> TRUE] IN
           \/ \E w \in Worker, step \in {"opening", "sealing"} :
                Registry!Claim(w, t, i, req, step)
           \/ Registry!Refuse(t, i, req)
  PROVE  Registry!Next
<1>1. i \in 0 .. FileCount
  BY RegistryAssumption DEF Index
<1>2. [clip |-> t, requester |-> d, signed |-> TRUE] \in Registry!Request
  BY DEF Registry!Request
<1>3. QED
  BY <1>1, <1>2 DEF Registry!Next, Registry!Claiming

\* Every step of the two ends together is a step of the registry alone, or
\* leaves the registry as it is.
LEMMA SourceIsRegistry ==
  ASSUME Shape, [Next]_vars
  PROVE  [Inv!Next]_(Inv!vars)
<1> USE DEF Registry!Next
<1>1. CASE UNCHANGED sourceVars
  BY <1>1 DEF sourceVars, Inv!vars
<1>2. CASE Unrelated \/ SourceRestarts
  BY <1>2, SameRegistry DEF Unrelated, SourceRestarts
<1>3. ASSUME NEW a \in Attempt, In(a, {"asking", "requesting"})
      PROVE  attempts[a].token \in Token /\ attempts[a].index \in Index
  BY <1>3 DEF In, Shape, WellFormed, AttemptShape, Active
<1>4. Recipient \in Device
  BY TransferAssumption
<1>5. ASSUME NEW w \in Worker, SourceStep(w)
      PROVE  [Inv!Next]_(Inv!vars)
  <2>1. ASSUME NEW a \in Attempt, DirectArrives(w, a) \/ RelayArrives(w, a)
        PROVE  Registry!Next
    BY <1>3, <1>4, <2>1, RegistryClaims DEF DirectArrives, RelayArrives, Signed, In
  <2>2. ASSUME NEW t \in Token, NEW i \in Index, NEW d \in Stray,
               NEW step \in {"opening", "sealing"}, StrayClaim(w, t, i, d, step)
        PROVE  Registry!Next
    BY <2>2, RegistryClaims, TransferAssumption DEF StrayClaim
  <2>3. ASSUME NEW chunks \in 0 .. MaxChunks, Open(w, chunks) \/ Seal(w, chunks)
        PROVE  Registry!Next
    BY <2>3 DEF Open, Seal, Registry!Transferring
  <2>4. ASSUME OpenError(w) \/ Stream(w) \/ EndStream(w) \/ SealError(w)
               \/ SendAll(w) \/ SendError(w)
        PROVE  Registry!Next
    BY <2>4 DEF OpenError, Stream, EndStream, SealError, SendAll, SendError,
                Registry!Transferring
  <2>5. ASSUME Send(w)
        PROVE  UNCHANGED sourceVars
    BY <2>5 DEF Send
  <2>6. QED
    BY <1>1, <1>5, <2>1, <2>2, <2>3, <2>4, <2>5, SameRegistry DEF SourceStep
<1>6. ASSUME NEW a \in Attempt, RecipientStep(a)
      PROVE  [Inv!Next]_(Inv!vars)
  <2>1. ASSUME DirectRefused(a) \/ RelayRefused(a)
        PROVE  Registry!Next
    BY <1>3, <1>4, <2>1, RegistryClaims DEF DirectRefused, RelayRefused, Signed, In
  <2>2. QED
    BY <1>1, <1>6, <2>1, SameRegistry
       DEF RecipientStep, Begin, Take, KeepDirect, DirectBreaks, Connect, KeepRelayed,
           RelayBreaks
<1>7. CASE UNCHANGED vars
  BY <1>1, <1>7 DEF vars, sourceVars
<1>8. QED
  BY <1>2, <1>5, <1>6, <1>7 DEF Next

-----------------------------------------------------------------------------
(* What was spent stays spent.                                             *)

\* A worker that can only commit either goes on like that or commits.
LEMMA CommittingStays ==
  ASSUME Inv!TypeOK, Inv!IInv, Shape, FlushedAreSending, [Next]_vars,
         NEW w \in Worker, NEW t \in Token, NEW i \in Index, Committing(w, t, i)
  PROVE  Committing(w, t, i)' \/ Inv!Closed(t, i)'
<1> USE DEF Registry!At
<1>0. /\ jobs \in [Worker -> Registry!Job \cup {None}]
      /\ jobs[w] # None
      /\ Registry!Serves(w, t, i)
      /\ flushed \subseteq Worker
      /\ i \in Inv!Index
      /\ w \in flushed => jobs[w].step = "sending"
      /\ w \notin flushed => jobs[w].step = "streaming" /\ jobs[w].left = 0
  BY JobsTyped DEF Committing, Registry!Serves, Shape, Index, Inv!Index, FlushedAreSending
<1>1. ASSUME jobs'[w] = jobs[w], w \in flushed => w \in flushed'
      PROVE  Committing(w, t, i)'
  BY <1>1 DEF Committing, Registry!Serves, Registry!Slot
<1>2. ASSUME Registry!Finish(w) \/ Registry!Restart
      PROVE  Inv!Closed(t, i)'
  BY <1>0, <1>2, SameRegistry, RegistryConstants, Inv!Closing
<1>3. ASSUME NEW v \in Worker, SourceStep(v)
      PROVE  Committing(w, t, i)' \/ Inv!Closed(t, i)'
  <2>1. ASSUME NEW a \in Attempt, DirectArrives(v, a) \/ RelayArrives(v, a)
        PROVE  Committing(w, t, i)'
    BY <1>0, <1>1, <2>1 DEF DirectArrives, RelayArrives, Registry!Claim
  <2>2. ASSUME NEW u \in Token, NEW j \in Index, NEW d \in Stray,
               NEW step \in {"opening", "sealing"}, StrayClaim(v, u, j, d, step)
        PROVE  Committing(w, t, i)'
    BY <1>0, <1>1, <2>2 DEF StrayClaim, Registry!Claim
  <2>3. ASSUME NEW chunks \in 0 .. MaxChunks, Open(v, chunks) \/ Seal(v, chunks)
        PROVE  Committing(w, t, i)'
    <3>1. v # w
      BY <1>0, <2>3 DEF Open, Seal, Registry!OpenFile, Registry!SealFile
    <3>2. QED
      BY <1>0, <1>1, <2>3, <3>1 DEF Open, Seal, Registry!OpenFile, Registry!SealFile
  <2>4. ASSUME OpenError(v) \/ Stream(v) \/ SealError(v) \/ SendError(v)
        PROVE  Committing(w, t, i)'
    <3>1. v # w
      BY <1>0, <2>4
         DEF OpenError, Stream, SealError, SendError, Registry!OpenFails,
             Registry!StreamChunk, Registry!SealFails, Registry!SendFails
    <3>2. QED
      BY <1>0, <1>1, <2>4, <3>1
         DEF OpenError, Stream, SealError, SendError, Registry!OpenFails,
             Registry!StreamChunk, Registry!SealFails, Registry!SendFails, Registry!GiveUp
  <2>5. ASSUME EndStream(v)
        PROVE  Committing(w, t, i)' \/ Inv!Closed(t, i)'
    <3>1. CASE v = w
      BY <1>0, <1>2, <2>5, <3>1 DEF EndStream, Registry!StreamEnds
    <3>2. CASE v # w
      BY <1>0, <1>1, <2>5, <3>2
         DEF EndStream, Registry!StreamEnds, Registry!Finish, Registry!GiveUp
    <3>3. QED
      BY <3>1, <3>2
  <2>6. ASSUME Send(v)
        PROVE  Committing(w, t, i)'
    BY <1>1, <2>6 DEF Send, sourceVars
  <2>7. ASSUME SendAll(v)
        PROVE  Committing(w, t, i)' \/ Inv!Closed(t, i)'
    <3>1. CASE v = w
      BY <1>2, <2>7, <3>1 DEF SendAll, Registry!SendSucceeds
    <3>2. CASE v # w
      BY <1>0, <1>1, <2>7, <3>2 DEF SendAll, Registry!SendSucceeds, Registry!Finish
    <3>3. QED
      BY <3>1, <3>2
  <2>8. QED
    BY <1>3, <2>1, <2>2, <2>3, <2>4, <2>5, <2>6, <2>7 DEF SourceStep
<1>4. ASSUME NEW a \in Attempt, RecipientStep(a)
      PROVE  Committing(w, t, i)'
  BY <1>1, <1>4 DEF RecipientStep, Begin, DirectRefused, RelayRefused, Registry!Refuse,
     Take, KeepDirect, DirectBreaks, Connect, KeepRelayed, RelayBreaks, sourceVars
<1>5. CASE Unrelated
  BY <1>1, <1>5 DEF Unrelated, Registry!Publishing, Registry!Register, Registry!Bind,
     Registry!CreateFails, Registry!Tick
<1>6. CASE SourceRestarts
  BY <1>2, <1>6 DEF SourceRestarts
<1>7. CASE UNCHANGED vars
  BY <1>1, <1>7 DEF vars
<1>8. QED
  BY <1>3, <1>4, <1>5, <1>6, <1>7 DEF Next

LEMMA SpentStays ==
  ASSUME Inv!TypeOK, Inv!IInv, Shape, FlushedAreSending, [Next]_vars
  PROVE  \A t \in Token, i \in Index : Spent(t, i) => Spent(t, i)'
<1> SUFFICES ASSUME NEW t \in Token, NEW i \in Index, Spent(t, i)
             PROVE  Spent(t, i)'
  OBVIOUS
<1>1. CASE Inv!Closed(t, i)
  <2>1. i \in Inv!Index
    BY DEF Index, Inv!Index
  <2>2. Inv!Closed(t, i)'
    BY <1>1, <2>1, SourceIsRegistry, RegistryConstants, Inv!ClosedStays
  <2>3. QED
    BY <2>2 DEF Spent
<1>2. ASSUME NEW w \in Worker, Committing(w, t, i)
      PROVE  Spent(t, i)'
  BY <1>2, CommittingStays DEF Spent
<1>3. QED
  BY <1>1, <1>2 DEF Spent

-----------------------------------------------------------------------------
(* The recipient's steps.                                                  *)

SpentKept == \A t \in Token, i \in Index : Spent(t, i) => Spent(t, i)'

\* What the links say of an attempt and of a worker.
LEMMA Links ==
  ASSUME Shape, IInv
  PROVE  /\ \A v \in Worker : client[v] # None =>
              /\ client[v] \in Attempt
              /\ jobs[v] # None
              /\ Agrees(v, client[v])
              /\ attempts[client[v]].step # "new"
              /\ In(client[v], {"connecting", "failed"}) => FALSE
         /\ \A v, w \in Worker : client[v] # None /\ client[v] = client[w] => v = w
         /\ \A v \in flushed : jobs[v] # None /\ jobs[v].step = "sending"
BY DEF Shape, IInv, LinkedAgree, OneConnection, FlushedAreSending, Agrees, In, Registry!At

\* An attempt that has begun fails or falls back, and has no connection left.
LEMMA AttemptEnds ==
  ASSUME Shape, IInv, SpentKept,
         NEW a \in Attempt, attempts[a].step # "new",
         attempts' \in {Failed(a), FallenBack(a)},
         client' \in [Worker -> Attempt \cup {None}],
         flushed' \subseteq Worker,
         FlushedAreSending',
         \A v \in Worker : client'[v] \in {None, client[v]} /\ client'[v] # a,
         \A v \in Worker : client'[v] # None =>
           /\ jobs'[v] = jobs[v]
           /\ v \in flushed' <=> v \in flushed
  PROVE  Shape' /\ IInv'
<1>1. WellFormed(attempts[a]) /\ attempts[a].have \in SUBSET Index
  BY DEF Shape, AttemptShape
<1>2. PICK r : /\ WellFormed(r)
               /\ attempts' = [attempts EXCEPT ![a] = r]
               /\ r.token = attempts[a].token
               /\ r.have = attempts[a].have
               /\ r.step \notin {"receiving", "pulling"}
               /\ r.size = 0 /\ r.sent = 0 /\ r.taken = 0
  <2>1. CASE attempts' = Failed(a)
    BY <1>1, <2>1, Bookkeeping, Outcomes
  <2>2. CASE attempts' = FallenBack(a)
    <3>1. "connecting" \in Active
      BY DEF Active
    <3>2. QED
      BY <1>1, <2>2, <3>1, Bookkeeping, Outcomes
  <2>3. QED
    BY <2>1, <2>2
<1>3. attempts'[a] = r
  BY <1>2 DEF Shape
<1>4. Counted(a)'
  BY <1>2, <1>3 DEF Counted
<1>5. \A i \in Index : Holds(a, i)' => Holds(a, i)
  BY <1>2, <1>3 DEF Holds, In
<1>6. QED
  BY <1>2, <1>4, <1>5, AttemptMoves DEF SpentKept

LEMMA BeginKeeps ==
  ASSUME Shape, IInv, SpentKept, NEW a \in Attempt, NEW t \in Token, Begin(a, t)
  PROVE  Shape' /\ IInv'
<1>1. PICK step \in {"asking", "connecting", "failed"} :
        attempts' = [attempts EXCEPT
          ![a].step = step, ![a].token = t,
          ![a].index = IF step = "failed" THEN None ELSE FirstMissing({})]
  BY DEF Begin
<1> DEFINE i == IF step = "failed" THEN None ELSE FirstMissing({})
           r == [attempts[a] EXCEPT !.step = step, !.token = t, !.index = i]
<1>2. i \in Index \cup {None} /\ (step # "failed" => i # None)
  <2>1. {} \in SUBSET Index /\ {} # Index
    BY RegistryAssumption, TransferAssumption DEF Index
  <2>2. QED
    BY <2>1, FirstMissingExists, TransferAssumption
<1> HIDE DEF i
<1>3. /\ attempts[a] \in AttemptShape
      /\ attempts[a].step = "new"
      /\ t # None
      /\ attempts[a].have = {}
      /\ attempts[a].size = 0
      /\ Counted(a)
  BY RegistryAssumption DEF Shape, Begin, In, WellFormed, IInv, AttemptsCounted, Counted
<1>4. /\ WellFormed(r)
      /\ r.step = step /\ r.have = {} /\ r.size = 0
      /\ r.taken = attempts[a].taken /\ r.sent = attempts[a].sent
  BY <1>2, <1>3 DEF WellFormed, AttemptShape, Active
<1>5. attempts' = [attempts EXCEPT ![a] = r]
  BY <1>1, <1>3 DEF Shape, AttemptShape, i
<1> HIDE DEF r
<1>6. attempts'[a] = r
  BY <1>5 DEF Shape
<1>7. Counted(a)'
  BY <1>3, <1>4, <1>6 DEF Counted, In
<1>8. \A j \in Index : ~Holds(a, j)'
  BY <1>4, <1>6 DEF Holds, In
<1>9. /\ UNCHANGED <<jobs, client, flushed>>
      /\ \A v \in Worker : client[v] # a
  BY <1>3, Links, TransferAssumption DEF Begin, sourceVars
<1>10. FlushedAreSending'
  BY <1>9 DEF IInv, FlushedAreSending, Registry!At
<1>11. QED
  BY <1>4, <1>5, <1>7, <1>8, <1>9, <1>10, AttemptMoves DEF SpentKept, Shape

LEMMA TakeKeeps ==
  ASSUME Shape, IInv, SpentKept, NEW a \in Attempt, Take(a)
  PROVE  Shape' /\ IInv'
<1> DEFINE r == [attempts[a] EXCEPT !.taken = @ + 1]
<1>1. attempts[a] \in AttemptShape /\ WellFormed(attempts[a]) /\ Counted(a)
  BY DEF Shape, IInv, AttemptsCounted
<1>2. /\ WellFormed(r)
      /\ r.step = attempts[a].step /\ r.token = attempts[a].token
      /\ r.index = attempts[a].index /\ r.have = attempts[a].have
      /\ r.size = attempts[a].size /\ r.sent = attempts[a].sent
      /\ r.taken = attempts[a].taken + 1
      /\ attempts' = [attempts EXCEPT ![a] = r]
  BY <1>1 DEF Take, WellFormed, AttemptShape, Active, Shape
<1> HIDE DEF r
<1>3. attempts'[a] = r
  BY <1>2 DEF Shape
<1>4. Counted(a)'
  <2>1. /\ attempts[a].taken \in Nat /\ attempts[a].sent \in Nat
        /\ attempts[a].taken < attempts[a].sent
    BY <1>1 DEF Take, AttemptShape
  <2>2. attempts[a].taken + 1 <= attempts[a].sent
    BY <2>1
  <2>3. QED
    BY <1>1, <1>2, <1>3, <2>2 DEF Counted, In
<1>5. \A i \in Index : Holds(a, i)' => Holds(a, i)
  BY <1>2, <1>3 DEF Holds, In
<1>6. UNCHANGED <<jobs, client, flushed>>
  BY DEF Take, sourceVars
<1>7. \A v \in Worker : client[v] = a => Agrees(v, a)'
  <2> SUFFICES ASSUME NEW v \in Worker, client[v] = a
               PROVE  Agrees(v, a)'
    OBVIOUS
  <2>1. Agrees(v, a)
    BY Links, TransferAssumption
  <2>2. QED
    BY <1>2, <1>3, <1>6, <2>1 DEF Agrees, In
<1>8. FlushedAreSending'
  BY <1>6 DEF IInv, FlushedAreSending, Registry!At
<1>9. \A u, v \in Worker : client[u] = a /\ client[v] = a => u = v
  BY Links, TransferAssumption
<1>10. QED
  BY <1>2, <1>4, <1>5, <1>6, <1>7, <1>8, <1>9, AttemptMoves DEF SpentKept, Shape

\* The attempt keeps the file all of which has arrived and goes for the next.
LEMMA KeepKeeps ==
  ASSUME Shape, IInv, SpentKept, NEW a \in Attempt, KeepDirect(a) \/ KeepRelayed(a)
  PROVE  Shape' /\ IInv'
<1> DEFINE have == attempts[a].have \cup {attempts[a].index}
<1>1. /\ attempts[a] \in AttemptShape
      /\ WellFormed(attempts[a])
      /\ Counted(a)
      /\ attempts[a].step \in {"receiving", "pulling"}
      /\ attempts[a].taken = attempts[a].size
      /\ UNCHANGED <<jobs, flushed>>
  BY DEF Shape, IInv, AttemptsCounted, KeepDirect, KeepRelayed, In, sourceVars
<1>2. attempts[a].sent = attempts[a].size
  BY <1>1 DEF Counted, AttemptShape
<1>3. have \in SUBSET Index
  BY <1>1 DEF WellFormed, AttemptShape, Active
<1>4. PICK step \in {"asking", "requesting"} :
        /\ attempts' = Pursuing(a, step, have)
        /\ step = "asking" => KeepDirect(a)
        /\ step = "requesting" => KeepRelayed(a)
  BY DEF KeepDirect, KeepRelayed
<1>5. \A i \in have \cap Index : Holds(a, i)
  BY <1>1, <1>2 DEF Holds, In
<1> HIDE DEF have
<1> DEFINE r == Pursued(attempts[a], step, have)
<1>6. /\ WellFormed(r)
      /\ attempts' = [attempts EXCEPT ![a] = r]
      /\ r.token = attempts[a].token
      /\ r.have = have
      /\ r.step = IF have = Index THEN "done" ELSE step
      /\ r.size = 0 /\ r.sent = 0 /\ r.taken = 0
  <2>1. step \in Active /\ attempts[a].step # "new"
    BY <1>1 DEF Active
  <2>2. QED
    BY <1>1, <1>3, <1>4, <2>1, Bookkeeping, Outcomes
<1> HIDE DEF r
<1>7. attempts'[a] = r
  BY <1>6 DEF Shape
<1>8. Counted(a)'
  BY <1>6, <1>7 DEF Counted
<1>9. \A i \in Index : Holds(a, i)' => Holds(a, i)
  BY <1>5, <1>6, <1>7 DEF Holds, In
<1>10. /\ client' \in [Worker -> Attempt \cup {None}]
       /\ \A v \in Worker : client'[v] \in {None, client[v]}
       /\ \A v \in Worker : client'[v] = a => client[v] = a /\ KeepRelayed(a)
  BY Disconnecting, TransferAssumption DEF KeepDirect, KeepRelayed, Shape
<1>11. \A v \in Worker : client'[v] = a => Agrees(v, a)'
  <2> SUFFICES ASSUME NEW v \in Worker, client'[v] = a
               PROVE  Agrees(v, a)'
    OBVIOUS
  <2>1. Agrees(v, a) /\ In(a, {"pulling"})
    BY <1>10, Links, TransferAssumption DEF KeepRelayed
  <2>2. v \in flushed
    BY <1>1, <1>2, <2>1 DEF Agrees, In, AttemptShape
  <2>3. r.step \in {"requesting", "done"}
    BY <1>4, <1>6, <1>10, <2>1 DEF KeepDirect, In
  <2>4. QED
    BY <1>1, <1>7, <2>1, <2>2, <2>3 DEF Agrees, In
<1>12. FlushedAreSending'
  BY <1>1 DEF IInv, FlushedAreSending, Registry!At
<1>13. \A u, v \in Worker : client'[u] = a /\ client'[v] = a => u = v
  BY <1>10, Links, TransferAssumption
<1>14. flushed' \subseteq Worker
  BY <1>1 DEF Shape
<1>15. QED
  BY <1>1, <1>6, <1>8, <1>9, <1>10, <1>11, <1>12, <1>13, <1>14, AttemptMoves DEF SpentKept

\* A refusal, a broken connection, a timeout or a failed connect.
LEMMA BreakKeeps ==
  ASSUME Shape, IInv, SpentKept, NEW a \in Attempt,
         \/ DirectRefused(a) \/ RelayRefused(a)
         \/ DirectBreaks(a) \/ RelayBreaks(a)
         \/ Connect(a) /\ attempts' = Failed(a)
  PROVE  Shape' /\ IInv'
<1>1. /\ attempts[a].step # "new"
      /\ attempts' \in {Failed(a), FallenBack(a)}
      /\ UNCHANGED <<jobs, flushed>>
  BY DEF DirectRefused, RelayRefused, DirectBreaks, RelayBreaks, Connect, In,
         Registry!Refuse, sourceVars
<1>2. /\ client' \in [Worker -> Attempt \cup {None}]
      /\ \A v \in Worker : client'[v] \in {None, client[v]} /\ client'[v] # a
  <2>1. CASE client' = HungUp(a)
    BY <2>1, Disconnecting, TransferAssumption
  <2>2. CASE client' = client /\ \A v \in Worker : client[v] # a
    BY <2>2 DEF Shape
  <2>3. Connect(a) => \A v \in Worker : client[v] # a
    BY Links, TransferAssumption DEF Connect, In
  <2>4. QED
    BY <2>1, <2>2, <2>3
       DEF DirectRefused, RelayRefused, DirectBreaks, RelayBreaks, Connect, NotServed
<1>3. FlushedAreSending' /\ flushed' \subseteq Worker
  BY <1>1 DEF IInv, FlushedAreSending, Registry!At, Shape
<1>4. QED
  BY <1>1, <1>2, <1>3, AttemptEnds

LEMMA ConnectKeeps ==
  ASSUME Shape, IInv, SpentKept, NEW a \in Attempt, Connect(a)
  PROVE  Shape' /\ IInv'
<1>1. CASE attempts' = Failed(a)
  BY <1>1, BreakKeeps
<1>2. CASE attempts' = [attempts EXCEPT ![a].step = "requesting"]
  <2> DEFINE r == [attempts[a] EXCEPT !.step = "requesting"]
  <2>1. /\ attempts[a] \in AttemptShape /\ WellFormed(attempts[a]) /\ Counted(a)
        /\ attempts[a].step = "connecting"
    BY DEF Shape, IInv, AttemptsCounted, Connect, In
  <2>2. /\ WellFormed(r)
        /\ r.step = "requesting" /\ r.token = attempts[a].token
        /\ r.have = attempts[a].have
        /\ r.size = attempts[a].size /\ r.sent = attempts[a].sent
        /\ r.taken = attempts[a].taken
        /\ attempts' = [attempts EXCEPT ![a] = r]
    BY <1>2, <2>1 DEF WellFormed, AttemptShape, Active, Shape
  <2> HIDE DEF r
  <2>3. attempts'[a] = r
    BY <2>2 DEF Shape
  <2>4. Counted(a)'
    BY <2>1, <2>2, <2>3 DEF Counted, In
  <2>5. \A i \in Index : Holds(a, i)' => Holds(a, i)
    BY <2>2, <2>3 DEF Holds, In
  <2>6. UNCHANGED <<jobs, client, flushed>> /\ \A v \in Worker : client[v] # a
    BY <2>1, Links, TransferAssumption DEF Connect, In, sourceVars
  <2>7. FlushedAreSending'
    BY <2>6 DEF IInv, FlushedAreSending, Registry!At
  <2>8. QED
    BY <2>2, <2>4, <2>5, <2>6, <2>7, AttemptMoves DEF SpentKept, Shape
<1>3. QED
  BY <1>1, <1>2 DEF Connect

LEMMA RecipientKeeps ==
  ASSUME Shape, IInv, SpentKept, NEW a \in Attempt, RecipientStep(a)
  PROVE  Shape' /\ IInv'
BY BeginKeeps, TakeKeeps, KeepKeeps, BreakKeeps, ConnectKeeps DEF RecipientStep

-----------------------------------------------------------------------------
(* The source's steps.                                                     *)

\* A worker that serves a file and is not about to commit it: nobody holds
\* that file.
LEMMA ServedIsNotSpent ==
  ASSUME Inv!TypeOK, Inv!IInv, NEW w \in Worker, jobs[w] # None, w \notin flushed,
         Registry!At(w, "streaming") => jobs[w].left # 0
  PROVE  ~Spent(jobs[w].token, jobs[w].index)
<1>1. /\ Registry!Serves(w, jobs[w].token, jobs[w].index)
      /\ ~Inv!Closed(jobs[w].token, jobs[w].index)
  BY JobsTyped, SameRegistry DEF Inv!Closed
<1>2. \A v \in Worker : Registry!Serves(v, jobs[w].token, jobs[w].index) => v = w
  BY DEF Registry!Serves, Registry!Slot, Inv!IInv, Inv!OneTransferPerFile, Inv!Slot
<1>3. QED
  BY <1>1, <1>2 DEF Spent, Committing

\* The worker of a granted claim was idle, so nobody was linked to it.
LEMMA NewJob ==
  ASSUME Inv!TypeOK, Shape, IInv,
         NEW w \in Worker, NEW t \in Token, NEW i \in Index, NEW req,
         NEW step \in {"opening", "sealing"}, Registry!Claim(w, t, i, req, step)
  PROVE  /\ client[w] = None
         /\ w \notin flushed
         /\ jobs'[w] # None
         /\ jobs'[w].step = step /\ jobs'[w].token = t /\ jobs'[w].index = i
         /\ \A v \in Worker : v # w => jobs'[v] = jobs[v]
<1> DEFINE job == [step |-> step, token |-> t, index |-> i, left |-> 0]
<1>1. job \in Registry!Job
  BY RegistryAssumption DEF Registry!Job, Registry!Index, Index
<1>2. job # None
  BY <1>1, RegistryAssumption
<1>3. jobs[w] = None /\ jobs' = [jobs EXCEPT ![w] = job]
  BY DEF Registry!Claim
<1>4. QED
  BY <1>2, <1>3, Links, JobsTyped

LEMMA StrayKeeps ==
  ASSUME Inv!TypeOK, Shape, IInv, SpentKept,
         NEW w \in Worker, NEW t \in Token, NEW i \in Index, NEW d \in Stray,
         NEW step \in {"opening", "sealing"}, StrayClaim(w, t, i, d, step)
  PROVE  Shape' /\ IInv'
<1>1. /\ client[w] = None /\ w \notin flushed
      /\ \A v \in Worker : v # w => jobs'[v] = jobs[v]
      /\ UNCHANGED <<attempts, client, flushed>>
  BY NewJob DEF StrayClaim
<1>2. FlushedAreSending' /\ flushed \subseteq Worker
  BY <1>1 DEF IInv, FlushedAreSending, Registry!At, Shape
<1>3. QED
  BY <1>1, <1>2, NoAttemptMoves DEF SpentKept, Shape

LEMMA ArrivalKeeps ==
  ASSUME Inv!TypeOK, Shape, IInv, SpentKept, NEW w \in Worker, NEW a \in Attempt,
         DirectArrives(w, a) \/ RelayArrives(w, a)
  PROVE  Shape' /\ IInv'
<1>1. /\ attempts[a].token \in Token /\ attempts[a].index \in Index
      /\ attempts[a] \in AttemptShape /\ WellFormed(attempts[a])
      /\ Counted(a)
      /\ \A v \in Worker : client[v] # a
      /\ client' = [client EXCEPT ![w] = a]
      /\ UNCHANGED <<attempts, flushed>>
  BY DEF DirectArrives, RelayArrives, In, NotServed, Shape, WellFormed, AttemptShape,
         Active, IInv, AttemptsCounted
<1>2. /\ client[w] = None /\ w \notin flushed
      /\ jobs'[w] # None
      /\ jobs'[w].token = attempts[a].token /\ jobs'[w].index = attempts[a].index
      /\ \/ jobs'[w].step = "opening" /\ In(a, {"asking"})
         \/ jobs'[w].step = "sealing" /\ In(a, {"requesting"})
      /\ \A v \in Worker : v # w => jobs'[v] = jobs[v]
  BY <1>1, NewJob DEF DirectArrives, RelayArrives
<1>3. /\ client' \in [Worker -> Attempt \cup {None}]
      /\ client'[w] = a
      /\ \A v \in Worker : v # w => client'[v] = client[v]
      /\ flushed' \subseteq Worker
  BY <1>1 DEF Shape
<1>4. \A v \in Worker : client'[v] = a => v = w
  BY <1>1, <1>3
<1>5. Agrees(w, a)'
  BY <1>1, <1>2 DEF Agrees, In
<1>6. Counted(a)'
  BY <1>1 DEF Counted, In
<1>7. \A i \in Index : Holds(a, i)' => Holds(a, i)
  BY <1>1 DEF Holds, In
<1>8. FlushedAreSending'
  BY <1>1, <1>2 DEF IInv, FlushedAreSending, Registry!At, Shape
<1>9. attempts' = [attempts EXCEPT ![a] = attempts[a]]
  BY <1>1 DEF Shape
<1> DEFINE r == attempts[a]
<1> HIDE DEF r
<1>10. WellFormed(r) /\ attempts' = [attempts EXCEPT ![a] = r] /\ r.token = attempts[a].token
  BY <1>1, <1>9 DEF r
<1>11. \A v \in Worker : client'[v] # None /\ client'[v] # a =>
         jobs'[v] = jobs[v] /\ (v \in flushed' <=> v \in flushed)
  BY <1>1, <1>2, <1>3
<1>12. \A v \in Worker : client'[v] \in {None, a, client[v]}
  BY <1>3
<1>13. QED
  BY <1>3, <1>4, <1>5, <1>6, <1>7, <1>8, <1>10, <1>11, <1>12, AttemptMoves DEF SpentKept

\* A worker moves on, and with it the attempt at the other end, which may by
\* that come to hold the file.
LEMMA WorkerAdvances ==
  ASSUME Inv!TypeOK, Inv!IInv, Shape, IInv, SpentKept,
         NEW w \in Worker, NEW a \in Attempt, client[w] = a, w \notin flushed,
         Registry!At(w, "streaming") => jobs[w].left # 0,
         NEW r, WellFormed(r), attempts' = [attempts EXCEPT ![a] = r],
         r.token = attempts[a].token, r.index = attempts[a].index,
         r.have = attempts[a].have,
         UNCHANGED client, flushed' \in {flushed, flushed \cup {w}},
         FlushedAreSending',
         \A v \in Worker : v # w => jobs'[v] = jobs[v],
         Agrees(w, a)', Counted(a)',
         r.step \in {"receiving", "pulling"} /\ r.sent = r.size
           => Committing(w, r.token, r.index)'
  PROVE  Shape' /\ IInv'
<1>1. attempts'[a] = r
  BY DEF Shape
<1>2. \A v \in Worker : client[v] = a => v = w
  BY Links, TransferAssumption
<1>3. /\ Agrees(w, a)
      /\ attempts[a].token = jobs[w].token
      /\ attempts[a].index = jobs[w].index
      /\ jobs[w] # None
  BY Links, TransferAssumption DEF Agrees
<1>4. ~Spent(r.token, r.index)
  BY <1>3, ServedIsNotSpent
<1>5. ASSUME NEW i \in Index, Holds(a, i)'
      PROVE  Holds(a, i) \/ (Spent(r.token, i)' /\ ~Spent(r.token, i))
  <2>1. CASE i \in r.have
    BY <2>1 DEF Holds
  <2>2. CASE i \notin r.have
    <3>1. i = r.index /\ Committing(w, r.token, i)'
      BY <1>1, <1>5, <2>2 DEF Holds, In
    <3>2. QED
      BY <1>4, <3>1 DEF Spent
  <2>3. QED
    BY <2>1, <2>2
<1>6. client' \in [Worker -> Attempt \cup {None}] /\ flushed' \subseteq Worker
  BY DEF Shape
<1>7. QED
  BY <1>2, <1>5, <1>6, AttemptMoves DEF SpentKept

\* What a step of a linked worker that is not through starts from.
LEMMA Linked ==
  ASSUME Inv!TypeOK, Shape, IInv,
         NEW w \in Worker, client[w] # None, w \notin flushed
  PROVE  /\ client[w] \in Attempt
         /\ attempts[client[w]] \in AttemptShape
         /\ WellFormed(attempts[client[w]])
         /\ Counted(client[w])
         /\ Agrees(w, client[w])
         /\ jobs[w].left \in Nat
BY Links, JobsTyped DEF Shape, IInv, AttemptsCounted

\* A worker without a client moves on.
LEMMA AloneKeeps ==
  ASSUME Shape, IInv, SpentKept, NEW w \in Worker, client[w] = None,
         UNCHANGED <<attempts, client, flushed>>, w \notin flushed,
         \A v \in Worker : v # w => jobs'[v] = jobs[v]
  PROVE  Shape' /\ IInv'
<1>1. FlushedAreSending' /\ flushed' \subseteq Worker
  BY DEF IInv, FlushedAreSending, Registry!At, Shape
<1>2. client' \in [Worker -> Attempt \cup {None}]
  BY DEF Shape
<1>3. QED
  BY <1>1, <1>2, NoAttemptMoves DEF SpentKept

LEMMA OpenKeeps ==
  ASSUME Inv!TypeOK, Inv!IInv, Shape, IInv, SpentKept,
         NEW w \in Worker, NEW chunks \in 0 .. MaxChunks, Open(w, chunks)
  PROVE  Shape' /\ IInv'
<1>1. /\ jobs[w] # None /\ jobs[w].step = "opening" /\ w \notin flushed
      /\ jobs' = [jobs EXCEPT ![w].step = "streaming", ![w].left = chunks]
      /\ UNCHANGED <<client, flushed>>
  BY Links DEF Open, Registry!OpenFile, Registry!At
<1>2. /\ jobs'[w] # None /\ jobs'[w].step = "streaming" /\ jobs'[w].left = chunks
      /\ jobs'[w].token = jobs[w].token /\ jobs'[w].index = jobs[w].index
      /\ \A v \in Worker : v # w => jobs'[v] = jobs[v]
  <2>1. [jobs[w] EXCEPT !.step = "streaming", !.left = chunks] \in Registry!Job
    BY <1>1, JobsTyped DEF Registry!Job
  <2>2. QED
    BY <1>1, <2>1, JobsTyped, RegistryAssumption DEF Registry!Job
<1>3. FlushedAreSending'
  BY <1>1, <1>2 DEF IInv, FlushedAreSending, Registry!At, Shape
<1>4. CASE client[w] = None
  BY <1>1, <1>2, <1>4, AloneKeeps DEF Open
<1>5. CASE client[w] # None
  <2>a. PICK a : a = client[w]
    OBVIOUS
  <2>r. PICK r : r = [attempts[a] EXCEPT !.step = "receiving", !.size = chunks]
    OBVIOUS
  <2>1. /\ a \in Attempt /\ attempts[a] \in AttemptShape /\ WellFormed(attempts[a])
        /\ Counted(a) /\ Agrees(w, a)
        /\ attempts' = [attempts EXCEPT ![a].step = "receiving", ![a].size = chunks]
    BY <1>1, <1>5, <2>a, Linked DEF Open
  <2>2. /\ attempts[a].step = "asking" /\ attempts[a].size = 0
        /\ attempts[a].sent = 0 /\ attempts[a].taken = 0
        /\ attempts[a].token = jobs[w].token /\ attempts[a].index = jobs[w].index
    BY <1>1, <2>1 DEF Agrees, Counted, In, AttemptShape
  <2>c. chunks \in 0 .. (MaxChunks + 1)
    BY RegistryAssumption
  <2>3. /\ WellFormed(r)
        /\ r.step = "receiving" /\ r.size = chunks
        /\ r.sent = 0 /\ r.taken = 0
        /\ r.token = attempts[a].token /\ r.index = attempts[a].index
        /\ r.have = attempts[a].have
        /\ attempts' = [attempts EXCEPT ![a] = r]
    BY <2>r, <2>c, <2>1, <2>2 DEF WellFormed, AttemptShape, Active, Shape
  <2>4. attempts'[a] = r
    BY <2>1, <2>3 DEF Shape
  <2>5. Agrees(w, a)'
    BY <1>1, <1>2, <2>2, <2>3, <2>4 DEF Agrees, In
  <2>6. Counted(a)'
    BY <2>3, <2>4 DEF Counted, In
  <2>7. r.sent = r.size => Committing(w, r.token, r.index)'
    BY <1>2, <2>2, <2>3 DEF Committing, Registry!Serves, Registry!Slot, Registry!At
  <2>8. QED
    BY <1>1, <1>2, <1>3, <2>1, <2>3, <2>5, <2>6, <2>7, <2>a,
       WorkerAdvances DEF Registry!At
<1>6. QED
  BY <1>4, <1>5

LEMMA SealKeeps ==
  ASSUME Inv!TypeOK, Inv!IInv, Shape, IInv, SpentKept,
         NEW w \in Worker, NEW chunks \in 0 .. MaxChunks, Seal(w, chunks)
  PROVE  Shape' /\ IInv'
<1>1. /\ jobs[w] # None /\ jobs[w].step = "sealing" /\ w \notin flushed
      /\ jobs' = [jobs EXCEPT ![w].step = "sending"]
      /\ UNCHANGED <<client, flushed>>
  BY Links DEF Seal, Registry!SealFile, Registry!At
<1>2. /\ jobs'[w] # None /\ jobs'[w].step = "sending"
      /\ jobs'[w].token = jobs[w].token /\ jobs'[w].index = jobs[w].index
      /\ \A v \in Worker : v # w => jobs'[v] = jobs[v]
  <2>1. [jobs[w] EXCEPT !.step = "sending"] \in Registry!Job
    BY <1>1, JobsTyped DEF Registry!Job
  <2>2. QED
    BY <1>1, <2>1, JobsTyped, RegistryAssumption DEF Registry!Job
<1>3. FlushedAreSending'
  BY <1>1, <1>2 DEF IInv, FlushedAreSending, Registry!At, Shape
<1>4. CASE client[w] = None
  BY <1>1, <1>2, <1>4, AloneKeeps DEF Seal
<1>5. CASE client[w] # None
  <2>a. PICK a : a = client[w]
    OBVIOUS
  <2>r. PICK r : r = [attempts[a] EXCEPT !.step = "pulling", !.size = chunks + 1]
    OBVIOUS
  <2>1. /\ a \in Attempt /\ attempts[a] \in AttemptShape /\ WellFormed(attempts[a])
        /\ Counted(a) /\ Agrees(w, a)
        /\ attempts' = [attempts EXCEPT ![a].step = "pulling", ![a].size = chunks + 1]
    BY <1>1, <1>5, <2>a, Linked DEF Seal
  <2>2. /\ attempts[a].step = "requesting" /\ attempts[a].size = 0
        /\ attempts[a].sent = 0 /\ attempts[a].taken = 0
        /\ attempts[a].token = jobs[w].token /\ attempts[a].index = jobs[w].index
    BY <1>1, <2>1 DEF Agrees, Counted, In, AttemptShape
  <2>3. /\ WellFormed(r)
        /\ r.step = "pulling" /\ r.size = chunks + 1
        /\ r.sent = 0 /\ r.taken = 0
        /\ r.token = attempts[a].token /\ r.index = attempts[a].index
        /\ r.have = attempts[a].have
        /\ attempts' = [attempts EXCEPT ![a] = r]
    BY <2>r, <2>1, <2>2, RegistryAssumption DEF WellFormed, AttemptShape, Active, Shape
  <2>4. attempts'[a] = r
    BY <2>1, <2>3 DEF Shape
  <2>5. Agrees(w, a)'
    BY <1>1, <1>2, <2>2, <2>3, <2>4 DEF Agrees, In
  <2>6. Counted(a)'
    BY <2>3, <2>4 DEF Counted, In
  <2>7. r.sent # r.size
    BY <2>3
  <2>8. QED
    BY <1>1, <1>2, <1>3, <2>1, <2>3, <2>5, <2>6, <2>7, <2>a,
       WorkerAdvances DEF Registry!At
<1>6. QED
  BY <1>4, <1>5

LEMMA StreamKeeps ==
  ASSUME Inv!TypeOK, Inv!IInv, Shape, IInv, SpentKept,
         NEW w \in Worker, Stream(w)
  PROVE  Shape' /\ IInv'
<1>1. /\ jobs[w] # None /\ jobs[w].step = "streaming" /\ w \notin flushed
      /\ jobs[w].left > 0
      /\ jobs' = [jobs EXCEPT ![w].left = @ - 1]
      /\ UNCHANGED <<client, flushed>>
  BY Links DEF Stream, Registry!StreamChunk, Registry!At
<1>2. jobs[w].left \in Nat /\ jobs[w].left - 1 \in Nat /\ jobs[w].left # 0
  BY <1>1, JobsTyped
<1>3. /\ jobs'[w] # None /\ jobs'[w].step = "streaming"
      /\ jobs'[w].left = jobs[w].left - 1
      /\ jobs'[w].token = jobs[w].token /\ jobs'[w].index = jobs[w].index
      /\ \A v \in Worker : v # w => jobs'[v] = jobs[v]
  <2>1. [jobs[w] EXCEPT !.left = @ - 1] \in Registry!Job
    BY <1>1, <1>2, JobsTyped, RegistryAssumption DEF Registry!Job
  <2>2. QED
    BY <1>1, <2>1, JobsTyped, RegistryAssumption DEF Registry!Job
<1>4. FlushedAreSending'
  BY <1>1, <1>3 DEF IInv, FlushedAreSending, Registry!At, Shape
<1>5. CASE client[w] = None
  BY <1>1, <1>3, <1>5, AloneKeeps DEF Stream
<1>6. CASE client[w] # None
  <2>a. PICK a : a = client[w]
    OBVIOUS
  <2>r. PICK r : r = [attempts[a] EXCEPT !.sent = @ + 1]
    OBVIOUS
  <2>1. /\ a \in Attempt /\ attempts[a] \in AttemptShape /\ WellFormed(attempts[a])
        /\ Counted(a) /\ Agrees(w, a)
        /\ attempts' = [attempts EXCEPT ![a].sent = @ + 1]
    BY <1>1, <1>6, <2>a, Linked DEF Stream
  <2>2. /\ attempts[a].step = "receiving"
        /\ attempts[a].token = jobs[w].token /\ attempts[a].index = jobs[w].index
        /\ attempts[a].size = attempts[a].sent + jobs[w].left
        /\ attempts[a].size \in Nat /\ attempts[a].sent \in Nat /\ attempts[a].taken \in Nat
        /\ attempts[a].taken <= attempts[a].sent
    BY <1>1, <2>1, RegistryAssumption DEF Agrees, Counted, AttemptShape
  <2>3. /\ WellFormed(r)
        /\ r.step = "receiving" /\ r.size = attempts[a].size
        /\ r.sent = attempts[a].sent + 1 /\ r.taken = attempts[a].taken
        /\ r.token = attempts[a].token /\ r.index = attempts[a].index
        /\ r.have = attempts[a].have
        /\ attempts' = [attempts EXCEPT ![a] = r]
    BY <2>r, <2>1, <2>2 DEF WellFormed, AttemptShape, Active, Shape
  <2>4. attempts'[a] = r
    BY <2>1, <2>3 DEF Shape
  <2>5. r.size = r.sent + jobs'[w].left /\ r.taken <= r.sent /\ r.sent <= r.size
    BY <1>2, <1>3, <2>2, <2>3
  <2>6. Agrees(w, a)'
    BY <1>1, <1>3, <2>2, <2>3, <2>4, <2>5 DEF Agrees, In
  <2>7. Counted(a)'
    BY <2>3, <2>4, <2>5 DEF Counted, In
  <2>8. r.sent = r.size => Committing(w, r.token, r.index)'
    <3>1. r.sent = r.size => jobs'[w].left = 0
      BY <1>2, <1>3, <2>2, <2>3
    <3>2. QED
      BY <1>3, <2>2, <2>3, <3>1 DEF Committing, Registry!Serves, Registry!Slot, Registry!At
  <2>9. QED
    BY <1>1, <1>2, <1>3, <1>4, <2>1, <2>3, <2>6, <2>7, <2>8, <2>a,
       WorkerAdvances
<1>7. QED
  BY <1>5, <1>6

LEMMA SendKeeps ==
  ASSUME Inv!TypeOK, Inv!IInv, Shape, IInv, SpentKept, NEW w \in Worker, Send(w)
  PROVE  Shape' /\ IInv'
<1>a. PICK a : a = client[w]
  OBVIOUS
<1>r. PICK r : r = [attempts[a] EXCEPT !.sent = @ + 1]
  OBVIOUS
<1>1. /\ jobs[w] # None /\ jobs[w].step = "sending" /\ w \notin flushed
      /\ a # None
      /\ UNCHANGED <<jobs, client>>
      /\ attempts' = [attempts EXCEPT ![a].sent = @ + 1]
      /\ flushed' = IF attempts[a].sent + 1 = attempts[a].size
                    THEN flushed \cup {w} ELSE flushed
  BY <1>a DEF Send, Registry!At, sourceVars
<1>2. /\ a \in Attempt /\ attempts[a] \in AttemptShape /\ WellFormed(attempts[a])
      /\ Counted(a) /\ Agrees(w, a)
  BY <1>1, <1>a, Linked
<1>3. /\ attempts[a].step = "pulling"
      /\ attempts[a].token = jobs[w].token /\ attempts[a].index = jobs[w].index
      /\ attempts[a].sent < attempts[a].size
      /\ attempts[a].size \in Nat /\ attempts[a].sent \in Nat /\ attempts[a].taken \in Nat
      /\ attempts[a].taken <= attempts[a].sent
  BY <1>1, <1>2, RegistryAssumption DEF Agrees, Counted, AttemptShape
<1>4. /\ WellFormed(r)
      /\ r.step = "pulling" /\ r.size = attempts[a].size
      /\ r.sent = attempts[a].sent + 1 /\ r.taken = attempts[a].taken
      /\ r.token = attempts[a].token /\ r.index = attempts[a].index
      /\ r.have = attempts[a].have
      /\ attempts' = [attempts EXCEPT ![a] = r]
  BY <1>r, <1>1, <1>2, <1>3 DEF WellFormed, AttemptShape, Active, Shape
<1>5. attempts'[a] = r
  BY <1>2, <1>4 DEF Shape
<1>6. /\ r.taken <= r.sent /\ r.sent <= r.size
      /\ w \notin flushed' => r.sent < r.size
      /\ w \in flushed' <=> r.sent = r.size
  BY <1>1, <1>3, <1>4
<1>7. FlushedAreSending' /\ flushed' \in {flushed, flushed \cup {w}}
  BY <1>1 DEF IInv, FlushedAreSending, Registry!At
<1>8. Agrees(w, a)'
  BY <1>1, <1>3, <1>4, <1>5, <1>6 DEF Agrees, In
<1>9. Counted(a)'
  BY <1>4, <1>5, <1>6 DEF Counted, In
<1>10. r.sent = r.size => Committing(w, r.token, r.index)'
  BY <1>1, <1>3, <1>4, <1>6 DEF Committing, Registry!Serves, Registry!Slot
<1>11. QED
  BY <1>1, <1>2, <1>4, <1>7, <1>8, <1>9, <1>10, <1>a, WorkerAdvances DEF Registry!At

\* A worker that failed is gone, and its client, if it has one, with it.
LEMMA FailureKeeps ==
  ASSUME Inv!TypeOK, Shape, IInv, SpentKept, NEW w \in Worker, w \notin flushed,
         attempts' \in {Failed(client[w]), FallenBack(client[w])},
         client' = Unlinked(w), UNCHANGED flushed,
         \A v \in Worker : v # w => jobs'[v] = jobs[v]
  PROVE  Shape' /\ IInv'
<1>1. /\ client' \in [Worker -> Attempt \cup {None}]
      /\ \A v \in Worker : client'[v] = IF v = w THEN None ELSE client[v]
      /\ flushed' \subseteq Worker
  BY Disconnecting DEF Shape
<1>2. FlushedAreSending'
  BY DEF IInv, FlushedAreSending, Registry!At, Shape
<1>3. \A v \in Worker : client'[v] # None =>
        jobs'[v] = jobs[v] /\ (v \in flushed' <=> v \in flushed)
  BY <1>1
<1>4. CASE client[w] = None
  <2>1. UNCHANGED attempts
    BY <1>4 DEF Failed, FallenBack
  <2>2. QED
    BY <1>1, <1>2, <1>3, <2>1, NoAttemptMoves DEF SpentKept
<1>5. CASE client[w] # None
  <2>1. PICK a \in Attempt : a = client[w] /\ attempts[a].step # "new"
    BY <1>5, Links
  <2>2. \A v \in Worker : client'[v] # a
    BY <1>1, <1>5, <2>1, Links, TransferAssumption
  <2>3. QED
    BY <1>1, <1>2, <1>3, <2>1, <2>2, AttemptEnds
<1>6. QED
  BY <1>4, <1>5

\* A worker that is through leaves what its client has as it is.
LEMMA SuccessKeeps ==
  ASSUME Inv!TypeOK, Shape, IInv, SpentKept, NEW w \in Worker,
         UNCHANGED attempts, client' = Unlinked(w),
         flushed' = flushed \ {w},
         \A v \in Worker : v # w => jobs'[v] = jobs[v]
  PROVE  Shape' /\ IInv'
<1>1. /\ client' \in [Worker -> Attempt \cup {None}]
      /\ \A v \in Worker : client'[v] = IF v = w THEN None ELSE client[v]
      /\ flushed' \subseteq Worker
  BY Disconnecting DEF Shape
<1>2. FlushedAreSending'
  BY DEF IInv, FlushedAreSending, Registry!At, Shape
<1>3. QED
  BY <1>1, <1>2, NoAttemptMoves DEF SpentKept

LEMMA EndKeeps ==
  ASSUME Inv!TypeOK, Shape, IInv, SpentKept, NEW w \in Worker,
         \/ OpenError(w) \/ EndStream(w) \/ SealError(w)
         \/ SendAll(w) \/ SendError(w)
  PROVE  Shape' /\ IInv'
<1>1. \A v \in Worker : v # w => jobs'[v] = jobs[v]
  BY JobsTyped
     DEF OpenError, EndStream, SealError, SendAll, SendError, Registry!OpenFails,
         Registry!StreamEnds, Registry!SealFails, Registry!SendSucceeds,
         Registry!SendFails, Registry!Finish, Registry!GiveUp
<1>2. client' = Unlinked(w)
  BY DEF OpenError, EndStream, SealError, SendAll, SendError
<1>3. CASE OpenError(w) \/ SealError(w) \/ SendError(w)
  <2>1. /\ w \notin flushed /\ UNCHANGED flushed
        /\ attempts' \in {Failed(client[w]), FallenBack(client[w])}
    BY <1>3, Links DEF OpenError, SealError, SendError, Registry!OpenFails,
       Registry!SealFails, Registry!At
  <2>2. QED
    BY <1>1, <1>2, <2>1, FailureKeeps
<1>4. CASE EndStream(w)
  <2>1. w \notin flushed /\ UNCHANGED flushed
    BY <1>4, Links DEF EndStream, Registry!StreamEnds, Registry!At
  <2>2. CASE jobs[w].left > 0
    BY <1>1, <1>2, <1>4, <2>1, <2>2, FailureKeeps DEF EndStream
  <2>3. CASE ~(jobs[w].left > 0)
    <3>1. UNCHANGED attempts /\ flushed' = flushed \ {w}
      BY <1>4, <2>1, <2>3 DEF EndStream
    <3>2. QED
      BY <1>1, <1>2, <3>1, SuccessKeeps
  <2>4. QED
    BY <2>2, <2>3
<1>5. CASE SendAll(w)
  BY <1>1, <1>2, <1>5, SuccessKeeps DEF SendAll
<1>6. QED
  BY <1>3, <1>4, <1>5

LEMMA WorkerKeeps ==
  ASSUME Inv!TypeOK, Inv!IInv, Shape, IInv, SpentKept, NEW w \in Worker, SourceStep(w)
  PROVE  Shape' /\ IInv'
BY OpenKeeps, SealKeeps, StreamKeeps, SendKeeps, EndKeeps, ArrivalKeeps, StrayKeeps
   DEF SourceStep

\* The source's own business, its restart, and no step at all.
LEMMA OthersKeep ==
  ASSUME Shape, IInv, SpentKept, Unrelated \/ SourceRestarts \/ UNCHANGED vars
  PROVE  Shape' /\ IInv'
<1>1. CASE Unrelated \/ UNCHANGED vars
  <2>1. UNCHANGED <<jobs, attempts, client, flushed>>
    BY <1>1 DEF Unrelated, vars, Registry!Publishing, Registry!Register, Registry!Bind,
       Registry!CreateFails, Registry!Tick
  <2>2. /\ FlushedAreSending' /\ flushed' \subseteq Worker
        /\ client' \in [Worker -> Attempt \cup {None}]
    BY <2>1 DEF IInv, FlushedAreSending, Registry!At, Shape
  <2>3. QED
    BY <2>1, <2>2, NoAttemptMoves DEF SpentKept
<1>2. CASE SourceRestarts
  <2>1. /\ FlushedAreSending' /\ flushed' \subseteq Worker /\ UNCHANGED attempts
        /\ client' \in [Worker -> Attempt \cup {None}]
        /\ \A v \in Worker : client'[v] = None
    BY <1>2 DEF SourceRestarts, FlushedAreSending
  <2>2. QED
    BY <2>1, NoAttemptMoves DEF SpentKept
<1>3. QED
  BY <1>1, <1>2

-----------------------------------------------------------------------------
(* The theorems.                                                           *)

\* Every reachable state satisfies the registry's invariant and the one above.
THEOREM Inductive ==
  Spec => [](Inv!TypeOK /\ Inv!IInv /\ Shape /\ IInv)
<1> DEFINE Whole == Inv!TypeOK /\ Inv!IInv /\ Shape /\ IInv
<1>1. Init => Whole
  <2> SUFFICES ASSUME Init
               PROVE  Whole
    OBVIOUS
  <2>1. Inv!TypeOK /\ Inv!IInv
    BY SameRegistry, RegistryConstants, Inv!InitHolds DEF Init
  <2>2. Shape
    <3> DEFINE r == [step |-> "new", token |-> None, index |-> None, have |-> {},
                     size |-> 0, sent |-> 0, taken |-> 0]
    <3>1. 0 \in 0 .. (MaxChunks + 1)
      BY RegistryAssumption
    <3>2. WellFormed(r)
      BY <3>1 DEF WellFormed, AttemptShape, Active
    <3>3. QED
      BY <3>2 DEF Init, Shape, WellFormed
  <2>3. IInv
    BY DEF Init, IInv, LinkedAgree, OneConnection, FlushedAreSending, AttemptsCounted,
       Counted, HeldIsSpent, OneHolder, Holds, In
  <2>4. QED
    BY <2>1, <2>2, <2>3
<1>2. Whole /\ [Next]_vars => Whole'
  <2> SUFFICES ASSUME Whole, [Next]_vars
               PROVE  Whole'
    OBVIOUS
  <2>1. [Inv!Next]_(Inv!vars)
    BY SourceIsRegistry
  <2>2. Inv!TypeOK'
    BY <2>1, RegistryConstants, Inv!TypeStep
  <2>3. Inv!IInv'
    BY <2>1, <2>2, RegistryConstants, Inv!InvStep
  <2>4. SpentKept
    BY SpentStays DEF SpentKept, IInv
  <2>5. Shape' /\ IInv'
    BY <2>4, WorkerKeeps, RecipientKeeps, OthersKeep DEF Next
  <2>6. QED
    BY <2>2, <2>3, <2>5
<1>3. QED
  BY <1>1, <1>2, PTL DEF Spec

\* The source seen alone is the registry of PeerGrants: whatever the attempts
\* do, it takes the registry's steps only, so what is proved there of claims,
\* deliveries and reservations holds of every transfer.
THEOREM SourceImplementsRegistry == Spec => Inv!Spec
<1>1. Init => Inv!Init
  BY SameRegistry DEF Init
<1>2. Shape /\ [Next]_vars => [Inv!Next]_(Inv!vars)
  BY SourceIsRegistry
<1>3. QED
  BY <1>1, <1>2, Inductive, PTL DEF Spec, Inv!Spec

\* So the promise of OneTimeGrants is kept to both ends: each file of a
\* publication is handed to one transfer at a time, and spent once.
THEOREM TransfersKeepThePromise == Spec => Inv!ImplementsPromise
BY SourceImplementsRegistry, RegistryConstants, Inv!KeepsThePromise, PTL

\* Every variable keeps its type: no counter of a transfer leaves its bounds
\* and no attempt or worker its states.
THEOREM TypeCorrect == Spec => []TypeOK
<1>1. Inv!TypeOK /\ Shape /\ IInv => TypeOK
  <2> SUFFICES ASSUME Inv!TypeOK, Shape, IInv
               PROVE  TypeOK
    OBVIOUS
  <2>1. ASSUME NEW a \in Attempt
        PROVE  attempts[a] \in AttemptState
    <3>1. attempts[a] \in AttemptShape /\ Counted(a)
      BY DEF Shape, IInv, AttemptsCounted
    <3>2. attempts[a].sent \in 0 .. (MaxChunks + 1) /\ attempts[a].taken \in 0 .. (MaxChunks + 1)
      BY <3>1, RegistryAssumption DEF AttemptShape, Counted
    <3>3. QED
      BY <3>1, <3>2 DEF AttemptShape, AttemptState, Active
  <2>2. QED
    BY <2>1, SameRegistry DEF TypeOK, Shape
<1>2. QED
  BY <1>1, Inductive, PTL

\* A file of a publication reaches one attempt at most, however many attempts
\* and transfers there are and however the two ends learn of a break.
THEOREM OneAttempt == Spec => []OneAttemptPerFile
<1>1. Shape /\ IInv => OneAttemptPerFile
  <2> SUFFICES ASSUME Shape, IInv, NEW a \in Attempt, NEW b \in Attempt,
                      attempts[a].token = attempts[b].token,
                      attempts[a].have \cap attempts[b].have # {}
               PROVE  a = b
    BY DEF OneAttemptPerFile
  <2>1. PICK i \in Index : i \in attempts[a].have /\ i \in attempts[b].have
    BY DEF Shape, AttemptShape
  <2>2. QED
    BY <2>1 DEF Holds, IInv, OneHolder
<1>2. QED
  BY <1>1, Inductive, PTL

\* What an attempt has received the source has spent, or is committed to
\* spend, as long as the grant lives: nobody can claim it a second time.
THEOREM ReceivedIsNeverOffered == Spec => []ReceivedIsSpent
<1>1. Shape /\ IInv => ReceivedIsSpent
  <2> SUFFICES ASSUME Shape, IInv, NEW a \in Attempt, NEW t,
                      t = attempts[a].token, grants[t] # None,
                      NEW i \in attempts[a].have
               PROVE  \/ i \in grants[t].served
                      \/ \E w \in Worker : Committing(w, t, i)
    BY DEF ReceivedIsSpent
  <2>1. i \in Index
    BY DEF Shape, AttemptShape
  <2>2. Spent(t, i)
    BY <2>1 DEF Holds, IInv, HeldIsSpent
  <2>3. QED
    BY <2>2 DEF Spent, Inv!Closed
<1>2. QED
  BY <1>1, Inductive, PTL
=============================================================================
