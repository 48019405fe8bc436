---------------------------- MODULE FileTransfer ----------------------------
(***************************************************************************)
(* Pulling the files of a clip, from both ends: the recipient's attempts   *)
(* (apply_file_clip of airpaste-agent) and the source's transfers, which   *)
(* are the workers of PeerGrants.  An attempt asks for one file after the  *)
(* other over HTTP and, at the first failure, for the rest through a relay *)
(* session; every failure there ends it.                                   *)
(*                                                                         *)
(* A connection may break at any time and its two ends learn of it         *)
(* independently: the recipient's end goes on at once, the source's worker *)
(* is left with no client and ends whenever it notices.  A direct body is  *)
(* a number of chunks; a relayed file is its sealed chunks and a last      *)
(* frame that says it is whole (the header travels with the first of       *)
(* them).  The relay in between is a pipe that keeps the order or breaks,  *)
(* which is what RelayHub shows of it.                                     *)
(***************************************************************************)
EXTENDS Naturals, FiniteSets

CONSTANTS
  Token, Device, Source, KeySets, Worker, FileCount, Ttl, MaxTime, MaxChunks,
  None,
  Attempt,    \* the attempts of the recipient to pull a clip
  Recipient,  \* the device that makes them
  Stray       \* devices whose claims come from outside: other recipients, or
              \* the recipient itself when its request outlives its attempt

VARIABLES now, grants, phase, jobs, delivered, abandoned

Registry == INSTANCE PeerGrants

VARIABLES
  attempts,  \* what each attempt is doing
  client,    \* the attempt at the other end of each worker's connection
  flushed    \* workers whose last frame is with the relay

sourceVars == <<now, grants, phase, jobs, delivered, abandoned>>
vars == <<now, grants, phase, jobs, delivered, abandoned, attempts, client, flushed>>

Index == 0 .. (FileCount - 1)

\* index is the file being pulled, have the files pulled so far (the map
\* downloaded); of the size frames of the file, sent left the source and
\* taken reached the recipient.
AttemptState ==
  [step  : {"new", "asking", "receiving", "connecting", "requesting", "pulling",
            "done", "failed"},
   token : Token \cup {None},
   index : Index \cup {None},
   have  : SUBSET Index,
   size  : 0 .. (MaxChunks + 1),
   sent  : 0 .. (MaxChunks + 1),
   taken : 0 .. (MaxChunks + 1)]

\* What the registry assumes of its constants.
ASSUME RegistryAssumption ==
  /\ Source \in Device
  /\ KeySets \subseteq SUBSET Device
  /\ FileCount \in Nat
  /\ Ttl \in Nat
  /\ MaxTime \in Nat
  /\ MaxChunks \in Nat
  /\ None \notin Registry!Grant
  /\ None \notin Registry!Job
  /\ None \notin Token

ASSUME TransferAssumption ==
  /\ Recipient \in Device \ {Source}
  /\ Stray \subseteq Device
  /\ FileCount > 0
  /\ None \notin Attempt \cup Index

TypeOK ==
  /\ Registry!TypeOK
  /\ attempts \in [Attempt -> AttemptState]
  /\ client \in [Worker -> Attempt \cup {None}]
  /\ flushed \subseteq Worker

Init ==
  /\ Registry!Init
  /\ attempts = [a \in Attempt |->
       [step |-> "new", token |-> None, index |-> None, have |-> {},
        size |-> 0, sent |-> 0, taken |-> 0]]
  /\ client = [w \in Worker |-> None]
  /\ flushed = {}

-----------------------------------------------------------------------------
(* The recipient's bookkeeping.                                            *)

In(a, steps) == attempts[a].step \in steps

\* missing_file_indexes, in the order of the manifest.
FirstMissing(have) == CHOOSE i \in Index \ have : \A j \in Index \ have : i <= j

\* The attempt goes for the first file it misses, or has them all.
Pursuing(a, step, have) ==
  [attempts EXCEPT
     ![a].step  = IF have = Index THEN "done" ELSE step,
     ![a].index = IF have = Index THEN None ELSE FirstMissing(have),
     ![a].have  = have,
     ![a].size = 0, ![a].sent = 0, ![a].taken = 0]

\* The direct download failed: what it got stays, the relay is tried next.
\* A failure at the source's end may have no attempt left to tell.
FallenBack(a) ==
  IF a = None THEN attempts ELSE Pursuing(a, "connecting", attempts[a].have)

Failed(a) ==
  IF a = None THEN attempts
  ELSE [attempts EXCEPT ![a].step = "failed", ![a].index = None,
                        ![a].size = 0, ![a].sent = 0, ![a].taken = 0]

\* The attempt's end of its connection is gone.
HungUp(a) == [w \in Worker |-> IF client[w] = a THEN None ELSE client[w]]

NotServed(a) == \A w \in Worker : client[w] # a

\* A worker of this client, which may be None, ended or lost it.
Unlinked(w) == [client EXCEPT ![w] = None]

Signed(a) == [clip |-> attempts[a].token, requester |-> Recipient, signed |-> TRUE]

-----------------------------------------------------------------------------
(* An attempt starts once it has seen the clip, which the server stores    *)
(* before the source hears of it.                                          *)

Begin(a, t) ==
  /\ In(a, {"new"})
  /\ phase[t] # "unused"
  /\ \E step \in {"asking", "connecting", "failed"} :
       attempts' = [attempts EXCEPT
         ![a].step = step, ![a].token = t,
         ![a].index = IF step = "failed" THEN None ELSE FirstMissing({})]
  /\ UNCHANGED <<sourceVars, client, flushed>>

-----------------------------------------------------------------------------
(* The direct path: download_remote_files against download_file.           *)

DirectArrives(w, a) ==
  /\ In(a, {"asking"})
  /\ NotServed(a)
  /\ Registry!Claim(w, attempts[a].token, attempts[a].index, Signed(a), "opening")
  /\ client' = [client EXCEPT ![w] = a]
  /\ UNCHANGED <<attempts, flushed>>

DirectRefused(a) ==
  /\ In(a, {"asking"})
  /\ NotServed(a)
  /\ Registry!Refuse(attempts[a].token, attempts[a].index, Signed(a))
  /\ attempts' = FallenBack(a)
  /\ UNCHANGED <<client, flushed>>

\* The response's headers reach the client with the file's present length.
Open(w, chunks) ==
  /\ Registry!OpenFile(w, chunks)
  /\ attempts' = IF client[w] = None THEN attempts
                 ELSE [attempts EXCEPT ![client[w]].step = "receiving",
                                       ![client[w]].size = chunks]
  /\ UNCHANGED <<client, flushed>>

OpenError(w) ==
  /\ Registry!OpenFails(w)
  /\ attempts' = FallenBack(client[w])
  /\ client' = Unlinked(w)
  /\ UNCHANGED flushed

Stream(w) ==
  /\ Registry!StreamChunk(w)
  /\ attempts' = IF client[w] = None THEN attempts
                 ELSE [attempts EXCEPT ![client[w]].sent = @ + 1]
  /\ UNCHANGED <<client, flushed>>

\* A body cut short is an error at the client; one that is whole goes on
\* arriving after the worker has gone.
EndStream(w) ==
  /\ Registry!StreamEnds(w)
  /\ attempts' = IF jobs[w].left > 0 THEN FallenBack(client[w]) ELSE attempts
  /\ client' = Unlinked(w)
  /\ UNCHANGED flushed

\* A chunk of a direct body, or a frame of a relayed file, arrives.
Take(a) ==
  /\ In(a, {"receiving", "pulling"})
  /\ attempts[a].taken < attempts[a].sent
  /\ attempts' = [attempts EXCEPT ![a].taken = @ + 1]
  /\ UNCHANGED <<sourceVars, client, flushed>>

\* Mutant: the size of what arrived is not checked.
Mutant_KeepDirect(a) ==
  /\ In(a, {"receiving"})
  /\ attempts' = Pursuing(a, "asking", attempts[a].have \cup {attempts[a].index})
  /\ client' = HungUp(a)
  /\ UNCHANGED <<sourceVars, flushed>>

\* Size and digest agree with the manifest: the file is in the cache.
KeepDirect(a) ==
  /\ In(a, {"receiving"})
  /\ attempts[a].taken = attempts[a].size
  /\ attempts' = Pursuing(a, "asking", attempts[a].have \cup {attempts[a].index})
  /\ client' = HungUp(a)
  /\ UNCHANGED <<sourceVars, flushed>>

\* No route to the source, a broken connection, a full disk, or a file that
\* is not the one published.
DirectBreaks(a) ==
  /\ In(a, {"asking", "receiving"})
  /\ attempts' = FallenBack(a)
  /\ client' = HungUp(a)
  /\ UNCHANGED <<sourceVars, flushed>>

-----------------------------------------------------------------------------
(* The relay path: download_via_relay against serve_relay_session.         *)

Connect(a) ==
  /\ In(a, {"connecting"})
  /\ \/ attempts' = [attempts EXCEPT ![a].step = "requesting"]
     \/ attempts' = Failed(a)
  /\ UNCHANGED <<sourceVars, client, flushed>>

\* A session is served by one task, so a request waits for the one before it.
RelayArrives(w, a) ==
  /\ In(a, {"requesting"})
  /\ NotServed(a)
  /\ Registry!Claim(w, attempts[a].token, attempts[a].index, Signed(a), "sealing")
  /\ client' = [client EXCEPT ![w] = a]
  /\ UNCHANGED <<attempts, flushed>>

RelayRefused(a) ==
  /\ In(a, {"requesting"})
  /\ NotServed(a)
  /\ Registry!Refuse(attempts[a].token, attempts[a].index, Signed(a))
  /\ attempts' = Failed(a)
  /\ UNCHANGED <<client, flushed>>

Seal(w, chunks) ==
  /\ Registry!SealFile(w)
  /\ attempts' = IF client[w] = None THEN attempts
                 ELSE [attempts EXCEPT ![client[w]].step = "pulling",
                                       ![client[w]].size = chunks + 1]
  /\ UNCHANGED <<client, flushed>>

SealError(w) ==
  /\ Registry!SealFails(w)
  /\ attempts' = Failed(client[w])
  /\ client' = Unlinked(w)
  /\ UNCHANGED flushed

\* Mutant: the end of a file is recognised one frame late.
Mutant_Send(w) ==
  /\ Registry!At(w, "sending")
  /\ client[w] # None
  /\ w \notin flushed
  /\ LET a == client[w] IN
       /\ attempts' = [attempts EXCEPT ![a].sent = @ + 1]
       /\ flushed' = IF attempts[a].sent = attempts[a].size
                     THEN flushed \cup {w} ELSE flushed
  /\ UNCHANGED <<sourceVars, client>>

\* One more frame is with the relay.
Send(w) ==
  /\ Registry!At(w, "sending")
  /\ client[w] # None
  /\ w \notin flushed
  /\ LET a == client[w] IN
       /\ attempts' = [attempts EXCEPT ![a].sent = @ + 1]
       /\ flushed' = IF attempts[a].sent + 1 = attempts[a].size
                     THEN flushed \cup {w} ELSE flushed
  /\ UNCHANGED <<sourceVars, client>>

\* The file is committed once all of it was handed over; with no client the
\* relay or the socket may still swallow what is left.
SendAll(w) ==
  /\ w \in flushed \/ client[w] = None
  /\ Registry!SendSucceeds(w)
  /\ client' = Unlinked(w)
  /\ flushed' = flushed \ {w}
  /\ UNCHANGED attempts

\* Mutant: an error after the last frame still releases the file.
Mutant_SendError(w) ==
  /\ Registry!SendFails(w)
  /\ attempts' = IF w \in flushed THEN attempts ELSE Failed(client[w])
  /\ client' = Unlinked(w)
  /\ flushed' = flushed \ {w}

\* The pipe breaks before the last frame is in it.
SendError(w) ==
  /\ w \notin flushed
  /\ Registry!SendFails(w)
  /\ attempts' = Failed(client[w])
  /\ client' = Unlinked(w)
  /\ UNCHANGED flushed

\* FileEnd arrived, and what it ends opens, with the size and digest declared.
KeepRelayed(a) ==
  /\ In(a, {"pulling"})
  /\ attempts[a].taken = attempts[a].size
  /\ attempts' = Pursuing(a, "requesting", attempts[a].have \cup {attempts[a].index})
  /\ UNCHANGED <<sourceVars, client, flushed>>

\* Mutant: the receive timeout covers the header only.
Mutant_RelayBreaks(a) ==
  /\ In(a, {"requesting"})
  /\ attempts' = Failed(a)
  /\ client' = HungUp(a)
  /\ UNCHANGED <<sourceVars, flushed>>

\* RELAY_RECV_TIMEOUT, a closed or broken session, or a file that does not
\* open or is not the one published.
RelayBreaks(a) ==
  /\ In(a, {"requesting", "pulling"})
  /\ attempts' = Failed(a)
  /\ client' = HungUp(a)
  /\ UNCHANGED <<sourceVars, flushed>>

-----------------------------------------------------------------------------
\* Requests nobody in Attempt waits for.
StrayClaim(w, t, i, d, step) ==
  /\ Registry!Claim(w, t, i, [clip |-> t, requester |-> d, signed |-> TRUE], step)
  /\ UNCHANGED <<attempts, client, flushed>>

\* The source's own business: publishing and the clock.
Unrelated ==
  /\ Registry!Publishing \/ Registry!Tick
  /\ UNCHANGED <<attempts, client, flushed>>

SourceRestarts ==
  /\ Registry!Restart
  /\ client' = [w \in Worker |-> None]
  /\ flushed' = {}
  /\ UNCHANGED attempts

SourceStep(w) ==
  \/ \E chunks \in 0 .. MaxChunks : Open(w, chunks) \/ Seal(w, chunks)
  \/ OpenError(w) \/ Stream(w) \/ EndStream(w)
  \/ SealError(w) \/ Send(w) \/ SendAll(w) \/ SendError(w)
  \/ \E a \in Attempt : DirectArrives(w, a) \/ RelayArrives(w, a)
  \/ \E t \in Token, i \in Index, d \in Stray, step \in {"opening", "sealing"} :
       StrayClaim(w, t, i, d, step)

\* What an attempt does once it is connected to the relay.
RelayStep(a) ==
  \/ In(a, {"pulling"}) /\ Take(a)
  \/ KeepRelayed(a) \/ RelayBreaks(a)

RecipientStep(a) ==
  \/ \E t \in Token : Begin(a, t)
  \/ DirectRefused(a) \/ RelayRefused(a)
  \/ Take(a) \/ KeepDirect(a) \/ DirectBreaks(a)
  \/ Connect(a) \/ KeepRelayed(a) \/ RelayBreaks(a)

Next ==
  \/ Unrelated
  \/ SourceRestarts
  \/ \E w \in Worker : SourceStep(w)
  \/ \E a \in Attempt : RecipientStep(a)

Spec == Init /\ [][Next]_vars

\* Once connected to the relay every wait of the recipient is under
\* RELAY_RECV_TIMEOUT, so it never waits for good.  Nothing is assumed of the
\* source, of the network or of a direct download, which has no timeout.
FairSpec == Spec /\ \A a \in Attempt : WF_vars(RelayStep(a))

-----------------------------------------------------------------------------
(* Properties.                                                             *)

\* A file of a publication reaches one attempt at most: no break, late
\* request, fallback or second attempt makes the source hand it out again.
OneAttemptPerFile ==
  \A a, b \in Attempt :
    attempts[a].token = attempts[b].token /\ attempts[a].have \cap attempts[b].have # {}
      => a = b

\* A worker that has nothing left to hand over: only commit_served can follow.
Committing(w, t, i) ==
  /\ Registry!Serves(w, t, i)
  /\ \/ Registry!At(w, "streaming") /\ jobs[w].left = 0
     \/ w \in flushed

\* What an attempt holds is spent at the source, or is about to be: as long
\* as the grant lives nobody can claim it again.
ReceivedIsSpent ==
  \A a \in Attempt : LET t == attempts[a].token IN
    t # None /\ grants[t] # None =>
      \A i \in attempts[a].have :
        \/ i \in grants[t].served
        \/ \E w \in Worker : Committing(w, t, i)

\* Connected to the relay an attempt ends, whatever the source does.
RelayBounded ==
  \A a \in Attempt : In(a, {"requesting", "pulling"}) ~> In(a, {"done", "failed"})

\* The documents: a transfer that fails partway can be completed over the
\* relay instead of failing with "already served".  The code does not keep
\* this: the fallback may come before the source has noticed that the direct
\* transfer is over.
FallbackIsNotRefused ==
  [][\A a \in Attempt :
       RelayRefused(a) /\ grants'[attempts[a].token] # None
         => attempts[a].index \in grants[attempts[a].token].served]_vars
=============================================================================
