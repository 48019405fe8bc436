-------------------------- MODULE ClipStoreProofs --------------------------
(***************************************************************************)
(* Proofs about ClipStore, and the RequestGate in front of it, for any     *)
(* number of requests, slots and clips, and any clock drift.               *)
(***************************************************************************)
EXTENDS ClipStore, TLAPS

\* Who is on the way to the cache's lock came with a timestamp that was right
\* then; it may have become too old since.
WaitsInTime ==
  \A r \in Slot : place[r] \in {"checked", "locking"} =>
    /\ request[r] \in Request
    /\ stamp[request[r]] \in Int
    /\ stamp[request[r]] + Skew >= came[r]
    /\ since[r] <= now

\* An accepted request is in the cache for as long as it must be.
AcceptedIsKept ==
  \A q \in Request : last[q] # None =>
    /\ stamp[q] \in Int
    /\ expiry[q] = last[q] + Ttl \/ last[q] + Ttl <= now

GateInv == WaitsInTime /\ AcceptedIsKept

\* What slot r is about fits what it does.
Suits(r) ==
  /\ At(r, "clean") => arg[r] \in Clip \cup {None}
  /\ At(r, "list") => arg[r] = None
  /\ place[r] \in {"put", "announce", "mirror", "drop", "clear"} => arg[r] \in Clip
  /\ place[r] \in {"drop", "clear"} => Expired(arg[r])
  /\ place[r] \in {"tell", "tell recipient"} => arg[r] \in sessions
  /\ since[r] <= now

\* A clip was given its identifier before anything can be about it.
Made ==
  /\ clips \subseteq made
  /\ inbox \in made \cup {None}
  /\ told \cap Clip \subseteq made
  /\ \A r \in Slot : arg[r] \in Clip => arg[r] \in made

\* Clip c was live, or not even stored, at time t.
LiveSince(c, t) == until[c] > t \/ (stored[c] \in Time /\ stored[c] >= t)

\* What slot r lists or answers with was live when it began.
Fresh(r) ==
  /\ At(r, "list") => \A c \in clips : LiveSince(c, since[r])
  /\ At(r, "answer") /\ arg[r] \in Clip => LiveSince(arg[r], since[r])

\* What was told, or is about to be, is stored, deleted or expired.
Accounted(x) == x \in clips \cup sessions \cup deleted \/ (x \in Clip /\ Expired(x))

ToTell(r) == At(r, "announce") => Accounted(arg[r])

Argument == \A r \in Slot : Suits(r)

StoreInv ==
  /\ Argument /\ Made
  /\ \A r \in Slot : Fresh(r) /\ ToTell(r)
  /\ \A x \in told : Accounted(x)

IInv == TypeOK /\ GateInv /\ StoreInv

-----------------------------------------------------------------------------
(* The handlers.                                                           *)

\* A handler changes nothing of the gate but its own slot, which is not on the
\* way to the lock before or after.
LEMMA HandlersKeepToTheirSlot ==
  ASSUME TypeOK, NEW r \in Slot, Handler(r)
  PROVE  /\ UNCHANGED <<now, stamp, expiry, last>>
         /\ {place[r], place'[r]} \cap {"checked", "locking"} = {}
         /\ \A o \in Slot \ {r} : /\ place'[o] = place[o]
                                  /\ request'[o] = request[o]
                                  /\ since'[o] = since[o]
                                  /\ came'[o] = came[o]
                                  /\ arg'[o] = arg[o]
<1> DEFINE Keeps == /\ UNCHANGED <<now, stamp, expiry, last>>
                    /\ {place[r], place'[r]} \cap {"checked", "locking"} = {}
                    /\ \A o \in Slot \ {r} : /\ place'[o] = place[o]
                                             /\ request'[o] = request[o]
                                             /\ since'[o] = since[o]
                                             /\ came'[o] = came[o]
                                             /\ arg'[o] = arg[o]
<1> SUFFICES Keeps
  OBVIOUS
<1> USE DEF TypeOK, GateTypeOK, At, Goes, Freed, Signed, Simple
<1>1. CASE Clean(r)
  BY <1>1 DEF Clean, Step
<1>2. CASE Put(r)
  BY <1>2 DEF Put, Step
<1>3. CASE Announce(r)
  BY <1>3 DEF Announce, Step, Leave
<1>4. CASE Mirror(r)
  BY <1>4 DEF Mirror, Leave
<1>5. CASE Drop(r)
  BY <1>5 DEF Drop, Leave
<1>6. CASE Latest(r)
  BY <1>6 DEF Latest, Begin
<1>7. CASE List(r)
  BY <1>7 DEF List
<1>8. CASE ReadInbox(r)
  BY <1>8 DEF ReadInbox, Begin
<1>9. CASE ClearInbox(r)
  BY <1>9 DEF ClearInbox, Leave
<1>10. CASE Tell(r)
  BY <1>10 DEF Tell, Step, Leave
<1>11. CASE Answer(r)
  BY <1>11 DEF Answer, Leave
<1>12. ASSUME NEW c \in Clip, Create(r, c)
       PROVE  Keeps
  BY <1>12 DEF Create, Begin
<1>13. ASSUME NEW c \in Clip, Get(r, c)
       PROVE  Keeps
  BY <1>13 DEF Get, Begin
<1>14. ASSUME NEW c \in Clip, Delete(r, c)
       PROVE  Keeps
  BY <1>14 DEF Delete, Leave
<1>15. ASSUME NEW s \in Session, CreateSession(r, s)
       PROVE  Keeps
  BY <1>15 DEF CreateSession, Begin
<1>16. QED
  BY <1>1, <1>2, <1>3, <1>4, <1>5, <1>6, <1>7, <1>8, <1>9, <1>10, <1>11, <1>12, <1>13, <1>14, <1>15 DEF Handler

LEMMA PlacesAndTimes ==
  /\ {"idle", "clean", "put", "announce", "mirror", "drop", "list", "clear", "tell",
      "tell recipient", "answer", "checked", "locking", "granted"} \subseteq Place
  /\ 0 \in Time /\ Time \subseteq Nat
BY GateAssumption DEF Place, Time

LEMMA SlotTypes ==
  ASSUME TypeOK
  PROVE  /\ place \in [Slot -> Place] /\ since \in [Slot -> Nat] /\ now \in Nat
         /\ now \in Time
BY PlacesAndTimes DEF TypeOK, GateTypeOK

\* The three ways in which a handler moves its slot.
LEMMA Beginning ==
  ASSUME TypeOK, NEW r \in Slot, NEW p, NEW x, Begin(r, p, x)
  PROVE  place'[r] = p /\ arg'[r] = x /\ since'[r] = now /\ now' = now
BY DEF TypeOK, GateTypeOK, Begin, Goes

LEMMA Stepping ==
  ASSUME TypeOK, NEW r \in Slot, NEW p, NEW q, Step(r, p, q)
  PROVE  /\ place[r] = p /\ place'[r] = q
         /\ arg'[r] = arg[r] /\ since'[r] = since[r] /\ now' = now
BY DEF TypeOK, GateTypeOK, Step, Goes, At

LEMMA Leaving ==
  ASSUME TypeOK, NEW r \in Slot, Leave(r)
  PROVE  place'[r] = "idle" /\ arg'[r] = None /\ since'[r] = 0 /\ now' = now
BY DEF TypeOK, GateTypeOK, Leave, Freed, Goes

\* What a handler does to the store: identifiers, sessions and deletions only
\* become more, a clip that has its identifier keeps its expiry, and a clip
\* leaves the database when it expired or is deleted by a request.
LEMMA HandlersOnTheStore ==
  ASSUME TypeOK, Argument, Made, NEW r \in Slot, Handler(r)
  PROVE  /\ made \subseteq made' /\ sessions \subseteq sessions' /\ deleted \subseteq deleted'
         /\ \A c \in made : until'[c] = until[c]
         /\ \A c \in Clip : stored'[c] \in {stored[c], now}
         /\ \A c \in clips : c \in clips' \cup deleted' \/ until[c] <= now
         /\ \A c \in clips' \ clips : c \in Clip /\ stored'[c] = now
<1> DEFINE Grows == /\ made \subseteq made' /\ sessions \subseteq sessions' /\ deleted \subseteq deleted'
                    /\ \A c \in made : until'[c] = until[c]
                    /\ \A c \in Clip : stored'[c] \in {stored[c], now}
                    /\ \A c \in clips : c \in clips' \cup deleted' \/ until[c] <= now
                    /\ \A c \in clips' \ clips : c \in Clip /\ stored'[c] = now
<1> SUFFICES Grows
  OBVIOUS
<1>0. /\ since[r] \in Nat /\ now \in Nat
      /\ made \subseteq Clip /\ until \in [Clip -> Nat] /\ clips \subseteq made
      /\ DOMAIN stored = Clip
  BY SlotTypes DEF TypeOK, Made
<1> USE <1>0 DEF At, Goes, Signed, Simple
<1>d. (At(r, "drop") => Expired(arg[r])) /\ (At(r, "put") => arg[r] \in Clip)
  BY DEF Argument, Suits
<1> USE <1>d DEF Expired
<1>1. CASE Clean(r)
  BY <1>1 DEF Clean, Step
<1>2. CASE Put(r)
  BY <1>2 DEF Put, Step
<1>3. CASE Announce(r)
  BY <1>3 DEF Announce, Step, Leave
<1>4. CASE Mirror(r)
  BY <1>4 DEF Mirror, Leave
<1>5. CASE Drop(r)
  BY <1>5 DEF Drop, Leave
<1>6. CASE Latest(r)
  BY <1>6 DEF Latest, Begin
<1>7. CASE List(r)
  BY <1>7 DEF List
<1>8. CASE ReadInbox(r)
  BY <1>8 DEF ReadInbox, Begin
<1>9. CASE ClearInbox(r)
  BY <1>9 DEF ClearInbox, Leave
<1>10. CASE Tell(r)
  BY <1>10 DEF Tell, Step, Leave
<1>11. CASE Answer(r)
  BY <1>11 DEF Answer, Leave
<1>12. ASSUME NEW c \in Clip, Create(r, c)
       PROVE  Grows
  BY <1>12 DEF Create, Begin
<1>13. ASSUME NEW c \in Clip, Get(r, c)
       PROVE  Grows
  BY <1>13 DEF Get, Begin
<1>14. ASSUME NEW c \in Clip, Delete(r, c)
       PROVE  Grows
  BY <1>14 DEF Delete, Leave
<1>15. ASSUME NEW s \in Session, CreateSession(r, s)
       PROVE  Grows
  BY <1>15 DEF CreateSession, Begin
<1>16. QED
  BY <1>1, <1>2, <1>3, <1>4, <1>5, <1>6, <1>7, <1>8, <1>9, <1>10, <1>11, <1>12, <1>13, <1>14, <1>15 DEF Handler

\* The gate's variables keep their types under every step of every handler.
LEMMA HandlerGateTypeStep ==
  ASSUME TypeOK, NEW r \in Slot, Handler(r)
  PROVE  GateTypeOK'
<1> USE PlacesAndTimes DEF TypeOK, GateTypeOK, At, Goes, Freed, Signed, Simple
<1>1. CASE Clean(r)
  BY <1>1 DEF Clean, Step
<1>2. CASE Put(r)
  BY <1>2 DEF Put, Step
<1>s. ASSUME NEW p, NEW q \in Place, Step(r, p, q)
      PROVE  GateTypeOK'
  BY <1>s DEF Step
<1>l. ASSUME Leave(r)
      PROVE  GateTypeOK'
  BY <1>l DEF Leave
<1>3. CASE Announce(r)
  BY <1>3, <1>s, <1>l DEF Announce
<1>4. CASE Mirror(r)
  BY <1>4 DEF Mirror, Leave
<1>5. CASE Drop(r)
  BY <1>5 DEF Drop, Leave
<1>6. CASE Latest(r)
  BY <1>6 DEF Latest, Begin
<1>7. CASE List(r)
  BY <1>7 DEF List
<1>8. CASE ReadInbox(r)
  BY <1>8 DEF ReadInbox, Begin
<1>9. CASE ClearInbox(r)
  BY <1>9 DEF ClearInbox, Leave
<1>10. CASE Tell(r)
  BY <1>10, <1>s, <1>l DEF Tell
<1>11. CASE Answer(r)
  BY <1>11 DEF Answer, Leave
<1>12. ASSUME NEW c \in Clip, Create(r, c)
       PROVE  GateTypeOK'
  BY <1>12 DEF Create, Begin
<1>13. ASSUME NEW c \in Clip, Get(r, c)
       PROVE  GateTypeOK'
  BY <1>13 DEF Get, Begin
<1>14. ASSUME NEW c \in Clip, Delete(r, c)
       PROVE  GateTypeOK'
  BY <1>14 DEF Delete, Leave
<1>15. ASSUME NEW s \in Session, CreateSession(r, s)
       PROVE  GateTypeOK'
  BY <1>15 DEF CreateSession, Begin
<1>16. QED
  BY <1>1, <1>2, <1>3, <1>4, <1>5, <1>6, <1>7, <1>8, <1>9, <1>10, <1>11, <1>12, <1>13, <1>14, <1>15 DEF Handler

\* And so do the others.
LEMMA HandlerTypeStep ==
  ASSUME TypeOK, Argument, NEW r \in Slot, Handler(r)
  PROVE  TypeOK'
<1>0. GateTypeOK' /\ now \in Time /\ now \in Nat /\ Life \subseteq Nat
  BY HandlerGateTypeStep, SlotTypes, StoreAssumption DEF TypeOK, GateTypeOK
<1>t. \A l \in Life : now + l \in Nat
  BY <1>0
<1>s. Suits(r)
  BY DEF Argument
<1> USE <1>0, <1>s, PlacesAndTimes, StoreAssumption DEF TypeOK, Suits, At
<1>1. CASE Clean(r)
  BY <1>1 DEF Clean, Step
<1>2. CASE Put(r)
  BY <1>2 DEF Put, Step
<1>3. CASE Announce(r)
  BY <1>3 DEF Announce, Step, Leave
<1>4. CASE Mirror(r)
  BY <1>4 DEF Mirror, Leave
<1>5. CASE Drop(r)
  BY <1>5 DEF Drop, Leave
<1>6. CASE Latest(r)
  BY <1>6 DEF Latest, Begin
<1>7. CASE List(r)
  BY <1>7 DEF List
<1>8. CASE ReadInbox(r)
  BY <1>8 DEF ReadInbox, Begin
<1>9. CASE ClearInbox(r)
  BY <1>9 DEF ClearInbox, Leave
<1>10. CASE Tell(r)
  BY <1>10 DEF Tell, Step, Leave
<1>11. CASE Answer(r)
  BY <1>11 DEF Answer, Leave
<1>12. ASSUME NEW c \in Clip, Create(r, c)
       PROVE  TypeOK'
  <2>1. PICK l \in Life : until' = [until EXCEPT ![c] = now + l]
    BY <1>12 DEF Create
  <2>2. now + l \in Nat
    BY <1>t
  <2>3. until' \in [Clip -> Nat]
    BY <2>1, <2>2
  <2>4. QED
    BY <1>12, <2>3 DEF Create, Begin
<1>13. ASSUME NEW c \in Clip, Get(r, c)
       PROVE  TypeOK'
  BY <1>13 DEF Get, Begin
<1>14. ASSUME NEW c \in Clip, Delete(r, c)
       PROVE  TypeOK'
  BY <1>14 DEF Delete, Leave
<1>15. ASSUME NEW s \in Session, CreateSession(r, s)
       PROVE  TypeOK'
  BY <1>15 DEF CreateSession, Begin
<1>16. QED
  BY <1>1, <1>2, <1>3, <1>4, <1>5, <1>6, <1>7, <1>8, <1>9, <1>10, <1>11, <1>12, <1>13, <1>14, <1>15 DEF Handler

\* What a handler is about fits what it does next.
LEMMA HandlerArgumentStep ==
  ASSUME TypeOK, Argument, Made, NEW r \in Slot, Handler(r)
  PROVE  Argument'
<1>0. /\ place \in [Slot -> Place] /\ since \in [Slot -> Nat] /\ now \in Nat
      /\ arg \in [Slot -> Clip \cup Session \cup {None}]
      /\ made \subseteq Clip /\ until \in [Clip -> Nat] /\ clips \subseteq made
      /\ inbox \in made \cup {None}
      /\ sessions \subseteq Session
  BY SlotTypes DEF TypeOK, Made
<1>s. Suits(r) /\ (arg[r] \in Clip => arg[r] \in made)
  BY DEF Argument, Made
<1>o. ASSUME NEW o \in Slot, o # r
      PROVE  Suits(o)'
  <2>1. Suits(o) /\ (arg[o] \in Clip => arg[o] \in made)
    BY DEF Argument, Made
  <2>2. /\ place'[o] = place[o] /\ since'[o] = since[o] /\ arg'[o] = arg[o]
        /\ now' = now
    BY <1>o, HandlersKeepToTheirSlot
  <2>3. sessions \subseteq sessions' /\ \A c \in made : until'[c] = until[c]
    BY HandlersOnTheStore
  <2>4. QED
    BY <2>1, <2>2, <2>3 DEF Suits, At, Expired
<1> SUFFICES Suits(r)'
  BY <1>o DEF Argument
<1>m. ASSUME Leave(r)
      PROVE  Suits(r)'
  <2>1. place'[r] = "idle" /\ since'[r] = 0 /\ now' = now
    BY <1>m, Leaving
  <2>2. QED
    BY <1>0, <2>1 DEF Suits, At
<1>1. CASE Clean(r)
  <2>1. Step(r, "clean", IF arg[r] = None THEN "list" ELSE "put")
    BY <1>1 DEF Clean
  <2>2. /\ place[r] = "clean" /\ place'[r] = (IF arg[r] = None THEN "list" ELSE "put")
        /\ arg'[r] = arg[r] /\ since'[r] = since[r] /\ now' = now
    BY <2>1, Stepping
  <2>3. QED
    BY <1>s, <2>2 DEF Suits, At
<1>2. CASE Put(r)
  <2>1. Step(r, "put", "announce")
    BY <1>2 DEF Put
  <2>2. /\ place[r] = "put" /\ place'[r] = "announce"
        /\ arg'[r] = arg[r] /\ since'[r] = since[r] /\ now' = now
    BY <2>1, Stepping
  <2>3. QED
    BY <1>s, <2>2 DEF Suits, At
<1>3. CASE Announce(r)
  <2>1. ASSUME Step(r, "announce", "mirror")
        PROVE  Suits(r)'
    <3>1. /\ place[r] = "announce" /\ place'[r] = "mirror"
          /\ arg'[r] = arg[r] /\ since'[r] = since[r] /\ now' = now
      BY <2>1, Stepping
    <3>2. QED
      BY <1>s, <3>1 DEF Suits, At
  <2>2. QED
    BY <1>3, <1>m, <2>1 DEF Announce
<1>4. CASE Mirror(r) \/ Drop(r) \/ ClearInbox(r) \/ Answer(r)
  BY <1>4, <1>m DEF Mirror, Drop, ClearInbox, Answer
<1>5. CASE Latest(r)
  <2>1. Begin(r, "clean", None)
    BY <1>5 DEF Latest
  <2>2. place'[r] = "clean" /\ arg'[r] = None /\ since'[r] = now /\ now' = now
    BY <2>1, Beginning
  <2>3. QED
    BY <1>0, <2>2 DEF Suits, At
<1>6. CASE List(r)
  <2>1. place'[r] = "answer" /\ since'[r] = since[r] /\ now' = now
    BY <1>0, <1>6 DEF List, Goes
  <2>2. QED
    BY <1>s, <2>1 DEF Suits, At
<1>7. CASE ReadInbox(r)
  <2>1. /\ Begin(r, IF Expired(inbox) THEN "clear" ELSE "answer", inbox)
        /\ inbox \in Clip /\ UNCHANGED until
    BY <1>0, <1>7 DEF ReadInbox
  <2>2. /\ place'[r] = (IF Expired(inbox) THEN "clear" ELSE "answer")
        /\ arg'[r] = inbox /\ since'[r] = now /\ now' = now
    BY <2>1, Beginning
  <2>3. Expired(inbox) <=> Expired(arg[r])'
    BY <2>1, <2>2 DEF Expired
  <2>4. QED
    BY <1>0, <2>1, <2>2, <2>3 DEF Suits, At
<1>8. CASE Tell(r)
  <2>1. ASSUME Step(r, "tell", "tell recipient"), UNCHANGED sessions
        PROVE  Suits(r)'
    <3>1. /\ place[r] = "tell" /\ place'[r] = "tell recipient"
          /\ arg'[r] = arg[r] /\ since'[r] = since[r] /\ now' = now
      BY <2>1, Stepping
    <3>2. QED
      BY <1>s, <2>1, <3>1 DEF Suits, At
  <2>2. QED
    BY <1>8, <1>m, <2>1 DEF Tell
<1>9. ASSUME NEW c \in Clip, Create(r, c)
      PROVE  Suits(r)'
  <2>1. Begin(r, "clean", c)
    BY <1>9 DEF Create
  <2>2. place'[r] = "clean" /\ arg'[r] = c /\ since'[r] = now /\ now' = now
    BY <2>1, Beginning
  <2>3. QED
    BY <1>0, <2>2 DEF Suits, At
<1>10. ASSUME NEW c \in Clip, Get(r, c)
       PROVE  Suits(r)'
  <2>1. PICK p \in {"drop", "answer"}, x \in {c, None} :
          /\ Begin(r, p, x)
          /\ p = "drop" => x = c /\ Expired(c)
    BY <1>10 DEF Get
  <2>2. place'[r] = p /\ arg'[r] = x /\ since'[r] = now /\ now' = now
    BY <2>1, Beginning
  <2>3. until' = until
    BY <1>10 DEF Get
  <2>4. p = "drop" => Expired(arg[r])' /\ arg'[r] \in Clip
    BY <2>1, <2>2, <2>3 DEF Expired
  <2>5. CASE p = "drop"
    BY <1>0, <2>2, <2>4, <2>5 DEF Suits, At
  <2>6. CASE p = "answer"
    BY <1>0, <2>2, <2>6 DEF Suits, At
  <2>7. QED
    BY <2>5, <2>6
<1>11. ASSUME NEW c \in Clip, Delete(r, c)
       PROVE  Suits(r)'
  BY <1>11, <1>m DEF Delete
<1>12. ASSUME NEW s \in Session, CreateSession(r, s)
       PROVE  Suits(r)'
  <2>1. Begin(r, "tell", s) /\ s \in sessions'
    BY <1>12 DEF CreateSession
  <2>2. place'[r] = "tell" /\ arg'[r] = s /\ since'[r] = now /\ now' = now
    BY <2>1, Beginning
  <2>3. QED
    BY <1>0, <2>1, <2>2 DEF Suits, At
<1>13. QED
  BY <1>1, <1>2, <1>3, <1>4, <1>5, <1>6, <1>7, <1>8, <1>9, <1>10, <1>11, <1>12 DEF Handler

\* Handlers spread only clips that were given an identifier.
LEMMA HandlerMadeStep ==
  ASSUME TypeOK, Argument, Made, NEW r \in Slot, Handler(r)
  PROVE  Made'
<1>0. arg \in [Slot -> Clip \cup Session \cup {None}] /\ made \subseteq Clip
  BY DEF TypeOK
<1>s. Suits(r)
  BY DEF Argument
<1> USE <1>0, <1>s, StoreAssumption DEF Suits, Made, At, Goes, Freed, Signed, Simple
<1>1. CASE Clean(r)
  BY <1>1 DEF Clean, Step
<1>2. CASE Put(r)
  BY <1>2 DEF Put, Step
<1>3. CASE Announce(r)
  BY <1>3 DEF Announce, Step, Leave
<1>4. CASE Mirror(r)
  BY <1>4 DEF Mirror, Leave
<1>5. CASE Drop(r)
  BY <1>5 DEF Drop, Leave
<1>6. CASE Latest(r)
  BY <1>6 DEF Latest, Begin
<1>7. CASE List(r)
  BY <1>7 DEF List
<1>8. CASE ReadInbox(r)
  BY <1>8 DEF ReadInbox, Begin
<1>9. CASE ClearInbox(r)
  BY <1>9 DEF ClearInbox, Leave
<1>10. CASE Tell(r)
  BY <1>10 DEF Tell, Step, Leave
<1>11. CASE Answer(r)
  BY <1>11 DEF Answer, Leave
<1>12. ASSUME NEW c \in Clip, Create(r, c)
       PROVE  Made'
  BY <1>12 DEF Create, Begin
<1>13. ASSUME NEW c \in Clip, Get(r, c)
       PROVE  Made'
  BY <1>13 DEF Get, Begin
<1>14. ASSUME NEW c \in Clip, Delete(r, c)
       PROVE  Made'
  BY <1>14 DEF Delete, Leave
<1>15. ASSUME NEW s \in Session, CreateSession(r, s)
       PROVE  Made'
  BY <1>15 DEF CreateSession, Begin
<1>16. QED
  BY <1>1, <1>2, <1>3, <1>4, <1>5, <1>6, <1>7, <1>8, <1>9, <1>10, <1>11, <1>12, <1>13, <1>14, <1>15 DEF Handler

\* Handlers list and answer with what was live when they began.
LEMMA HandlerFreshStep ==
  ASSUME TypeOK, Argument, Made, \A o \in Slot : Fresh(o), NEW r \in Slot, Handler(r)
  PROVE  \A o \in Slot : Fresh(o)'
<1>0. /\ place \in [Slot -> Place] /\ since \in [Slot -> Nat] /\ now \in Nat
      /\ now \in Time /\ Time \subseteq Nat
      /\ arg \in [Slot -> Clip \cup Session \cup {None}]
      /\ stored \in [Clip -> Time \cup {None}]
      /\ made \subseteq Clip /\ until \in [Clip -> Nat] /\ clips \subseteq made
      /\ inbox \in made \cup {None}
  BY SlotTypes, PlacesAndTimes DEF TypeOK, Made
<1>s. Suits(r) /\ Fresh(r) /\ (arg[r] \in Clip => arg[r] \in made)
  BY DEF Argument, Made
<1>l. ASSUME NEW c \in made, NEW t \in Nat, t <= now, LiveSince(c, t)
      PROVE  LiveSince(c, t)'
  BY <1>0, <1>l, HandlersOnTheStore DEF LiveSince
<1>n. ASSUME NEW c \in clips' \ clips, NEW t \in Nat, t <= now
      PROVE  LiveSince(c, t)'
  BY <1>0, <1>n, HandlersOnTheStore DEF LiveSince
<1>o. ASSUME NEW o \in Slot, o # r
      PROVE  Fresh(o)'
  <2>1. /\ place'[o] = place[o] /\ since'[o] = since[o] /\ arg'[o] = arg[o]
        /\ since[o] \in Nat /\ since[o] <= now
    BY <1>0, <1>o, HandlersKeepToTheirSlot DEF Argument, Suits
  <2>2. ASSUME At(o, "list"), NEW c \in clips'
        PROVE  LiveSince(c, since[o])'
    <3>1. CASE c \in clips
      <4>1. LiveSince(c, since[o])
        BY <2>2, <3>1 DEF Fresh
      <4>2. LiveSince(c, since[o])'
        BY <1>0, <1>l, <2>1, <3>1, <4>1 DEF LiveSince
      <4>3. QED
        BY <4>2
    <3>2. CASE c \notin clips
      BY <1>n, <2>1, <3>2 DEF LiveSince
    <3>3. QED
      BY <3>1, <3>2
  <2>3. ASSUME At(o, "answer"), arg[o] \in Clip
        PROVE  LiveSince(arg[o], since[o])'
    <3>1. LiveSince(arg[o], since[o]) /\ arg[o] \in made
      BY <2>3 DEF Fresh, Made
    <3>2. QED
      BY <1>l, <2>1, <3>1 DEF LiveSince
  <2>4. QED
    BY <2>1, <2>2, <2>3 DEF Fresh, At
<1> SUFFICES Fresh(r)'
  BY <1>o
<1>m. ASSUME place'[r] \notin {"list", "answer"}
      PROVE  Fresh(r)'
  BY <1>m DEF Fresh, At
<1>b. ASSUME NEW p, NEW x, Begin(r, p, x), p \notin {"list", "answer"}
      PROVE  Fresh(r)'
  BY <1>b, <1>m, Beginning
<1>t. ASSUME NEW p, NEW q, Step(r, p, q), q \notin {"list", "answer"}
       PROVE  Fresh(r)'
  BY <1>t, <1>m, Stepping
<1>1. CASE Clean(r)
  <2>1. Step(r, "clean", IF arg[r] = None THEN "list" ELSE "put")
    BY <1>1 DEF Clean
  <2>2. /\ place'[r] = (IF arg[r] = None THEN "list" ELSE "put")
        /\ since'[r] = since[r]
    BY <2>1, Stepping
  <2>3. PICK t \in since[r] .. now : clips' = {c \in clips : until[c] > t}
    BY <1>1 DEF Clean
  <2>4. \A c \in clips' : c \in clips /\ until[c] > since[r]
    BY <1>0, <2>2, <2>3
  <2>5. UNCHANGED until
    BY <1>1 DEF Clean
  <2>6. QED
    BY <2>2, <2>4, <2>5 DEF Fresh, At, LiveSince
<1>2. CASE Put(r)
  BY <1>2, <1>t DEF Put
<1>3. ASSUME Leave(r)
      PROVE  Fresh(r)'
  <2>1. place'[r] = "idle"
    BY <1>3, Leaving
  <2>2. QED
    BY <1>m, <2>1
<1>4. CASE Announce(r)
  BY <1>3, <1>4, <1>t DEF Announce
<1>5. CASE Mirror(r) \/ Drop(r) \/ ClearInbox(r) \/ Answer(r)
  BY <1>3, <1>5 DEF Mirror, Drop, ClearInbox, Answer
<1>6. CASE Latest(r)
  BY <1>6, <1>b DEF Latest
<1>7. CASE List(r)
  <2>1. place[r] = "list" /\ place'[r] = "answer" /\ since'[r] = since[r]
    BY <1>0, <1>7 DEF List, Goes, At
  <2>2. \A c \in clips : LiveSince(c, since[r])
    BY <1>s, <2>1 DEF Fresh, At
  <2>3. arg'[r] = arg[r] \/ arg'[r] \in clips
    BY <1>0, <1>7 DEF List
  <2>4. arg[r] \notin Clip
    BY <1>s, <2>1, StoreAssumption DEF Suits, At
  <2>5. UNCHANGED <<until, stored>>
    BY <1>7 DEF List
  <2>6. QED
    BY <2>1, <2>2, <2>3, <2>4, <2>5 DEF Fresh, At, LiveSince
<1>8. CASE ReadInbox(r)
  <2>1. /\ Begin(r, IF Expired(inbox) THEN "clear" ELSE "answer", inbox)
        /\ inbox \in Clip /\ UNCHANGED until
    BY <1>0, <1>8 DEF ReadInbox
  <2>2. /\ place'[r] = (IF Expired(inbox) THEN "clear" ELSE "answer")
        /\ arg'[r] = inbox /\ since'[r] = now
    BY <2>1, Beginning
  <2>3. ~Expired(inbox) => until[inbox] > now
    BY <1>0, <2>1 DEF Expired
  <2>4. QED
    BY <2>1, <2>2, <2>3 DEF Fresh, At, LiveSince
<1>9. CASE Tell(r)
  BY <1>3, <1>9, <1>t DEF Tell
<1>10. ASSUME NEW c \in Clip, Create(r, c)
       PROVE  Fresh(r)'
  BY <1>10, <1>b DEF Create
<1>11. ASSUME NEW c \in Clip, Get(r, c)
       PROVE  Fresh(r)'
  <2>1. PICK p \in {"drop", "answer"}, x \in {c, None} :
          /\ Begin(r, p, x)
          /\ p = "answer" => x = None \/ ~Expired(c)
    BY <1>11 DEF Get
  <2>2. place'[r] = p /\ arg'[r] = x /\ since'[r] = now
    BY <2>1, Beginning
  <2>3. until' = until /\ (~Expired(c) => until[c] > now)
    BY <1>0, <1>11 DEF Get, Expired
  <2>4. CASE p = "drop"
    BY <1>m, <2>2, <2>4
  <2>5. CASE p = "answer" /\ x = None
    BY <2>2, <2>5, StoreAssumption DEF Fresh, At
  <2>6. CASE p = "answer" /\ x = c /\ ~Expired(c)
    BY <2>2, <2>3, <2>6 DEF Fresh, At, LiveSince
  <2>7. QED
    BY <2>1, <2>4, <2>5, <2>6
<1>12. ASSUME NEW c \in Clip, Delete(r, c)
       PROVE  Fresh(r)'
  BY <1>3, <1>12 DEF Delete
<1>13. ASSUME NEW s \in Session, CreateSession(r, s)
       PROVE  Fresh(r)'
  BY <1>13, <1>b DEF CreateSession
<1>14. QED
  BY <1>1, <1>2, <1>4, <1>5, <1>6, <1>7, <1>8, <1>9, <1>10, <1>11, <1>12, <1>13 DEF Handler

\* What is accounted for remains so.
LEMMA AccountedStays ==
  ASSUME TypeOK, Argument, Made, NEW r \in Slot, Handler(r), NEW x, Accounted(x),
         x \in Clip => x \in made
  PROVE  Accounted(x)'
<1>1. now' = now
  BY HandlersKeepToTheirSlot
<1>2. /\ sessions \subseteq sessions' /\ deleted \subseteq deleted'
      /\ \A c \in made : until'[c] = until[c]
      /\ \A c \in clips : c \in clips' \cup deleted' \/ until[c] <= now
  BY HandlersOnTheStore
<1>3. clips \subseteq Clip
  BY DEF TypeOK
<1>4. CASE x \in sessions \cup deleted
  BY <1>2, <1>4 DEF Accounted
<1>5. CASE x \in clips
  BY <1>1, <1>2, <1>3, <1>5 DEF Accounted, Expired
<1>6. CASE x \in Clip /\ Expired(x)
  BY <1>1, <1>2, <1>6 DEF Accounted, Expired
<1>7. QED
  BY <1>4, <1>5, <1>6 DEF Accounted

\* Handlers announce what they stored.
LEMMA HandlerToTellStep ==
  ASSUME TypeOK, Argument, Made, \A o \in Slot : ToTell(o), NEW r \in Slot, Handler(r)
  PROVE  \A o \in Slot : ToTell(o)'
<1>0. place \in [Slot -> Place]
  BY SlotTypes
<1>o. ASSUME NEW o \in Slot, o # r
      PROVE  ToTell(o)'
  <2>1. place'[o] = place[o] /\ arg'[o] = arg[o]
    BY <1>o, HandlersKeepToTheirSlot
  <2>2. ASSUME place[o] = "announce"
        PROVE  Accounted(arg[o])'
    <3>1. PICK x : x = arg[o]
      OBVIOUS
    <3>2. Accounted(x) /\ (x \in Clip => x \in made)
      BY <2>2, <3>1 DEF ToTell, At, Made
    <3>3. Accounted(x)'
      BY <3>2, AccountedStays
    <3>4. QED
      BY <2>1, <3>1, <3>3 DEF Accounted, Expired
  <2>3. QED
    BY <2>1, <2>2 DEF ToTell, At
<1> SUFFICES ToTell(r)'
  BY <1>o
<1>m. ASSUME place'[r] # "announce"
      PROVE  ToTell(r)'
  BY <1>m DEF ToTell, At
<1>b. ASSUME NEW p, NEW x, Begin(r, p, x), p # "announce"
      PROVE  ToTell(r)'
  BY <1>b, <1>m, Beginning
<1>s. ASSUME NEW p, NEW q, Step(r, p, q), q # "announce"
      PROVE  ToTell(r)'
  BY <1>s, <1>m, Stepping
<1>l. ASSUME Leave(r)
      PROVE  ToTell(r)'
  <2>1. place'[r] = "idle"
    BY <1>l, Leaving
  <2>2. QED
    BY <1>m, <2>1
<1>1. CASE Clean(r)
  BY <1>1, <1>s DEF Clean
<1>2. CASE Put(r)
  <2>1. Step(r, "put", "announce") /\ arg[r] \in clips'
    BY <1>2 DEF Put
  <2>2. arg'[r] = arg[r]
    BY <2>1, Stepping
  <2>3. QED
    BY <2>1, <2>2 DEF ToTell, Accounted
<1>3. CASE Announce(r)
  BY <1>3, <1>s, <1>l DEF Announce
<1>4. CASE Mirror(r) \/ Drop(r) \/ ClearInbox(r) \/ Answer(r)
  BY <1>4, <1>l DEF Mirror, Drop, ClearInbox, Answer
<1>5. CASE Latest(r)
  BY <1>5, <1>b DEF Latest
<1>6. CASE List(r)
  BY <1>0, <1>6, <1>m DEF List, Goes
<1>7. CASE ReadInbox(r)
  BY <1>7, <1>b DEF ReadInbox
<1>8. CASE Tell(r)
  BY <1>8, <1>s, <1>l DEF Tell
<1>9. ASSUME NEW c \in Clip, Create(r, c) \/ Get(r, c)
      PROVE  ToTell(r)'
  BY <1>9, <1>b DEF Create, Get
<1>10. ASSUME NEW c \in Clip, Delete(r, c)
       PROVE  ToTell(r)'
  BY <1>10, <1>l DEF Delete
<1>11. ASSUME NEW s \in Session, CreateSession(r, s)
       PROVE  ToTell(r)'
  BY <1>11, <1>b DEF CreateSession
<1>12. QED
  BY <1>1, <1>2, <1>3, <1>4, <1>5, <1>6, <1>7, <1>8, <1>9, <1>10, <1>11 DEF Handler

\* Handlers tell of what is accounted for.
LEMMA HandlerToldStep ==
  ASSUME TypeOK, Argument, Made, \A o \in Slot : ToTell(o), \A x \in told : Accounted(x),
         NEW r \in Slot, Handler(r)
  PROVE  \A x \in told' : Accounted(x)'
<1>1. ASSUME NEW x \in told
      PROVE  Accounted(x)'
  BY <1>1, AccountedStays DEF Made
<1>2. ASSUME Announce(r) \/ Tell(r)
      PROVE  Accounted(arg[r])
  BY <1>2 DEF Announce, Tell, ToTell, Argument, Suits, Accounted, At
<1>3. ASSUME Announce(r) \/ Tell(r), NEW x, x = arg[r]
      PROVE  Accounted(x)'
  BY <1>2, <1>3, AccountedStays DEF Made
<1>4. told' \subseteq told \cup (IF Announce(r) \/ Tell(r) THEN {arg[r]} ELSE {})
  BY DEF Handler, Clean, Put, Announce, Mirror, Drop, Latest, List, ReadInbox, ClearInbox,
         Tell, Answer, Create, Get, Delete, CreateSession
<1>5. QED
  BY <1>1, <1>3, <1>4

-----------------------------------------------------------------------------
(* The gate.                                                               *)

LEMMA LastIsANumber ==
  ASSUME TypeOK
  PROVE  \A q \in Request : last[q] # None => last[q] \in Nat /\ last[q] + Ttl \in Int
<1>1. \A q \in Request : last[q] # None => last[q] \in Nat
  BY PlacesAndTimes DEF TypeOK, GateTypeOK
<1>2. QED
  BY <1>1, GateAssumption

\* A step that leaves alone the cache and who is on the way to it keeps the
\* invariant; so does the passing of time.
LEMMA GateUntouched ==
  ASSUME TypeOK, GateInv, UNCHANGED <<stamp, expiry, last>>, now' \in Nat, now <= now',
         \A r \in Slot : \/ UNCHANGED <<place[r], request[r], since[r], came[r]>>
                         \/ place'[r] \notin {"checked", "locking"}
  PROVE  GateInv'
<1>1. now \in Nat /\ \A r \in Slot : since[r] \in Nat
  BY SlotTypes
<1>2. WaitsInTime'
  BY <1>1 DEF GateInv, WaitsInTime
<1>3. AcceptedIsKept'
  BY <1>1, LastIsANumber DEF GateInv, AcceptedIsKept
<1>4. QED
  BY <1>2, <1>3 DEF GateInv

LEMMA HandlerGateStep ==
  ASSUME TypeOK, GateInv, NEW r \in Slot, Handler(r)
  PROVE  GateInv'
<1>1. UNCHANGED <<now, stamp, expiry, last>> /\ now \in Nat
  BY HandlersKeepToTheirSlot, SlotTypes
<1>2. \A o \in Slot : \/ UNCHANGED <<place[o], request[o], since[o], came[o]>>
                      \/ place'[o] \notin {"checked", "locking"}
  BY HandlersKeepToTheirSlot
<1>3. QED
  BY <1>1, <1>2, GateUntouched

\* Who is on the way to the lock was signed before.
LEMMA SignGateStep ==
  ASSUME TypeOK, GateInv, NEW q \in Request, Sign(q)
  PROVE  GateTypeOK' /\ GateInv'
<1>1. PICK d \in Drift : stamp' = [stamp EXCEPT ![q] = now + d]
  BY DEF Sign
<1>2. now + d \in Int
  BY SlotTypes, GateAssumption
<1>3. \A o \in Request : stamp[o] \in Int => stamp'[o] = stamp[o]
  BY <1>1, GateAssumption DEF TypeOK, GateTypeOK, Sign
<1>4. UNCHANGED <<now, place, request, since, expiry, came, last>>
  BY DEF Sign
<1>5. GateTypeOK'
  BY <1>1, <1>2, <1>4 DEF TypeOK, GateTypeOK
<1>6. WaitsInTime'
  BY <1>3, <1>4 DEF GateInv, WaitsInTime
<1>7. AcceptedIsKept'
  BY <1>3, <1>4 DEF GateInv, AcceptedIsKept
<1>8. QED
  BY <1>5, <1>6, <1>7 DEF GateInv

LEMMA TickGateStep ==
  ASSUME TypeOK, GateInv, Tick
  PROVE  GateTypeOK' /\ GateInv'
<1>1. now' \in Time /\ now' \in Nat /\ now <= now'
  BY GateAssumption DEF Tick, Time, TypeOK, GateTypeOK
<1>2. GateTypeOK'
  BY <1>1 DEF Tick, TypeOK, GateTypeOK
<1>3. QED
  BY <1>1, <1>2, GateUntouched DEF Tick

LEMMA DeliverGateStep ==
  ASSUME TypeOK, GateInv, NEW r \in Slot, NEW q \in Request, Deliver(r, q),
         \A o \in Slot : since[o] <= now
  PROVE  GateTypeOK' /\ GateInv'
<1>1. /\ UNCHANGED <<now, stamp, since, expiry, last>>
      /\ stamp[q] # None /\ InTime(q)
      /\ place' = [place EXCEPT ![r] = "checked"]
      /\ request' = [request EXCEPT ![r] = q]
      /\ came' = [came EXCEPT ![r] = now]
  BY DEF Deliver, Goes
<1>2. GateTypeOK'
  BY <1>1, PlacesAndTimes DEF TypeOK, GateTypeOK
<1>3. now \in Nat /\ stamp[q] \in Int
  BY <1>1, SlotTypes DEF TypeOK, GateTypeOK
<1>4. stamp[q] + Skew >= now
  BY <1>1, <1>3, GateAssumption DEF InTime
<1>5. /\ request'[r] = q /\ came'[r] = now
      /\ \A o \in Slot \ {r} : UNCHANGED <<place[o], request[o], came[o]>>
  BY <1>1 DEF TypeOK, GateTypeOK
<1>6. WaitsInTime'
  BY <1>1, <1>3, <1>4, <1>5 DEF GateInv, WaitsInTime
<1>7. AcceptedIsKept'
  BY <1>1 DEF GateInv, AcceptedIsKept
<1>8. QED
  BY <1>2, <1>6, <1>7 DEF GateInv

LEMMA NoteGateStep ==
  ASSUME TypeOK, GateInv, NEW r \in Slot, Note(r)
  PROVE  GateTypeOK' /\ GateInv'
<1>1. /\ place[r] = "checked"
      /\ UNCHANGED <<now, stamp, request, expiry, came, last>>
      /\ place' = [place EXCEPT ![r] = "locking"]
      /\ since' = [since EXCEPT ![r] = now]
  BY DEF Note, At, Goes
<1>2. GateTypeOK'
  BY <1>1, PlacesAndTimes DEF TypeOK, GateTypeOK
<1>3. since'[r] = now /\ \A o \in Slot \ {r} : UNCHANGED <<place[o], since[o]>>
  BY <1>1 DEF TypeOK, GateTypeOK
<1>4. now <= now
  BY SlotTypes
<1>5. WaitsInTime'
  BY <1>1, <1>3, <1>4 DEF GateInv, WaitsInTime
<1>6. AcceptedIsKept'
  BY <1>1 DEF GateInv, AcceptedIsKept
<1>7. QED
  BY <1>2, <1>5, <1>6 DEF GateInv

\* What the cache forgets when a slot works with an earlier time is past by now.
LEMMA KeptIsKept ==
  ASSUME TypeOK, GateInv, NEW t \in Nat, t <= now, NEW o \in Request, last[o] # None
  PROVE  Kept(t)[o] = last[o] + Ttl \/ last[o] + Ttl <= now
<1>1. last[o] + Ttl \in Int /\ last[o] + Ttl # None /\ now \in Nat
  BY LastIsANumber, SlotTypes, GateAssumption
<1>2. CASE expiry[o] = last[o] + Ttl
  <2>1. Kept(t)[o] = (IF expiry[o] > t THEN expiry[o] ELSE None)
    BY <1>1, <1>2 DEF Kept
  <2>2. QED
    BY <1>1, <1>2, <2>1
<1>3. QED
  BY <1>2 DEF GateInv, AcceptedIsKept

LEMMA RecordGateStep ==
  ASSUME TypeOK, GateInv, NEW r \in Slot, Record(r)
  PROVE  GateTypeOK' /\ GateInv'
<1> DEFINE q == request[r]
           t == since[r]
           cache == Kept(t)
<1>1. /\ place[r] = "locking" /\ UNCHANGED <<now, stamp>>
      /\ q \in Request /\ t \in Time /\ t \in Nat /\ t <= now /\ stamp[q] \in Int
  BY SlotTypes DEF Record, At, GateInv, WaitsInTime, TypeOK, GateTypeOK
<1>2. \A o \in Slot \ {r} : UNCHANGED <<place[o], request[o], since[o], came[o]>>
  BY DEF Record, Freed, Goes, TypeOK, GateTypeOK
<1>3. cache \in [Request -> Int \cup {None}]
  BY DEF Kept, TypeOK, GateTypeOK
<1>4. /\ place' \in [Slot -> Place]
      /\ request' \in [Slot -> Request \cup {None}]
      /\ since' \in [Slot -> Time]
      /\ came' \in [Slot -> Time]
      /\ place'[r] \in {"idle", "granted"}
  BY PlacesAndTimes DEF Record, Freed, Goes, TypeOK, GateTypeOK
<1>5. WaitsInTime'
  BY <1>1, <1>2, <1>4 DEF GateInv, WaitsInTime
<1>6. \A o \in Request : last[o] # None =>
        stamp[o] \in Int /\ (cache[o] = last[o] + Ttl \/ last[o] + Ttl <= now)
  BY <1>1, KeptIsKept DEF GateInv, AcceptedIsKept
<1>7. CASE cache[q] # None
  <2>1. expiry' = cache /\ UNCHANGED last
    BY <1>7 DEF Record
  <2>2. GateTypeOK'
    BY <1>1, <1>3, <1>4, <2>1 DEF TypeOK, GateTypeOK
  <2>3. AcceptedIsKept'
    BY <1>1, <1>6, <2>1 DEF AcceptedIsKept
  <2>4. QED
    BY <1>5, <2>2, <2>3 DEF GateInv
<1>8. CASE cache[q] = None
  <2>1. /\ expiry' = [cache EXCEPT ![q] = t + Ttl]
        /\ last' = [last EXCEPT ![q] = t]
    BY <1>8 DEF Record
  <2>2. t + Ttl \in Int
    BY <1>1, GateAssumption
  <2>3. GateTypeOK'
    BY <1>1, <1>3, <1>4, <2>1, <2>2 DEF TypeOK, GateTypeOK
  <2>4. /\ expiry'[q] = t + Ttl /\ last'[q] = t
        /\ \A o \in Request \ {q} : last'[o] = last[o] /\ expiry'[o] = cache[o]
    BY <1>1, <1>3, <2>1 DEF TypeOK, GateTypeOK
  <2>5. AcceptedIsKept'
    BY <1>1, <1>6, <2>4 DEF AcceptedIsKept
  <2>6. QED
    BY <1>5, <2>3, <2>5 DEF GateInv
<1>9. QED
  BY <1>7, <1>8

\* The server forgets whom it accepted together with the nonces.
LEMMA RestartGateStep ==
  ASSUME TypeOK, GateRestarts
  PROVE  GateTypeOK' /\ GateInv'
<1>1. place' = [r \in Slot |-> "idle"] /\ last' = [q \in Request |-> None]
  BY DEF GateRestarts
<1>2. GateTypeOK'
  BY PlacesAndTimes DEF GateRestarts, TypeOK, GateTypeOK
<1>3. QED
  BY <1>1, <1>2 DEF GateInv, WaitsInTime, AcceptedIsKept

-----------------------------------------------------------------------------
\* What the gate does to the store's side: time goes on, and a slot comes to
\* wait, is let in or is freed.
LEMMA GateStoreStep ==
  ASSUME TypeOK, StoreInv, UNCHANGED storeVars, now' \in Nat, now <= now',
         \A r \in Slot : \/ UNCHANGED <<place[r], since[r]>>
                         \/ /\ place'[r] \in {"idle", "checked", "locking", "granted"}
                            /\ since'[r] <= now'
  PROVE  StoreInv'
<1>1. now \in Nat /\ until \in [Clip -> Nat] /\ clips \subseteq Clip
  BY SlotTypes DEF TypeOK
<1>2. \A c \in Clip : Expired(c) => Expired(c)'
  BY <1>1 DEF Expired, storeVars
<1>3. \A x : Accounted(x) => Accounted(x)'
  BY <1>2 DEF Accounted, storeVars
<1>4. ASSUME NEW r \in Slot
      PROVE  Suits(r)' /\ Fresh(r)' /\ ToTell(r)'
  <2>1. Suits(r) /\ Fresh(r) /\ ToTell(r) /\ since[r] \in Nat
    BY SlotTypes DEF StoreInv, Argument
  <2>2. CASE UNCHANGED <<place[r], since[r]>>
    <3>s. since[r] <= now
      BY <2>1 DEF Suits
    <3>0. since[r] <= now' /\ UNCHANGED <<arg, until, sessions>>
      BY <1>1, <2>1, <3>s DEF storeVars
    <3>e. ASSUME place[r] \in {"drop", "clear"}
          PROVE  until[arg[r]] <= now'
      <4>1. arg[r] \in Clip /\ until[arg[r]] <= now
        BY <2>1, <3>e DEF Suits, Expired
      <4>2. until[arg[r]] \in Nat
        BY <1>1, <4>1
      <4>3. QED
        BY <1>1, <4>1, <4>2
    <3>1. Suits(r)'
      BY <2>1, <2>2, <3>0, <3>e DEF Suits, At, Expired
    <3>2. Fresh(r)'
      BY <2>1, <2>2 DEF Fresh, At, LiveSince, storeVars
    <3>3. ToTell(r)'
      BY <1>3, <2>1, <2>2 DEF ToTell, At, storeVars
    <3>4. QED
      BY <3>1, <3>2, <3>3
  <2>3. CASE place'[r] \in {"idle", "checked", "locking", "granted"} /\ since'[r] <= now'
    BY <2>3 DEF Suits, Fresh, ToTell, At
  <2>4. QED
    BY <2>2, <2>3
<1>5. Made'
  BY DEF StoreInv, Made, storeVars
<1>6. \A x \in told' : Accounted(x)'
  BY <1>3 DEF StoreInv, storeVars
<1>7. QED
  BY <1>4, <1>5, <1>6 DEF StoreInv, Argument

-----------------------------------------------------------------------------
\* A step of the server's clock, of a client or of the gate.
LEMMA GateStep ==
  ASSUME IInv, Tick \/ (\E q \in Request : Sign(q)) \/ (\E r \in Slot : Gate(r)),
         UNCHANGED storeVars
  PROVE  IInv'
<1> USE DEF IInv
<1>0. now \in Nat /\ \A r \in Slot : since[r] \in Nat /\ since[r] <= now
  BY SlotTypes DEF StoreInv, Argument, Suits
<1>1. CASE Tick
  <2>1. GateTypeOK' /\ GateInv'
    BY <1>1, TickGateStep
  <2>2. now' \in Nat /\ now <= now' /\ UNCHANGED <<place, since>>
    BY <1>0, <1>1 DEF Tick
  <2>3. StoreInv'
    BY <2>2, GateStoreStep
  <2>4. QED
    BY <2>1, <2>3 DEF TypeOK, storeVars
<1>2. ASSUME NEW q \in Request, Sign(q)
      PROVE  IInv'
  <2>1. GateTypeOK' /\ GateInv'
    BY <1>2, SignGateStep
  <2>2. UNCHANGED <<now, place, since>>
    BY <1>2 DEF Sign
  <2>3. StoreInv'
    BY <1>0, <2>2, GateStoreStep
  <2>4. QED
    BY <2>1, <2>3 DEF TypeOK, storeVars
<1>3. ASSUME NEW r \in Slot, NEW q \in Request, Deliver(r, q)
      PROVE  IInv'
  <2>1. GateTypeOK' /\ GateInv'
    BY <1>0, <1>3, DeliverGateStep
  <2>2. /\ now' = now /\ place'[r] = "checked" /\ since' = since
        /\ \A o \in Slot \ {r} : UNCHANGED place[o]
    BY <1>3 DEF Deliver, Goes, TypeOK, GateTypeOK
  <2>3. StoreInv'
    BY <1>0, <2>2, GateStoreStep
  <2>4. QED
    BY <2>1, <2>3 DEF TypeOK, storeVars
<1>n. ASSUME NEW r \in Slot, Note(r)
      PROVE  IInv'
  <2>1. GateTypeOK' /\ GateInv'
    BY <1>n, NoteGateStep
  <2>2. /\ now' = now /\ place'[r] = "locking" /\ since'[r] = now
        /\ \A o \in Slot \ {r} : UNCHANGED <<place[o], since[o]>>
    BY <1>n DEF Note, Goes, TypeOK, GateTypeOK
  <2>3. StoreInv'
    BY <1>0, <2>2, GateStoreStep
  <2>4. QED
    BY <2>1, <2>3 DEF TypeOK, storeVars
<1>4. ASSUME NEW r \in Slot, Record(r)
      PROVE  IInv'
  <2>1. GateTypeOK' /\ GateInv'
    BY <1>4, RecordGateStep
  <2>2. /\ now' = now /\ place'[r] \in {"idle", "granted"} /\ since'[r] \in {0, since[r]}
        /\ \A o \in Slot \ {r} : UNCHANGED <<place[o], since[o]>>
    BY <1>4 DEF Record, Freed, Goes, TypeOK, GateTypeOK
  <2>3. since[r] <= now
    BY DEF StoreInv, Argument, Suits
  <2>4. since'[r] <= now'
    BY <1>0, <2>2, <2>3
  <2>5. StoreInv'
    BY <1>0, <2>2, <2>4, GateStoreStep
  <2>6. QED
    BY <2>1, <2>5 DEF TypeOK, storeVars
<1>5. QED
  BY <1>1, <1>2, <1>3, <1>4, <1>n DEF Gate

\* The server starts again: tables, and what the devices were told, stay.
LEMMA RestartStep == IInv /\ Restart => IInv'
<1> SUFFICES ASSUME IInv, Restart
             PROVE  IInv'
  OBVIOUS
<1>1. GateTypeOK' /\ GateInv'
  BY RestartGateStep DEF IInv, Restart
<1>2. /\ place' = [r \in Slot |-> "idle"] /\ since' = [r \in Slot |-> 0]
      /\ inbox' = None /\ arg' = [r \in Slot |-> None]
      /\ UNCHANGED <<now, made, until, clips, sessions, stored, told, deleted>>
  BY DEF Restart, GateRestarts
<1>3. TypeOK'
  BY <1>1, <1>2 DEF IInv, TypeOK
<1>4. now \in Nat
  BY SlotTypes DEF IInv
<1>5. \A r \in Slot : Suits(r)' /\ Fresh(r)' /\ ToTell(r)'
  BY <1>2, <1>4 DEF Suits, Fresh, ToTell, At
<1>6. Made'
  BY <1>2, StoreAssumption DEF IInv, StoreInv, Made
<1>7. \A x \in told' : Accounted(x)'
  BY <1>2 DEF IInv, StoreInv, Accounted, Expired
<1>8. QED
  BY <1>1, <1>3, <1>5, <1>6, <1>7 DEF IInv, StoreInv, Argument

LEMMA HandlerStep ==
  ASSUME IInv, NEW r \in Slot, Handler(r)
  PROVE  IInv'
<1>1. TypeOK'
  BY HandlerTypeStep DEF IInv, StoreInv
<1>2. GateInv'
  BY HandlerGateStep DEF IInv
<1>3. Argument' /\ Made'
  BY HandlerArgumentStep, HandlerMadeStep DEF IInv, StoreInv
<1>4. \A o \in Slot : Fresh(o)'
  BY HandlerFreshStep DEF IInv, StoreInv
<1>5. \A o \in Slot : ToTell(o)'
  BY HandlerToTellStep DEF IInv, StoreInv
<1>6. \A x \in told' : Accounted(x)'
  BY HandlerToldStep DEF IInv, StoreInv
<1>7. QED
  BY <1>1, <1>2, <1>3, <1>4, <1>5, <1>6 DEF IInv, StoreInv

LEMMA InitHolds == Init => IInv
<1> SUFFICES ASSUME Init
             PROVE  IInv
  OBVIOUS
<1> USE DEF Init, GateInit
<1>2. GateTypeOK
  BY PlacesAndTimes DEF GateTypeOK
<1>3. TypeOK
  BY <1>2 DEF TypeOK
<1>4. GateInv
  BY DEF GateInv, WaitsInTime, AcceptedIsKept
<1>5. StoreInv
  BY StoreAssumption DEF StoreInv, Argument, Suits, Made, Fresh, ToTell, At
<1>6. QED
  BY <1>3, <1>4, <1>5 DEF IInv

LEMMA StutterStep == IInv /\ UNCHANGED vars => IInv'
<1> SUFFICES ASSUME IInv, UNCHANGED vars
             PROVE  IInv'
  OBVIOUS
<1>1. now' \in Nat /\ now <= now' /\ UNCHANGED storeVars
  BY SlotTypes DEF IInv, vars, gateVars
<1>2. TypeOK'
  BY DEF IInv, TypeOK, GateTypeOK, vars, gateVars, storeVars
<1>3. GateInv'
  BY <1>1, GateUntouched DEF IInv, vars, gateVars
<1>4. StoreInv'
  BY <1>1, GateStoreStep DEF IInv, vars, gateVars
<1>5. QED
  BY <1>2, <1>3, <1>4 DEF IInv

LEMMA Inductive == Spec => []IInv
<1>1. IInv /\ [Next]_vars => IInv'
  BY GateStep, HandlerStep, RestartStep, StutterStep DEF Next
<1>2. QED
  BY <1>1, InitHolds, PTL DEF Spec

-----------------------------------------------------------------------------
(* The theorems.                                                           *)

\* Every variable of the gate and the store keeps its type.
THEOREM TypeCorrect == Spec => []TypeOK
<1>1. IInv => TypeOK
  BY DEF IInv
<1>2. QED
  BY <1>1, Inductive, PTL

\* NonceCache and validate_timestamp: while a nonce must be kept its request is
\* refused by it, whichever slot gets the lock first and with whatever time it
\* works; later the timestamp is too old, but for requests stamped ahead of the
\* clock and those that had their timestamp checked before.
THEOREM RepeatsRefused == Spec => RepeatsAreRefused
<1> DEFINE Past(r) ==
             At(r, "locking") /\ place'[r] = "granted" /\ last[request[r]] # None =>
               LET end == last[request[r]] + Ttl
               IN end <= now /\ (stamp[request[r]] + Skew >= end \/ came[r] < end)
<1>1. IInv /\ [Next]_vars => [\A r \in Slot : Past(r)]_gateVars
  <2> SUFFICES ASSUME IInv, Next, NEW r \in Slot, At(r, "locking"), place'[r] = "granted",
                      last[request[r]] # None
               PROVE  LET end == last[request[r]] + Ttl
                      IN end <= now /\ (stamp[request[r]] + Skew >= end \/ came[r] < end)
    BY DEF vars
  <2> USE DEF IInv
  <2>1. Record(r)
    <3>1. place \in [Slot -> Place]
      BY SlotTypes
    <3>2. ~Tick /\ ~(\E q \in Request : Sign(q)) /\ ~Restart
      BY DEF Tick, Sign, Restart, GateRestarts, At
    <3>3. ~\E o \in Slot : Handler(o)
      BY HandlersKeepToTheirSlot DEF At
    <3>4. \A o \in Slot : ~Note(o) /\ ~(\E q \in Request : Deliver(o, q))
      BY <3>1 DEF Note, Deliver, At, Goes
    <3>5. \A o \in Slot \ {r} : ~Record(o)
      BY <3>1 DEF Record, Freed, At, Goes
    <3>6. QED
      BY <3>2, <3>3, <3>4, <3>5 DEF Next, Gate
  <2> DEFINE q == request[r]
             end == last[q] + Ttl
  <2>2. q \in Request /\ stamp[q] \in Int /\ stamp[q] + Skew >= came[r] /\ since[r] <= now
    BY DEF At, GateInv, WaitsInTime
  <2>3. now \in Nat /\ since[r] \in Nat /\ came[r] \in Nat
    BY SlotTypes, PlacesAndTimes DEF TypeOK, GateTypeOK
  <2>4. end \in Int /\ end # None
    BY <2>2, LastIsANumber, GateAssumption
  <2>5. Kept(since[r])[q] = None
    BY <2>1 DEF Record, Freed, Goes, TypeOK, GateTypeOK
  <2>6. end <= now
    BY <2>2, <2>3, <2>4, <2>5, KeptIsKept
  <2>7. stamp[q] + Skew >= end \/ came[r] < end
    BY <2>2, <2>3, <2>4, GateAssumption
  <2>8. QED
    BY <2>6, <2>7
<1>2. QED
  BY <1>1, Inductive, PTL DEF Spec, RepeatsAreRefused

\* What the server announces is in its database until it expires or a request
\* deletes it, for any number of calls that clean up meanwhile.
THEOREM AnnouncedIsStored == Spec => []ToldOfWhatIsStored
<1>1. IInv => ToldOfWhatIsStored
  BY DEF IInv, StoreInv, ToldOfWhatIsStored, Accounted
<1>2. QED
  BY <1>1, Inductive, PTL

\* No answer is older than the call it answers.
THEOREM AnswersStayFresh == Spec => []AnswersAreFresh
<1>1. IInv => AnswersAreFresh
  BY DEF IInv, StoreInv, AnswersAreFresh, Fresh, LiveSince
<1>2. QED
  BY <1>1, Inductive, PTL

\* The simple inbox loses a live text only to a reader whose check was about
\* another text.
THEOREM InboxLosesToOverlap == Spec => TextIsLostOnlyToOverlap
<1> DEFINE Lost == inbox # None /\ ~Expired(inbox) /\ inbox' = None
           Why == \/ \A r \in Slot : place'[r] = "idle"
                  \/ \E r \in Slot : At(r, "clear") /\ arg[r] # inbox /\ Expired(arg[r])
<1>1. IInv /\ [Next]_vars => [Lost => Why]_vars
  <2> SUFFICES ASSUME IInv, Next, Lost
               PROVE  Why
    OBVIOUS
  <2>1. CASE UNCHANGED storeVars
    BY <2>1 DEF storeVars
  <2>2. CASE Restart
    BY <2>2 DEF Restart, GateRestarts
  <2>3. ASSUME NEW r \in Slot, Handler(r)
        PROVE  Why
    <3>1. CASE ClearInbox(r)
      <4>1. At(r, "clear") /\ Expired(arg[r])
        BY <3>1 DEF ClearInbox, IInv, StoreInv, Argument, Suits, At
      <4>2. QED
        BY <4>1
    <3>2. CASE Mirror(r)
      <4>1. arg[r] \in Clip /\ inbox' = arg[r]
        BY <3>2 DEF Mirror, IInv, StoreInv, Argument, Suits, At
      <4>2. QED
        BY <4>1, StoreAssumption
    <3>3. CASE ~ClearInbox(r) /\ ~Mirror(r)
      <4>1. inbox' = inbox
        BY <2>3, <3>3 DEF Handler, Clean, Put, Announce, Drop, Latest, List, ReadInbox, Tell,
             Answer, Create, Get, Delete, CreateSession
      <4>2. QED
        BY <4>1
    <3>4. QED
      BY <3>1, <3>2, <3>3
  <2>4. QED
    BY <2>1, <2>2, <2>3 DEF Next
<1>2. QED
  BY <1>1, Inductive, PTL DEF Spec, TextIsLostOnlyToOverlap
=============================================================================
