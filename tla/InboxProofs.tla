---------------------------- MODULE InboxProofs ----------------------------
(***************************************************************************)
(* What holds of an agent's inbox, paste slot and file clipboard for any   *)
(* number of texts, file clips and buttons and any length of the history.  *)
(***************************************************************************)
EXTENDS Inbox, SequenceTheorems, TLAPS

-----------------------------------------------------------------------------
(* The inductive invariant.                                                *)

Arrived == texts + files

\* Where each worker can be.
Places(w) ==
  CASE w = "loop" -> {"idle", "textRow", "textMark", "fileRow", "fileMark",
                      "slot", "pull", "guard", "clear", "show"}
    [] w = "hotkey" -> {"idle", "check", "text", "slot", "pull", "guard", "clear", "show"}
    [] OTHER -> {"idle", "pull", "guard", "copied", "done", "failed"}

\* The loop receives one clip at a time; who applies one has it, and who has
\* set the guard for it, or copies it again, knows that it was downloaded.
JobsFit ==
  \A w \in Worker :
    /\ job[w].at \in Places(w)
    /\ job[w].at \in {"textRow", "textMark", "fileRow", "fileMark",
                      "pull", "guard", "copied", "clear", "show", "done", "failed"} =>
         job[w].clip \in Clip
    /\ job[w].at \in {"textRow", "textMark", "fileRow", "fileMark"} => job[w].clip = Arrived
    /\ job[w].at \in {"copied", "clear", "show", "done"} => job[w].clip \in held

\* A file clip that something is still about.
Handled(c) ==
  \/ c = pending
  \/ c \in fresh \cup held \cup raced
  \/ \E w \in Worker : job[w].clip = c /\ job[w].at \notin {"textRow", "textMark"}

Receiving == job["loop"].at \in {"textRow", "fileRow"}

\* Nothing is about a clip that has yet to arrive, no button about one whose row
\* has yet to be entered, and nothing but a row about a text.
NothingEarly ==
  /\ \A c \in Clip : Handled(c) => c <= Arrived
  /\ \A c \in Clip, s \in RowState : RowIs(c, s) => c <= Arrived
  /\ Receiving => /\ \A s \in RowState : ~RowIs(Arrived, s)
                  /\ \A b \in Button : job[b].clip # Arrived
  /\ job["loop"].at = "textRow" => ~Handled(Arrived)
  /\ \A c \in Clip : RowIs(c, "text") => ~Handled(c)

\* The newest row, and the number the hotkey will find for it.
Newest ==
  /\ fileSeq <= Arrived /\ textSeq <= Arrived
  /\ job["loop"].at \in {"textRow", "textMark", "fileRow", "fileMark"} =>
       fileSeq < Arrived /\ textSeq < Arrived
  /\ job["loop"].at = "textMark" => rows # << >> /\ rows[1].is = "text"
  /\ job["loop"].at = "fileMark" => rows # << >> /\ rows[1].is # "text"
  /\ job["loop"].at \notin {"textRow", "textMark", "fileRow", "fileMark"} /\ rows # << >> =>
       \/ rows[1].is = "text" /\ fileSeq < textSeq
       \/ rows[1].is # "text" /\ textSeq < fileSeq

\* What rows say of their clips.
RowsFit ==
  \A c \in Clip :
    /\ RowIs(c, "downloading") => \E b \in Button : WorkingOn(b, c)
    /\ RowIs(c, "done") => c \in held
    /\ \A b \in Button, s \in RowState :
         WorkingOn(b, c) /\ RowIs(c, s) => s \in {"downloading", "done"}

\* Two buttons never work on one clip, and two workers only on a raced one.
Apart ==
  \A c \in Clip, v, w \in Worker :
    WorkingOn(v, c) /\ WorkingOn(w, c) =>
      v = w \/ (c \in raced /\ ~(v \in Button /\ w \in Button))

\* A clip nobody raced for was not downloaded before the loop enters its row or
\* while a button still may fail on it, and when it is downloaded its row says
\* so or somebody is about to have it say so.
ShowsHeld ==
  /\ \A w \in Worker :
       /\ \/ job[w].at = "fileRow"
          \/ w \in Button /\ job[w].at \in {"pull", "guard", "failed"}
       /\ job[w].clip \notin raced
       => job[w].clip \notin held
  /\ \A c \in held \ raced, s \in RowState :
       RowIs(c, s) =>
         s = "done" \/ \E w \in Worker : job[w].clip = c /\ job[w].at \in {"clear", "show", "done"}

\* The slot holds nothing older than what is being applied from it, and nothing
\* else while the loop applies it.
SlotFits ==
  \A w \in {"loop", "hotkey"} :
    job[w].at \in {"pull", "guard", "clear"} /\ pending # None =>
      job[w].clip <= pending /\ (w = "loop" => job[w].clip = pending)

Writing(w) == job[w].at \in {"guard", "copied"}

\* Downloaded files on the clipboard have a guard, or the poller has seen them,
\* once their only writer is done.
BoardFits ==
  board \in Clip /\ ~tangled =>
    /\ \A w \in Worker : Writing(w) => job[w].clip = board
    /\ (\A w \in Worker : ~Writing(w)) => guard = board \/ (seen = board /\ poll.at = "idle")

PollFits == poll.at = "guard" /\ poll.what \in Clip /\ ~poll.mixed => guard = poll.what

IInv ==
  /\ JobsFit
  /\ NothingEarly
  /\ Newest
  /\ RowsFit
  /\ Apart
  /\ ShowsHeld
  /\ SlotFits
  /\ BoardFits
  /\ PollFits

-----------------------------------------------------------------------------
(* How steps move workers and change rows.                                 *)

\* Worker w goes to place p with clip c, and nobody else moves.
Moves(w, p, c) ==
  /\ job'[w].at = p
  /\ job'[w].clip = c
  /\ \A v \in Worker \ {w} : job'[v] = job[v]

JobType ==
  [at : {"idle", "textRow", "textMark", "fileRow", "fileMark", "check", "text", "slot",
         "pull", "guard", "copied", "clear", "show", "done", "failed"},
   clip : Clip \cup {None}]

LEMMA JobTypes ==
  ASSUME TypeOK
  PROVE  job \in [Worker -> JobType]
BY DEF TypeOK, JobType

LEMMA JobMoves ==
  ASSUME TypeOK, NEW w \in Worker
  PROVE  /\ \A p : Goes(w, p) => Moves(w, p, job[w].clip)
         /\ Ends(w) => Moves(w, "idle", None)
         /\ \A p, c : job' = [job EXCEPT ![w] = [at |-> p, clip |-> c]] => Moves(w, p, c)
BY JobTypes DEF Goes, Ends, Idle, Moves, JobType

LEMMA Workers ==
  /\ "loop" \in Worker /\ "hotkey" \in Worker /\ Button \subseteq Worker
  /\ "loop" \notin Button /\ "hotkey" \notin Button
BY InboxAssumption DEF Worker

LEMMA PlacesOf ==
  /\ Places("loop") = {"idle", "textRow", "textMark", "fileRow", "fileMark",
                       "slot", "pull", "guard", "clear", "show"}
  /\ Places("hotkey") = {"idle", "check", "text", "slot", "pull", "guard", "clear", "show"}
  /\ \A b \in Button : Places(b) = {"idle", "pull", "guard", "copied", "done", "failed"}
BY Workers DEF Places

LEMMA Arrivals ==
  ASSUME TypeOK
  PROVE  /\ Arrived \in Nat
         /\ texts < MaxTexts \/ files < MaxFiles => Arrived + 1 \in Clip /\ NextArrival = Arrived + 1
         /\ \A c \in Clip : c \in Nat /\ c > 0
         /\ None \notin Clip
BY InboxAssumption DEF TypeOK, Arrived, NextArrival, Clip

LEMMA RowTypes ==
  ASSUME TypeOK
  PROVE  /\ rows \in Seq(Row) /\ Len(rows) \in Nat /\ DOMAIN rows = 1 .. Len(rows)
         /\ \A i \in 1 .. Len(rows) : /\ rows[i].id \in Clip /\ rows[i].is \in RowState
                                      /\ rows[i] = [id |-> rows[i].id, is |-> rows[i].is]
<1>1. rows \in Seq(Row) /\ Len(rows) \in Nat /\ DOMAIN rows = 1 .. Len(rows)
  BY LenProperties DEF TypeOK
<1>2. \A i \in 1 .. Len(rows) : rows[i] \in Row
  BY <1>1, ElementOfSeq
<1> QED
  BY <1>1, <1>2 DEF Row

\* A clip has one row.
LEMMA OneRow ==
  ASSUME TypeOK, NEW c, NEW s, NEW t, RowIs(c, s), RowIs(c, t)
  PROVE  s = t
<1>1. PICK i \in 1 .. Len(rows) : rows[i] = [id |-> c, is |-> s]
  BY RowTypes DEF RowIs
<1>2. PICK j \in 1 .. Len(rows) : rows[j] = [id |-> c, is |-> t]
  BY RowTypes DEF RowIs
<1>3. rows[i].id = c /\ rows[j].id = c /\ c \in Nat
  BY <1>1, <1>2, RowTypes, Arrivals
<1>4. i = j
  BY <1>3, RowTypes DEF TypeOK
<1> QED
  BY <1>1, <1>2, <1>4

\* Showing the state of a clip changes its row only.
LEMMA RowShown ==
  ASSUME TypeOK, NEW c \in Clip, NEW s \in RowState, rows' = RowsWith(c, s)
  PROVE  /\ rows' \in Seq(Row) /\ Len(rows') = Len(rows) /\ DOMAIN rows' = 1 .. Len(rows)
         /\ \A i \in 1 .. Len(rows) :
              rows'[i] = IF rows[i].id = c THEN [id |-> c, is |-> s] ELSE rows[i]
<1> DEFINE new(i) == IF rows[i].id = c THEN [id |-> c, is |-> s] ELSE rows[i]
<1>1. \A i \in 1 .. Len(rows) : (IF rows[i].id = c THEN [rows[i] EXCEPT !.is = s] ELSE rows[i]) = new(i)
  BY RowTypes
<1>2. \A i \in 1 .. Len(rows) : new(i) \in Row
  BY RowTypes DEF Row
<1>3. rows' = [i \in 1 .. Len(rows) |-> new(i)]
  BY <1>1, RowTypes DEF RowsWith
<1> HIDE DEF new
<1>4. rows' \in Seq(Row) /\ Len(rows') = Len(rows)
  BY <1>2, <1>3, RowTypes
<1> QED
  BY <1>3, <1>4 DEF new

LEMMA RowsShown ==
  ASSUME TypeOK, NEW c \in Clip, NEW s \in RowState, rows' = RowsWith(c, s)
  PROVE  \A d \in Clip, t \in RowState :
           RowIs(d, t)' => \/ d # c /\ RowIs(d, t)
                           \/ d = c /\ t = s /\ \E u \in RowState : RowIs(c, u)
<1> SUFFICES ASSUME NEW d \in Clip, NEW t \in RowState, RowIs(d, t)'
             PROVE  \/ d # c /\ RowIs(d, t)
                    \/ d = c /\ t = s /\ \E u \in RowState : RowIs(c, u)
  OBVIOUS
<1>1. /\ DOMAIN rows' = 1 .. Len(rows)
      /\ \A i \in 1 .. Len(rows) :
           rows'[i] = IF rows[i].id = c THEN [id |-> c, is |-> s] ELSE rows[i]
  BY RowShown
<1>2. PICK i \in 1 .. Len(rows) : rows'[i] = [id |-> d, is |-> t]
  BY <1>1 DEF RowIs
<1>3. CASE rows[i].id = c
  <2>1. d = c /\ t = s
    BY <1>1, <1>2, <1>3
  <2>2. rows[i].is \in RowState /\ rows[i] = [id |-> c, is |-> rows[i].is] /\ i \in DOMAIN rows
    BY <1>3, RowTypes
  <2> QED
    BY <2>1, <2>2 DEF RowIs
<1>4. CASE rows[i].id # c
  <2>1. rows[i] = [id |-> d, is |-> t] /\ i \in DOMAIN rows
    BY <1>1, <1>2, <1>4, RowTypes
  <2> QED
    BY <2>1, <1>4 DEF RowIs
<1> QED
  BY <1>3, <1>4

\* The row the loop enters.
Entered == IF At("loop", "textRow") THEN "text" ELSE "idle"

LEMMA RowEntered ==
  ASSUME TypeOK, JobsFit, PushRow
  PROVE  /\ rows' \in Seq(Row) /\ Len(rows') \in 1 .. Len(rows) + 1 /\ Len(rows') <= HistoryMax
         /\ rows'[1] = [id |-> Arrived, is |-> Entered]
         /\ \A i \in 2 .. Len(rows') : rows'[i] = rows[i - 1]
         /\ Arrived \in Clip
<1> PICK row : row = [id |-> job["loop"].clip, is |-> Entered]
  OBVIOUS
<1> PICK all : all = <<row>> \o rows
  OBVIOUS
<1>1. job["loop"].clip = Arrived /\ Arrived \in Clip
  <2>1. job["loop"].at \in {"textRow", "fileRow"}
    BY DEF PushRow, At
  <2>2. job["loop"].clip = Arrived /\ Arrived <= MaxTexts + MaxFiles /\ Arrived \in Nat
    BY <2>1, Workers, Arrivals, InboxAssumption DEF JobsFit, TypeOK, Arrived
  <2>3. job["loop"].clip \in Clip
    BY <2>1, Workers DEF JobsFit
  <2> QED
    BY <2>2, <2>3
<1>2. row \in Row /\ row = [id |-> Arrived, is |-> Entered]
  BY <1>1 DEF Row, Entered, RowState
<1>3. /\ all \in Seq(Row) /\ Len(all) = Len(rows) + 1
      /\ all[1] = row /\ \A i \in 2 .. Len(all) : all[i] = rows[i - 1]
  BY <1>2, RowTypes
<1>4. rows' = IF Len(all) > HistoryMax THEN SubSeq(all, 1, Len(all) - 1) ELSE all
  BY DEF PushRow, Front, Entered
<1>5. Len(rows) \in Nat /\ Len(rows) <= HistoryMax /\ HistoryMax \in Nat \ {0}
  BY RowTypes, InboxAssumption DEF TypeOK
<1>6. CASE Len(all) > HistoryMax
  <2>1. rows' = SubSeq(all, 1, Len(rows)) /\ Len(rows) = HistoryMax
    BY <1>3, <1>4, <1>5, <1>6
  <2>2. rows' \in Seq(Row) /\ Len(rows') = Len(rows) /\ \A i \in 1 .. Len(rows) : rows'[i] = all[i]
    BY <2>1, <1>3, <1>5
  <2> QED
    BY <2>1, <2>2, <1>1, <1>2, <1>3, <1>5
<1>7. CASE ~(Len(all) > HistoryMax)
  <2>1. rows' = all
    BY <1>4, <1>7
  <2> QED
    BY <2>1, <1>1, <1>2, <1>3, <1>5, <1>7
<1> QED
  BY <1>6, <1>7

LEMMA RowsEntered ==
  ASSUME TypeOK, JobsFit, PushRow
  PROVE  \A d, t : RowIs(d, t)' => RowIs(d, t) \/ (d = Arrived /\ t = Entered)
<1> SUFFICES ASSUME NEW d, NEW t, RowIs(d, t)'
             PROVE  RowIs(d, t) \/ (d = Arrived /\ t = Entered)
  OBVIOUS
<1>1. DOMAIN rows' = 1 .. Len(rows') /\ Len(rows') \in Nat /\ Len(rows) \in Nat
  BY RowEntered, RowTypes
<1>2. PICK i \in 1 .. Len(rows') : rows'[i] = [id |-> d, is |-> t]
  BY <1>1 DEF RowIs
<1>3. CASE i = 1
  BY <1>2, <1>3, RowEntered
<1>4. CASE i # 1
  <2>1. i - 1 \in DOMAIN rows /\ rows[i - 1] = [id |-> d, is |-> t]
    BY <1>1, <1>2, <1>4, RowEntered, RowTypes
  <2> QED
    BY <2>1 DEF RowIs
<1> QED
  BY <1>3, <1>4

-----------------------------------------------------------------------------
(* Types.                                                                  *)

PlaceNames == {"idle", "textRow", "textMark", "fileRow", "fileMark", "check", "text", "slot",
               "pull", "guard", "copied", "clear", "show", "done", "failed"}

LEMMA JobTyped ==
  ASSUME TypeOK, NEW w \in Worker
  PROVE  /\ \A p \in PlaceNames : Goes(w, p) => job' \in [Worker -> JobType]
         /\ Ends(w) => job' \in [Worker -> JobType]
         /\ \A p \in PlaceNames, c \in Clip :
              job' = [job EXCEPT ![w] = [at |-> p, clip |-> c]] => job' \in [Worker -> JobType]
BY JobTypes DEF Goes, Ends, Idle, JobType, PlaceNames

RowsType ==
  /\ rows \in Seq(Row) /\ Len(rows) <= HistoryMax
  /\ \A i, j \in 1 .. Len(rows) : i < j => rows[i].id > rows[j].id

LEMMA ShownTyped ==
  ASSUME TypeOK, NEW c \in Clip, NEW s \in RowState, rows' = RowsWith(c, s)
  PROVE  RowsType'
<1>1. rows' \in Seq(Row) /\ Len(rows') = Len(rows)
  BY RowShown
<1>2. \A i \in 1 .. Len(rows) : rows'[i].id = rows[i].id
  <2>1. \A i \in 1 .. Len(rows) :
          rows'[i] = IF rows[i].id = c THEN [id |-> c, is |-> s] ELSE rows[i]
    BY RowShown
  <2> QED
    BY <2>1
<1> QED
  BY <1>1, <1>2 DEF TypeOK, RowsType

LEMMA EnteredTyped ==
  ASSUME TypeOK, JobsFit, NothingEarly, PushRow
  PROVE  RowsType'
<1>1. \A i \in 1 .. Len(rows) : rows[i].id <= Arrived /\ rows[i].id # Arrived
  <2> TAKE i \in 1 .. Len(rows)
  <2>1. RowIs(rows[i].id, rows[i].is) /\ rows[i].is \in RowState /\ rows[i].id \in Clip
    BY RowTypes DEF RowIs
  <2>2. Receiving
    BY DEF PushRow, At, Receiving
  <2> QED
    BY <2>1, <2>2 DEF NothingEarly
<1>2. \A i \in 1 .. Len(rows) : rows[i].id \in Nat /\ Arrived \in Nat
  BY RowTypes, Arrivals
<1> PICK n : n = Len(rows')
  OBVIOUS
<1>3. /\ n \in 1 .. Len(rows) + 1 /\ Len(rows) \in Nat
      /\ rows'[1].id = Arrived /\ \A i \in 2 .. n : rows'[i] = rows[i - 1]
  BY RowEntered, RowTypes
<1>4. ASSUME NEW i \in 1 .. n, NEW j \in 1 .. n, i < j
      PROVE  rows'[i].id > rows'[j].id
  <2>1. j \in 2 .. n /\ j - 1 \in 1 .. Len(rows) /\ rows'[j] = rows[j - 1]
    BY <1>3, <1>4
  <2>2. CASE i = 1
    BY <1>1, <1>2, <1>3, <2>1, <2>2
  <2>3. CASE i # 1
    <3>1. i \in 2 .. n /\ i - 1 \in 1 .. Len(rows) /\ rows'[i] = rows[i - 1] /\ i - 1 < j - 1
      BY <1>3, <1>4, <2>3
    <3> QED
      BY <2>1, <3>1 DEF TypeOK
  <2> QED
    BY <2>2, <2>3
<1> QED
  BY <1>4, RowEntered DEF RowsType

\* The rest of TypeOK, by part.
BoardType ==
  /\ board \in Clip \cup UserFiles \cup {None}
  /\ guard \in Clip \cup {None}
  /\ seen \in Clip \cup UserFiles \cup {None}
  /\ poll \in [at : {"idle", "guard"},
               what : Clip \cup UserFiles \cup {None}, mixed : BOOLEAN]
  /\ tangled \in BOOLEAN

PullType == fresh \subseteq Clip /\ held \subseteq Clip /\ raced \subseteq Clip

InboxType ==
  /\ texts \in 0 .. MaxTexts /\ files \in 0 .. MaxFiles
  /\ pending \in Clip \cup {None}
  /\ fileSeq \in {0} \cup Clip /\ textSeq \in {0} \cup Clip

LEMMA TypeParts ==
  TypeOK <=> InboxType /\ RowsType /\ job \in [Worker -> JobType] /\ BoardType /\ PullType
BY DEF TypeOK, InboxType, RowsType, JobType, BoardType, PullType

\* What starts on a clip, or puts it on the clipboard, keeps its type.
LEMMA StartTyped ==
  ASSUME TypeOK, NEW w \in Worker, NEW c \in Clip, StartsOn(w, c)
  PROVE  job' \in [Worker -> JobType] /\ raced' \subseteq Clip /\ Moves(w, "pull", c)
BY JobTyped, JobMoves DEF StartsOn, PlaceNames, TypeOK

LEMMA WriteTyped ==
  ASSUME TypeOK, NEW w \in Worker, NEW c \in Clip, NEW p \in PlaceNames, WritesBoard(w, c, p),
         UNCHANGED <<guard, seen>>
  PROVE  job' \in [Worker -> JobType] /\ BoardType' /\ Moves(w, p, c)
<1>1. job' \in [Worker -> JobType] /\ Moves(w, p, c)
  BY JobTyped, JobMoves DEF WritesBoard
<1> QED
  BY <1>1 DEF WritesBoard, TypeOK, BoardType

LEMMA RowClip ==
  ASSUME TypeOK, NEW c, NEW s, RowIs(c, s)
  PROVE  c \in Clip /\ s \in RowState
<1>1. PICK i \in 1 .. Len(rows) : rows[i] = [id |-> c, is |-> s]
  BY RowTypes DEF RowIs
<1> QED
  BY <1>1, RowTypes

LEMMA TypeStep ==
  ASSUME TypeOK, JobsFit, NothingEarly, [Next]_vars
  PROVE  TypeOK'
<1> DEFINE Typed == InboxType' /\ RowsType' /\ job' \in [Worker -> JobType] /\ BoardType' /\ PullType'
<1>0. InboxType /\ RowsType /\ job \in [Worker -> JobType] /\ BoardType /\ PullType
  BY TypeParts
<1> SUFFICES Typed
  BY DEF TypeOK, InboxType, RowsType, JobType, BoardType, PullType
<1>a. UNCHANGED <<texts, files, pending, fileSeq, textSeq>> => InboxType'
  BY <1>0 DEF InboxType
<1>b. UNCHANGED boardVars => BoardType'
  BY <1>0 DEF BoardType, boardVars
<1>c. UNCHANGED pullVars => PullType'
  BY <1>0 DEF PullType, pullVars
<1>d. UNCHANGED rows => RowsType'
  BY <1>0 DEF RowsType
<1>1. CASE UNCHANGED vars
  BY <1>1, <1>0, <1>a, <1>b, <1>c, <1>d DEF vars, inboxVars
<1>2. CASE ReceiveText
  <2>1. job' \in [Worker -> JobType]
    BY <1>2, Arrivals, JobTyped, Workers DEF ReceiveText, PlaceNames
  <2>2. InboxType'
    BY <1>2, <1>0, InboxAssumption DEF ReceiveText, InboxType
  <2> QED
    BY <1>2, <2>1, <2>2, <1>b, <1>c, <1>d DEF ReceiveText
<1>3. CASE ReceiveFiles
  <2>1. NextArrival \in Clip
    BY <1>3, Arrivals DEF ReceiveFiles
  <2>2. job' \in [Worker -> JobType]
    BY <1>3, <2>1, JobTyped, Workers DEF ReceiveFiles, PlaceNames
  <2>3. InboxType'
    BY <1>3, <2>1, <1>0, InboxAssumption DEF ReceiveFiles, InboxType
  <2>4. PullType'
    BY <1>3, <2>1, <1>0 DEF ReceiveFiles, PullType
  <2> QED
    BY <1>3, <2>2, <2>3, <2>4, <1>b, <1>d DEF ReceiveFiles
<1>4. CASE PushRow
  <2>1. job' \in [Worker -> JobType]
    BY <1>4, JobTyped, Workers DEF PushRow, PlaceNames
  <2> QED
    BY <1>4, <2>1, EnteredTyped, <1>a, <1>b, <1>c DEF PushRow
<1>5. ASSUME NEW auto \in BOOLEAN, Mark(auto)
      PROVE  Typed
  <2>1. job' \in [Worker -> JobType]
    BY <1>5, JobTyped, Workers DEF Mark, PlaceNames
  <2>2. job["loop"].clip \in Clip
    BY <1>5, Workers DEF Mark, At, JobsFit
  <2>3. InboxType'
    BY <1>5, <2>2, <1>0 DEF Mark, InboxType
  <2> QED
    BY <1>5, <2>1, <2>3, <1>b, <1>c, <1>d DEF Mark
<1>6. CASE Hotkey
  <2>1. job' \in [Worker -> JobType]
    BY <1>6, JobTyped, Workers DEF Hotkey, Press, Check, PasteText, PlaceNames
  <2>2. UNCHANGED inboxVars /\ UNCHANGED pullVars
    BY <1>6 DEF Hotkey, Press, Check, PasteText
  <2>3. BoardType'
    BY <1>6, <1>0 DEF Hotkey, Press, Check, PasteText, BoardType, boardVars
  <2> QED
    BY <2>1, <2>2, <2>3, <1>a, <1>c, <1>d DEF inboxVars
<1>7. CASE Poller
  <2>1. BoardType'
    <3>1. CASE PollFiles
      <4> DEFINE m == tangled \/ \E w \in Worker : job[w].at \in {"guard", "copied"}
      <4>1. m \in BOOLEAN
        OBVIOUS
      <4>2. poll' = [at |-> "guard", what |-> board, mixed |-> m]
        BY <3>1 DEF PollFiles
      <4> HIDE DEF m
      <4> QED
        BY <3>1, <4>1, <4>2, <1>0 DEF PollFiles, BoardType
    <3>2. CASE Compare
      BY <3>2, <1>0 DEF Compare, BoardType
    <3> QED
      BY <1>7, <3>1, <3>2 DEF Poller
  <2> QED
    BY <1>7, <2>1, <1>0, <1>a, <1>c, <1>d DEF Poller, PollFiles, Compare, inboxVars
<1>8. ASSUME NEW w \in Worker, Application(w)
      PROVE  Typed
  <2>1. CASE PullSucceeds(w)
    <3>1. job[w].clip \in Clip
      BY <2>1 DEF PullSucceeds, At, JobsFit
    <3>2. job' \in [Worker -> JobType] /\ BoardType'
      BY <2>1, <3>1, WriteTyped DEF PullSucceeds, PlaceNames
    <3>3. PullType'
      BY <2>1, <1>0 DEF PullSucceeds, PullType
    <3> QED
      BY <2>1, <3>2, <3>3, <1>a, <1>d DEF PullSucceeds, inboxVars
  <2>2. CASE PullFails(w)
    <3>1. job' \in [Worker -> JobType]
      BY <2>2, JobTyped DEF PullFails, PlaceNames
    <3>2. PullType'
      BY <2>2, <1>0 DEF PullFails, PullType
    <3> QED
      BY <2>2, <3>1, <3>2, <1>a, <1>b, <1>d DEF PullFails, inboxVars
  <2>3. CASE SetGuard(w)
    <3>1. job' \in [Worker -> JobType]
      BY <2>3, JobTyped DEF SetGuard, PlaceNames
    <3>2. job[w].clip \in Clip
      BY <2>3 DEF SetGuard, JobsFit
    <3>3. PullType'
      BY <2>3, <3>2, <1>0 DEF SetGuard, PullType
    <3>4. BoardType'
      BY <2>3, <3>2, <1>0 DEF SetGuard, BoardType
    <3> QED
      BY <2>3, <3>1, <3>3, <3>4, <1>a, <1>d DEF SetGuard, inboxVars
  <2>4. CASE TakeSlot(w)
    <3>1. CASE pending = None
      BY <2>4, <3>1, JobTyped, <1>0, <1>a, <1>b, <1>d DEF TakeSlot, inboxVars, PullType
    <3>2. CASE pending # None
      <4>1. pending \in Clip /\ StartsOn(w, pending)
        BY <2>4, <3>2, <1>0 DEF TakeSlot, InboxType
      <4> QED
        BY <2>4, <4>1, StartTyped, <1>0, <1>a, <1>b, <1>d DEF TakeSlot, inboxVars, PullType
    <3> QED
      BY <3>1, <3>2
  <2>5. CASE ClearSlot(w)
    <3>1. job' \in [Worker -> JobType]
      BY <2>5, JobTyped DEF ClearSlot, PlaceNames
    <3>2. InboxType'
      BY <2>5, <1>0 DEF ClearSlot, InboxType
    <3> QED
      BY <2>5, <3>1, <3>2, <1>b, <1>c, <1>d DEF ClearSlot
  <2>6. CASE ShowDone(w)
    <3>1. job' \in [Worker -> JobType]
      BY <2>6, JobTyped DEF ShowDone, PlaceNames
    <3>2. RowsType'
      BY <2>6, ShownTyped DEF ShowDone, JobsFit, At, RowState
    <3> QED
      BY <2>6, <3>1, <3>2, <1>a, <1>b, <1>c DEF ShowDone
  <2> QED
    BY <1>8, <2>1, <2>2, <2>3, <2>4, <2>5, <2>6 DEF Application
<1>9. ASSUME NEW b \in Button, InboxButton(b)
      PROVE  Typed
  <2>0. b \in Worker
    BY Workers
  <2>1. CASE ShowResult(b)
    <3>1. job' \in [Worker -> JobType]
      BY <2>0, <2>1, JobTyped DEF ShowResult, PlaceNames
    <3>2. job[b].clip \in Clip /\ job[b].at \in RowState
      BY <2>0, <2>1 DEF ShowResult, JobsFit, RowState
    <3>3. RowsType'
      BY <2>1, <3>2, ShownTyped DEF ShowResult
    <3> QED
      BY <2>1, <3>1, <3>3, <1>a, <1>b, <1>c DEF ShowResult
  <2>2. ASSUME NEW c \in Clip, ClaimRow(b, c)
        PROVE  Typed
    <3>1. RowsType'
      BY <2>2, ShownTyped DEF ClaimRow, RowState
    <3> QED
      BY <2>0, <2>2, <3>1, StartTyped, <1>0, <1>a, <1>b DEF ClaimRow, PullType
  <2>3. ASSUME NEW c \in Clip, CopyRow(b, c)
        PROVE  Typed
    <3>1. job' \in [Worker -> JobType] /\ BoardType'
      BY <2>0, <2>3, WriteTyped DEF CopyRow, PlaceNames
    <3> QED
      BY <2>3, <3>1, <1>a, <1>c, <1>d DEF CopyRow, inboxVars
  <2> QED
    BY <1>9, <2>1, <2>2, <2>3 DEF InboxButton
<1>10. ASSUME NEW what \in UserFiles \cup {None}, Copy(what)
       PROVE  Typed
  BY <1>10, <1>0, <1>a, <1>c, <1>d DEF Copy, BoardType, inboxVars
<1> QED
  BY <1>1, <1>2, <1>3, <1>4, <1>5, <1>6, <1>7, <1>8, <1>9, <1>10 DEF Next, WsLoop

-----------------------------------------------------------------------------
(* What each step does, in the terms of the invariant.                     *)

LEMMA LoopEffects ==
  ASSUME TypeOK, JobsFit
  PROVE  /\ ReceiveText => /\ job["loop"].at = "idle" /\ Moves("loop", "textRow", Arrived + 1)
                           /\ Arrived + 1 \in Clip /\ Arrived' = Arrived + 1
         /\ ReceiveFiles => /\ job["loop"].at = "idle" /\ Moves("loop", "fileRow", Arrived + 1)
                            /\ Arrived + 1 \in Clip /\ Arrived' = Arrived + 1
                            /\ pending' = Arrived + 1 /\ fresh' = fresh \cup {Arrived + 1}
         /\ PushRow => /\ Arrived' = Arrived /\ Arrived \in Clip /\ job["loop"].clip = Arrived
                       /\ \/ job["loop"].at = "textRow" /\ Moves("loop", "textMark", Arrived)
                          \/ job["loop"].at = "fileRow" /\ Moves("loop", "fileMark", Arrived)
         /\ \A auto \in BOOLEAN : Mark(auto) =>
              /\ Arrived' = Arrived /\ Arrived \in Clip /\ job["loop"].clip = Arrived
              /\ \/ /\ job["loop"].at = "textMark" /\ Moves("loop", "idle", None)
                    /\ textSeq' = Arrived /\ fileSeq' = fileSeq
                 \/ /\ job["loop"].at = "fileMark"
                    /\ Moves("loop", "idle", None) \/ Moves("loop", "slot", Arrived)
                    /\ fileSeq' = Arrived /\ textSeq' = textSeq
<1> USE Workers
<1>1. ASSUME ReceiveText
      PROVE  /\ job["loop"].at = "idle" /\ Moves("loop", "textRow", Arrived + 1)
             /\ Arrived + 1 \in Clip /\ Arrived' = Arrived + 1
  <2>1. Arrived + 1 \in Clip /\ NextArrival = Arrived + 1
    BY <1>1, Arrivals DEF ReceiveText
  <2>2. Moves("loop", "textRow", Arrived + 1)
    BY <1>1, <2>1, JobMoves DEF ReceiveText
  <2> QED
    BY <1>1, <2>1, <2>2, InboxAssumption DEF ReceiveText, At, Arrived, TypeOK
<1>2. ASSUME ReceiveFiles
      PROVE  /\ job["loop"].at = "idle" /\ Moves("loop", "fileRow", Arrived + 1)
             /\ Arrived + 1 \in Clip /\ Arrived' = Arrived + 1
             /\ pending' = Arrived + 1 /\ fresh' = fresh \cup {Arrived + 1}
  <2>1. Arrived + 1 \in Clip /\ NextArrival = Arrived + 1
    BY <1>2, Arrivals DEF ReceiveFiles
  <2>2. Moves("loop", "fileRow", Arrived + 1)
    BY <1>2, <2>1, JobMoves DEF ReceiveFiles
  <2> QED
    BY <1>2, <2>1, <2>2, InboxAssumption DEF ReceiveFiles, At, Arrived, TypeOK
<1>3. job["loop"].at \in {"textRow", "fileRow", "textMark", "fileMark"} =>
        job["loop"].clip = Arrived /\ Arrived \in Clip
  BY DEF JobsFit
<1>4. ASSUME PushRow
      PROVE  /\ Arrived' = Arrived /\ Arrived \in Clip /\ job["loop"].clip = Arrived
             /\ \/ job["loop"].at = "textRow" /\ Moves("loop", "textMark", Arrived)
                \/ job["loop"].at = "fileRow" /\ Moves("loop", "fileMark", Arrived)
  BY <1>3, <1>4, JobMoves DEF PushRow, At, Arrived
<1>5. ASSUME NEW auto \in BOOLEAN, Mark(auto)
      PROVE  /\ Arrived' = Arrived /\ Arrived \in Clip /\ job["loop"].clip = Arrived
             /\ \/ /\ job["loop"].at = "textMark" /\ Moves("loop", "idle", None)
                   /\ textSeq' = Arrived /\ fileSeq' = fileSeq
                \/ /\ job["loop"].at = "fileMark"
                   /\ Moves("loop", "idle", None) \/ Moves("loop", "slot", Arrived)
                   /\ fileSeq' = Arrived /\ textSeq' = textSeq
  <2>1. Arrived' = Arrived
    BY <1>5 DEF Mark, Arrived
  <2> QED
    BY <1>3, <1>5, <2>1, JobMoves DEF Mark, At
<1> QED
  BY <1>1, <1>2, <1>4, <1>5

LEMMA HotkeyEffects ==
  ASSUME TypeOK, Hotkey
  PROVE  /\ UNCHANGED <<inboxVars, guard, seen, poll, pullVars>> /\ Arrived' = Arrived
         /\ board' = None \/ UNCHANGED <<board, tangled>>
         /\ job["hotkey"].at \in {"idle", "check", "text"}
         /\ \/ \E p \in {"check", "text", "slot"} : Moves("hotkey", p, job["hotkey"].clip)
            \/ Moves("hotkey", "idle", None)
<1> USE Workers
<1>1. ASSUME NEW isolated \in BOOLEAN, Press(isolated)
      PROVE  /\ job["hotkey"].at = "idle"
             /\ \E p \in {"check", "text", "slot"} : Moves("hotkey", p, job["hotkey"].clip)
  BY <1>1, JobMoves DEF Press, At
<1>2. CASE Check
  BY <1>2, JobMoves DEF Check, At, boardVars, inboxVars, Arrived
<1>3. CASE PasteText
  BY <1>3, JobMoves DEF PasteText, At, inboxVars, Arrived
<1> QED
  BY <1>1, <1>2, <1>3 DEF Hotkey, Press, boardVars, inboxVars, Arrived

LEMMA ApplicationEffects ==
  ASSUME TypeOK, JobsFit, NEW w \in Worker
  PROVE  /\ PullSucceeds(w) => /\ job[w].at = "pull" /\ job[w].clip \in Clip
                               /\ Moves(w, "guard", job[w].clip)
         /\ PullFails(w) => /\ job[w].at = "pull" /\ job[w].clip \in Clip
                            /\ \/ w \in Button /\ Moves(w, "failed", job[w].clip)
                               \/ w \notin Button /\ Moves(w, "idle", None)
         /\ SetGuard(w) => /\ job[w].clip \in Clip /\ held' = held \cup {job[w].clip}
                           /\ \/ /\ job[w].at = "copied" /\ Moves(w, "idle", None)
                                 /\ held' = held
                              \/ /\ job[w].at = "guard" /\ w \in Button
                                 /\ Moves(w, "done", job[w].clip)
                              \/ /\ job[w].at = "guard" /\ w \notin Button
                                 /\ Moves(w, "clear", job[w].clip)
         /\ TakeSlot(w) => /\ job[w].at = "slot"
                           /\ \/ pending = None /\ Moves(w, "idle", None) /\ raced' = raced
                              \/ /\ pending \in Clip /\ StartsOn(w, pending)
                                 /\ Moves(w, "pull", pending)
         /\ ClearSlot(w) => /\ job[w].at = "clear" /\ job[w].clip \in Clip
                            /\ Moves(w, "show", job[w].clip)
         /\ ShowDone(w) => job[w].at = "show" /\ job[w].clip \in Clip /\ Moves(w, "idle", None)
         /\ w \in Worker
<1>1. job[w].at \in {"pull", "guard", "copied", "clear", "show"} => job[w].clip \in Clip
  BY DEF JobsFit
<1>2. job[w].at = "copied" => job[w].clip \in held
  BY DEF JobsFit
<1>3. PullSucceeds(w) => job[w].at = "pull" /\ Moves(w, "guard", job[w].clip)
  BY JobMoves DEF PullSucceeds, WritesBoard, At
<1>4. PullFails(w) => /\ job[w].at = "pull"
                      /\ \/ w \in Button /\ Moves(w, "failed", job[w].clip)
                         \/ w \notin Button /\ Moves(w, "idle", None)
  BY JobMoves DEF PullFails, At
<1>5. SetGuard(w) => /\ held' = held \cup {job[w].clip}
                     /\ \/ job[w].at = "copied" /\ Moves(w, "idle", None)
                        \/ job[w].at = "guard" /\ w \in Button /\ Moves(w, "done", job[w].clip)
                        \/ job[w].at = "guard" /\ w \notin Button /\ Moves(w, "clear", job[w].clip)
  BY JobMoves DEF SetGuard, At
<1>6. TakeSlot(w) => /\ job[w].at = "slot"
                     /\ \/ pending = None /\ Moves(w, "idle", None) /\ raced' = raced
                        \/ pending # None /\ StartsOn(w, pending)
  BY JobMoves DEF TakeSlot, At
<1>7. pending # None => pending \in Clip
  BY DEF TypeOK
<1>8. ClearSlot(w) => job[w].at = "clear" /\ Moves(w, "show", job[w].clip)
  BY JobMoves DEF ClearSlot, At
<1>9. ShowDone(w) => job[w].at = "show" /\ Moves(w, "idle", None)
  BY JobMoves DEF ShowDone, At
<1>10. StartsOn(w, pending) => Moves(w, "pull", pending)
  BY JobMoves DEF StartsOn
<1> QED
  BY <1>1, <1>2, <1>3, <1>4, <1>5, <1>6, <1>7, <1>8, <1>9, <1>10

LEMMA ButtonEffects ==
  ASSUME TypeOK, JobsFit, NEW b \in Button
  PROVE  /\ ShowResult(b) => /\ job[b].at \in {"done", "failed"} /\ job[b].clip \in Clip
                             /\ Moves(b, "idle", None)
         /\ \A c \in Clip : ClaimRow(b, c) => /\ job[b].at = "idle" /\ StartsOn(b, c)
                                              /\ Moves(b, "pull", c)
         /\ \A c \in Clip : CopyRow(b, c) => job[b].at = "idle" /\ Moves(b, "copied", c)
         /\ b \in Worker
<1>0. b \in Worker
  BY Workers
<1>1. job[b].at \in {"done", "failed"} => job[b].clip \in Clip
  BY <1>0 DEF JobsFit
<1>2. ShowResult(b) => job[b].at \in {"done", "failed"} /\ Moves(b, "idle", None)
  BY <1>0, JobMoves DEF ShowResult
<1>3. ASSUME NEW c \in Clip, ClaimRow(b, c)
      PROVE  job[b].at = "idle" /\ StartsOn(b, c) /\ Moves(b, "pull", c)
  BY <1>0, <1>3, JobMoves DEF ClaimRow, At, StartsOn
<1>4. ASSUME NEW c \in Clip, CopyRow(b, c)
      PROVE  job[b].at = "idle" /\ Moves(b, "copied", c)
  BY <1>0, <1>4, JobMoves DEF CopyRow, At, WritesBoard
<1> QED
  BY <1>0, <1>1, <1>2, <1>3, <1>4

\* Only the loop brings clips.
LEMMA OthersBringNothing ==
  /\ \A w \in Worker : Application(w) => Arrived' = Arrived
  /\ \A b \in Button : InboxButton(b) => Arrived' = Arrived
BY DEF Application, PullSucceeds, PullFails, SetGuard, TakeSlot, ClearSlot, ShowDone,
  InboxButton, ShowResult, ClaimRow, CopyRow, inboxVars, Arrived

\* The user, the poller and a step of nobody.
Elsewhere == (\E what \in UserFiles \cup {None} : Copy(what)) \/ Poller \/ UNCHANGED vars

LEMMA ElsewhereEffects ==
  ASSUME Elsewhere
  PROVE  UNCHANGED <<inboxVars, job, pullVars, Arrived>>
BY DEF Elsewhere, Copy, Poller, PollFiles, Compare, vars, inboxVars, Arrived

-----------------------------------------------------------------------------
(* Workers.                                                                *)

LEMMA FitMoves ==
  ASSUME JobsFit, NEW w \in Worker, NEW p, NEW c, Moves(w, p, c), p \in Places(w),
         p \in {"textRow", "textMark", "fileRow", "fileMark",
                "pull", "guard", "copied", "clear", "show", "done", "failed"} => c \in Clip,
         p \in {"textRow", "textMark", "fileRow", "fileMark"} => c = Arrived',
         p \in {"copied", "clear", "show", "done"} => c \in held',
         held \subseteq held',
         Arrived' = Arrived \/ w = "loop"
  PROVE  JobsFit'
<1> SUFFICES ASSUME NEW v \in Worker
             PROVE  /\ job'[v].at \in Places(v)
                    /\ job'[v].at \in {"textRow", "textMark", "fileRow", "fileMark",
                                       "pull", "guard", "copied", "clear", "show", "done", "failed"} =>
                         job'[v].clip \in Clip
                    /\ job'[v].at \in {"textRow", "textMark", "fileRow", "fileMark"} =>
                         job'[v].clip = Arrived'
                    /\ job'[v].at \in {"copied", "clear", "show", "done"} => job'[v].clip \in held'
  BY DEF JobsFit, Places
<1>1. CASE v = w
  BY <1>1 DEF Moves
<1>2. CASE v # w
  <2>1. job'[v] = job[v]
    BY <1>2 DEF Moves
  <2>2. v # "loop" => job[v].at \notin {"textRow", "textMark", "fileRow", "fileMark"}
    <3>1. v # "loop" => v = "hotkey" \/ v \in Button
      BY DEF Worker
    <3> QED
      BY <3>1, PlacesOf DEF JobsFit
  <2> QED
    BY <1>2, <2>1, <2>2 DEF JobsFit
<1> QED
  BY <1>1, <1>2

LEMMA JobsStep ==
  ASSUME TypeOK, JobsFit, RowsFit, [Next]_vars
  PROVE  JobsFit'
<1> USE Workers
<1>1. CASE Elsewhere
  <2>1. \A w \in Worker : Places(w)' = Places(w)
    BY DEF Places
  <2> QED
    BY <1>1, <2>1, ElsewhereEffects DEF JobsFit, pullVars
<1>2. CASE WsLoop
  <2>1. held' = held
    BY <1>2 DEF WsLoop, ReceiveText, ReceiveFiles, PushRow, Mark, pullVars
  <2>2. CASE ReceiveText
    BY <2>1, <2>2, LoopEffects, PlacesOf, FitMoves
  <2>3. CASE ReceiveFiles
    BY <2>1, <2>3, LoopEffects, PlacesOf, FitMoves
  <2>4. CASE PushRow
    BY <2>1, <2>4, LoopEffects, PlacesOf, FitMoves
  <2>5. ASSUME NEW auto \in BOOLEAN, Mark(auto)
        PROVE  JobsFit'
    BY <2>1, <2>5, LoopEffects, PlacesOf, FitMoves
  <2> QED
    BY <1>2, <2>2, <2>3, <2>4, <2>5 DEF WsLoop
<1>3. CASE Hotkey
  <2>1. held' = held
    BY <1>3, HotkeyEffects DEF pullVars
  <2> QED
    BY <1>3, <2>1, HotkeyEffects, PlacesOf, FitMoves
<1>4. ASSUME NEW w \in Worker, Application(w)
      PROVE  JobsFit'
  <2>1. held' = held \/ (SetGuard(w) /\ held \subseteq held')
    BY <1>4 DEF Application, PullSucceeds, PullFails, SetGuard, TakeSlot, ClearSlot, ShowDone, pullVars
  <2>2. Arrived' = Arrived
    BY <1>4, OthersBringNothing
  <2>3. /\ w \in Button => Places(w) = {"idle", "pull", "guard", "copied", "done", "failed"}
        /\ w \notin Button =>
             {"idle", "slot", "pull", "guard", "clear", "show"} \subseteq Places(w)
    BY PlacesOf DEF Worker
  <2>4. CASE PullSucceeds(w)
    BY <2>1, <2>2, <2>3, <2>4, ApplicationEffects, FitMoves
  <2>5. CASE PullFails(w)
    BY <2>1, <2>2, <2>3, <2>5, ApplicationEffects, FitMoves
  <2>6. CASE SetGuard(w)
    BY <2>1, <2>2, <2>3, <2>6, ApplicationEffects, FitMoves
  <2>7. CASE w \notin Button /\ TakeSlot(w)
    BY <2>1, <2>2, <2>3, <2>7, ApplicationEffects, FitMoves
  <2>8. CASE w \notin Button /\ ClearSlot(w)
    BY <2>1, <2>2, <2>3, <2>8, ApplicationEffects, FitMoves DEF JobsFit
  <2>9. CASE ShowDone(w)
    BY <2>1, <2>2, <2>3, <2>9, ApplicationEffects, FitMoves
  <2> QED
    BY <1>4, <2>4, <2>5, <2>6, <2>7, <2>8, <2>9 DEF Application
<1>5. ASSUME NEW b \in Button, InboxButton(b)
      PROVE  JobsFit'
  <2>1. held' = held
    BY <1>5 DEF InboxButton, ShowResult, ClaimRow, CopyRow, pullVars
  <2>2. Arrived' = Arrived
    BY <1>5, OthersBringNothing
  <2>3. CASE ShowResult(b)
    BY <2>1, <2>2, <2>3, ButtonEffects, PlacesOf, FitMoves
  <2>4. ASSUME NEW c \in Clip, ClaimRow(b, c)
        PROVE  JobsFit'
    BY <2>1, <2>2, <2>4, ButtonEffects, PlacesOf, FitMoves
  <2>5. ASSUME NEW c \in Clip, CopyRow(b, c)
        PROVE  JobsFit'
    <3>1. c \in held
      BY <2>5 DEF CopyRow, RowsFit
    <3> QED
      BY <2>1, <2>2, <2>5, <3>1, ButtonEffects, PlacesOf, FitMoves
  <2> QED
    BY <1>5, <2>3, <2>4, <2>5 DEF InboxButton
<1> QED
  BY <1>1, <1>2, <1>3, <1>4, <1>5 DEF Next, Elsewhere

-----------------------------------------------------------------------------
(* Clips and rows.                                                         *)

\* A clip of a file row.
Known(c) == \E s \in RowState : s # "text" /\ RowIs(c, s)

\* No clip gets a row, and no row becomes a text.
RowsKept ==
  \A c \in Clip, s \in RowState :
    RowIs(c, s)' => (\E t \in RowState : RowIs(c, t)) /\ (s = "text" => RowIs(c, "text"))

\* The newest row stays a text or no text.
HeadKept ==
  /\ rows' # << >> <=> rows # << >>
  /\ rows # << >> => (rows'[1].is = "text" <=> rows[1].is = "text")

LEMMA ShownIsKept ==
  ASSUME TypeOK, NothingEarly, NEW c \in Clip, NEW s \in RowState, s # "text",
         rows' = RowsWith(c, s), Handled(c) \/ Known(c)
  PROVE  RowsKept /\ HeadKept
<1>1. RowsKept
  <2> SUFFICES ASSUME NEW d \in Clip, NEW t \in RowState, RowIs(d, t)'
               PROVE  (\E u \in RowState : RowIs(d, u)) /\ (t = "text" => RowIs(d, "text"))
    BY DEF RowsKept
  <2>1. \/ d # c /\ RowIs(d, t)
        \/ d = c /\ t = s /\ \E u \in RowState : RowIs(c, u)
    BY RowsShown
  <2> QED
    BY <2>1
<1>2. ~RowIs(c, "text")
  BY OneRow DEF NothingEarly, Known
<1>3. rows' \in Seq(Row) /\ Len(rows') = Len(rows) /\ rows \in Seq(Row) /\ Len(rows) \in Nat
  BY RowShown, RowTypes
<1>4. rows' # << >> <=> rows # << >>
  BY <1>3, EmptySeq
<1>5. ASSUME rows # << >>
      PROVE  rows'[1].is = "text" <=> rows[1].is = "text"
  <2>1. 1 \in 1 .. Len(rows)
    BY <1>3, <1>5, EmptySeq
  <2>2. rows'[1] = IF rows[1].id = c THEN [id |-> c, is |-> s] ELSE rows[1]
    BY <2>1, RowShown
  <2>3. RowIs(rows[1].id, rows[1].is)
    BY <2>1, RowTypes DEF RowIs
  <2> QED
    BY <1>2, <2>2, <2>3
<1> QED
  BY <1>1, <1>4, <1>5 DEF HeadKept

LEMMA SameIsKept ==
  ASSUME UNCHANGED rows
  PROVE  RowsKept /\ HeadKept
BY DEF RowsKept, HeadKept, RowIs

LEMMA HandledAfter ==
  ASSUME NEW w \in Worker, NEW p, NEW c, Moves(w, p, c), c = None \/ Handled(c) \/ Known(c),
         pending' \in {pending, None}, fresh' \subseteq fresh, held' \subseteq held \cup {c},
         raced' \subseteq raced \cup {c}, TypeOK,
         NEW d \in Clip, Handled(d)'
  PROVE  Handled(d) \/ Known(d)
<1>1. d # None
  BY Arrivals
<1>2. CASE d = c
  BY <1>1, <1>2
<1>3. CASE d # c
  <2>1. d = pending' => d = pending
    BY <1>1
  <2>2. d \in fresh' \cup held' \cup raced' => d \in fresh \cup held \cup raced
    BY <1>3
  <2>3. ASSUME NEW v \in Worker, job'[v].clip = d, job'[v].at \notin {"textRow", "textMark"}
        PROVE  Handled(d)
    <3>1. v # w
      BY <1>3, <2>3 DEF Moves
    <3>2. job'[v] = job[v]
      BY <3>1 DEF Moves
    <3> QED
      BY <2>3, <3>2 DEF Handled
  <2> QED
    BY <2>1, <2>2, <2>3 DEF Handled
<1> QED
  BY <1>2, <1>3

LEMMA KnownIsEarly ==
  ASSUME TypeOK, NothingEarly, NEW c \in Clip, Known(c)
  PROVE  c <= Arrived /\ (Receiving => c # Arrived) /\ ~RowIs(c, "text")
BY OneRow DEF NothingEarly, Known

LEMMA HandledIsEarly ==
  ASSUME TypeOK, NothingEarly, NEW c \in Clip, Handled(c)
  PROVE  c <= Arrived /\ (job["loop"].at = "textRow" => c # Arrived) /\ ~RowIs(c, "text")
BY DEF NothingEarly

\* Steps that neither receive a clip nor enter a row.
LEMMA StaysEarly ==
  ASSUME TypeOK, JobsFit, NothingEarly, NEW w \in Worker, NEW p, NEW c, Moves(w, p, c),
         c = None \/ Handled(c) \/ Known(c),
         w \in Button => c \in {None, job[w].clip} \/ Known(c),
         w = "loop" => p \notin {"textRow", "fileRow"},
         pending' \in {pending, None}, fresh' \subseteq fresh, held' \subseteq held \cup {c},
         raced' \subseteq raced \cup {c}, Arrived' = Arrived, RowsKept
  PROVE  NothingEarly'
<1> USE Workers
<1>1. \A d \in Clip : Handled(d)' => Handled(d) \/ Known(d)
  BY HandledAfter
<1>2. /\ job'["loop"].at = "textRow" => job["loop"].at = "textRow"
      /\ Receiving' => Receiving
  BY DEF Moves, Receiving
<1>3. Receiving => Arrived \in Clip
  BY DEF Receiving, JobsFit
<1>4. \A d \in Clip : Handled(d)' => d <= Arrived'
  BY <1>1, HandledIsEarly, KnownIsEarly
<1>5. \A d \in Clip, s \in RowState : RowIs(d, s)' => d <= Arrived'
  BY DEF RowsKept, NothingEarly
<1>6. ASSUME Receiving'
      PROVE  \A s \in RowState : ~RowIs(Arrived, s)'
  BY <1>2, <1>3, <1>6 DEF RowsKept, NothingEarly
<1>7. ASSUME Receiving', NEW b \in Button
      PROVE  job'[b].clip # Arrived
  <2>1. job[b].clip # Arrived
    BY <1>2, <1>7 DEF NothingEarly
  <2>2. CASE b = w
    <3>1. job'[b].clip = c
      BY <2>2 DEF Moves
    <3> QED
      BY <1>2, <1>3, <1>7, <2>1, <2>2, <3>1, KnownIsEarly, Arrivals
  <2>3. CASE b # w
    BY <2>1, <2>3 DEF Moves
  <2> QED
    BY <2>2, <2>3
<1>8. job'["loop"].at = "textRow" => ~Handled(Arrived)'
  <2> SUFFICES ASSUME job'["loop"].at = "textRow", Handled(Arrived)'
               PROVE  FALSE
    OBVIOUS
  <2>1. Receiving /\ Arrived \in Clip /\ job["loop"].at = "textRow"
    BY <1>2, <1>3 DEF Receiving
  <2> QED
    BY <1>1, <2>1, HandledIsEarly, KnownIsEarly
<1>9. \A d \in Clip : RowIs(d, "text")' => ~Handled(d)'
  BY <1>1, HandledIsEarly, KnownIsEarly DEF RowsKept, RowState
<1> QED
  BY <1>4, <1>5, <1>6, <1>7, <1>8, <1>9 DEF NothingEarly

Marking == job["loop"].at \in {"textRow", "textMark", "fileRow", "fileMark"}

LEMMA StaysNewest ==
  ASSUME Newest, HeadKept, UNCHANGED <<fileSeq, textSeq, Arrived>>,
         job'["loop"].at = job["loop"].at \/ (~Marking /\ ~Marking')
  PROVE  Newest'
BY DEF Newest, HeadKept, Marking

LEMMA ReceivingIsEarly ==
  ASSUME TypeOK, JobsFit, NothingEarly, ReceiveText \/ ReceiveFiles
  PROVE  NothingEarly'
<1> USE Workers
<1> PICK n : n = Arrived + 1
  OBVIOUS
<1>1. /\ n \in Clip /\ Arrived' = n /\ Arrived \in Nat
      /\ \E p \in {"textRow", "fileRow"} : Moves("loop", p, n)
      /\ UNCHANGED <<rows, held, raced>>
      /\ fresh' \subseteq fresh \cup {n} /\ pending' \in {pending, n}
  BY LoopEffects, Arrivals DEF ReceiveText, ReceiveFiles, pullVars
<1>2. ~Handled(n) /\ \A s \in RowState : ~RowIs(n, s)
  BY <1>1 DEF NothingEarly
<1>3. \A d \in Clip : Handled(d)' => Handled(d) \/ d = n
  <2> SUFFICES ASSUME NEW d \in Clip, Handled(d)', d # n
               PROVE  Handled(d)
    OBVIOUS
  <2>1. d = pending' => d = pending
    BY <1>1
  <2>2. d \in fresh' \cup held' \cup raced' => d \in fresh \cup held \cup raced
    BY <1>1
  <2>3. \A v \in Worker : job'[v].clip = d => job'[v] = job[v]
    BY <1>1 DEF Moves
  <2> QED
    BY <2>1, <2>2, <2>3 DEF Handled
<1>4. \A d, s : RowIs(d, s)' <=> RowIs(d, s)
  BY <1>1 DEF RowIs
<1>5. \A d \in Clip : Handled(d)' => d <= Arrived'
  BY <1>1, <1>3, Arrivals DEF NothingEarly
<1>6. \A d \in Clip, s \in RowState : RowIs(d, s)' => d <= Arrived'
  BY <1>1, <1>4, Arrivals DEF NothingEarly
<1>7. \A s \in RowState : ~RowIs(Arrived, s)'
  <2>1. \A s \in RowState : ~RowIs(n, s)'
    BY <1>2, <1>4
  <2> QED
    BY <1>1, <2>1
<1>8. \A b \in Button : job'[b].clip # Arrived'
  <2> TAKE b \in Button
  <2>1. job'[b] = job[b] /\ b \in Worker
    BY <1>1 DEF Moves
  <2>2. job[b].clip # n
    <3>1. job[b].at \notin {"textRow", "textMark"}
      BY <2>1, PlacesOf DEF JobsFit
    <3> QED
      BY <1>2, <2>1, <3>1 DEF Handled
  <2> QED
    BY <1>1, <2>1, <2>2
<1>9. job'["loop"].at = "textRow" => ~Handled(n)'
  <2> SUFFICES ASSUME job'["loop"].at = "textRow", Handled(n)'
               PROVE  FALSE
    OBVIOUS
  <2>1. ReceiveText
    BY LoopEffects DEF Moves
  <2>2. UNCHANGED <<pending, fresh, held, raced>>
    BY <2>1 DEF ReceiveText, pullVars
  <2>3. PICK v \in Worker : job'[v].clip = n /\ job'[v].at \notin {"textRow", "textMark"}
    BY <1>2, <2>2 DEF Handled
  <2>4. v # "loop" /\ job'[v] = job[v]
    BY <1>1, <2>3 DEF Moves
  <2> QED
    BY <1>2, <2>3, <2>4 DEF Handled
<1>10. \A d \in Clip : RowIs(d, "text")' => ~Handled(d)'
  BY <1>2, <1>3, <1>4 DEF NothingEarly, RowState
<1>11. job'["loop"].at = "textRow" => ~Handled(Arrived)'
  BY <1>1, <1>9
<1> QED
  BY <1>5, <1>6, <1>7, <1>8, <1>10, <1>11 DEF NothingEarly

LEMMA EnteringIsEarly ==
  ASSUME TypeOK, JobsFit, NothingEarly, PushRow
  PROVE  NothingEarly'
<1> USE Workers
<1>1. /\ Arrived' = Arrived /\ Arrived \in Clip /\ job["loop"].clip = Arrived
      /\ \/ job["loop"].at = "textRow" /\ Moves("loop", "textMark", Arrived)
         \/ job["loop"].at = "fileRow" /\ Moves("loop", "fileMark", Arrived)
      /\ UNCHANGED <<pending, fresh, held, raced>>
  BY LoopEffects DEF PushRow, pullVars
<1>2. \A d, t : RowIs(d, t)' => RowIs(d, t) \/ (d = Arrived /\ t = Entered)
  BY RowsEntered
<1>3. \A d \in Clip : Handled(d)' => Handled(d)
  BY <1>1 DEF Handled, Moves
<1>4. job'["loop"].at \in {"textMark", "fileMark"} /\ ~Receiving'
  BY <1>1 DEF Moves, Receiving
<1>5. Entered = "text" => ~Handled(Arrived)
  BY <1>1 DEF Entered, At, NothingEarly
<1>6. \A d \in Clip : Handled(d)' => d <= Arrived'
  BY <1>1, <1>3 DEF NothingEarly
<1>7. \A d \in Clip, s \in RowState : RowIs(d, s)' => d <= Arrived'
  BY <1>1, <1>2, Arrivals DEF NothingEarly
<1>8. \A d \in Clip : RowIs(d, "text")' => ~Handled(d)'
  BY <1>2, <1>3, <1>5 DEF NothingEarly
<1> QED
  BY <1>4, <1>6, <1>7, <1>8 DEF NothingEarly

LEMMA EnteringIsNewest ==
  ASSUME TypeOK, JobsFit, Newest, PushRow
  PROVE  Newest'
<1> USE Workers
<1>1. /\ Arrived' = Arrived /\ Arrived \in Clip
      /\ \/ job["loop"].at = "textRow" /\ job'["loop"].at = "textMark"
         \/ job["loop"].at = "fileRow" /\ job'["loop"].at = "fileMark"
      /\ UNCHANGED <<fileSeq, textSeq>>
  BY LoopEffects DEF PushRow, Moves
<1>2. rows' # << >> /\ rows'[1].is = Entered
  BY RowEntered, EmptySeq, RowTypes
<1> QED
  BY <1>1, <1>2 DEF Newest, Entered, At

LEMMA MarkingIsNewest ==
  ASSUME TypeOK, JobsFit, Newest, NEW auto \in BOOLEAN, Mark(auto)
  PROVE  Newest'
<1> USE Workers
<1>1. /\ Arrived' = Arrived /\ Arrived \in Clip /\ rows' = rows
      /\ job'["loop"].at \in {"idle", "slot"}
      /\ \/ job["loop"].at = "textMark" /\ textSeq' = Arrived /\ fileSeq' = fileSeq
         \/ job["loop"].at = "fileMark" /\ fileSeq' = Arrived /\ textSeq' = textSeq
  <2>1. rows' = rows
    BY DEF Mark
  <2> QED
    BY <2>1, LoopEffects DEF Moves
<1>2. fileSeq < Arrived /\ textSeq < Arrived /\ Arrived \in Nat /\ fileSeq \in Nat /\ textSeq \in Nat
  BY <1>1, Arrivals DEF Newest, TypeOK
<1> QED
  BY <1>1, <1>2 DEF Newest

LEMMA ReceivingIsNewest ==
  ASSUME TypeOK, JobsFit, Newest, ReceiveText \/ ReceiveFiles
  PROVE  Newest'
<1> USE Workers
<1>1. /\ Arrived' = Arrived + 1 /\ Arrived \in Nat
      /\ job'["loop"].at \in {"textRow", "fileRow"}
      /\ UNCHANGED <<fileSeq, textSeq>>
  BY LoopEffects, Arrivals DEF ReceiveText, ReceiveFiles, Moves
<1>2. fileSeq \in Nat /\ textSeq \in Nat /\ fileSeq <= Arrived /\ textSeq <= Arrived
  BY Arrivals DEF Newest, TypeOK
<1> QED
  BY <1>1, <1>2 DEF Newest

\* What the arrivals and the newest row need to know of the other workers.
LEMMA OthersStay ==
  ASSUME TypeOK, JobsFit, NothingEarly, Newest, NEW w \in Worker, NEW p, NEW c, Moves(w, p, c),
         c = None \/ Handled(c) \/ Known(c),
         w \in Button => c \in {None, job[w].clip} \/ Known(c),
         w = "loop" => ~Marking /\ p \notin {"textRow", "textMark", "fileRow", "fileMark"},
         pending' \in {pending, None}, fresh' \subseteq fresh, held' \subseteq held \cup {c},
         raced' \subseteq raced \cup {c}, Arrived' = Arrived, RowsKept, HeadKept,
         UNCHANGED <<fileSeq, textSeq>>
  PROVE  NothingEarly' /\ Newest'
<1>1. NothingEarly'
  BY StaysEarly
<1>2. job'["loop"].at = job["loop"].at \/ (~Marking /\ ~Marking')
  BY Workers DEF Moves, Marking
<1> QED
  BY <1>1, <1>2, StaysNewest

LEMMA ArrivalsStep ==
  ASSUME TypeOK, JobsFit, NothingEarly, Newest, [Next]_vars
  PROVE  NothingEarly' /\ Newest'
<1> USE Workers
<1>1. CASE Elsewhere
  <2>1. UNCHANGED <<inboxVars, job, pullVars, Arrived>>
    BY <1>1, ElsewhereEffects
  <2>2. /\ \A d, s : RowIs(d, s)' <=> RowIs(d, s)
        /\ \A d : Handled(d)' <=> Handled(d)
    BY <2>1 DEF RowIs, Handled, inboxVars, pullVars
  <2>3. NothingEarly'
    <3> PICK n : n = Arrived
      OBVIOUS
    <3>1. Arrived' = n
      BY <2>1
    <3> QED
      BY <2>1, <2>2, <3>1 DEF NothingEarly, Receiving
  <2> QED
    BY <2>1, <2>3 DEF Newest, inboxVars
<1>2. CASE ReceiveText \/ ReceiveFiles
  BY <1>2, ReceivingIsEarly, ReceivingIsNewest
<1>3. CASE PushRow
  BY <1>3, EnteringIsEarly, EnteringIsNewest
<1>4. ASSUME NEW auto \in BOOLEAN, Mark(auto)
      PROVE  NothingEarly' /\ Newest'
  <2>1. /\ UNCHANGED <<pending, rows, fresh, held, raced>>
        /\ Arrived' = Arrived /\ job["loop"].clip = Arrived
        /\ \/ job["loop"].at = "textMark" /\ Moves("loop", "idle", None)
           \/ /\ job["loop"].at = "fileMark"
              /\ Moves("loop", "idle", None) \/ Moves("loop", "slot", Arrived)
    <3>1. UNCHANGED <<pending, rows, fresh, held, raced>>
      BY <1>4 DEF Mark, pullVars
    <3> QED
      BY <1>4, <3>1, LoopEffects
  <2>2. job["loop"].at = "fileMark" => Handled(Arrived)
    BY <2>1 DEF Handled
  <2>3. RowsKept
    BY <2>1, SameIsKept
  <2>4. NothingEarly'
    BY <2>1, <2>2, <2>3, StaysEarly
  <2> QED
    BY <1>4, <2>4, MarkingIsNewest
<1>5. CASE Hotkey
  <2>1. /\ UNCHANGED <<pending, rows, fileSeq, textSeq, fresh, held, raced>>
        /\ Arrived' = Arrived
        /\ job["hotkey"].at \in {"idle", "check", "text"}
        /\ \/ \E p \in {"check", "text", "slot"} : Moves("hotkey", p, job["hotkey"].clip)
           \/ Moves("hotkey", "idle", None)
    BY <1>5, HotkeyEffects DEF inboxVars, pullVars
  <2>2. Handled(job["hotkey"].clip)
    BY <2>1 DEF Handled
  <2>3. RowsKept /\ HeadKept
    BY <2>1, SameIsKept
  <2>4. PICK p, c : Moves("hotkey", p, c) /\ (c = None \/ Handled(c))
    BY <2>1, <2>2
  <2> QED
    BY <2>1, <2>3, <2>4, OthersStay
<1>6. ASSUME NEW w \in Worker, Application(w)
      PROVE  NothingEarly' /\ Newest'
  <2>1. job[w].at \notin {"textRow", "textMark"} => Handled(job[w].clip)
    BY DEF Handled
  <2>2. job[w].at \notin {"textRow", "textMark", "fileRow", "fileMark"} /\ w = "loop" => ~Marking
    BY DEF Marking
  <2>3. Arrived' = Arrived /\ UNCHANGED <<fileSeq, textSeq>>
    BY <1>6, OthersBringNothing DEF Application, PullSucceeds, PullFails, SetGuard, TakeSlot,
      ClearSlot, ShowDone, inboxVars
  <2>4. CASE PullSucceeds(w) \/ PullFails(w)
    <3>1. /\ UNCHANGED <<pending, rows, held, raced>> /\ fresh' \subseteq fresh
          /\ job[w].at = "pull"
          /\ \E p \in {"idle", "failed", "guard"}, c \in {None, job[w].clip} : Moves(w, p, c)
      <4>1. UNCHANGED <<pending, rows, held, raced>> /\ fresh' \subseteq fresh
        BY <2>4 DEF PullSucceeds, PullFails, inboxVars
      <4> QED
        BY <2>4, <4>1, ApplicationEffects
    <3>2. RowsKept /\ HeadKept
      BY <3>1, SameIsKept
    <3>3. PICK p \in {"idle", "failed", "guard"}, c \in {None, job[w].clip} : Moves(w, p, c)
      BY <3>1
    <3> QED
      BY <2>1, <2>2, <2>3, <3>1, <3>2, <3>3, OthersStay
  <2>5. CASE SetGuard(w)
    <3>1. /\ UNCHANGED <<pending, rows, fresh, raced>> /\ held' \subseteq held \cup {job[w].clip}
          /\ job[w].at \in {"guard", "copied"}
          /\ held' = held \/ \E p \in {"clear", "done"} : Moves(w, p, job[w].clip)
          /\ \E p \in {"idle", "clear", "done"}, c \in {None, job[w].clip} : Moves(w, p, c)
      <4>1. UNCHANGED <<pending, rows, fresh, raced>>
        BY <2>5 DEF SetGuard, inboxVars
      <4> QED
        BY <2>5, <4>1, ApplicationEffects
    <3>2. RowsKept /\ HeadKept
      BY <3>1, SameIsKept
    <3>3. PICK p \in {"idle", "clear", "done"}, c \in {None, job[w].clip} :
            Moves(w, p, c) /\ held' \subseteq held \cup {c}
      BY <3>1
    <3> QED
      BY <2>1, <2>2, <2>3, <3>1, <3>2, <3>3, OthersStay
  <2>6. CASE TakeSlot(w)
    <3>1. /\ UNCHANGED <<pending, rows, fresh, held>> /\ job[w].at = "slot"
          /\ \/ Moves(w, "idle", None) /\ raced' = raced
             \/ Moves(w, "pull", pending) /\ raced' \subseteq raced \cup {pending} /\ pending \in Clip
      <4>1. UNCHANGED <<pending, rows, fresh, held>>
        BY <2>6 DEF TakeSlot, inboxVars
      <4> QED
        BY <2>6, <4>1, ApplicationEffects DEF StartsOn
    <3>2. RowsKept /\ HeadKept
      BY <3>1, SameIsKept
    <3>3. Handled(pending)
      BY DEF Handled
    <3>4. PICK p \in {"idle", "pull"}, c \in {None, pending} :
            Moves(w, p, c) /\ raced' \subseteq raced \cup {c}
      BY <3>1
    <3>5. w \notin Button
      BY <3>1, PlacesOf DEF JobsFit
    <3> QED
      BY <2>2, <2>3, <3>1, <3>2, <3>3, <3>4, <3>5, OthersStay
  <2>7. CASE ClearSlot(w)
    <3>1. /\ UNCHANGED <<rows, fresh, held, raced>> /\ pending' = None /\ job[w].at = "clear"
          /\ Moves(w, "show", job[w].clip)
      <4>1. UNCHANGED <<rows, fresh, held, raced>> /\ pending' = None
        BY <2>7 DEF ClearSlot, pullVars
      <4> QED
        BY <2>7, <4>1, ApplicationEffects
    <3>2. RowsKept /\ HeadKept
      BY <3>1, SameIsKept
    <3> QED
      BY <2>1, <2>2, <2>3, <3>1, <3>2, OthersStay
  <2>8. CASE ShowDone(w)
    <3>1. /\ UNCHANGED <<pending, fresh, held, raced>> /\ job[w].at = "show"
          /\ Moves(w, "idle", None) /\ job[w].clip \in Clip /\ rows' = RowsWith(job[w].clip, "done")
      <4>1. UNCHANGED <<pending, fresh, held, raced>> /\ rows' = RowsWith(job[w].clip, "done")
        BY <2>8 DEF ShowDone, pullVars
      <4> QED
        BY <2>8, <4>1, ApplicationEffects
    <3>2. RowsKept /\ HeadKept
      BY <2>1, <3>1, ShownIsKept DEF RowState
    <3> QED
      BY <2>1, <2>2, <2>3, <3>1, <3>2, OthersStay
  <2> QED
    BY <1>6, <2>4, <2>5, <2>6, <2>7, <2>8 DEF Application
<1>7. ASSUME NEW b \in Button, InboxButton(b)
      PROVE  NothingEarly' /\ Newest'
  <2>0. b \in Worker
    BY Workers
  <2>1. Arrived' = Arrived /\ UNCHANGED <<pending, fileSeq, textSeq, fresh, held>>
    BY <1>7, OthersBringNothing DEF InboxButton, ShowResult, ClaimRow, CopyRow, inboxVars, pullVars
  <2>2. CASE ShowResult(b)
    <3>1. /\ raced' = raced /\ Moves(b, "idle", None) /\ job[b].clip \in Clip
          /\ job[b].at \in {"done", "failed"} /\ rows' = RowsWith(job[b].clip, job[b].at)
      <4>1. raced' = raced /\ rows' = RowsWith(job[b].clip, job[b].at)
        BY <2>2 DEF ShowResult, pullVars
      <4> QED
        BY <2>2, <4>1, ButtonEffects
    <3>2. Handled(job[b].clip)
      BY <2>0, <3>1 DEF Handled
    <3>3. RowsKept /\ HeadKept
      BY <3>1, <3>2, ShownIsKept DEF RowState
    <3> QED
      BY <2>0, <2>1, <3>1, <3>3, OthersStay
  <2>3. ASSUME NEW c \in Clip, ClaimRow(b, c)
        PROVE  NothingEarly' /\ Newest'
    <3>1. /\ raced' \subseteq raced \cup {c} /\ Moves(b, "pull", c)
          /\ rows' = RowsWith(c, "downloading")
      BY <2>3, ButtonEffects DEF StartsOn, ClaimRow
    <3>2. Known(c)
      BY <2>3 DEF Known, ClaimRow, RowState
    <3>3. RowsKept /\ HeadKept
      BY <3>1, <3>2, ShownIsKept DEF RowState
    <3> QED
      BY <2>0, <2>1, <3>1, <3>2, <3>3, OthersStay
  <2>4. ASSUME NEW c \in Clip, CopyRow(b, c)
        PROVE  NothingEarly' /\ Newest'
    <3>1. raced' = raced /\ Moves(b, "copied", c) /\ rows' = rows
      BY <2>4, ButtonEffects DEF CopyRow, inboxVars, pullVars
    <3>2. Known(c)
      BY <2>4 DEF Known, CopyRow, RowState
    <3>3. RowsKept /\ HeadKept
      BY <3>1, SameIsKept
    <3> QED
      BY <2>0, <2>1, <3>1, <3>2, <3>3, OthersStay
  <2> QED
    BY <1>7, <2>2, <2>3, <2>4 DEF InboxButton
<1> QED
  BY <1>1, <1>2, <1>3, <1>4, <1>5, <1>6, <1>7 DEF Next, Elsewhere, WsLoop

-----------------------------------------------------------------------------
(* Who works on what.                                                      *)

Work == {"fileRow", "pull", "guard", "clear", "show", "done", "failed"}

WorkFits == RowsFit /\ Apart /\ ShowsHeld

LEMMA WorkingMoves ==
  ASSUME NEW w \in Worker, NEW p, NEW c, Moves(w, p, c)
  PROVE  /\ \A v \in Worker \ {w} : \A d : WorkingOn(v, d)' <=> WorkingOn(v, d)
         /\ \A d : WorkingOn(w, d)' <=> d = c /\ p \in Work
         /\ \A v \in Worker : \A d : WorkingOn(v, d) <=> d = job[v].clip /\ job[v].at \in Work
BY DEF Moves, WorkingOn, Work

\* Two workers stay apart if the one that moves is alone at its clip or races.
LEMMA ApartAfter ==
  ASSUME Apart, NEW w \in Worker, NEW p, NEW c, Moves(w, p, c), raced \subseteq raced',
         p \in Work => \A v \in Worker \ {w} :
           WorkingOn(v, c) => c \in raced' /\ ~(v \in Button /\ w \in Button)
  PROVE  Apart'
BY WorkingMoves DEF Apart

\* Steps that stay away from the clips.
LEMMA StaysAway ==
  ASSUME WorkFits, NEW w \in Worker, NEW p, NEW c, Moves(w, p, c),
         job[w].at \notin Work, p \notin Work, UNCHANGED <<rows, held, raced>>
  PROVE  WorkFits'
<1>1. Apart'
  BY ApartAfter DEF WorkFits
<1>2. \A v \in Worker : \A d : WorkingOn(v, d)' <=> WorkingOn(v, d)
  BY WorkingMoves
<1>3. \A d, s : RowIs(d, s)' <=> RowIs(d, s)
  BY DEF RowIs
<1>4. RowsFit'
  BY <1>2, <1>3, Workers DEF WorkFits, RowsFit
<1>5. ShowsHeld'
  BY <1>3 DEF WorkFits, ShowsHeld, Moves, Work
<1> QED
  BY <1>1, <1>4, <1>5 DEF WorkFits

LEMMA ReceivingFits ==
  ASSUME TypeOK, JobsFit, NothingEarly, WorkFits, ReceiveFiles
  PROVE  WorkFits'
<1> USE Workers
<1> PICK n : n = Arrived + 1
  OBVIOUS
<1>1. /\ n \in Clip /\ Moves("loop", "fileRow", n) /\ job["loop"].at = "idle"
      /\ UNCHANGED <<rows, held, raced>>
  BY LoopEffects DEF ReceiveFiles
<1>2. ~Handled(n)
  BY <1>1, Arrivals DEF NothingEarly
<1>3. \A v \in Worker : ~WorkingOn(v, n)
  BY <1>2 DEF Handled, WorkingOn
<1>4. Apart'
  BY <1>1, <1>3, ApartAfter DEF WorkFits
<1>5. \A d, s : RowIs(d, s)' <=> RowIs(d, s)
  BY <1>1 DEF RowIs
<1>6. \A b \in Button : \A d : WorkingOn(b, d)' <=> WorkingOn(b, d)
  BY <1>1, WorkingMoves
<1>7. RowsFit'
  BY <1>1, <1>5, <1>6 DEF WorkFits, RowsFit
<1>8. n \notin held
  BY <1>2 DEF Handled
<1>9. ShowsHeld'
  BY <1>1, <1>5, <1>8 DEF WorkFits, ShowsHeld, Moves
<1> QED
  BY <1>4, <1>7, <1>9 DEF WorkFits

LEMMA EnteringFits ==
  ASSUME TypeOK, JobsFit, NothingEarly, WorkFits, PushRow
  PROVE  WorkFits'
<1> USE Workers
<1>1. /\ Arrived \in Clip /\ job["loop"].clip = Arrived
      /\ \/ job["loop"].at = "textRow" /\ Moves("loop", "textMark", Arrived)
         \/ job["loop"].at = "fileRow" /\ Moves("loop", "fileMark", Arrived)
      /\ UNCHANGED <<held, raced>>
  BY LoopEffects DEF PushRow, pullVars
<1>2. \A d, s : RowIs(d, s)' => RowIs(d, s) \/ (d = Arrived /\ s \in {"text", "idle"})
  BY RowsEntered DEF Entered
<1>3. \A b \in Button : ~WorkingOn(b, Arrived)
  BY <1>1 DEF NothingEarly, Receiving, WorkingOn
<1>4. Apart'
  BY <1>1, ApartAfter DEF WorkFits, Work
<1>5. \A b \in Button : \A d : WorkingOn(b, d)' <=> WorkingOn(b, d)
  BY <1>1, WorkingMoves
<1>6. RowsFit'
  BY <1>1, <1>2, <1>3, <1>5 DEF WorkFits, RowsFit
<1>7. Arrived \notin held \ raced
  BY <1>1 DEF NothingEarly, Handled, WorkFits, ShowsHeld
<1>8. ShowsHeld'
  BY <1>1, <1>2, <1>7 DEF WorkFits, ShowsHeld, Moves
<1> QED
  BY <1>4, <1>6, <1>8 DEF WorkFits

LEMMA StartingFits ==
  ASSUME TypeOK, JobsFit, WorkFits, NEW w \in Worker \ Button, NEW c \in Clip,
         job[w].at = "slot", StartsOn(w, c), Moves(w, "pull", c), UNCHANGED <<rows, held>>
  PROVE  WorkFits'
<1> USE Workers
<1>1. raced \subseteq raced' /\ \A v \in Worker \ {w} : WorkingOn(v, c) => c \in raced'
  BY DEF StartsOn
<1>2. Apart'
  BY <1>1, ApartAfter DEF WorkFits
<1>3. \A b \in Button : \A d : WorkingOn(b, d)' <=> WorkingOn(b, d)
  BY WorkingMoves
<1>4. \A d, s : RowIs(d, s)' <=> RowIs(d, s)
  BY DEF RowIs
<1>5. RowsFit'
  BY <1>3, <1>4 DEF WorkFits, RowsFit
<1>6. ShowsHeld'
  BY <1>1, <1>4 DEF WorkFits, ShowsHeld, Moves
<1> QED
  BY <1>2, <1>5, <1>6 DEF WorkFits

LEMMA ClaimingFits ==
  ASSUME TypeOK, JobsFit, WorkFits, NEW b \in Button, NEW c \in Clip, ClaimRow(b, c)
  PROVE  WorkFits'
<1> USE Workers
<1>1. /\ b \in Worker /\ job[b].at = "idle" /\ Moves(b, "pull", c)
      /\ held' = held /\ rows' = RowsWith(c, "downloading")
      /\ RowIs(c, "idle") \/ RowIs(c, "failed")
  BY ButtonEffects DEF ClaimRow
<1>2. raced \subseteq raced' /\ \A v \in Worker \ {b} : WorkingOn(v, c) => c \in raced'
  BY ButtonEffects DEF StartsOn
<1>3. \A d \in Button : ~WorkingOn(d, c)
  BY <1>1 DEF WorkFits, RowsFit, RowState
<1>4. Apart'
  BY <1>1, <1>2, <1>3, ApartAfter DEF WorkFits
<1>5. \A d \in Clip, t \in RowState : RowIs(d, t)' => (d # c /\ RowIs(d, t)) \/ (d = c /\ t = "downloading")
  <2>1. "downloading" \in RowState
    BY DEF RowState
  <2> TAKE d \in Clip, t \in RowState
  <2>2. RowIs(d, t)' => \/ d # c /\ RowIs(d, t)
                        \/ d = c /\ t = "downloading" /\ \E u \in RowState : RowIs(c, u)
    BY <1>1, <2>1, RowsShown
  <2> QED
    BY <2>2
<1>6. /\ \A d \in Button \ {b} : \A e : WorkingOn(d, e)' <=> WorkingOn(d, e)
      /\ \A e : WorkingOn(b, e)' <=> e = c
      /\ \A e : ~WorkingOn(b, e)
  BY <1>1, WorkingMoves DEF Work
<1>7. RowsFit'
  <2> SUFFICES ASSUME NEW e \in Clip
               PROVE  /\ RowIs(e, "downloading")' => \E d \in Button : WorkingOn(d, e)'
                      /\ RowIs(e, "done")' => e \in held'
                      /\ \A d \in Button, s \in RowState :
                           WorkingOn(d, e)' /\ RowIs(e, s)' => s \in {"downloading", "done"}
    BY DEF RowsFit
  <2>1. CASE e = c
    BY <1>1, <1>5, <1>6, <2>1 DEF RowState
  <2>2. CASE e # c
    BY <1>1, <1>5, <1>6, <2>2 DEF WorkFits, RowsFit, RowState
  <2> QED
    BY <2>1, <2>2
<1>8. c \notin held \ raced'
  <2> SUFFICES ASSUME c \in held \ raced'
               PROVE  FALSE
    OBVIOUS
  <2>1. PICK w \in Worker : job[w].clip = c /\ job[w].at \in {"clear", "show", "done"}
    BY <1>1, <1>2 DEF WorkFits, ShowsHeld, RowState
  <2>2. WorkingOn(w, c) /\ w # b
    BY <1>1, <2>1 DEF WorkingOn
  <2> QED
    BY <1>2, <2>2
<1>9. ShowsHeld'
  <2>1. ASSUME NEW w \in Worker,
               \/ job'[w].at = "fileRow"
               \/ w \in Button /\ job'[w].at \in {"pull", "guard", "failed"},
               job'[w].clip \notin raced'
        PROVE  job'[w].clip \notin held'
    BY <1>1, <1>2, <1>8, <2>1 DEF WorkFits, ShowsHeld, Moves
  <2>2. ASSUME NEW e \in held' \ raced', NEW s \in RowState, RowIs(e, s)', s # "done"
        PROVE  \E w \in Worker : job'[w].clip = e /\ job'[w].at \in {"clear", "show", "done"}
    <3>1. e # c /\ e \in held \ raced /\ e \in Clip
      BY <1>1, <1>2, <1>8, <2>2 DEF TypeOK
    <3>2. PICK w \in Worker : job[w].clip = e /\ job[w].at \in {"clear", "show", "done"}
      BY <1>5, <2>2, <3>1 DEF WorkFits, ShowsHeld
    <3> QED
      BY <1>1, <3>2 DEF Moves
  <2> QED
    BY <2>1, <2>2 DEF ShowsHeld
<1> QED
  BY <1>4, <1>7, <1>9 DEF WorkFits

LEMMA PullingFits ==
  ASSUME TypeOK, JobsFit, WorkFits, NEW w \in Worker, PullSucceeds(w) \/ PullFails(w)
  PROVE  WorkFits'
<1> USE Workers
<1> PICK c : c = job[w].clip
  OBVIOUS
<1>1. /\ job[w].at = "pull" /\ c \in Clip
      /\ \/ Moves(w, "guard", c) \/ (w \in Button /\ Moves(w, "failed", c))
         \/ (w \notin Button /\ Moves(w, "idle", None))
      /\ UNCHANGED <<rows, held, raced>>
  <2>1. UNCHANGED <<rows, held, raced>>
    BY DEF PullSucceeds, PullFails, inboxVars
  <2> QED
    BY <2>1, ApplicationEffects
<1>2. WorkingOn(w, c)
  BY <1>1 DEF WorkingOn
<1>3. Apart'
  BY <1>1, <1>2, ApartAfter DEF WorkFits, Apart, Work
<1>4. \A b \in Button : \A d : WorkingOn(b, d)' <=> WorkingOn(b, d)
  BY <1>1, WorkingMoves DEF Work
<1>5. \A d, s : RowIs(d, s)' <=> RowIs(d, s)
  BY <1>1 DEF RowIs
<1>6. RowsFit'
  BY <1>1, <1>4, <1>5 DEF WorkFits, RowsFit
<1>7. ShowsHeld'
  BY <1>1, <1>5 DEF WorkFits, ShowsHeld, Moves
<1> QED
  BY <1>3, <1>6, <1>7 DEF WorkFits

LEMMA GuardingFits ==
  ASSUME TypeOK, JobsFit, WorkFits, NEW w \in Worker, SetGuard(w)
  PROVE  WorkFits'
<1> USE Workers
<1> PICK c : c = job[w].clip
  OBVIOUS
<1>0. UNCHANGED <<rows, raced>>
  BY DEF SetGuard, inboxVars
<1>1. CASE job[w].at = "copied"
  BY <1>0, <1>1, ApplicationEffects, StaysAway DEF Work
<1>2. CASE job[w].at # "copied"
  <2>1. /\ job[w].at = "guard" /\ c \in Clip /\ held' = held \cup {c}
        /\ \E p \in {"done", "clear"} : Moves(w, p, c) /\ (w \in Button <=> p = "done")
    BY <1>2, ApplicationEffects
  <2>2. WorkingOn(w, c)
    BY <2>1 DEF WorkingOn
  <2>3. \A v \in Worker \ {w} : WorkingOn(v, c) => c \in raced
    BY <2>1, <2>2 DEF WorkFits, Apart
  <2>4. Apart'
    BY <1>0, <2>1, <2>2, ApartAfter DEF WorkFits, Apart
  <2>5. \A b \in Button : \A d : WorkingOn(b, d)' <=> WorkingOn(b, d)
    BY <2>1, WorkingMoves DEF Work
  <2>6. \A d, s : RowIs(d, s)' <=> RowIs(d, s)
    BY <1>0 DEF RowIs
  <2>7. RowsFit'
    BY <2>1, <2>5, <2>6 DEF WorkFits, RowsFit
  <2>8. ASSUME NEW v \in Worker,
               \/ job'[v].at = "fileRow"
               \/ v \in Button /\ job'[v].at \in {"pull", "guard", "failed"},
               job'[v].clip \notin raced'
        PROVE  job'[v].clip \notin held'
    <3>1. v # w /\ job'[v] = job[v]
      BY <2>1, <2>8 DEF Moves
    <3>2. job[v].clip # c
      BY <1>0, <2>3, <2>8, <3>1 DEF WorkingOn
    <3> QED
      BY <1>0, <2>1, <2>8, <3>1, <3>2 DEF WorkFits, ShowsHeld
  <2>9. ASSUME NEW e \in held' \ raced', NEW s \in RowState, RowIs(e, s)', s # "done"
        PROVE  \E v \in Worker : job'[v].clip = e /\ job'[v].at \in {"clear", "show", "done"}
    BY <1>0, <2>1, <2>6, <2>9 DEF WorkFits, ShowsHeld, Moves
  <2>10. ShowsHeld'
    BY <2>8, <2>9 DEF ShowsHeld
  <2> QED
    BY <2>4, <2>7, <2>10 DEF WorkFits
<1> QED
  BY <1>1, <1>2

LEMMA ClearingFits ==
  ASSUME TypeOK, JobsFit, WorkFits, NEW w \in Worker, ClearSlot(w)
  PROVE  WorkFits'
<1> USE Workers
<1> PICK c : c = job[w].clip
  OBVIOUS
<1>1. /\ job[w].at = "clear" /\ c \in Clip /\ Moves(w, "show", c)
      /\ UNCHANGED <<rows, held, raced>>
  BY ApplicationEffects DEF ClearSlot, pullVars
<1>2. Apart'
  <2>1. WorkingOn(w, c)
    BY <1>1 DEF WorkingOn
  <2> QED
    BY <1>1, <2>1, ApartAfter DEF WorkFits, Apart
<1>3. \A v \in Worker : \A d : WorkingOn(v, d)' <=> WorkingOn(v, d)
  BY <1>1, WorkingMoves DEF Work
<1>4. \A d, s : RowIs(d, s)' <=> RowIs(d, s)
  BY <1>1 DEF RowIs
<1>5. RowsFit'
  BY <1>1, <1>3, <1>4 DEF WorkFits, RowsFit
<1>6. ShowsHeld'
  BY <1>1, <1>4 DEF WorkFits, ShowsHeld, Moves
<1> QED
  BY <1>2, <1>5, <1>6 DEF WorkFits

\* A worker is done with its clip and shows how it went.
LEMMA ShowingFits ==
  ASSUME TypeOK, JobsFit, WorkFits, NEW w \in Worker, NEW c \in Clip, NEW s \in {"done", "failed"},
         WorkingOn(w, c), Moves(w, "idle", None), rows' = RowsWith(c, s),
         UNCHANGED <<held, raced>>,
         s = "done" => c \in held, s = "failed" => w \in Button /\ job[w].at = "failed"
  PROVE  WorkFits'
<1> USE Workers
<1>1. Apart'
  BY ApartAfter DEF WorkFits, Work
<1>2. \A d \in Clip, t \in RowState : RowIs(d, t)' => (d # c /\ RowIs(d, t)) \/ (d = c /\ t = s)
  <2>1. s \in RowState
    BY DEF RowState
  <2> TAKE d \in Clip, t \in RowState
  <2>2. RowIs(d, t)' => \/ d # c /\ RowIs(d, t)
                        \/ d = c /\ t = s /\ \E u \in RowState : RowIs(c, u)
    BY <2>1, RowsShown
  <2> QED
    BY <2>2
<1>3. /\ \A v \in Worker \ {w} : \A d : WorkingOn(v, d)' <=> WorkingOn(v, d)
      /\ \A d : ~WorkingOn(w, d)'
      /\ \A d : WorkingOn(w, d) => d = c
  BY WorkingMoves DEF Work
<1>4. \A d \in Button : s = "failed" => ~WorkingOn(d, c)'
  BY <1>3 DEF WorkFits, Apart
<1>5. RowsFit'
  <2> SUFFICES ASSUME NEW e \in Clip
               PROVE  /\ RowIs(e, "downloading")' => \E d \in Button : WorkingOn(d, e)'
                      /\ RowIs(e, "done")' => e \in held'
                      /\ \A d \in Button, t \in RowState :
                           WorkingOn(d, e)' /\ RowIs(e, t)' => t \in {"downloading", "done"}
    BY DEF RowsFit
  <2>1. CASE e = c
    BY <1>2, <1>4, <2>1 DEF RowState
  <2>2. CASE e # c
    BY <1>2, <1>3, <2>2 DEF WorkFits, RowsFit, RowState
  <2> QED
    BY <2>1, <2>2
<1>6. s = "failed" => c \notin held \ raced
  BY DEF WorkFits, ShowsHeld, WorkingOn
<1>7. \A v \in Worker : job'[v].at # "idle" => job'[v] = job[v]
  BY DEF Moves
<1>8. ASSUME NEW e \in held' \ raced', NEW t \in RowState, RowIs(e, t)', t # "done"
      PROVE  \E v \in Worker : job'[v].clip = e /\ job'[v].at \in {"clear", "show", "done"}
  <2>1. e # c /\ e \in Clip
    BY <1>2, <1>6, <1>8 DEF TypeOK
  <2>2. PICK v \in Worker : job[v].clip = e /\ job[v].at \in {"clear", "show", "done"}
    BY <1>2, <1>8, <2>1 DEF WorkFits, ShowsHeld
  <2>3. v # w
    BY <2>1, <2>2 DEF WorkingOn
  <2> QED
    BY <2>2, <2>3 DEF Moves
<1>9. ShowsHeld'
  BY <1>7, <1>8 DEF WorkFits, ShowsHeld
<1> QED
  BY <1>1, <1>5, <1>9 DEF WorkFits

LEMMA WorkStep ==
  ASSUME TypeOK, JobsFit, NothingEarly, WorkFits, [Next]_vars
  PROVE  WorkFits'
<1> USE Workers
<1>1. CASE Elsewhere
  <2>1. UNCHANGED <<rows, job, held, raced>>
    BY <1>1, ElsewhereEffects DEF inboxVars, pullVars
  <2>2. /\ \A d, s : RowIs(d, s)' <=> RowIs(d, s)
        /\ \A v, d : WorkingOn(v, d)' <=> WorkingOn(v, d)
    BY <2>1 DEF RowIs, WorkingOn
  <2>3. RowsFit' /\ Apart'
    BY <2>1, <2>2 DEF WorkFits, RowsFit, Apart
  <2>4. ShowsHeld'
    BY <2>1, <2>2 DEF WorkFits, ShowsHeld
  <2> QED
    BY <2>3, <2>4 DEF WorkFits
<1>2. CASE WsLoop
  <2>1. CASE ReceiveText
    BY <2>1, LoopEffects, StaysAway DEF Work, ReceiveText, pullVars
  <2>2. ASSUME NEW auto \in BOOLEAN, Mark(auto)
        PROVE  WorkFits'
    <3>1. UNCHANGED <<rows, held, raced>>
      BY <2>2 DEF Mark, pullVars
    <3> QED
      BY <2>2, <3>1, LoopEffects, StaysAway DEF Work
  <2> QED
    BY <1>2, <2>1, <2>2, ReceivingFits, EnteringFits DEF WsLoop
<1>3. CASE Hotkey
  BY <1>3, HotkeyEffects, StaysAway DEF Work, inboxVars, pullVars
<1>4. ASSUME NEW w \in Worker, Application(w)
      PROVE  WorkFits'
  <2>1. CASE w \notin Button /\ TakeSlot(w)
    <3>1. UNCHANGED <<rows, held>>
      BY <2>1 DEF TakeSlot, inboxVars
    <3>2. CASE Moves(w, "idle", None) /\ raced' = raced
      BY <2>1, <3>1, <3>2, ApplicationEffects, StaysAway DEF Work
    <3>3. CASE pending \in Clip /\ StartsOn(w, pending) /\ Moves(w, "pull", pending)
      BY <2>1, <3>1, <3>3, ApplicationEffects, StartingFits
    <3> QED
      BY <2>1, <3>2, <3>3, ApplicationEffects
  <2>2. CASE w \notin Button /\ ShowDone(w)
    <3>1. UNCHANGED <<held, raced>> /\ rows' = RowsWith(job[w].clip, "done")
      BY <2>2 DEF ShowDone, pullVars
    <3>2. /\ job[w].at = "show" /\ job[w].clip \in Clip /\ Moves(w, "idle", None)
          /\ job[w].clip \in held
      BY <2>2, ApplicationEffects DEF JobsFit
    <3>3. WorkingOn(w, job[w].clip)
      BY <3>2 DEF WorkingOn
    <3> QED
      BY <3>1, <3>2, <3>3, ShowingFits
  <2> QED
    BY <1>4, <2>1, <2>2, PullingFits, GuardingFits, ClearingFits DEF Application
<1>5. ASSUME NEW b \in Button, InboxButton(b)
      PROVE  WorkFits'
  <2>1. CASE ShowResult(b)
    <3>1. UNCHANGED <<held, raced>> /\ rows' = RowsWith(job[b].clip, job[b].at)
      BY <2>1 DEF ShowResult, pullVars
    <3>2. /\ job[b].at \in {"done", "failed"} /\ job[b].clip \in Clip /\ Moves(b, "idle", None)
          /\ job[b].at = "done" => job[b].clip \in held
      BY <2>1, ButtonEffects DEF JobsFit
    <3>3. WorkingOn(b, job[b].clip)
      BY <3>2 DEF WorkingOn
    <3> QED
      BY <3>1, <3>2, <3>3, ShowingFits
  <2>2. ASSUME NEW c \in Clip, CopyRow(b, c)
        PROVE  WorkFits'
    BY <2>2, ButtonEffects, StaysAway DEF Work, CopyRow, inboxVars, pullVars
  <2> QED
    BY <1>5, <2>1, <2>2, ClaimingFits DEF InboxButton
<1> QED
  BY <1>1, <1>2, <1>3, <1>4, <1>5 DEF Next, Elsewhere

-----------------------------------------------------------------------------
(* The slot.                                                               *)

LEMMA SlotStays ==
  ASSUME TypeOK, SlotFits, NEW w \in Worker, NEW p, NEW c, Moves(w, p, c),
         pending' \in {pending, None},
         w \in {"loop", "hotkey"} /\ p \in {"pull", "guard", "clear"} =>
           \/ job[w].at \in {"pull", "guard", "clear"} /\ c = job[w].clip
           \/ c = pending /\ pending \in Clip
  PROVE  SlotFits'
<1> SUFFICES ASSUME NEW v \in {"loop", "hotkey"}, pending' # None,
                    job'[v].at \in {"pull", "guard", "clear"}
             PROVE  job'[v].clip <= pending' /\ (v = "loop" => job'[v].clip = pending')
  BY DEF SlotFits
<1>1. pending' = pending
  OBVIOUS
<1>2. CASE v = w
  BY <1>1, <1>2, Arrivals DEF SlotFits, Moves
<1>3. CASE v # w
  BY <1>1, <1>3, Workers DEF SlotFits, Moves
<1> QED
  BY <1>2, <1>3

LEMMA SlotStep ==
  ASSUME TypeOK, JobsFit, NothingEarly, SlotFits, [Next]_vars
  PROVE  SlotFits'
<1> USE Workers
<1>1. CASE Elsewhere
  BY <1>1, ElsewhereEffects DEF SlotFits, inboxVars
<1>2. CASE ReceiveFiles
  <2> PICK n : n = Arrived + 1
    OBVIOUS
  <2>1. /\ n \in Clip /\ pending' = n /\ Moves("loop", "fileRow", n) /\ Arrived \in Nat
    BY <1>2, LoopEffects, Arrivals
  <2>2. job'["loop"].at = "fileRow" /\ job'["hotkey"] = job["hotkey"]
    BY <2>1 DEF Moves
  <2>3. ASSUME job["hotkey"].at \in {"pull", "guard", "clear"}
        PROVE  job["hotkey"].clip <= n
    <3>1. job["hotkey"].clip \in Clip /\ Handled(job["hotkey"].clip)
      BY <2>3 DEF JobsFit, Handled
    <3>2. job["hotkey"].clip <= Arrived /\ job["hotkey"].clip \in Nat
      BY <3>1, Arrivals DEF NothingEarly
    <3> QED
      BY <2>1, <3>2
  <2> QED
    BY <2>1, <2>2, <2>3 DEF SlotFits
<1>3. CASE ReceiveText
  BY <1>3, LoopEffects, SlotStays DEF ReceiveText
<1>4. CASE PushRow
  BY <1>4, LoopEffects, SlotStays DEF PushRow
<1>5. ASSUME NEW auto \in BOOLEAN, Mark(auto)
      PROVE  SlotFits'
  <2>1. pending' = pending
    BY <1>5 DEF Mark
  <2> QED
    BY <1>5, <2>1, LoopEffects, SlotStays
<1>6. CASE Hotkey
  BY <1>6, HotkeyEffects, SlotStays DEF inboxVars
<1>7. ASSUME NEW w \in Worker, Application(w)
      PROVE  SlotFits'
  <2>1. pending' \in {pending, None}
    BY <1>7 DEF Application, PullSucceeds, PullFails, SetGuard, TakeSlot, ClearSlot, ShowDone, inboxVars
  <2>2. CASE PullSucceeds(w) \/ PullFails(w)
    BY <2>1, <2>2, ApplicationEffects, SlotStays
  <2>3. CASE SetGuard(w)
    BY <2>1, <2>3, ApplicationEffects, SlotStays
  <2>4. CASE TakeSlot(w)
    BY <2>1, <2>4, ApplicationEffects, SlotStays
  <2>5. CASE ClearSlot(w) \/ ShowDone(w)
    BY <2>1, <2>5, ApplicationEffects, SlotStays
  <2> QED
    BY <1>7, <2>2, <2>3, <2>4, <2>5 DEF Application
<1>8. ASSUME NEW b \in Button, InboxButton(b)
      PROVE  SlotFits'
  <2>1. pending' = pending
    BY <1>8 DEF InboxButton, ShowResult, ClaimRow, CopyRow, inboxVars
  <2> QED
    BY <1>8, <2>1, ButtonEffects, SlotStays DEF InboxButton
<1> QED
  BY <1>1, <1>2, <1>3, <1>4, <1>5, <1>6, <1>7, <1>8 DEF Next, Elsewhere, WsLoop

-----------------------------------------------------------------------------
(* The clipboard, its guard and the poller.                                *)

GuardFits == BoardFits /\ PollFits

LEMMA WritingFits ==
  ASSUME TypeOK, GuardFits, NEW w \in Worker, NEW c \in Clip, NEW p \in {"guard", "copied"},
         WritesBoard(w, c, p), UNCHANGED <<guard, seen>>
  PROVE  GuardFits'
<1>1. board' = c /\ Moves(w, p, c)
  BY JobMoves DEF WritesBoard
<1>2. ~tangled' => \A v \in Worker \ {w} : ~Writing(v)
  BY DEF WritesBoard, Writing
<1>3. ~tangled' => \A v \in Worker \ {w} : ~Writing(v)'
  BY <1>1, <1>2 DEF Writing, Moves
<1>4. Writing(w)' /\ job'[w].clip = c
  BY <1>1 DEF Writing, Moves
<1>5. BoardFits'
  BY <1>1, <1>3, <1>4 DEF BoardFits
<1>6. poll'.at = poll.at /\ (poll.at = "guard" => poll'.mixed)
  BY DEF WritesBoard, TypeOK
<1> QED
  BY <1>5, <1>6 DEF GuardFits, PollFits

LEMMA SettingFits ==
  ASSUME TypeOK, JobsFit, GuardFits, NEW w \in Worker, SetGuard(w)
  PROVE  GuardFits'
<1> PICK c : c = job[w].clip
  OBVIOUS
<1>1. /\ guard' = c /\ UNCHANGED <<board, tangled>> /\ Writing(w)
      /\ \A v \in Worker : Writing(v)' => Writing(v) /\ job'[v].clip = job[v].clip
  <2>1. \A v \in Worker \ {w} : job'[v] = job[v]
    BY ApplicationEffects DEF Moves
  <2>2. job'[w].at \notin {"guard", "copied"}
    BY ApplicationEffects DEF Moves
  <2> QED
    BY <2>1, <2>2 DEF SetGuard, Writing
<1>2. BoardFits'
  BY <1>1 DEF GuardFits, BoardFits
<1>3. poll'.at = poll.at /\ (poll.at = "guard" => poll'.mixed)
  BY DEF SetGuard, TypeOK
<1> QED
  BY <1>2, <1>3 DEF GuardFits, PollFits

LEMMA NotWriting ==
  ASSUME GuardFits, NEW w \in Worker, NEW p, NEW c, Moves(w, p, c),
         ~Writing(w), p \notin {"guard", "copied"},
         UNCHANGED <<guard, seen, poll>>, board' = None \/ UNCHANGED <<board, tangled>>, TypeOK
  PROVE  GuardFits'
<1>1. \A v \in Worker : /\ Writing(v)' <=> Writing(v)
                        /\ Writing(v) => job'[v] = job[v]
  BY DEF Writing, Moves
<1>2. board' = None => board' \notin Clip
  BY Arrivals
<1>3. BoardFits'
  BY <1>1, <1>2 DEF GuardFits, BoardFits
<1> QED
  BY <1>3 DEF GuardFits, PollFits

LEMMA PollingFits ==
  ASSUME TypeOK, GuardFits, PollFiles
  PROVE  GuardFits'
<1> DEFINE m == tangled \/ \E w \in Worker : job[w].at \in {"guard", "copied"}
<1>1. /\ poll'.at = "guard" /\ poll'.what = board /\ poll'.mixed = m
      /\ board # seen /\ UNCHANGED <<job, board, guard, seen, tangled>>
  BY DEF PollFiles
<1>2. m \/ (~tangled /\ \A w \in Worker : ~Writing(w))
  BY DEF Writing
<1>3. ~m /\ board \in Clip => guard = board
  BY <1>1, <1>2 DEF GuardFits, BoardFits, Writing
<1>4. BoardFits'
  BY <1>1 DEF GuardFits, BoardFits, Writing
<1> HIDE DEF m
<1>5. PollFits'
  BY <1>1, <1>3 DEF PollFits
<1> QED
  BY <1>4, <1>5 DEF GuardFits

LEMMA ComparingFits ==
  ASSUME TypeOK, GuardFits, Compare
  PROVE  GuardFits'
<1>1. /\ seen' = poll.what /\ guard' = IF guard = poll.what THEN None ELSE guard
      /\ poll.at = "guard" /\ poll'.at = "idle" /\ UNCHANGED <<job, board, tangled>>
  BY DEF Compare
<1>2. BoardFits'
  BY <1>1 DEF GuardFits, BoardFits, Writing
<1> QED
  BY <1>1, <1>2 DEF GuardFits, PollFits

LEMMA GuardStep ==
  ASSUME TypeOK, JobsFit, GuardFits, [Next]_vars
  PROVE  GuardFits'
<1> USE Workers
<1>1. CASE UNCHANGED vars
  BY <1>1 DEF vars, boardVars, GuardFits, BoardFits, PollFits, Writing
<1>2. ASSUME NEW what \in UserFiles \cup {None}, Copy(what)
      PROVE  GuardFits'
  <2>1. board' \notin Clip /\ UNCHANGED <<guard, poll>>
    BY <1>2, InboxAssumption DEF Copy
  <2> QED
    BY <2>1 DEF GuardFits, BoardFits, PollFits
<1>3. CASE WsLoop
  <2>1. UNCHANGED <<guard, seen, poll, board, tangled>>
    BY <1>3 DEF WsLoop, ReceiveText, ReceiveFiles, PushRow, Mark, boardVars
  <2>2. PICK p, c : Moves("loop", p, c) /\ p \notin {"guard", "copied"} /\ ~Writing("loop")
    BY <1>3, LoopEffects DEF WsLoop, Writing
  <2> QED
    BY <2>1, <2>2, NotWriting
<1>4. CASE Hotkey
  <2>1. PICK p, c : Moves("hotkey", p, c) /\ p \notin {"guard", "copied"} /\ ~Writing("hotkey")
    BY <1>4, HotkeyEffects DEF Writing
  <2> QED
    BY <1>4, <2>1, HotkeyEffects, NotWriting
<1>5. ASSUME NEW w \in Worker, Application(w)
      PROVE  GuardFits'
  <2>1. CASE PullSucceeds(w)
    BY <2>1, ApplicationEffects, WritingFits DEF PullSucceeds
  <2>2. CASE PullFails(w) \/ TakeSlot(w) \/ ClearSlot(w) \/ ShowDone(w)
    <3>1. UNCHANGED <<guard, seen, poll, board, tangled>>
      BY <2>2 DEF PullFails, TakeSlot, ClearSlot, ShowDone, boardVars
    <3>2. PICK p, c : Moves(w, p, c) /\ p \notin {"guard", "copied"} /\ ~Writing(w)
      BY <2>2, ApplicationEffects DEF Writing
    <3> QED
      BY <3>1, <3>2, NotWriting
  <2> QED
    BY <1>5, <2>1, <2>2, SettingFits DEF Application
<1>6. ASSUME NEW b \in Button, InboxButton(b)
      PROVE  GuardFits'
  <2>0. b \in Worker
    BY Workers
  <2>1. ASSUME NEW c \in Clip, CopyRow(b, c)
        PROVE  GuardFits'
    BY <2>0, <2>1, WritingFits DEF CopyRow
  <2>2. ASSUME ShowResult(b) \/ \E c \in Clip : ClaimRow(b, c)
        PROVE  GuardFits'
    <3>1. UNCHANGED <<guard, seen, poll, board, tangled>>
      BY <2>2 DEF ShowResult, ClaimRow, boardVars
    <3>2. PICK p, c : Moves(b, p, c) /\ p \notin {"guard", "copied"} /\ ~Writing(b)
      BY <2>2, ButtonEffects DEF Writing
    <3> QED
      BY <2>0, <3>1, <3>2, NotWriting
  <2> QED
    BY <1>6, <2>1, <2>2 DEF InboxButton
<1> QED
  BY <1>1, <1>2, <1>3, <1>4, <1>5, <1>6, PollingFits, ComparingFits DEF Next, Poller

-----------------------------------------------------------------------------
(* The theorems.                                                           *)

LEMMA InitHolds == Init => TypeOK /\ IInv
<1> SUFFICES ASSUME Init
             PROVE  TypeOK /\ IInv
  OBVIOUS
<1> USE InboxAssumption, Workers
<1>1. rows = << >> /\ rows \in Seq(Row) /\ Len(rows) = 0 /\ DOMAIN rows = {}
  BY EmptySeq DEF Init
<1>2. \A w \in Worker : job[w] = [at |-> "idle", clip |-> None]
  BY DEF Init, Idle
<1>3. job \in [Worker -> JobType]
  BY DEF Init, Idle, JobType
<1>4. InboxType /\ BoardType /\ PullType
  <2>1. InboxType /\ PullType
    BY DEF Init, InboxType, PullType
  <2>2. board \in UserFiles \cup {None} /\ seen = board /\ guard = None /\ tangled = FALSE
    BY DEF Init
  <2>3. poll = [at |-> "idle", what |-> None, mixed |-> FALSE]
    BY DEF Init
  <2> QED
    BY <2>1, <2>2, <2>3 DEF BoardType
<1>5. RowsType
  BY <1>1 DEF RowsType
<1>6. TypeOK
  BY <1>3, <1>4, <1>5, TypeParts
<1>7. /\ \A c, s : ~RowIs(c, s)
      /\ \A c \in Clip : ~Handled(c)
      /\ \A w \in Worker : \A c : ~WorkingOn(w, c)
      /\ \A w \in Worker : ~Writing(w)
  <2>1. \A c, s : ~RowIs(c, s)
    BY <1>1 DEF RowIs
  <2>2. \A c \in Clip : ~Handled(c)
    BY <1>2, <1>6, Arrivals DEF Handled, Init
  <2> QED
    BY <1>2, <2>1, <2>2 DEF WorkingOn, Writing
<1>8. \A w \in Worker : "idle" \in Places(w)
  BY DEF Places
<1>9. JobsFit /\ SlotFits
  BY <1>2, <1>8 DEF JobsFit, SlotFits
<1>10. NothingEarly
  BY <1>2, <1>7 DEF NothingEarly, Receiving
<1>11. Newest
  BY <1>1, <1>2 DEF Newest, Init, Arrived
<1>12. RowsFit /\ Apart /\ ShowsHeld
  BY <1>2, <1>7 DEF RowsFit, Apart, ShowsHeld
<1>13. BoardFits /\ PollFits
  BY <1>6, Arrivals DEF BoardFits, PollFits, Init
<1> QED
  BY <1>6, <1>9, <1>10, <1>11, <1>12, <1>13 DEF IInv

\* Whatever arrives, is pressed and fails, the state keeps its shape, and the
\* invariants above hold.
THEOREM Inductive == Spec => [](TypeOK /\ IInv)
<1>1. TypeOK /\ IInv /\ [Next]_vars => (TypeOK /\ IInv)'
  BY TypeStep, JobsStep, ArrivalsStep, WorkStep, SlotStep, GuardStep DEF IInv, WorkFits, GuardFits
<1> QED
  BY <1>1, InitHolds, PTL DEF Spec

\* Every variable keeps its type: the rows stay in order and within their bound.
THEOREM TypeCorrect == Spec => []TypeOK
BY Inductive, PTL

\* Between two clips the arrival numbers the hotkey compares name the newest row.
THEOREM MarkersNameTheNewest == Spec => []MarkersAgree
<1>1. TypeOK /\ IInv => MarkersAgree
  <2> SUFFICES ASSUME TypeOK, IInv,
                      ~(job["loop"].at \in {"textRow", "textMark", "fileRow", "fileMark"}), rows # << >>
               PROVE  fileSeq > textSeq <=> rows[1].is # "text"
    BY DEF MarkersAgree
  <2>1. fileSeq \in Nat /\ textSeq \in Nat
    BY Arrivals DEF TypeOK
  <2> QED
    BY <2>1 DEF IInv, Newest
<1> QED
  BY <1>1, Inductive, PTL

\* A row says what its clip's workers do and what became of it.
THEOREM RowsAreTrue == Spec => []RowsTellTheTruth
<1>1. TypeOK /\ IInv => RowsTellTheTruth
  <2> SUFFICES ASSUME TypeOK, IInv
               PROVE  RowsTellTheTruth
    OBVIOUS
  <2>1. ASSUME NEW i \in DOMAIN rows
        PROVE  /\ rows[i].is = "downloading" => \E b \in Button : WorkingOn(b, rows[i].id)
               /\ rows[i].is = "done" => rows[i].id \in held
    <3>1. RowIs(rows[i].id, rows[i].is) /\ rows[i].id \in Clip
      BY <2>1, RowTypes DEF RowIs
    <3> QED
      BY <3>1 DEF IInv, RowsFit
  <2>2. \A b, d \in Button, c \in Clip : WorkingOn(b, c) /\ WorkingOn(d, c) => b = d
    BY Workers DEF IInv, Apart
  <2> QED
    BY <2>1, <2>2 DEF RowsTellTheTruth
<1> QED
  BY <1>1, Inductive, PTL

\* What was downloaded is shown so once everyone is done with the clip, unless
\* two workers raced for it.
THEOREM DownloadsAreShown == Spec => []HeldIsShown
<1>1. TypeOK /\ IInv => HeldIsShown
  <2> SUFFICES ASSUME TypeOK, IInv, NEW c \in held \ raced, \A w \in Worker : ~WorkingOn(w, c),
                      NEW i \in DOMAIN rows, rows[i].id = c
               PROVE  rows[i].is = "done"
    BY DEF HeldIsShown
  <2>1. RowIs(c, rows[i].is) /\ rows[i].is \in RowState
    BY RowTypes DEF RowIs
  <2> QED
    BY <2>1 DEF IInv, ShowsHeld, WorkingOn
<1> QED
  BY <1>1, Inductive, PTL

\* A clip leaves the slot only for a newer one, when it was downloaded, or with
\* a hotkey paste of an older clip that ends after it arrived.
THEOREM NothingElseEmptiesTheSlot == Spec => SlotIsKept
<1>1. TypeOK /\ IInv /\ [Next]_vars =>
        [pending # None /\ pending' # pending =>
           \/ pending' # None /\ pending' > pending
           \/ pending \in held
           \/ At("hotkey", "clear") /\ job["hotkey"].clip < pending]_vars
  <2> SUFFICES ASSUME TypeOK, IInv, [Next]_vars, pending # None, pending' # pending
               PROVE  \/ pending' # None /\ pending' > pending
                      \/ pending \in held
                      \/ At("hotkey", "clear") /\ job["hotkey"].clip < pending
    OBVIOUS
  <2>0. JobsFit /\ NothingEarly /\ SlotFits /\ pending \in Clip
    BY DEF IInv, TypeOK
  <2>1. CASE Elsewhere
    BY <2>1, ElsewhereEffects DEF inboxVars
  <2>2. CASE ReceiveFiles
    <3>1. pending' = Arrived + 1 /\ Arrived + 1 \in Clip
      BY <2>0, <2>2, LoopEffects
    <3>2. pending <= Arrived
      BY <2>0 DEF NothingEarly, Handled
    <3> QED
      BY <2>0, <3>1, <3>2, Arrivals
  <2>3. ASSUME NEW w \in Worker \ Button, ClearSlot(w)
        PROVE  pending \in held \/ (At("hotkey", "clear") /\ job["hotkey"].clip < pending)
    <3>1. job[w].at = "clear" /\ w \in {"loop", "hotkey"}
      BY <2>3 DEF ClearSlot, At, Worker
    <3>2. /\ job[w].clip \in held /\ job[w].clip \in Clip
          /\ job[w].clip <= pending /\ (w = "loop" => job[w].clip = pending)
      BY <2>0, <2>3, <3>1 DEF JobsFit, SlotFits
    <3> QED
      BY <2>0, <3>1, <3>2, Arrivals DEF At
  <2>4. CASE ReceiveText \/ PushRow \/ (\E auto \in BOOLEAN : Mark(auto)) \/ Hotkey
    BY <2>4, HotkeyEffects DEF ReceiveText, PushRow, Mark, inboxVars
  <2>5. ASSUME NEW w \in Worker,
               PullSucceeds(w) \/ PullFails(w) \/ SetGuard(w) \/ TakeSlot(w) \/ ShowDone(w)
        PROVE  FALSE
    BY <2>5 DEF PullSucceeds, PullFails, SetGuard, TakeSlot, ShowDone, inboxVars
  <2>6. ASSUME NEW b \in Button, InboxButton(b)
        PROVE  FALSE
    BY <2>6 DEF InboxButton, ShowResult, ClaimRow, CopyRow, inboxVars
  <2> QED
    BY <2>1, <2>2, <2>3, <2>4, <2>5, <2>6 DEF Next, WsLoop, Application, Elsewhere
<1> QED
  BY <1>1, Inductive, PTL DEF Spec, SlotIsKept

\* The poller takes files of the agent's own for the user's only if it ran
\* between a worker's write and its guard, or after two workers overlapped.
THEOREM EchoNeedsOverlap == Spec => FileEchoNeedsOverlap
<1>1. TypeOK /\ IInv /\ [Next]_vars =>
        [poll.at = "guard" /\ poll'.at = "idle" /\ poll.what \in Clip /\ ~poll.mixed
           => guard = poll.what]_vars
  BY DEF IInv, PollFits
<1> QED
  BY <1>1, Inductive, PTL DEF Spec, FileEchoNeedsOverlap
=============================================================================
