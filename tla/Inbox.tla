------------------------------- MODULE Inbox -------------------------------
(***************************************************************************)
(* The receiving side of one agent (lib.rs): the inbox of texts and file   *)
(* clips, the slot of the file clip the paste hotkey would take, the file  *)
(* clipboard and the poller that watches it.                               *)
(*                                                                         *)
(* The websocket loop, the hotkey loop and the tasks spawned by the inbox  *)
(* buttons share all of it; every lock is taken for one step only, so they *)
(* interleave between any two of their steps.                              *)
(*                                                                         *)
(* A clip is named by its arrival number, which is also the id of its row. *)
(* Pulling the files is FileTransfer's matter; what is used here is what   *)
(* OneAttemptPerFile says of it: of all attempts on a clip one at most     *)
(* succeeds, and only if no failed one got a file of it.  Files the user   *)
(* copies are other files than the downloaded ones.                        *)
(***************************************************************************)
EXTENDS Naturals, Sequences, SequencesExt

CONSTANTS
  MaxTexts,    \* bound on the texts that arrive
  MaxFiles,    \* bound on the file clips that arrive
  HistoryMax,  \* rows the inbox keeps (INBOX_HISTORY_MAX)
  Button,      \* tasks spawned by the inbox buttons
  UserFiles,   \* files the user copies
  None         \* no clip, no files

Clip == 1 .. (MaxTexts + MaxFiles)
Worker == {"loop", "hotkey"} \cup Button

ASSUME InboxAssumption ==
  /\ MaxTexts \in Nat /\ MaxFiles \in Nat
  /\ HistoryMax \in Nat \ {0}
  /\ {"loop", "hotkey"} \cap Button = {}
  /\ UserFiles \cap Clip = {}
  /\ None \notin Clip \cup UserFiles

RowState == {"text", "idle", "downloading", "done", "failed"}
Row == [id : Clip, is : RowState]

VARIABLES
  texts,     \* texts and ...
  files,     \* ... file clips that arrived, together CLIP_ARRIVAL_SEQ
  pending,   \* the slot of the paste hotkey
  rows,      \* the inbox, newest first
  fileSeq,   \* arrival of the newest file clip
  textSeq,   \* arrival of the newest inbox text (inbox_seq)
  job,       \* where each worker is, and the clip it works on
  board,     \* the files on the clipboard
  guard,     \* last_local_file_write
  seen,      \* the poller's last_seen_files
  poll,      \* the poller; mixed is a history: it overlapped an application
  fresh,     \* clips whose files the source would still hand out
  held,      \* history: clips one application of which succeeded
  raced,     \* history: clips two workers worked on at once
  tangled    \* history: the board was last written by two workers at once

inboxVars == <<texts, files, pending, rows, fileSeq, textSeq>>
boardVars == <<board, guard, seen, poll, tangled>>
pullVars == <<fresh, held, raced>>
vars == <<inboxVars, job, boardVars, pullVars>>

Idle == [at |-> "idle", clip |-> None]

TypeOK ==
  /\ texts \in 0 .. MaxTexts /\ files \in 0 .. MaxFiles
  /\ pending \in Clip \cup {None}
  /\ rows \in Seq(Row) /\ Len(rows) <= HistoryMax
  /\ \A i, j \in 1 .. Len(rows) : i < j => rows[i].id > rows[j].id
  /\ fileSeq \in {0} \cup Clip /\ textSeq \in {0} \cup Clip
  /\ job \in [Worker -> [at : {"idle", "textRow", "textMark", "fileRow", "fileMark",
                              "check", "text", "slot", "pull", "guard", "copied",
                              "clear", "show", "done", "failed"},
                         clip : Clip \cup {None}]]
  /\ board \in Clip \cup UserFiles \cup {None}
  /\ guard \in Clip \cup {None}
  /\ seen \in Clip \cup UserFiles \cup {None}
  /\ poll \in [at : {"idle", "guard"},
               what : Clip \cup UserFiles \cup {None}, mixed : BOOLEAN]
  /\ fresh \subseteq Clip /\ held \subseteq Clip /\ raced \subseteq Clip
  /\ tangled \in BOOLEAN

\* The poller starts with what is on the clipboard.
Init ==
  /\ texts = 0 /\ files = 0
  /\ pending = None
  /\ rows = << >>
  /\ fileSeq = 0 /\ textSeq = 0
  /\ job = [w \in Worker |-> Idle]
  /\ board \in UserFiles \cup {None}
  /\ guard = None
  /\ seen = board
  /\ poll = [at |-> "idle", what |-> None, mixed |-> FALSE]
  /\ fresh = {} /\ held = {} /\ raced = {}
  /\ tangled = FALSE

At(w, place) == job[w].at = place
Goes(w, place) == job' = [job EXCEPT ![w].at = place]
Ends(w) == job' = [job EXCEPT ![w] = Idle]

\* The rows after the one of clip c, if it is still there, went to state s.
RowsWith(c, s) ==
  [i \in DOMAIN rows |-> IF rows[i].id = c THEN [rows[i] EXCEPT !.is = s] ELSE rows[i]]

RowIs(c, s) == \E i \in DOMAIN rows : rows[i] = [id |-> c, is |-> s]

-----------------------------------------------------------------------------
(* The websocket loop: ClipCreated.                                        *)

NextArrival == texts + files + 1

\* A text of another device, in isolated mode.
ReceiveText ==
  /\ At("loop", "idle")
  /\ texts < MaxTexts
  /\ texts' = texts + 1
  /\ job' = [job EXCEPT !["loop"] = [at |-> "textRow", clip |-> NextArrival]]
  /\ UNCHANGED <<files, pending, rows, fileSeq, textSeq, boardVars, pullVars>>

\* A file clip of another device takes the slot first.
ReceiveFiles ==
  /\ At("loop", "idle")
  /\ files < MaxFiles
  /\ files' = files + 1
  /\ pending' = NextArrival
  /\ fresh' = fresh \cup {NextArrival}
  /\ job' = [job EXCEPT !["loop"] = [at |-> "fileRow", clip |-> NextArrival]]
  /\ UNCHANGED <<texts, rows, fileSeq, textSeq, boardVars, held, raced>>

\* Mutant: the history is not truncated.
Mutant_PushRow ==
  /\ \/ At("loop", "textRow") /\ Goes("loop", "textMark")
     \/ At("loop", "fileRow") /\ Goes("loop", "fileMark")
  /\ rows' = <<[id |-> job["loop"].clip,
                is |-> IF At("loop", "textRow") THEN "text" ELSE "idle"]>> \o rows
  /\ UNCHANGED <<texts, files, pending, fileSeq, textSeq, boardVars, pullVars>>

\* push_front and truncate.
PushRow ==
  /\ \/ At("loop", "textRow") /\ Goes("loop", "textMark")
     \/ At("loop", "fileRow") /\ Goes("loop", "fileMark")
  /\ LET row == [id |-> job["loop"].clip,
                 is |-> IF At("loop", "textRow") THEN "text" ELSE "idle"]
         all == <<row>> \o rows
     IN rows' = IF Len(all) > HistoryMax THEN Front(all) ELSE all
  /\ UNCHANGED <<texts, files, pending, fileSeq, textSeq, boardVars, pullVars>>

\* Mutant: the arrival of a file clip is only noted when it is not applied.
Mutant_Mark(auto) ==
  \/ /\ At("loop", "textMark")
     /\ textSeq' = job["loop"].clip
     /\ Ends("loop")
     /\ UNCHANGED <<texts, files, pending, rows, fileSeq, boardVars, pullVars>>
  \/ /\ At("loop", "fileMark")
     /\ fileSeq' = IF auto THEN fileSeq ELSE job["loop"].clip
     /\ IF auto THEN Goes("loop", "slot") ELSE Ends("loop")
     /\ UNCHANGED <<texts, files, pending, rows, textSeq, boardVars, pullVars>>

\* The arrival is noted, and with auto_apply_files, a setting, the loop itself
\* applies what is in the slot by now before it reads on.
Mark(auto) ==
  \/ /\ At("loop", "textMark")
     /\ textSeq' = job["loop"].clip
     /\ Ends("loop")
     /\ UNCHANGED <<texts, files, pending, rows, fileSeq, boardVars, pullVars>>
  \/ /\ At("loop", "fileMark")
     /\ fileSeq' = job["loop"].clip
     /\ IF auto THEN Goes("loop", "slot") ELSE Ends("loop")
     /\ UNCHANGED <<texts, files, pending, rows, textSeq, boardVars, pullVars>>

-----------------------------------------------------------------------------
(* The hotkey loop: paste_remote_via_hotkey.                               *)

\* In system mode the files are pasted; in isolated mode the arrival numbers
\* decide where to look first.
Press(isolated) ==
  /\ At("hotkey", "idle")
  /\ Goes("hotkey", IF ~isolated THEN "slot" ELSE IF fileSeq > textSeq THEN "check" ELSE "text")
  /\ UNCHANGED <<inboxVars, boardVars, pullVars>>

\* Newer files count only while the slot holds some.
Check ==
  /\ At("hotkey", "check")
  /\ Goes("hotkey", IF pending = None THEN "text" ELSE "slot")
  /\ UNCHANGED <<inboxVars, boardVars, pullVars>>

\* paste_inbox_text replaces what is on the clipboard and gives back text only;
\* an inbox without text leaves it to the slot.
PasteText ==
  /\ At("hotkey", "text")
  /\ IF \E i \in DOMAIN rows : rows[i].is = "text"
     THEN Ends("hotkey") /\ board' = None /\ tangled' = FALSE
     ELSE Goes("hotkey", "slot") /\ UNCHANGED <<board, tangled>>
  /\ UNCHANGED <<inboxVars, guard, seen, poll, pullVars>>

-----------------------------------------------------------------------------
(* Applying a file clip: apply_pending_file_clip and download_inbox_files  *)
(* around apply_file_clip.                                                 *)

\* The loop that has yet to enter the clip's row is at work on it as well.
WorkingOn(w, c) ==
  /\ job[w].clip = c
  /\ job[w].at \in {"fileRow", "pull", "guard", "clear", "show", "done", "failed"}

\* w starts to pull clip c.
StartsOn(w, c) ==
  /\ job' = [job EXCEPT ![w] = [at |-> "pull", clip |-> c]]
  /\ raced' = IF \E v \in Worker \ {w} : WorkingOn(v, c) THEN raced \cup {c} ELSE raced

\* Mutant: the clip is taken out of the slot before it is downloaded.
Mutant_TakeSlot(w) ==
  /\ At(w, "slot")
  /\ IF pending = None THEN Ends(w) /\ UNCHANGED raced ELSE StartsOn(w, pending)
  /\ pending' = None
  /\ UNCHANGED <<texts, files, rows, fileSeq, textSeq, boardVars, fresh, held>>

\* A copy of the slot is what is worked on from here on.
TakeSlot(w) ==
  /\ At(w, "slot")
  /\ IF pending = None THEN Ends(w) /\ UNCHANGED raced ELSE StartsOn(w, pending)
  /\ UNCHANGED <<inboxVars, boardVars, fresh, held>>

\* Mutant: a row that is being downloaded may be claimed again.
Mutant_ClaimRow(b, c) ==
  /\ At(b, "idle")
  /\ RowIs(c, "idle") \/ RowIs(c, "failed") \/ RowIs(c, "downloading")
  /\ rows' = RowsWith(c, "downloading")
  /\ StartsOn(b, c)
  /\ UNCHANGED <<texts, files, pending, fileSeq, textSeq, boardVars, fresh, held>>

\* claim_inbox_download.
ClaimRow(b, c) ==
  /\ At(b, "idle")
  /\ RowIs(c, "idle") \/ RowIs(c, "failed")
  /\ rows' = RowsWith(c, "downloading")
  /\ StartsOn(b, c)
  /\ UNCHANGED <<texts, files, pending, fileSeq, textSeq, boardVars, fresh, held>>

\* w puts files of c on the clipboard and then waits for the guard's lock.
WritesBoard(w, c, place) ==
  /\ board' = c
  /\ tangled' = (\E v \in Worker \ {w} : job[v].at \in {"guard", "copied"})
  /\ poll' = [poll EXCEPT !.mixed = poll.at # "idle"]
  /\ job' = [job EXCEPT ![w] = [at |-> place, clip |-> c]]

\* All files are here and on the clipboard.
PullSucceeds(w) ==
  /\ At(w, "pull")
  /\ job[w].clip \in fresh
  /\ fresh' = fresh \ {job[w].clip}
  /\ WritesBoard(w, job[w].clip, "guard")
  /\ UNCHANGED <<inboxVars, guard, seen, held, raced>>

\* The download fails, having spent files of the clip or not, or set_files
\* does.  The slot stays as it is; an error ends the loop's session.
PullFails(w) ==
  /\ At(w, "pull")
  /\ fresh' \in {fresh, fresh \ {job[w].clip}}
  /\ IF w \in Button THEN Goes(w, "failed") ELSE Ends(w)
  /\ UNCHANGED <<inboxVars, boardVars, held, raced>>

\* The guard against the poller, which ends apply_file_clip and copy_inbox_files.
SetGuard(w) ==
  /\ job[w].at \in {"guard", "copied"}
  /\ guard' = job[w].clip
  /\ poll' = [poll EXCEPT !.mixed = poll.at # "idle"]
  /\ held' = held \cup {job[w].clip}
  /\ IF At(w, "copied") THEN Ends(w) ELSE Goes(w, IF w \in Button THEN "done" ELSE "clear")
  /\ UNCHANGED <<inboxVars, board, seen, tangled, fresh, raced>>

\* The slot is emptied, whatever it holds by now ...
ClearSlot(w) ==
  /\ At(w, "clear")
  /\ pending' = None
  /\ Goes(w, "show")
  /\ UNCHANGED <<texts, files, rows, fileSeq, textSeq, boardVars, pullVars>>

\* Mutant: the row of the clip in the slot is shown as downloaded.
Mutant_ShowDone(w) ==
  /\ At(w, "show")
  /\ rows' = RowsWith(pending, "done")
  /\ Ends(w)
  /\ UNCHANGED <<texts, files, pending, fileSeq, textSeq, boardVars, pullVars>>

\* ... and the row shows the result (set_inbox_file_state_by_clip).
ShowDone(w) ==
  /\ At(w, "show")
  /\ rows' = RowsWith(job[w].clip, "done")
  /\ Ends(w)
  /\ UNCHANGED <<texts, files, pending, fileSeq, textSeq, boardVars, pullVars>>

\* The button's task shows its own result (set_inbox_file_state).
ShowResult(b) ==
  /\ job[b].at \in {"done", "failed"}
  /\ rows' = RowsWith(job[b].clip, job[b].at)
  /\ Ends(b)
  /\ UNCHANGED <<texts, files, pending, fileSeq, textSeq, boardVars, pullVars>>

\* copy_inbox_files of a downloaded row.
CopyRow(b, c) ==
  /\ At(b, "idle")
  /\ RowIs(c, "done")
  /\ WritesBoard(b, c, "copied")
  /\ UNCHANGED <<inboxVars, guard, seen, pullVars>>

-----------------------------------------------------------------------------
(* The clipboard and the file branch of poll_clipboard.                    *)

\* The user, or a text of the agent's own, replaces what is on the clipboard.
Copy(what) ==
  /\ board # what
  /\ board' = what
  /\ tangled' = FALSE
  /\ UNCHANGED <<inboxVars, job, guard, seen, poll, pullVars>>

\* Files the poller has not seen; it waits for the guard's lock.
PollFiles ==
  /\ poll.at = "idle"
  /\ board \notin {None, seen}
  /\ poll' = [at |-> "guard", what |-> board,
              mixed |-> tangled \/ \E w \in Worker : job[w].at \in {"guard", "copied"}]
  /\ UNCHANGED <<inboxVars, job, board, guard, seen, tangled, pullVars>>

\* Files under guard are the agent's own, all others are published
\* (publish_file_manifest, whatever comes of it).
Compare ==
  /\ poll.at = "guard"
  /\ seen' = poll.what
  /\ guard' = IF guard = poll.what THEN None ELSE guard
  /\ poll' = [at |-> "idle", what |-> None, mixed |-> FALSE]
  /\ UNCHANGED <<inboxVars, job, board, tangled, pullVars>>

-----------------------------------------------------------------------------
WsLoop == ReceiveText \/ ReceiveFiles \/ PushRow \/ \E auto \in BOOLEAN : Mark(auto)
Hotkey == (\E isolated \in BOOLEAN : Press(isolated)) \/ Check \/ PasteText
Application(w) ==
  \/ PullSucceeds(w) \/ PullFails(w) \/ SetGuard(w)
  \/ w \notin Button /\ (TakeSlot(w) \/ ClearSlot(w) \/ ShowDone(w))
InboxButton(b) == ShowResult(b) \/ \E c \in Clip : ClaimRow(b, c) \/ CopyRow(b, c)
Poller == PollFiles \/ Compare

Next ==
  \/ WsLoop \/ Hotkey \/ Poller
  \/ \E w \in Worker : Application(w)
  \/ \E b \in Button : InboxButton(b)
  \/ \E what \in UserFiles \cup {None} : Copy(what)

Spec == Init /\ [][Next]_vars

-----------------------------------------------------------------------------
(* Properties.                                                             *)

\* Between two clips the arrival numbers the hotkey compares name the newest
\* row: files win exactly when a file clip arrived last.
MarkersAgree ==
  ~(job["loop"].at \in {"textRow", "textMark", "fileRow", "fileMark"}) /\ rows # << >>
    => (fileSeq > textSeq <=> rows[1].is # "text")

\* A row that says "downloading" has one button's task at work for it; two
\* buttons never download one clip; and "downloaded" is shown only of what was
\* downloaded.  (Not every task has such a row: the hotkey may have shown the clip
\* as downloaded meanwhile, or the row may have left the history.)
RowsTellTheTruth ==
  /\ \A i \in DOMAIN rows :
       /\ rows[i].is = "downloading" => \E b \in Button : WorkingOn(b, rows[i].id)
       /\ rows[i].is = "done" => rows[i].id \in held
  /\ \A b, d \in Button, c \in Clip : WorkingOn(b, c) /\ WorkingOn(d, c) => b = d

\* What was downloaded is shown so once everyone is done with the clip, unless
\* two workers were at it at once.  (If they were, the one that failed may have
\* had the last word.)
HeldIsShown ==
  \A c \in held \ raced :
    (\A w \in Worker : ~WorkingOn(w, c)) =>
      \A i \in DOMAIN rows : rows[i].id = c => rows[i].is = "done"

\* A clip leaves the slot only when a newer one arrives or when it has been
\* downloaded: no failure, no button and no automatic apply loses it.  The one
\* exception is a hotkey paste of an older clip that ends after it arrived.
SlotIsKept ==
  [][pending # None /\ pending' # pending =>
       \/ pending' # None /\ pending' > pending
       \/ pending \in held
       \/ At("hotkey", "clear") /\ job["hotkey"].clip < pending]_vars

\* The poller publishes files that the agent itself put on the clipboard only
\* if it ran while one of the workers was between its write and its guard, or
\* after two of them were there at once.  (The design allows neither; NoEcho of
\* ClipSync is the same case for text.)
FileEchoNeedsOverlap ==
  [][poll.at = "guard" /\ poll'.at = "idle" /\ poll.what \in Clip /\ ~poll.mixed
       => guard = poll.what]_vars
=============================================================================
