-------------------------- MODULE ServerController --------------------------
(***************************************************************************)
(* The switch "run a server on this machine" of the tray (tray server.rs)  *)
(* and the server tasks it starts (serve, server lib.rs).  A task opens    *)
(* the database, binds the port and serves until the shutdown signal its   *)
(* controller holds is sent or dropped.  The database file is locked by    *)
(* whoever has it open; a websocket keeps it open after its server         *)
(* stopped.  A relaunched tray is a second process for a while, so the     *)
(* controller is one per process, database and port are common.            *)
(***************************************************************************)

CONSTANTS
  Process,  \* runs of the tray
  Task,     \* server tasks; one that has ended may be the next one spawned
  None      \* nobody, nothing

VARIABLES
  status,  \* ServerStatus of each process's controller
  sender,  \* the task whose shutdown sender each controller holds, or None
  task,    \* where each server task is, and whose it is
  stale    \* history: processes whose status a task overwrote after the next was started

ctlVars == <<status, sender, task, stale>>

TaskState == {"ended", "opening", "binding", "serving", "draining", "failed"}

CtlTypeOK ==
  /\ status \in [Process -> {"off", "running", "failed"}]
  /\ sender \in [Process -> Task \cup {None}]
  /\ task \in [Task -> [of : Process \cup {None}, at : TaskState, open : BOOLEAN]]
  /\ stale \subseteq Process

CtlInit ==
  /\ status = [p \in Process |-> "off"]
  /\ sender = [p \in Process |-> None]
  /\ task = [t \in Task |-> [of |-> None, at |-> "ended", open |-> FALSE]]
  /\ stale = {}

\* The sender was used, replaced or dropped: all of them end the server.
Told(t) == sender[task[t].of] # t

\* A task to spawn.
Unused(t) == task[t].at = "ended" /\ ~task[t].open

Moves(t, place) == task' = [task EXCEPT ![t].at = place]

-----------------------------------------------------------------------------
\* start: idempotent by its status only.
Start(p, t) ==
  /\ status[p] # "running"
  /\ Unused(t)
  /\ task' = [task EXCEPT ![t] = [of |-> p, at |-> "opening", open |-> FALSE]]
  /\ sender' = [sender EXCEPT ![p] = t]
  /\ status' = [status EXCEPT ![p] = "running"]
  /\ stale' = stale \ {p}

\* Mutant: the status says off but nothing is sent.
Mutant_Stop(p) ==
  /\ status' = [status EXCEPT ![p] = "off"]
  /\ UNCHANGED <<sender, task, stale>>

\* stop: the server is told, and the status says off at once.
Stop(p) ==
  /\ sender' = [sender EXCEPT ![p] = None]
  /\ status' = [status EXCEPT ![p] = "off"]
  /\ UNCHANGED <<task, stale>>

\* Store::open, before the port is tried: a locked database fails at once.
OpenDatabase(t) ==
  /\ task[t].at = "opening"
  /\ task' = IF \E u \in Task : task[u].open
             THEN [task EXCEPT ![t].at = "failed"]
             ELSE [task EXCEPT ![t].at = "binding", ![t].open = TRUE]
  /\ UNCHANGED <<status, sender, stale>>

\* bind_with_retry waits for the port to become free ...
Bind(t) ==
  /\ task[t].at = "binding"
  /\ \A u \in Task : task[u].at # "serving"
  /\ Moves(t, "serving")
  /\ UNCHANGED <<status, sender, stale>>

\* ... and gives up if another program keeps it.
BindFails(t) ==
  /\ task[t].at = "binding"
  /\ task' = [task EXCEPT ![t].at = "failed", ![t].open = FALSE]
  /\ UNCHANGED <<status, sender, stale>>

\* Graceful shutdown closes the listener first and then waits for requests.
Drain(t) ==
  /\ task[t].at = "serving"
  /\ Told(t)
  /\ Moves(t, "draining")
  /\ UNCHANGED <<status, sender, stale>>

\* The server's last handle on the database goes when it drained, or when its
\* last websocket closes, whichever is later.
CloseDatabase(t) ==
  /\ task[t].at \in {"draining", "ended"}
  /\ task[t].open
  /\ task' = [task EXCEPT ![t].open = FALSE]
  /\ UNCHANGED <<status, sender, stale>>

\* serve returned: the task writes its result over whatever status there is.
Report(t) ==
  /\ task[t].at \in {"draining", "failed"}
  /\ status' = [status EXCEPT ![task[t].of] = IF task[t].at = "failed" THEN "failed" ELSE "off"]
  /\ stale' = IF sender[task[t].of] \in Task \ {t} THEN stale \cup {task[t].of} ELSE stale
  /\ Moves(t, "ended")
  /\ UNCHANGED sender

\* The process ends, and its tasks and files with it.
Dies(p) ==
  /\ task' = [t \in Task |-> IF task[t].of = p
                             THEN [task[t] EXCEPT !.at = "ended", !.open = FALSE] ELSE task[t]]
  /\ status' = [status EXCEPT ![p] = "off"]
  /\ sender' = [sender EXCEPT ![p] = None]
  /\ stale' = stale \ {p}

ServerTask(t) ==
  \/ OpenDatabase(t) \/ Bind(t) \/ BindFails(t) \/ Drain(t) \/ CloseDatabase(t) \/ Report(t)

-----------------------------------------------------------------------------
(* Properties.                                                             *)

\* While the status says running the server that was started last has not yet
\* ended, so what the settings show is not a server long gone; and a server
\* that goes on serving is shown as running, unless the end of an earlier one
\* was reported after it was started.
StatusIsTrue ==
  \A p \in Process :
    /\ status[p] = "running" =>
         sender[p] # None /\ task[sender[p]].of = p /\ task[sender[p]].at # "ended"
    /\ \A t \in Task :
         task[t].of = p /\ task[t].at = "serving" /\ ~Told(t)
           => status[p] = "running" \/ p \in stale
=============================================================================
