-------------------------------- MODULE Tray --------------------------------
(***************************************************************************)
(* The tray application from launch to relaunch (tray app.rs, config.rs)   *)
(* with the agent it embeds (spawn_embedded and run, agent lib.rs) and the *)
(* two files they share.  Settings are saved to the configuration, a       *)
(* changed server clears the device id in the state file, and the program  *)
(* replaces itself by a new process while the old one's agent still runs.  *)
(*                                                                         *)
(* Nothing keeps the user from starting a second tray, with an interface  *)
(* and an agent of its own on the same two files.                          *)
(*                                                                         *)
(* A device id is named by the server that issued it; of a pairing code    *)
(* the model keeps whether there is one.  Whether a code is accepted or a  *)
(* device trusted at the moment is the server's affair (DeviceStore):      *)
(* either may be the case whenever it matters.  Keys, tokens, names and    *)
(* hotkeys are settings nothing here depends on; a changed name shows as a *)
(* rename that may happen at any start.  Command-line options, which       *)
(* override the configuration, are not given.                              *)
(*                                                                         *)
(* Any write of a file may fail, and leaves the file as it was; what was   *)
(* written can be read.  A handler loads the configuration, changes it and *)
(* saves it in one step: two trays do not save in the same instant.        *)
(***************************************************************************)
EXTENDS Naturals, ServerController

CONSTANTS
  Server,   \* server addresses
  Default,  \* the one used without configuration (DEFAULT_SERVER_URL)
  MaxUses   \* bound on the times the user uses settings or flips the switch

ASSUME TrayAssumption ==
  /\ Default \in Server
  /\ None \notin Server \cup Process \cup Task
  /\ MaxUses \in Nat

VARIABLES
  config,  \* TrayConfig
  idFile,  \* device_id in the agent's state file
  proc,    \* the processes: where the user interface and the agent are
  uses,    \* settings saved and switches flipped so far
  astray,  \* history: the id file kept an old server's id, see ClearId, Quit, WriteId
  behind   \* history: processes running when another tray saved settings, or
           \* launched when another was about to clear the id

filesVars == <<config, idFile, uses, astray, behind>>
vars == <<filesVars, proc, ctlVars>>

UiState == {"off", "on", "clear", "relaunch", "exit"}
AgentState == {"off", "load", "register", "store", "confirm", "rename", "restore",
               "connect", "connected", "failed"}

TypeOK ==
  /\ CtlTypeOK
  /\ config \in [url : Server \cup {None}, last : Server \cup {None},
                 code : BOOLEAN, hosting : BOOLEAN]
  /\ idFile \in Server \cup {None}
  /\ proc \in [Process -> [ui : UiState, agent : AgentState, url : Server,
                           code : BOOLEAN, id : Server \cup {None}, tidy : BOOLEAN]]
  /\ uses \in 0 .. MaxUses
  /\ astray \in BOOLEAN
  /\ behind \subseteq Process

NotRunning ==
  [ui |-> "off", agent |-> "off", url |-> Default, code |-> FALSE, id |-> None, tidy |-> FALSE]

\* Settings were never saved; the switch may be on.
Init ==
  /\ \E hosting \in BOOLEAN :
       config = [url |-> None, last |-> None, code |-> FALSE, hosting |-> hosting]
  /\ idFile = None
  /\ proc = [p \in Process |-> NotRunning]
  /\ uses = 0
  /\ astray = FALSE
  /\ behind = {}
  /\ CtlInit

UI(p, place) == proc[p].ui = place
Agent(p, place) == proc[p].agent = place
AgentGoes(p, place) == proc' = [proc EXCEPT ![p].agent = place]

\* Some tray has saved another server and is about to clear the id.
Clearing == \E p \in Process : UI(p, "clear")

\* The server an agent launched now would use.
Current == IF config.url = None THEN Default ELSE config.url

\* save writes the configuration c, or fails; nobody looks at the result.
Save(c) == config' \in {config, c}

-----------------------------------------------------------------------------
(* Starting.                                                               *)

\* Mutant: the default server is forgotten.
Mutant_Launched ==
  [NotRunning EXCEPT !.ui = "on", !.agent = "load", !.code = config.code, !.url = config.url]

\* What run() makes of the configuration.
Launched ==
  [NotRunning EXCEPT !.ui = "on", !.agent = "load", !.code = config.code, !.url = Current]

\* The embedded server is started first if the switch is on.
Hosts(p) ==
  IF config.hosting THEN \E t \in Task : Start(p, t) ELSE UNCHANGED ctlVars

\* A process launched while another is about to clear the id may read it first.
Joins(p) == behind' = IF Clearing THEN behind \cup {p} ELSE behind

\* The user starts the tray, for the first time or beside one that runs.
Launch(p) ==
  /\ UI(p, "off")
  /\ proc' = [proc EXCEPT ![p] = Launched]
  /\ Hosts(p)
  /\ Joins(p)
  /\ UNCHANGED <<config, idFile, uses, astray>>

-----------------------------------------------------------------------------
(* The agent: run(), up to the websocket loop.                             *)

AfterId(p) == IF proc[p].code THEN "confirm" ELSE "rename"

\* The state file is read once; a known id is used as it is.
LoadState(p) ==
  /\ Agent(p, "load")
  /\ proc' = [proc EXCEPT ![p].id = idFile,
                          ![p].agent = IF idFile = None THEN "register" ELSE AfterId(p)]
  /\ UNCHANGED <<filesVars, ctlVars>>

\* register_device.
Register(p) ==
  /\ Agent(p, "register")
  /\ proc' = [proc EXCEPT ![p].id = proc[p].url, ![p].agent = "store"]
  /\ UNCHANGED <<filesVars, ctlVars>>

\* state_file.save writes the state as the agent knows it, also when the server
\* was changed and the id cleared meanwhile.
WriteId(p) ==
  /\ proc[p].agent \in {"store", "restore"}
  /\ idFile' = proc[p].id
  /\ astray' = (astray \/ (~Clearing /\ proc[p].id # Current))
  /\ AgentGoes(p, IF Agent(p, "store") THEN AfterId(p) ELSE "connect")
  /\ UNCHANGED <<config, uses, behind, ctlVars>>

\* confirm_pairing: any error, a code that expired or an answer that is lost
\* included, is the end of the agent.
Confirm(p) ==
  /\ Agent(p, "confirm")
  /\ \/ proc[p].id = proc[p].url /\ AgentGoes(p, "rename")
     \/ AgentGoes(p, "failed")
  /\ UNCHANGED <<filesVars, ctlVars>>

\* A changed name is pushed and then noted in the state file; a device that is
\* not trusted cannot, and that is no error.
Rename(p) ==
  /\ Agent(p, "rename")
  /\ \/ proc[p].id = proc[p].url /\ AgentGoes(p, "restore")
     \/ AgentGoes(p, "connect")
  /\ UNCHANGED <<filesVars, ctlVars>>

\* run_ws connects, loses the connection and tries again for ever.
Connect(p) ==
  /\ Agent(p, "connect")
  /\ proc[p].id = proc[p].url
  /\ AgentGoes(p, "connected")
  /\ UNCHANGED <<filesVars, ctlVars>>

Disconnect(p) ==
  /\ Agent(p, "connected")
  /\ AgentGoes(p, "connect")
  /\ UNCHANGED <<filesVars, ctlVars>>

\* A file error, no server to register with, no free port for the peer server,
\* or any other task of the agent ended: all of it stops for the life of the
\* process.
AgentFails(p) ==
  /\ proc[p].agent \in {"load", "register", "store", "restore", "connect", "connected"}
  /\ AgentGoes(p, "failed")
  /\ UNCHANGED <<filesVars, ctlVars>>

AgentStep(p) ==
  \/ LoadState(p) \/ Register(p) \/ WriteId(p) \/ Confirm(p)
  \/ Rename(p) \/ Connect(p) \/ Disconnect(p) \/ AgentFails(p)

-----------------------------------------------------------------------------
(* The user interface.                                                     *)

\* A tick of the interface finds the agent connected: once per launch the
\* pairing code is dropped from the configuration.
DropCode(p) ==
  /\ UI(p, "on") /\ ~proc[p].tidy
  /\ Agent(p, "connected")
  /\ proc' = [proc EXCEPT ![p].tidy = TRUE]
  /\ Save([config EXCEPT !.code = FALSE])
  /\ UNCHANGED <<idFile, uses, astray, behind, ctlVars>>

\* Every other tray at work now runs with settings of the past.
Overtakes(p) == behind' = behind \cup {q \in Process \ {p} : UI(q, "on")}

\* Mutant: the server is compared with the one configured before saving.
Mutant_SaveSettings(p, url, code) ==
  /\ UI(p, "on")
  /\ uses < MaxUses
  /\ uses' = uses + 1
  /\ Save([config EXCEPT !.url = url, !.last = url, !.code = code])
  /\ proc' = [proc EXCEPT ![p].ui = IF config.url = None \/ config.url = url
                                    THEN "relaunch" ELSE "clear"]
  /\ Overtakes(p)
  /\ UNCHANGED <<idFile, astray, ctlVars>>

\* save_and_reconnect: the configuration is saved first; a failure is logged and
\* what follows is done all the same.
SaveSettings(p, url, code) ==
  /\ UI(p, "on")
  /\ uses < MaxUses
  /\ uses' = uses + 1
  /\ Save([config EXCEPT !.url = url, !.last = url, !.code = code])
  /\ proc' = [proc EXCEPT ![p].ui = IF config.last # url THEN "clear" ELSE "relaunch"]
  /\ Overtakes(p)
  /\ UNCHANGED <<idFile, astray, ctlVars>>

\* The id in the file was to be cleared and stays.
IdStays ==
  /\ astray' = (astray \/ idFile \notin {None, Current})
  /\ UNCHANGED idFile

\* clear_device_id does its best: a state file that cannot be read or written
\* is left alone.
ClearId(p) ==
  /\ UI(p, "clear")
  /\ \/ idFile' = None /\ UNCHANGED astray
     \/ IdStays
  /\ proc' = [proc EXCEPT ![p].ui = "relaunch"]
  /\ UNCHANGED <<config, uses, behind, ctlVars>>

\* Mutant: the interface of the old process goes on.
Mutant_Relaunch(p, q) ==
  /\ UI(p, "relaunch")
  /\ UI(q, "off")
  /\ proc' = [proc EXCEPT ![p].ui = "on", ![q] = Launched]
  /\ Hosts(q)
  /\ Joins(q)
  /\ UNCHANGED <<config, idFile, uses, astray>>

\* relaunch spawns the next process, which starts with what the files hold ...
Relaunch(p, q) ==
  /\ UI(p, "relaunch")
  /\ UI(q, "off")
  /\ proc' = [proc EXCEPT ![p].ui = "exit", ![q] = Launched]
  /\ Hosts(q)
  /\ Joins(q)
  /\ UNCHANGED <<config, idFile, uses, astray>>

\* ... and exits, or the user quits, or the process is killed: here between
\* saving a changed server and clearing the id as well.
Quit(p) ==
  /\ ~UI(p, "off")
  /\ proc' = [proc EXCEPT ![p] = NotRunning]
  /\ IF UI(p, "clear") THEN IdStays ELSE UNCHANGED <<idFile, astray>>
  /\ behind' = behind \ {p}
  /\ Dies(p)
  /\ UNCHANGED <<config, uses>>

\* The switch: start or stop, and the setting is saved.
Host(p) ==
  /\ UI(p, "on")
  /\ uses < MaxUses
  /\ uses' = uses + 1
  /\ \/ Save([config EXCEPT !.hosting = TRUE]) /\ \E t \in Task : Start(p, t)
     \/ Save([config EXCEPT !.hosting = FALSE]) /\ status[p] = "running" /\ Stop(p)
  /\ UNCHANGED <<idFile, astray, behind, proc>>

UserInterface(p) ==
  \/ DropCode(p) \/ ClearId(p) \/ Quit(p) \/ Host(p)
  \/ \E url \in Server, code \in BOOLEAN : SaveSettings(p, url, code)
  \/ \E q \in Process : Relaunch(p, q)

-----------------------------------------------------------------------------
Next ==
  \/ \E p \in Process : Launch(p) \/ AgentStep(p) \/ UserInterface(p)
  \/ \E t \in Task : ServerTask(t) /\ UNCHANGED <<filesVars, proc>>

Spec == Init /\ [][Next]_vars

-----------------------------------------------------------------------------
(* Properties.                                                             *)

\* An agent whose process is not about to be replaced presents itself to a
\* server with a device id of that server, through changes of the server, writes
\* that fail and overlapping processes.  What can bring an old id to a new server
\* is that the id was not cleared after a changed server was saved, because the
\* process ended or the file could not be written; that an agent wrote the id it
\* had after another server was saved; or that the process runs beside a tray
\* that saved settings meanwhile, or was about to clear the id at its start.
RightServer ==
  \A p \in Process :
    proc[p].agent \in {"confirm", "rename", "connect", "connected"} /\ UI(p, "on")
      => proc[p].id = proc[p].url \/ astray \/ p \in behind

\* A pairing code leaves the configuration only when the user saves settings, or
\* when a process that was launched with it got it accepted: a tick of the
\* process that is being replaced does not lose the new code.  A second tray that
\* is connected and was there before the code was saved does.
CodeIsTriedFirst ==
  [][config.code /\ ~config'.code =>
       \/ uses' # uses
       \/ \E p \in Process : Agent(p, "connected") /\ (proc[p].code \/ p \in behind)]_vars
=============================================================================
