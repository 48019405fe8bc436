----------------------------- MODULE TrayProofs -----------------------------
(***************************************************************************)
(* What holds of the tray, its embedded agent and its server switch for    *)
(* any number of processes, server tasks, servers and settings saved.      *)
(***************************************************************************)
EXTENDS Tray, TLAPS

-----------------------------------------------------------------------------
(* The inductive invariant.                                                *)

\* The controller that says running holds its own task, which has not ended.
RunningIsHeld ==
  \A p \in Process : status[p] = "running" =>
    sender[p] # None /\ task[sender[p]].of = p /\ task[sender[p]].at # "ended"

\* A task that was not told to end is shown, from its start.
HeldIsRunning ==
  \A p \in Process, t \in Task :
    task[t].of = p /\ task[t].at \in {"opening", "binding", "serving"} /\ sender[p] = t
      => status[p] = "running" \/ p \in stale

\* A task that has not ended is some process's.
Owned == \A t \in Task : task[t].at # "ended" => task[t].of \in Process

Keeping == {"store", "confirm", "rename", "restore", "connect", "connected"}

\* Both addresses are saved together.  A process that no other tray has overtaken
\* runs with the configuration there is, and whoever is about to clear the id has
\* overtaken everybody.
ConfigFits ==
  /\ config.last = config.url
  /\ \A p \in Process : UI(p, "on") /\ p \notin behind =>
       ~Clearing /\ proc[p].url = Current /\ (config.code => proc[p].code)

\* The id in the state file is of the server in the configuration, unless it is
\* about to be cleared.
FileFits == astray \/ Clearing \/ idFile \in {None, Current}

\* And so is the id an agent has read or got.
IdFits ==
  \A p \in Process :
    UI(p, "on") /\ p \notin behind /\ proc[p].agent \in Keeping
      => proc[p].id = proc[p].url \/ astray

CtlInv == RunningIsHeld /\ HeldIsRunning /\ Owned

AppInv == ConfigFits /\ FileFits /\ IdFits

IInv == CtlInv /\ AppInv

-----------------------------------------------------------------------------
(* The server switch.                                                      *)

\* What a step does to the tasks, the controllers and their types.
CtlFits == CtlTypeOK /\ CtlInv

LEMMA StartFits ==
  ASSUME CtlFits, NEW p \in Process, NEW t \in Task, Start(p, t)
  PROVE  CtlFits'
<1> USE TrayAssumption DEF CtlFits, CtlInv, Start
<1>1. CtlTypeOK'
  BY DEF CtlTypeOK, TaskState
<1>2. \A q \in Process \ {p} : status[q] = "running" => sender[q] # t
  BY DEF RunningIsHeld, Unused
<1>3. RunningIsHeld'
  BY <1>2 DEF CtlTypeOK, RunningIsHeld
<1>4. HeldIsRunning'
  BY <1>2 DEF CtlTypeOK, HeldIsRunning
<1>5. Owned'
  BY <1>2 DEF CtlTypeOK, Owned
<1> QED
  BY <1>1, <1>3, <1>4, <1>5

LEMMA StopFits ==
  ASSUME CtlFits, NEW p \in Process, Stop(p)
  PROVE  CtlFits'
<1> USE TrayAssumption DEF CtlFits, CtlInv, Stop
<1>1. CtlTypeOK'
  BY DEF CtlTypeOK
<1>2. RunningIsHeld' /\ HeldIsRunning' /\ Owned'
  BY DEF CtlTypeOK, RunningIsHeld, HeldIsRunning, Owned
<1> QED
  BY <1>1, <1>2

LEMMA DiesFits ==
  ASSUME CtlFits, NEW p \in Process, Dies(p)
  PROVE  CtlFits'
<1> USE TrayAssumption DEF CtlFits, CtlInv, Dies
<1>1. CtlTypeOK'
  BY DEF CtlTypeOK, TaskState
<1>2. \A t \in Task : /\ task'[t].of = task[t].of
                      /\ task'[t].at = IF task[t].of = p THEN "ended" ELSE task[t].at
  BY DEF CtlTypeOK
<1>3. RunningIsHeld'
  BY <1>2 DEF CtlTypeOK, RunningIsHeld
<1>4. HeldIsRunning'
  BY <1>2 DEF CtlTypeOK, HeldIsRunning
<1>5. Owned'
  BY <1>2 DEF CtlTypeOK, Owned
<1> QED
  BY <1>1, <1>3, <1>4, <1>5

\* Steps of a task that end nothing.
LEMMA GoesOnFits ==
  ASSUME CtlFits, NEW t \in Task, UNCHANGED <<status, sender, stale>>,
         task' \in [Task -> [of : Process \cup {None}, at : TaskState, open : BOOLEAN]],
         \A u \in Task :
           /\ task'[u].of = task[u].of
           /\ task'[u].at = "ended" <=> task[u].at = "ended"
           /\ task'[u].at \in {"opening", "binding", "serving"} =>
                task[u].at \in {"opening", "binding", "serving"}
  PROVE  CtlFits'
<1>1. CtlTypeOK'
  BY DEF CtlFits, CtlTypeOK
<1>2. RunningIsHeld'
  BY DEF CtlFits, CtlInv, CtlTypeOK, RunningIsHeld
<1>3. HeldIsRunning'
  BY DEF CtlFits, CtlInv, HeldIsRunning
<1>4. Owned'
  BY DEF CtlFits, CtlInv, Owned
<1> QED
  BY <1>1, <1>2, <1>3, <1>4 DEF CtlFits, CtlInv

LEMMA ReportFits ==
  ASSUME CtlFits, NEW t \in Task, Report(t)
  PROVE  CtlFits'
<1> USE TrayAssumption DEF CtlFits, CtlInv
<1> PICK p \in Process : p = task[t].of
  BY DEF Report, Owned
<1>1. /\ task' = [task EXCEPT ![t].at = "ended"]
      /\ \E s \in {"off", "failed"} : status' = [status EXCEPT ![p] = s]
      /\ sender' = sender
      /\ stale' = IF sender[p] \in Task \ {t} THEN stale \cup {p} ELSE stale
  BY DEF Report, Moves
<1>2. CtlTypeOK'
  BY <1>1 DEF CtlTypeOK, TaskState
<1>3. \A u \in Task : /\ task'[u].of = task[u].of
                      /\ u # t => task'[u] = task[u]
                      /\ u = t => task'[u].at = "ended"
  BY <1>1 DEF CtlTypeOK
<1>4. status'[p] # "running" /\ \A q \in Process \ {p} : status'[q] = status[q]
  BY <1>1 DEF CtlTypeOK
<1>5. RunningIsHeld'
  BY <1>1, <1>3, <1>4 DEF RunningIsHeld, CtlTypeOK
<1>6. HeldIsRunning'
  BY <1>1, <1>3, <1>4 DEF HeldIsRunning
<1>7. Owned'
  BY <1>3 DEF Owned
<1> QED
  BY <1>2, <1>5, <1>6, <1>7

LEMMA TaskFits ==
  ASSUME CtlFits, NEW t \in Task, ServerTask(t)
  PROVE  CtlFits'
<1>1. CASE OpenDatabase(t)
  <2>1. /\ UNCHANGED <<status, sender, stale>>
        /\ \/ task' = [task EXCEPT ![t].at = "failed"]
           \/ task' = [task EXCEPT ![t].at = "binding", ![t].open = TRUE]
        /\ task[t].at = "opening"
    BY <1>1 DEF OpenDatabase
  <2> QED
    BY <2>1, GoesOnFits DEF CtlFits, CtlTypeOK, TaskState
<1>2. CASE Bind(t)
  BY <1>2, GoesOnFits DEF Bind, Moves, CtlFits, CtlTypeOK, TaskState
<1>3. CASE BindFails(t)
  BY <1>3, GoesOnFits DEF BindFails, CtlFits, CtlTypeOK, TaskState
<1>4. CASE Drain(t)
  BY <1>4, GoesOnFits DEF Drain, Moves, CtlFits, CtlTypeOK, TaskState
<1>5. CASE CloseDatabase(t)
  BY <1>5, GoesOnFits DEF CloseDatabase, CtlFits, CtlTypeOK, TaskState
<1>6. CASE Report(t)
  BY <1>6, ReportFits
<1> QED
  BY <1>1, <1>2, <1>3, <1>4, <1>5, <1>6 DEF ServerTask

LEMMA SameCtlFits ==
  ASSUME CtlFits, UNCHANGED ctlVars
  PROVE  CtlFits'
BY DEF CtlFits, CtlInv, CtlTypeOK, RunningIsHeld, HeldIsRunning, Owned, ctlVars

LEMMA CtlStep ==
  ASSUME CtlFits, [Next]_vars
  PROVE  CtlFits'
<1>1. CASE UNCHANGED vars
  BY <1>1, SameCtlFits DEF vars
<1>2. ASSUME NEW p \in Process, Hosts(p)
      PROVE  CtlFits'
  BY <1>2, StartFits, SameCtlFits DEF Hosts
<1>3. ASSUME NEW p \in Process, Launch(p)
      PROVE  CtlFits'
  BY <1>2, <1>3 DEF Launch
<1>4. ASSUME NEW p \in Process, AgentStep(p)
      PROVE  CtlFits'
  <2>1. UNCHANGED ctlVars
    BY <1>4 DEF AgentStep, LoadState, Register, WriteId, Confirm, Rename, Connect, Disconnect, AgentFails
  <2> QED
    BY <2>1, SameCtlFits
<1>5. ASSUME NEW p \in Process, UserInterface(p)
      PROVE  CtlFits'
  <2>1. CASE Quit(p)
    BY <2>1, DiesFits DEF Quit
  <2>2. CASE Host(p)
    BY <2>2, StartFits, StopFits DEF Host
  <2>3. ASSUME NEW q \in Process, Relaunch(p, q)
        PROVE  CtlFits'
    BY <2>3, <1>2 DEF Relaunch
  <2>4. ASSUME DropCode(p) \/ ClearId(p) \/ \E url \in Server, code \in BOOLEAN : SaveSettings(p, url, code)
        PROVE  CtlFits'
    <3>1. UNCHANGED ctlVars
      BY <2>4 DEF DropCode, ClearId, SaveSettings
    <3> QED
      BY <3>1, SameCtlFits
  <2> QED
    BY <1>5, <2>1, <2>2, <2>3, <2>4 DEF UserInterface
<1> QED
  BY <1>1, <1>3, <1>4, <1>5, TaskFits DEF Next

-----------------------------------------------------------------------------
(* Types of the application's variables.                                   *)

ProcType == [ui : UiState, agent : AgentState, url : Server,
             code : BOOLEAN, id : Server \cup {None}, tidy : BOOLEAN]

ConfigType == [url : Server \cup {None}, last : Server \cup {None},
               code : BOOLEAN, hosting : BOOLEAN]

AppTypeOK ==
  /\ config \in ConfigType
  /\ idFile \in Server \cup {None}
  /\ proc \in [Process -> ProcType]
  /\ uses \in 0 .. MaxUses
  /\ astray \in BOOLEAN
  /\ behind \subseteq Process

LEMMA LaunchedTyped ==
  ASSUME AppTypeOK
  PROVE  /\ NotRunning \in ProcType /\ NotRunning.ui = "off" /\ NotRunning.agent = "off"
         /\ Launched \in ProcType /\ Launched.ui = "on" /\ Launched.agent = "load"
         /\ Launched.code = config.code /\ Launched.url = Current
BY TrayAssumption DEF AppTypeOK, ProcType, ConfigType, NotRunning, Launched, Current, UiState, AgentState

LEMMA AgentTyped ==
  ASSUME AppTypeOK, NEW p \in Process, NEW place \in AgentState, AgentGoes(p, place)
  PROVE  proc' \in [Process -> ProcType]
BY DEF AppTypeOK, ProcType, AgentGoes

LEMMA AppTypeStep ==
  ASSUME AppTypeOK, [Next]_vars
  PROVE  AppTypeOK'
<1>0. {"off", "load", "register", "store", "confirm", "rename", "restore",
       "connect", "connected", "failed"} \subseteq AgentState
  BY DEF AgentState
<1>1. CASE UNCHANGED <<filesVars, proc>>
  BY <1>1 DEF filesVars, AppTypeOK
<1>2. ASSUME NEW p \in Process, Launch(p)
      PROVE  AppTypeOK'
  BY <1>2, LaunchedTyped DEF Launch, Joins, AppTypeOK
<1>3. ASSUME NEW p \in Process, AgentStep(p)
      PROVE  AppTypeOK'
  <2>1. AfterId(p) \in AgentState
    BY <1>0 DEF AfterId
  <2>2. proc[p] \in ProcType
    BY DEF AppTypeOK
  <2>3. CASE LoadState(p)
    <3> DEFINE a == IF idFile = None THEN "register" ELSE AfterId(p)
    <3>1. a \in AgentState
      BY <1>0, <2>1
    <3>2. proc' = [proc EXCEPT ![p].id = idFile, ![p].agent = a]
      BY <2>3 DEF LoadState
    <3> HIDE DEF a
    <3>3. proc' \in [Process -> ProcType]
      BY <3>1, <3>2 DEF AppTypeOK, ProcType
    <3> QED
      BY <2>3, <3>3 DEF LoadState, filesVars, AppTypeOK
  <2>4. CASE Register(p)
    <3>1. proc' \in [Process -> ProcType]
      BY <2>4, <1>0 DEF Register, AppTypeOK, ProcType
    <3> QED
      BY <2>4, <3>1 DEF Register, filesVars, AppTypeOK
  <2>5. CASE WriteId(p)
    <3>1. proc' \in [Process -> ProcType]
      BY <2>5, <1>0, <2>1, AgentTyped DEF WriteId
    <3>2. idFile' \in Server \cup {None}
      BY <2>2, <2>5 DEF WriteId, ProcType
    <3>3. astray' \in BOOLEAN
      BY <2>5 DEF WriteId
    <3> QED
      BY <2>5, <3>1, <3>2, <3>3 DEF WriteId, AppTypeOK
  <2>6. ASSUME Confirm(p) \/ Rename(p) \/ Connect(p) \/ Disconnect(p) \/ AgentFails(p)
        PROVE  AppTypeOK'
    <3>1. proc' \in [Process -> ProcType] /\ UNCHANGED filesVars
      BY <2>6, <1>0, AgentTyped DEF Confirm, Rename, Connect, Disconnect, AgentFails
    <3> QED
      BY <3>1 DEF filesVars, AppTypeOK
  <2> QED
    BY <1>3, <2>3, <2>4, <2>5, <2>6 DEF AgentStep
<1>4. ASSUME NEW p \in Process, UserInterface(p)
      PROVE  AppTypeOK'
  <2>0. {"on", "clear", "relaunch", "exit"} \subseteq UiState
    BY DEF UiState
  <2>1. CASE DropCode(p)
    <3>1. proc' \in [Process -> ProcType]
      BY <2>1 DEF DropCode, AppTypeOK, ProcType
    <3>2. config' \in ConfigType
      BY <2>1 DEF DropCode, Save, AppTypeOK, ConfigType
    <3> QED
      BY <2>1, <3>1, <3>2 DEF DropCode, AppTypeOK
  <2>2. CASE ClearId(p)
    <3>1. proc' \in [Process -> ProcType]
      BY <2>0, <2>2 DEF ClearId, AppTypeOK, ProcType
    <3>2. astray' \in BOOLEAN /\ idFile' \in Server \cup {None}
      BY <2>2 DEF ClearId, IdStays, AppTypeOK
    <3> QED
      BY <2>2, <3>1, <3>2 DEF ClearId, AppTypeOK
  <2>3. CASE Quit(p)
    <3>1. proc' \in [Process -> ProcType]
      BY <2>3, LaunchedTyped DEF Quit, AppTypeOK
    <3>2. astray' \in BOOLEAN /\ UNCHANGED idFile
      BY <2>3 DEF Quit, IdStays, AppTypeOK
    <3> QED
      BY <2>3, <3>1, <3>2 DEF Quit, AppTypeOK
  <2>4. CASE Host(p)
    <3>1. config' \in ConfigType
      BY <2>4 DEF Host, Save, AppTypeOK, ConfigType
    <3>2. uses' \in 0 .. MaxUses
      BY <2>4, TrayAssumption DEF Host, AppTypeOK
    <3> QED
      BY <2>4, <3>1, <3>2 DEF Host, AppTypeOK
  <2>5. ASSUME NEW url \in Server, NEW code \in BOOLEAN, SaveSettings(p, url, code)
        PROVE  AppTypeOK'
    <3> PICK u \in UiState : u = IF config.last # url THEN "clear" ELSE "relaunch"
      BY <2>0
    <3>1. proc' = [proc EXCEPT ![p].ui = u]
      BY <2>5 DEF SaveSettings
    <3>2. proc' \in [Process -> ProcType]
      BY <3>1 DEF AppTypeOK, ProcType
    <3>3. config' \in ConfigType
      BY <2>5 DEF SaveSettings, Save, AppTypeOK, ConfigType
    <3>4. uses' \in 0 .. MaxUses
      BY <2>5, TrayAssumption DEF SaveSettings, AppTypeOK
    <3> QED
      BY <2>5, <3>2, <3>3, <3>4 DEF SaveSettings, Overtakes, AppTypeOK
  <2>6. ASSUME NEW q \in Process, Relaunch(p, q)
        PROVE  AppTypeOK'
    <3>1. proc' \in [Process -> ProcType]
      <4> PICK l \in ProcType : l = Launched
        BY LaunchedTyped
      <4>1. proc' = [proc EXCEPT ![p].ui = "exit", ![q] = l]
        BY <2>6 DEF Relaunch
      <4> QED
        BY <2>0, <4>1 DEF AppTypeOK, ProcType
    <3> QED
      BY <2>6, <3>1 DEF Relaunch, Joins, AppTypeOK
  <2> QED
    BY <1>4, <2>1, <2>2, <2>3, <2>4, <2>5, <2>6 DEF UserInterface
<1> QED
  BY <1>1, <1>2, <1>3, <1>4 DEF Next, vars

-----------------------------------------------------------------------------
(* What each step does to the processes.                                   *)

\* The user interface and the agent of a process, and nothing of the others.
OnlyAt(p) == \A q \in Process \ {p} : proc'[q] = proc[q]

LEMMA AgentMoves ==
  ASSUME AppTypeOK, NEW p \in Process, NEW place \in AgentState, AgentGoes(p, place)
  PROVE  /\ OnlyAt(p) /\ proc'[p].agent = place
         /\ proc'[p].ui = proc[p].ui /\ proc'[p].url = proc[p].url
         /\ proc'[p].code = proc[p].code /\ proc'[p].id = proc[p].id
BY DEF AppTypeOK, ProcType, AgentGoes, OnlyAt

\* Steps of an agent leave the interfaces and the configuration alone; what it
\* presents afterwards is what it had, what it read, or of its server.
LEMMA AgentStepFits ==
  ASSUME AppTypeOK, AppInv, NEW p \in Process, OnlyAt(p),
         proc'[p].ui = proc[p].ui, proc'[p].url = proc[p].url, proc'[p].code = proc[p].code,
         UNCHANGED <<config, behind>>, astray => astray',
         UI(p, "on") /\ p \notin behind /\ proc'[p].agent \in Keeping
           => proc'[p].id = proc[p].url \/ astray',
         astray' \/ Clearing \/ idFile' \in {None, Current}
  PROVE  AppInv'
<1>1. Clearing' <=> Clearing
  BY DEF Clearing, UI, OnlyAt
<1>2. ConfigFits'
  BY <1>1 DEF AppInv, ConfigFits, UI, OnlyAt, Current
<1>3. FileFits'
  BY <1>1 DEF FileFits, Current
<1>4. IdFits'
  BY DEF AppInv, IdFits, UI, OnlyAt
<1> QED
  BY <1>2, <1>3, <1>4 DEF AppInv

LEMMA LoadStateFits ==
  ASSUME AppTypeOK, AppInv, NEW p \in Process, LoadState(p)
  PROVE  AppInv'
<1> PICK a \in AgentState : a = IF idFile = None THEN "register" ELSE AfterId(p)
  BY DEF AfterId, AgentState
<1>1. proc' = [proc EXCEPT ![p].id = idFile, ![p].agent = a]
  BY DEF LoadState
<1>2. /\ OnlyAt(p) /\ proc'[p].agent = a /\ proc'[p].id = idFile
      /\ proc'[p].ui = proc[p].ui /\ proc'[p].url = proc[p].url /\ proc'[p].code = proc[p].code
  BY <1>1 DEF AppTypeOK, ProcType, OnlyAt
<1>3. UNCHANGED <<config, idFile, astray, behind>>
  BY DEF LoadState, filesVars
<1>4. a \in Keeping => idFile # None
  BY DEF Keeping
<1>5. UI(p, "on") /\ p \notin behind /\ a \in Keeping => idFile = proc[p].url \/ astray
  BY <1>4 DEF AppInv, FileFits, ConfigFits
<1> QED
  BY <1>2, <1>3, <1>5, AgentStepFits DEF AppInv, FileFits

LEMMA RegisterFits ==
  ASSUME AppTypeOK, AppInv, NEW p \in Process, Register(p)
  PROVE  AppInv'
<1>1. proc' = [proc EXCEPT ![p].id = proc[p].url, ![p].agent = "store"]
  BY DEF Register
<1>2. /\ OnlyAt(p) /\ proc'[p].id = proc[p].url
      /\ proc'[p].ui = proc[p].ui /\ proc'[p].url = proc[p].url /\ proc'[p].code = proc[p].code
  BY <1>1 DEF AppTypeOK, ProcType, OnlyAt
<1>3. UNCHANGED <<config, idFile, astray, behind>>
  BY DEF Register, filesVars
<1> QED
  BY <1>2, <1>3, AgentStepFits DEF AppInv, FileFits

LEMMA WriteIdFits ==
  ASSUME AppTypeOK, AppInv, NEW p \in Process, WriteId(p)
  PROVE  AppInv'
<1> PICK a \in AgentState : a = IF Agent(p, "store") THEN AfterId(p) ELSE "connect"
  BY DEF AfterId, AgentState
<1>1. AgentGoes(p, a)
  BY DEF WriteId
<1>2. /\ OnlyAt(p) /\ proc'[p].agent = a /\ proc'[p].id = proc[p].id
      /\ proc'[p].ui = proc[p].ui /\ proc'[p].url = proc[p].url /\ proc'[p].code = proc[p].code
  BY <1>1, AgentMoves
<1>3. /\ UNCHANGED <<config, behind>> /\ idFile' = proc[p].id
      /\ astray' = (astray \/ (~Clearing /\ proc[p].id # Current))
  BY DEF WriteId
<1>4. proc[p].agent \in Keeping
  BY DEF WriteId, Keeping
<1>5. UI(p, "on") /\ p \notin behind => proc[p].id = proc[p].url \/ astray'
  BY <1>3, <1>4 DEF AppInv, IdFits
<1> QED
  BY <1>2, <1>3, <1>5, AgentStepFits

\* The other steps of an agent change only where it is.
LEMMA AgentGoesFits ==
  ASSUME AppTypeOK, AppInv, NEW p \in Process, NEW place \in AgentState, AgentGoes(p, place),
         UNCHANGED filesVars,
         \/ proc[p].id = proc[p].url
         \/ place = "failed"
         \/ proc[p].agent \in {"confirm", "rename", "connected"}
  PROVE  AppInv'
<1>1. /\ OnlyAt(p) /\ proc'[p].agent = place /\ proc'[p].id = proc[p].id
      /\ proc'[p].ui = proc[p].ui /\ proc'[p].url = proc[p].url /\ proc'[p].code = proc[p].code
  BY AgentMoves
<1>2. UNCHANGED <<config, idFile, astray, behind>>
  BY DEF filesVars
<1>3. UI(p, "on") /\ p \notin behind /\ place \in Keeping => proc[p].id = proc[p].url \/ astray
  BY DEF AppInv, IdFits, Keeping
<1> QED
  BY <1>1, <1>2, <1>3, AgentStepFits DEF AppInv, FileFits

LEMMA AgentFits ==
  ASSUME AppTypeOK, AppInv, NEW p \in Process, AgentStep(p)
  PROVE  AppInv'
<1>0. {"rename", "failed", "restore", "connect", "connected"} \subseteq AgentState
  BY DEF AgentState
<1>1. CASE Confirm(p)
  BY <1>0, <1>1, AgentGoesFits DEF Confirm, Agent
<1>2. CASE Rename(p)
  BY <1>0, <1>2, AgentGoesFits DEF Rename, Agent
<1>3. CASE Connect(p)
  BY <1>0, <1>3, AgentGoesFits DEF Connect, Agent
<1>4. CASE Disconnect(p)
  BY <1>0, <1>4, AgentGoesFits DEF Disconnect, Agent
<1>5. CASE AgentFails(p)
  BY <1>0, <1>5, AgentGoesFits DEF AgentFails, Agent
<1> QED
  BY <1>1, <1>2, <1>3, <1>4, <1>5, LoadStateFits, RegisterFits, WriteIdFits DEF AgentStep

-----------------------------------------------------------------------------
(* The user interface.                                                     *)

\* Changing other settings than the server and the code, or dropping the code.
LEMMA SettingFits ==
  ASSUME AppTypeOK, AppInv, UNCHANGED <<idFile, astray, behind>>,
         config'.url = config.url, config'.last = config.last, config'.code => config.code,
         \A q \in Process : /\ proc'[q].ui = proc[q].ui /\ proc'[q].agent = proc[q].agent
                            /\ proc'[q].url = proc[q].url /\ proc'[q].id = proc[q].id
                            /\ proc'[q].code = proc[q].code
  PROVE  AppInv'
<1>1. (Clearing' <=> Clearing) /\ Current' = Current
  BY DEF Clearing, UI, Current
<1>2. ConfigFits'
  BY <1>1 DEF AppInv, ConfigFits, UI
<1>3. FileFits'
  BY <1>1 DEF AppInv, FileFits
<1>4. IdFits'
  BY DEF AppInv, IdFits, UI
<1> QED
  BY <1>2, <1>3, <1>4 DEF AppInv

LEMMA DropCodeFits ==
  ASSUME AppTypeOK, AppInv, NEW p \in Process, DropCode(p)
  PROVE  AppInv'
<1>1. proc' = [proc EXCEPT ![p].tidy = TRUE] /\ UNCHANGED <<idFile, astray, behind>>
  BY DEF DropCode
<1>2. config' = config \/ config' = [config EXCEPT !.code = FALSE]
  BY DEF DropCode, Save
<1>3. config'.url = config.url /\ config'.last = config.last /\ (config'.code => config.code)
  BY <1>2 DEF AppTypeOK, ConfigType
<1>4. \A q \in Process : /\ proc'[q].ui = proc[q].ui /\ proc'[q].agent = proc[q].agent
                         /\ proc'[q].url = proc[q].url /\ proc'[q].id = proc[q].id
                         /\ proc'[q].code = proc[q].code
  BY <1>1 DEF AppTypeOK, ProcType
<1> QED
  BY <1>1, <1>3, <1>4, SettingFits

LEMMA HostFits ==
  ASSUME AppTypeOK, AppInv, NEW p \in Process, Host(p)
  PROVE  AppInv'
<1>1. /\ UNCHANGED <<idFile, astray, behind, proc>>
      /\ config' = config \/ \E h \in BOOLEAN : config' = [config EXCEPT !.hosting = h]
  BY DEF Host, Save
<1>2. config'.url = config.url /\ config'.last = config.last /\ config'.code = config.code
  BY <1>1 DEF AppTypeOK, ConfigType
<1> QED
  BY <1>1, <1>2, SettingFits

\* After settings were saved, or not, the process is to be replaced and every
\* other at work is behind.
LEMMA SaveSettingsFits ==
  ASSUME AppTypeOK, AppInv, NEW p \in Process, NEW url \in Server, NEW code \in BOOLEAN,
         SaveSettings(p, url, code)
  PROVE  AppInv'
<1> PICK u : u = IF config.last # url THEN "clear" ELSE "relaunch"
  OBVIOUS
<1>1. /\ proc' = [proc EXCEPT ![p].ui = u]
      /\ behind' = behind \cup {q \in Process \ {p} : UI(q, "on")}
      /\ UNCHANGED <<idFile, astray>> /\ UI(p, "on")
  BY DEF SaveSettings, Overtakes
<1>2. OnlyAt(p) /\ proc'[p].ui = u
  BY <1>1 DEF AppTypeOK, ProcType, OnlyAt
<1>3. config' = config \/ config' = [config EXCEPT !.url = url, !.last = url, !.code = code]
  BY DEF SaveSettings, Save
<1>4. config'.last = config'.url /\ config'.url \in {config.url, url} /\ config.last = config.url
  BY <1>3 DEF AppTypeOK, ConfigType, AppInv, ConfigFits
<1>5. \A q \in Process : UI(q, "on")' => q \in behind'
  BY <1>1, <1>2 DEF UI, OnlyAt
<1>6. ConfigFits'
  BY <1>4, <1>5 DEF ConfigFits
<1>7. FileFits'
  <2>1. CASE config.last # url
    BY <1>2, <2>1 DEF FileFits, Clearing, UI
  <2>2. CASE config.last = url
    <3>1. Current' = Current
      BY <1>4, <2>2 DEF Current
    <3>2. Clearing => Clearing'
      BY <1>1, <1>2 DEF Clearing, UI, OnlyAt
    <3> QED
      BY <1>1, <3>1, <3>2 DEF AppInv, FileFits
  <2> QED
    BY <2>1, <2>2
<1>8. IdFits'
  BY <1>5 DEF IdFits
<1> QED
  BY <1>6, <1>7, <1>8 DEF AppInv

\* An interface that is not at work becomes one that is not either.
LEMMA LeavingFits ==
  ASSUME AppTypeOK, AppInv, NEW p \in Process, ~UI(p, "on"), OnlyAt(p),
         proc'[p].ui \in {"relaunch", "off"}, UNCHANGED config,
         \A q \in Process \ {p} : q \in behind' <=> q \in behind,
         astray => astray',
         \/ UNCHANGED idFile /\ (UI(p, "clear") => astray' \/ idFile \in {None, Current})
         \/ idFile' = None
  PROVE  AppInv'
<1>1. ~UI(p, "on")' /\ ~UI(p, "clear")' /\ Current' = Current
  BY DEF UI, Current
<1>2. Clearing' => Clearing
  BY <1>1 DEF Clearing, UI, OnlyAt
<1>3. ConfigFits'
  BY <1>1, <1>2 DEF AppInv, ConfigFits, UI, OnlyAt
<1>4. FileFits'
  <2>1. Clearing => Clearing' \/ UI(p, "clear")
    BY DEF Clearing, UI, OnlyAt
  <2> QED
    BY <1>1, <2>1 DEF AppInv, FileFits
<1>5. IdFits'
  BY <1>1 DEF AppInv, IdFits, UI, OnlyAt
<1> QED
  BY <1>3, <1>4, <1>5 DEF AppInv

LEMMA ClearIdFits ==
  ASSUME AppTypeOK, AppInv, NEW p \in Process, ClearId(p)
  PROVE  AppInv'
<1>1. /\ proc' = [proc EXCEPT ![p].ui = "relaunch"] /\ ~UI(p, "on")
      /\ UNCHANGED <<config, behind>>
      /\ (idFile' = None /\ UNCHANGED astray) \/ IdStays
  BY DEF ClearId, UI
<1>2. OnlyAt(p) /\ proc'[p].ui = "relaunch"
  BY <1>1 DEF AppTypeOK, ProcType, OnlyAt
<1>3. /\ astray => astray'
      /\ \/ UNCHANGED idFile /\ (astray' \/ idFile \in {None, Current})
         \/ idFile' = None
  <2>1. CASE idFile' = None /\ UNCHANGED astray
    BY <2>1
  <2>2. CASE IdStays
    BY <2>2 DEF IdStays, AppTypeOK
  <2> QED
    BY <1>1, <2>1, <2>2
<1> QED
  BY <1>1, <1>2, <1>3, LeavingFits

\* A process that ends, its interface at work or not.
LEMMA QuitFits ==
  ASSUME AppTypeOK, AppInv, NEW p \in Process, Quit(p)
  PROVE  AppInv'
<1>1. /\ proc' = [proc EXCEPT ![p] = NotRunning] /\ behind' = behind \ {p}
      /\ UNCHANGED <<config, idFile>> /\ (astray => astray')
      /\ UI(p, "clear") => astray' \/ idFile \in {None, Current}
  BY DEF Quit, IdStays
<1>2. OnlyAt(p) /\ proc'[p].ui = "off"
  BY <1>1, LaunchedTyped DEF AppTypeOK, OnlyAt
<1>3. ~UI(p, "on")' /\ ~UI(p, "clear")' /\ Current' = Current
  BY <1>1, <1>2 DEF UI, Current
<1>4. (Clearing' => Clearing) /\ (Clearing => Clearing' \/ UI(p, "clear"))
  BY <1>2, <1>3 DEF Clearing, UI, OnlyAt
<1>5. ConfigFits'
  BY <1>1, <1>2, <1>3, <1>4 DEF AppInv, ConfigFits, UI, OnlyAt
<1>6. FileFits'
  BY <1>1, <1>3, <1>4 DEF AppInv, FileFits
<1>7. IdFits'
  BY <1>1, <1>2, <1>3 DEF AppInv, IdFits, UI, OnlyAt
<1> QED
  BY <1>5, <1>6, <1>7 DEF AppInv

\* A process is launched with what the configuration holds; the others stay, but
\* for one that has nothing left to do but exit.
LEMMA LaunchFits ==
  ASSUME AppTypeOK, AppInv, NEW p \in Process, UI(p, "off"), Joins(p),
         UNCHANGED <<config, idFile, astray>>,
         proc'[p] = Launched,
         \A q \in Process \ {p} :
           \/ proc'[q] = proc[q]
           \/ proc'[q].ui = "exit" /\ ~UI(q, "clear")
  PROVE  AppInv'
<1>1. /\ proc'[p].ui = "on" /\ proc'[p].agent = "load"
      /\ proc'[p].code = config.code /\ proc'[p].url = Current
  BY LaunchedTyped
<1>2. (Clearing' <=> Clearing) /\ Current' = Current
  BY <1>1 DEF Clearing, UI, Current
<1>3. behind \subseteq behind' /\ (Clearing => p \in behind')
  BY DEF Joins
<1>4. ConfigFits'
  BY <1>1, <1>2, <1>3 DEF AppInv, ConfigFits, UI
<1>5. FileFits'
  BY <1>2 DEF AppInv, FileFits
<1>6. IdFits'
  BY <1>1, <1>3 DEF AppInv, IdFits, UI, Keeping
<1> QED
  BY <1>4, <1>5, <1>6 DEF AppInv

LEMMA AppStep ==
  ASSUME AppTypeOK, AppInv, [Next]_vars
  PROVE  AppInv'
<1>1. CASE UNCHANGED <<filesVars, proc>>
  BY <1>1 DEF filesVars, AppInv, ConfigFits, FileFits, IdFits, UI, Clearing, Current
<1>2. ASSUME NEW p \in Process, Launch(p)
      PROVE  AppInv'
  <2> PICK l : l = Launched
    OBVIOUS
  <2>1. /\ proc' = [proc EXCEPT ![p] = l] /\ UNCHANGED <<config, idFile, astray>>
        /\ UI(p, "off") /\ Joins(p)
    BY <1>2 DEF Launch
  <2>2. proc'[p] = Launched /\ \A q \in Process \ {p} : proc'[q] = proc[q]
    BY <2>1 DEF AppTypeOK
  <2> QED
    BY <2>1, <2>2, LaunchFits
<1>3. ASSUME NEW p \in Process, NEW q \in Process, Relaunch(p, q)
      PROVE  AppInv'
  <2> PICK l \in ProcType : l = Launched
    BY LaunchedTyped
  <2>1. /\ proc' = [proc EXCEPT ![p].ui = "exit", ![q] = l]
        /\ UNCHANGED <<config, idFile, astray>>
        /\ UI(p, "relaunch") /\ UI(q, "off") /\ Joins(q)
    BY <1>3 DEF Relaunch
  <2>2. /\ p # q /\ proc'[q] = Launched /\ proc'[p].ui = "exit" /\ ~UI(p, "clear")
        /\ \A r \in Process \ {p, q} : proc'[r] = proc[r]
    BY <2>1 DEF AppTypeOK, ProcType, UI
  <2> QED
    BY <2>1, <2>2, LaunchFits
<1>4. ASSUME NEW p \in Process, UserInterface(p)
      PROVE  AppInv'
  BY <1>3, <1>4, DropCodeFits, SaveSettingsFits, ClearIdFits, QuitFits, HostFits DEF UserInterface
<1> QED
  BY <1>1, <1>2, <1>4, AgentFits DEF Next, vars

-----------------------------------------------------------------------------
(* Theorems.                                                               *)

LEMMA TypesSplit == TypeOK <=> CtlTypeOK /\ AppTypeOK
BY DEF TypeOK, AppTypeOK, ProcType, ConfigType

LEMMA InitHolds ==
  ASSUME Init
  PROVE  CtlFits /\ AppTypeOK /\ AppInv
<1> USE TrayAssumption DEF Init
<1>1. CtlFits
  BY DEF CtlInit, CtlFits, CtlTypeOK, CtlInv, RunningIsHeld, HeldIsRunning, Owned, TaskState
<1>2. \A p \in Process : proc[p] = NotRunning
  OBVIOUS
<1>3. /\ config \in ConfigType /\ config.url = None /\ config.last = None
  BY DEF ConfigType
<1>4. AppTypeOK
  <2>1. NotRunning \in ProcType
    BY DEF NotRunning, ProcType, UiState, AgentState
  <2>2. proc \in [Process -> ProcType]
    BY <2>1
  <2>3. uses \in 0 .. MaxUses /\ astray \in BOOLEAN /\ behind = {} /\ idFile \in Server \cup {None}
    <3>1. uses = 0 /\ astray = FALSE /\ behind = {} /\ idFile = None
      OBVIOUS
    <3>2. 0 \in 0 .. MaxUses
      BY SMT
    <3> QED
      BY <3>1, <3>2 DEF Init
  <2> QED
    BY <1>3, <2>2, <2>3 DEF AppTypeOK
<1>5. AppInv
  BY <1>2, <1>3 DEF AppInv, ConfigFits, FileFits, IdFits, UI, NotRunning
<1> QED
  BY <1>1, <1>4, <1>5

\* The inductive invariant holds at every step.
THEOREM Inductive == Spec => [](TypeOK /\ IInv)
<1> DEFINE All == CtlFits /\ AppTypeOK /\ AppInv
<1>1. Init => All
  BY InitHolds
<1>2. All /\ [Next]_vars => All'
  BY CtlStep, AppTypeStep, AppStep
<1>3. All => TypeOK /\ IInv
  BY TypesSplit DEF CtlFits, IInv
<1> QED
  BY <1>1, <1>2, <1>3, PTL DEF Spec

\* Every variable keeps its type (TypeOK): in particular a process runs with
\* some server, and the settings are saved at most as often as the model allows.
THEOREM TypeCorrect == Spec => []TypeOK
BY Inductive, PTL

\* The status of the server switch is true (StatusIsTrue): a controller that
\* says running holds its own task, which has not ended, and a server that goes
\* on serving is shown unless an earlier task's report came after it started.
THEOREM SwitchTellsTheTruth == Spec => []StatusIsTrue
<1>1. TypeOK /\ IInv => StatusIsTrue
  BY DEF IInv, CtlInv, RunningIsHeld, HeldIsRunning, StatusIsTrue, Told
<1> QED
  BY <1>1, Inductive, PTL

\* Nobody presents one server's device id to another (RightServer), through any
\* sequence of saved settings, failed writes, relaunches, kills, second trays and
\* overlapping agents, but for what the two history variables record.
THEOREM IdOfTheRightServer == Spec => []RightServer
<1>1. TypeOK /\ IInv => RightServer
  BY DEF IInv, AppInv, IdFits, RightServer, Keeping
<1> QED
  BY <1>1, Inductive, PTL

\* A pairing code is not lost before it was accepted or settings were saved
\* (CodeIsTriedFirst): the process whose tick drops it was launched with it, or
\* another tray saved the code beside it.
THEOREM CodesAreTried == Spec => CodeIsTriedFirst
<1> DEFINE Kept == config.code /\ ~config'.code =>
                     \/ uses' # uses
                     \/ \E p \in Process : Agent(p, "connected") /\ (proc[p].code \/ p \in behind)
<1>1. TypeOK /\ IInv /\ [Next]_vars => [Kept]_vars
  <2> SUFFICES ASSUME TypeOK, IInv, Next, config.code, ~config'.code, uses' = uses
               PROVE  \E p \in Process : Agent(p, "connected") /\ (proc[p].code \/ p \in behind)
    OBVIOUS
  <2>1. \A p \in Process : ~Launch(p) /\ ~AgentStep(p)
    BY DEF Launch, AgentStep, LoadState, Register, WriteId, Confirm, Rename, Connect,
           Disconnect, AgentFails, filesVars
  <2>2. \A t \in Task : ~(ServerTask(t) /\ UNCHANGED <<filesVars, proc>>)
    BY DEF filesVars
  <2>3. uses \in Nat
    BY TrayAssumption DEF TypeOK
  <2>4. PICK p \in Process : UserInterface(p)
    BY <2>1, <2>2 DEF Next
  <2>5. ~ClearId(p) /\ ~Quit(p) /\ \A q \in Process : ~Relaunch(p, q)
    BY DEF ClearId, Quit, Relaunch, filesVars
  <2>6. ~Host(p) /\ \A url \in Server, code \in BOOLEAN : ~SaveSettings(p, url, code)
    <3>1. uses' # uses + 1
      BY <2>3
    <3> QED
      BY <3>1 DEF Host, SaveSettings
  <2>7. DropCode(p)
    BY <2>4, <2>5, <2>6 DEF UserInterface
  <2> QED
    BY <2>7 DEF DropCode, IInv, AppInv, ConfigFits
<1> QED
  BY <1>1, Inductive, PTL DEF Spec, CodeIsTriedFirst
=============================================================================
