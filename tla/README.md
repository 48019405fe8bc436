# AirPaste: a TLA+ development

AirPaste shares a clipboard between the devices of one user. Text and file clips
are published through a small server; the bytes of files are pulled from the
device that copied them, directly over the LAN or, end-to-end encrypted, through
a relay of the server. This directory holds models of the concurrent parts of
it, the TLC configurations that check them, and the theorems TLAPS proves about
them. Paths below are relative to `src/`; `agent`, `server` and `tray` stand for
`crates/airpaste-agent/src`, `crates/airpaste-server/src` and
`crates/airpaste-tray/src`.

To check a model: `tlc -config MCPeerGrants.cfg MCPeerGrants`; to check a proof:
`tlapm PeerGrantsProofs.tla`. `PROJECT.json` maps every definition to the lines it
stands for, and lists runs, hazards, findings, mutants and theorems.

## 1. Inventory

| Component | State | Operations | Module |
|---|---|---|---|
| Peer file registry and LAN peer server (`agent/peer.rs`) | a mutex over a map from transfer token to grant: bound clip, keys of the devices trusted at publication, expiry, `served_indexes`, `in_flight` | `register`, `bind_clip_id`, `claim`, `commit_served`, `release`, `cleanup_expired`; the download handler and its `GrantStream` | `PeerGrants` |
| Relay source tasks (`agent/relay.rs:75-237`) | one task per session, serving one request after the other | claim, read and seal, send, commit or release | `PeerGrants`, `FileTransfer` |
| Publishing a file manifest (`agent/lib.rs:1526`) | the token under publication | register, create the clip, bind the clip's id | `PeerGrants` |
| Recipient file transfer (`agent/lib.rs:2600-3022`, `agent/relay.rs:239-406`) | the map of files pulled so far, the connection, the pending slot, the inbox row | direct download, fallback to the relay, relayed download | `FileTransfer` |
| Server relay hub (`server/relay.rs`) | per session a room with two bounded queues; per connection a reader and a writer task and a byte count | join, forward, deadline, abort, leave | `RelayHub` |
| Device and pairing store (`server/store.rs:60-142`) | tables DEVICES and PAIRINGS | register, trust, rename, touch, start and confirm a pairing | `DeviceStore` |
| Clip and relay-session store (`server/store.rs:144-294`) | tables CLIPS and RELAYS | create, get, latest, history, delete, lazy expiry; create a session | `ClipStore` |
| Routes and authentication (`server/routes.rs`, `NonceCache` in `server/state.rs`) | the nonce cache | bearer token, signed request, trusted device; handlers; websocket upgrades | `RequestGate`, `ClipStore`, `DeviceStore` |
| Event hub and websockets (`server/state.rs`, `server/ws.rs`) | a global broadcast channel and one per device, subscriptions, a "simple inbox" slot | subscribe, publish, lag, online/offline; store and read a simple text | `EventHub`, `ClipStore`; online/offline not modelled |
| Clipboard synchronisation (`agent/lib.rs:1265-1421`, `2059-2414`) | last local writes (text, files), what the poller saw last, the mode, backoff | poll, publish, apply a remote clip, reconnect | `EventHub`, `ClipSync` (text), `Inbox` (files) |
| Inbox, hotkey actions (`agent/lib.rs:366-741`, `2420-2597`) | inbox rows with a download state, pending file slot, arrival numbers | receive, download, copy, hotkey paste, automatic apply | `Inbox`, `ClipSync` (paste of a text) |
| Server start-up and shutdown (`server/lib.rs`), tray server controller (`tray/server.rs`) | status cell and shutdown sender; the database lock and the port | start, open, bind, drain, stop, end of the server task | `ServerController` |
| Tray configuration, state file, relaunch (`tray/app.rs`, `tray/config.rs`, `agent/state_file.rs`), start of the agent (`agent/lib.rs:825-1262`) | two files shared by overlapping processes | launch, register, confirm, rename, connect, save settings, clear the id, relaunch | `Tray` |
| Identity, discovery, command line, outbox, platform back ends, crypto, tray screens, vendored eframe | files and operating-system handles | conversions, I/O, drawing | not modelled (section 7) |

**How they interact.** The source's clipboard poller (or its UI) publishes: it
registers a grant under a fresh transfer token, creates the clip at the server,
then binds the clip's id. The server stores the clip and broadcasts an event to
all websockets. A recipient holds the clip as pending or
applies it at once; applying means asking the source's peer server for one file
after the other over HTTP, and at the first failure creating a relay session at
the server, which broadcasts `TransferRelayReady`; both ends then connect to the
session's room in the relay hub and the recipient asks for the missing files
there. Both paths claim from the same registry with the same signature. The
device store decides whom the server lets do any of this, and the list of trusted
devices decides which keys a grant accepts.

**What is hard.**

- *Concurrency at the source.* HTTP handlers and relay tasks use the registry
  between other steps; the mutex covers one call only. Reservations must exclude
  transfers of the same file, survive exactly as long as the transfer, and meet
  expiry, restarts and failures at any point (the `PeerGrants` properties).
- *Two ends, no agreement.* A connection breaks at each end separately: what the
  recipient gave up, the source may complete; what the source handed to a socket,
  the recipient may never get; what the recipient retries, the source may still
  consider running (`FileTransfer`).
- *A room without an owner.* Two handlers, four tasks and a deadline share a room
  that either handler removes (`RelayHub`).
- *Read, then write.* Every store operation reads a record in one transaction and
  writes it back in another; every HTTP request is a task of its own
  (`DeviceStore`).
- *Events.* A subscription starts after the hello was acknowledged, may lag behind
  and skip events, and breaks with a part of them on the way (`EventHub`); the
  agent awaits slow work inside its event loop (`ClipSync`; the slowest, an
  automatic file apply, in `Inbox`).
- *Echo.* Poller, websocket loop and hotkey share the clipboard and one cell that
  tells the agent's writes from the user's; none of their steps is atomic with the
  clipboard (`ClipSync`).
- *One inbox, four workers.* The websocket loop, the hotkey and the tasks of the
  inbox buttons share rows, arrival numbers and the pending slot, each under a lock
  of its own that is held for one step (`Inbox`).
- *Time passes between two locks.* A request notes the time, waits for a lock or the
  database's writer, and works with the time it noted (`RequestGate`, `ClipStore`).
- *Two processes, two files.* Saving settings replaces the process while the old one's
  agent still runs; the user may start a second tray on the same files; any of them may be
  killed between two writes, and failing writes are ignored (`Tray`).

What makes each component correct: the registry hands out each file of a
publication once and to one transfer at a time; a recipient never ends up with a
file that somebody else can still claim; the relay delivers an in-order prefix of
what one peer sent and forgets its sessions; trust is only ever handed on by the
trusted; an event reaches every subscriber or the subscriber finds out; a remote
clip is not published back; a finished download is shown as finished and an
unfinished one keeps its place; a request delivered again is refused by its nonce or its
timestamp; what an event announces is stored; a device keeps to ids of the server it talks
to.

## 2. Modules

`OneTimeGrants` — the promise of the registry, without workers, clocks or
signatures: a slot (publication, file) is free, busy or spent until its
publication is gone; a transfer that runs to its end spends the slot, one that
fails gives it back, one that vanishes leaves it busy.

`PeerGrants` — the source. `grants` is `PeerFileRegistry.inner`, `now` the
`Instant` clock, `phase` the progress of `publish_file_manifest`, `jobs` the
transfers under way. Every registry call is one step because it holds the mutex;
`Claim` and `Refuse` clean expired grants first, as `claim` does even when it
refuses. A job is *opening* (claimed, inside `download_file_inner`), *streaming*
(owned by a `GrantStream`), *sealing* or *sending* (the relay task). `OpenFails`
is the window in which nothing owns the reservation: the early returns after
`claim` and the handler dropped at an await. `delivered` and `abandoned` are
history variables. `Promise` is the refinement mapping to `OneTimeGrants`.

`PeerGrantsInv` — the inductive invariant, kept apart so that both TLC and TLAPS
use it. `PeerGrantsProofs` — the proofs.

`FileTransfer` — both ends of a pull. It takes the source from `PeerGrants`
(`Registry == INSTANCE PeerGrants`; the workers of the registry are the source's
ends of connections) and adds the recipient's attempts (`apply_file_clip`) and
`client`, which attempt is at the other end of a worker's connection. When the
recipient's end breaks, only `client` changes: the worker goes on until it
notices, which may be after it committed. `flushed` marks a relay worker whose
last frame is with the relay; up to there a failed send releases the file, from
there on the send has succeeded. `StrayClaim` stands for claims nobody waits for:
other devices, and a request of an attempt that has given up. Between two attempts
nothing is remembered but the registry, as in the code, where an attempt starts
with an empty map. `FileTransferProofs` — the proofs.

`RelayHub` — one session (sessions share nothing). A room is named by the
connection that created it. `Join` and `Leave` hold the hub's lock; the reader
and writer tasks interleave frame by frame; `Finish` is the return of `select!`;
an abort reaches a task some time after it was asked for, so a handler may leave
while its tasks still run. `ReceiverAlive` and `SenderAlive` spell out which
halves of the two channels still exist, which decides when `send` fails and when
`recv` returns `None`. `RelayHubProofs` — the proofs.

`DeviceStore` — the DEVICES and PAIRINGS tables. A worker is one HTTP request
(or one websocket) between two transactions; `requests` holds what it read. The
histories `founders` and `vouches` record how trust came about. `Abandon` is
possible only where nothing is written yet: no await separates a get from its
put. `Restart` cuts a request anywhere, because a process can stop between two
transactions. `DeviceStoreProofs` — the proofs.

`EventHub` — the global broadcast channel and the websocket of one device. The
channel is the sequence `log` with the device's `cursor`; `wire` is what was sent
and not read yet. `Connect` (hello received) and `Subscribe` are separate steps,
as `ws_handler` awaits between them. `Lag` is `RecvError::Lagged`: the receiver
goes on with the oldest event kept. `Disconnect` lets the device read any prefix of
what was under way. `missed` is a history. A device has its own task, receiver and
socket, so one is followed; the others appear as what they broadcast.

`ClipSync` — extends it by the agent's three tasks. The *poller*: `Read`
(clipboard and mode), `Ignore` or `Accept` (under the lock of `last_local_write`,
here `guard`), `Publish` or `PublishFails`. The *websocket loop*: `Receive`,
`Apply` (to the clipboard or, in isolated mode, to the inbox), `SetGuard` (the lock
is awaited after the clipboard is written), `Unreadable`, `HandlerFails` (which
ends the session, as any error of the handler does). The *hotkey*: `BorrowBoard`,
`ReturnBoard`. `board.by` records who wrote the clipboard, `poll.by` who wrote what
the poller holds, or that the loop overlapped the poll; `got` and `shared` are
histories. `ClipSyncProofs` — the proofs.

`Inbox` — the receiving side of one agent. A clip is its arrival number
(`next_arrival_seq`). A *worker* is the websocket loop, the hotkey loop or the task of a
button; `job` says where it is. `PushRow`, `Mark` and the assignment of `pending` are
three steps of the loop because the three locks are taken one after the other.
`TakeSlot`, `PullSucceeds` or `PullFails`, `SetGuard`, `ClearSlot`, `ShowDone` are the
steps of `apply_pending_file_clip` around `apply_file_clip`; a button claims its row
(`ClaimRow`), shares the middle, and ends in `ShowResult`. Pulling is not modelled again:
`fresh` says that of all attempts on a clip one at most succeeds, which is
`FileTransfer!OneAttemptPerFile`. `PollFiles` and `Compare` are the file branch of the
poller. `raced`, `held`, `tangled` and `poll.mixed` are histories. `InboxProofs` — the
proofs.

`RequestGate` — what every signed request passes. A request is its nonce. `Deliver` is its
arrival, for the first time or again, up to `validate_timestamp`, which reads the clock;
`Note` is the `Instant::now()` that `NonceCache::record` takes before it asks for the lock;
`Record` is the cache with the lock held, working with the time noted. Time passes between
the three, and the slots take them in any order: the one that noted the later time may get
the lock first. `came`, the time of the timestamp check, and `last`, the time noted for the
last acceptance, are histories. The wall clock and the monotonic clock are one clock, that
is, nobody sets the wall clock while the server runs. Time is counted in units of which the
skew and the lifetime of a nonce have equally many.

`ClipStore` — extends it by the handlers behind the gate: one step per transaction of
the database or lock of the simple inbox. `Clean` may work with any time since the call
began, because `cleanup_expired_clips` reads the clock before it waits for the writer.
`Restart` keeps the tables and forgets nonces, calls and the simple inbox. `stored`,
`told` and `deleted` are histories. `ClipStoreProofs` — the proofs.

`ServerController` — the tray's switch and the server tasks it starts. A task is
*opening* (`Store::open`), *binding*, *serving*, *draining* or *failed*, then *ended*;
`open` is the lock on the database file, which websockets may hold longer than the
task runs. `sender` is the controller's shutdown channel: using, replacing and dropping
it all end the task (`Told`). `stale` is a history.

`Tray` — extends it by the application around it. `config` and `idFile` are the two
files; `proc` the processes, each with a user interface and the agent it embeds. Nothing in
the code keeps the user from starting a second tray, so `Launch` is possible at any time.
The agent reads its state once (`LoadState`) and writes it back as it knows it (`WriteId`),
whatever any interface did to the file meanwhile; the interface saves the configuration,
clears the id if the server changed, spawns the next process and exits, four steps
between any two of which it may be killed. Every write may fail and leaves its file as it
was: saving the configuration is logged and forgotten (`Save`), clearing the id is
best-effort (`ClearId`), an agent that cannot write its state ends (`AgentFails`). A handler
loads and saves the configuration in one step, so two trays do not save in the same instant.
`astray` is a history of how an old server's id remains in the file: it was not cleared,
because the process ended or the state could not be read or written (`IdStays`), or an agent
wrote it back after another server was saved. `behind` is a history of the processes that
were at work when another tray saved settings, or were launched while another was about to
clear the id. `TrayProofs` — the proofs, those about the server controller included.

`MC*` — instances for TLC. A definition called `Mutant_X` is the code with a
plausible bug; it is not part of any specification. Each property is known to
fail when the definition it guards is replaced by one of them (`mutants` in
`PROJECT.json`).

## 3. Runs

| Run | Instance | What it shows |
|---|---|---|
| `peer_grants` | 2 publications of 2 files, 2 transfers, clock 0..1, 1 chunk; 55 537 states up to symmetry | no file is carried by two transfers or delivered twice; reservations have a transfer or were abandoned; only the holder ends a reservation; `OneTimeGrants` is implemented |
| `peer_grants_leak` | 1 file, 1 transfer | *violated*: `ReservationsAreLive`, see below |
| `file_transfer` | 2 attempts, 2 files of up to 2 chunks, 2 workers and stray claims of the recipient's own device; 176 938 states | a file reaches one attempt at most; what an attempt holds is spent or being committed; an attempt on the relay ends |
| `relay_fallback` | 1 attempt, 1 file | *violated*: `FallbackIsNotRefused` |
| `relay_hub` | 1 source and 2 recipient connections, queue of 1, budget of 2 frames, 5 frames sent (3 by the source, 2 by the first recipient); 249 518 states | delivery in order, unmixed and complete; no room outlives its handlers; a role is admitted again only to another room; expired sessions are forgotten; the directions do not block each other |
| `device_store` | 3 devices, 2 concurrent requests, 1 code, clock 0..1 | trust is handed on by the trusted only; only a stale rename takes it away |
| `clip_sync` | 2 texts, one sensitive, 2 events, channel of 1, connection of 2; 92 424 states | a remote clip is echoed only by an overlap; clips take effect in order; a subscribed device gets every clip, or falls behind, cannot read it, or loses the connection |
| `clip_swallow` | 2 texts, 3 events | *violated*: `EveryCopyIsPublished` |
| `clip_echo` | 2 texts, 3 events | *violated*: `NoEcho` |
| `inbox` | 1 text, 2 file clips, 2 rows, 2 buttons; 2 369 096 states up to symmetry | rows tell the truth about downloads; arrival numbers name the newest row; the slot loses nothing but to a hotkey paste of an older clip |
| `tray` | 2 processes, 2 server tasks, 2 addresses, 2 uses of the settings, two trays at once only without a server; 1 606 271 states up to symmetry | ids belong to the server they are used at; the server status is true; a new pairing code is tried before it is dropped |
| `clip_store` | 1 signed request delivered again and again, 2 slots, 2 clips, 1 session, clock 0..2; 2 405 969 states up to symmetry | a repeated request is refused by its nonce or its timestamp; events name what is stored; answers are fresh; a simple text is lost only to an overlap |

**Why the bounds are enough to be interesting.** Two tokens and two workers let a
transfer outlive its grant while another publication is served; two is also the
number of workers any property of `PeerGrants` speaks of. `Ttl = MaxTime = 1`
gives both a live and an expired clock for every grant registered at 0, and one
for which expiry never comes. In `FileTransfer` a second file makes "the rest
through the relay" different from "all", and two chunks make "cut short" happen
after something arrived. In `RelayHub` a queue of one frame is full after one
frame, the budget is smaller than what a client may send, and two recipient
connections are what it takes for one to meet the remains of the other. In
`DeviceStore` two requests make every race of a read with a write, three devices a
chain of vouching longer than one link; with `Ttl = 0` a code can be both
accepted and expired. In `ClipSync` a channel of one event lags as soon as two are
broadcast, a connection of two can lose the later of them, and two clips of two
texts give every relation between a clip, the clip before it, the guard and the
user's copy; the third event of `clip_swallow` is the device's own clip between
the stale guard and the copy it swallows. In `Inbox` a history of two rows drops one as
soon as the third clip arrives, two file clips make "another clip is in the slot by now"
happen, and two buttons and the hotkey can be at one clip. In `Tray` two processes are as
many as a relaunch makes, or a user who starts a second tray; two uses of the settings
suffice to change the server there and back, or to stop and start the server, or for each of
two trays to save; more processes come by relaunching after an exit, without bound. The
constraint `NoServerOfTwoTrays` (`MCTray`) leaves out what follows states in which two trays
are at work, neither about to exit, while a server task runs or has the database open: the
controller is a process's own and the files do not depend on it, and the theorems of
section 5 need no such bound. `ClipStore` has time for a clip and a nonce to expire while
another call waits; what several signed requests do to each other's nonces is proved, not run
(section 5).

Symmetry is used for tokens, workers, devices, buttons, processes, tasks, slots and clips
of the server, never in a run with a liveness property. Deadlock is checked everywhere but in `RelayHub`,
where a session really ends: all connections have been made and have left.

**Fairness.** `RelayHub!Fairness` is weak fairness of each handler, reader and
writer task: tokio does not starve a ready task, and a client that stays
connected goes on reading its socket (one that does not is only freed by
the deadline's abort, which is part of the same task's fairness). Nothing makes a client
connect, send or hang up, or the deadline pass. `FileTransfer!FairSpec` is weak
fairness of the recipient's own steps once it is connected to the relay: each
wait there is under `RELAY_RECV_TIMEOUT` (relay.rs:400), so either what it waits
for arrives or the timeout fires. Nothing is assumed of the source, of the
network, of connecting, or of a direct download, which the code does not bound.
`ClipSync!FairSpec` is weak fairness of the server's forwarding task and of the
agent's websocket loop. It assumes that a request the loop awaits is answered or
fails: the client sets no timeout of its own, so a server that accepts a request
and stays silent would hold the loop. Nothing is assumed of the poller, the user,
the hotkey or reconnecting.

## 4. Findings

1. **A reservation may leak** (`peer_grants_leak`). `download_file_inner` returns
   at `peer.rs:352-361` after `claim` reserved the index and before a
   `GrantStream` owns it; nothing releases the index, and the file is refused until
   the grant expires. The relay path releases in the same place.
2. **A fallback may be refused** (`relay_fallback`). The relay request may reach
   the source before the source has dropped the stream of the broken direct
   connection. The claim meets `in_flight`, answers "already downloaded", and the
   attempt fails although nobody has the file and nothing is served.
3. **A stale echo guard swallows a copy** (`clip_swallow`). The guard is cleared only
   by a poll that meets its text. A remote clip of the text already on the
   clipboard is no change for the poller, so its guard stays, and a later copy of
   that text is taken for the agent's own write, whatever was published since.
4. **A remote clip is published back** (`clip_echo`). The websocket loop puts the text on
   the clipboard (`agent/lib.rs:2313`) and sets the guard after waiting for a lock (2314).
   A poll in between takes the text for the user's. `docs/DESIGN.md:662-666` asks that the
   agent "avoid feedback loops", tag its own writes and ignore self-originated changes.
   `EchoNeedsOverlap` is what is left: no echo without such an overlap, and
   `FileEchoNeedsOverlap` the same of files, which are put on the clipboard before their
   guard as well (`agent/lib.rs:2774-2775`).

`PROJECT.json` quotes the document or comment each of the four disagrees with. The models
have other behaviour that disagrees with what the repository says of itself, and that no
run singles out; the text it disagrees with is quoted here:

- Saving settings unchanged makes a new device. `last_server_url` is written by
  `save_and_reconnect` only (`tray/app.rs:391-410`), so a tray that ran on the default server
  and saves its settings for the first time finds the server "changed", clears the device
  id and registers again, untrusted. `tray/config.rs:20-21`: "The server we last connected
  to; used to detect a server change".
- After a changed server is saved, the old id may stay in the state file and be presented to
  the new server: `clear_device_id` ignores errors (`tray/app.rs:423-433`), the process may
  end before it, and the agent that is being replaced may write its state afterwards
  (`agent/lib.rs:927`). `tray/app.rs:415`: "forces a clean re-registration on the new one".
- A pairing code can be dropped untried by a second tray that is connected already, and a
  consumed one can be offered again after a kill or a save that failed
  (`tray/app.rs:507-513`). `tray/app.rs:505-506`: "drop the one-shot pair code from the saved
  config so a later relaunch does not re-confirm an already-consumed code (a hard error)".
- `confirm_pairing` (`server/store.rs:131`) never looks at `confirmed`: a code works until it
  expires. `tray/config.rs:16`: "One-shot pairing code; cleared once the device is trusted".
- The peer's `leave` removes a room while the other member is still connected
  (`server/relay.rs:82`), so a further connection of that member's role is admitted.
  `server/relay.rs:56`: "Returns `None` if that role is already connected".
  `SecondOnlyAfterALeave` says how far this goes.
- Registration checks for an empty table and writes in separate transactions
  (`server/store.rs:66`): two first devices may both be trusted without a code.
  `docs/SESSION_HANDOFF.md:283-284`: "The first registered device in a fresh DB is
  automatically trusted for bootstrap" and "Later devices register as untrusted".
- A button's task that fails after the hotkey downloaded the same clip writes "failed" over
  "done" (`agent/lib.rs:633`). `agent/lib.rs:2635-2636`: "the UI's 下载 button must become the
  already-downloaded state instead of a doomed retry". `HeldIsShown` excepts clips two
  workers raced for.
- `Store::open` comes before `bind_with_retry` (`server/lib.rs:27`, `36`), so a server that
  is restarted while its predecessor, or a websocket of it, still has the database open
  fails at once. `server/lib.rs:46-48`: "When the embedded server is restarted by a tray
  re-exec, the previous process may not have released the port yet; a few short retries turn
  a fatal "address in use" into a brief wait" — a retry that is not reached.
- A repeated request passes if it was stamped ahead of the server's clock and its nonce is
  forgotten before the timestamp is too old, or if its timestamp was checked before the
  nonce ran out and the time noted, or the lock got, after it (`server/routes.rs:705`,
  `server/state.rs:130-132`). `docs/SESSION_HANDOFF.md:279`: "The server rejects stale
  timestamps and replayed nonces". `RepeatsAreRefused` rules out every other way.
- A clip that is stored after it expired, by a slow create or with a past `expires_at`, is
  listed by a call that had cleaned up just before. `docs/SESSION_HANDOFF.md:289`: "Clip
  `GET`/latest/history queries ignore expired clips". `AnswersAreFresh` excepts it.

And one that no document speaks of: a clip downloaded by its button stays in the pending
slot, and the next hotkey paste tries it again and is refused (`agent/lib.rs:2616`).

## 5. Proofs

`PeerGrantsProofs` proves for all tokens, devices, workers, numbers of files and
clock bounds: `TypeCorrect`, `TransfersExclude` (`[]OneTransferPerFile`),
`AtMostOnce` (`[]DeliveredAtMostOnce`), `Accounted`
(`[]ReservationsAccountedFor`) and `HolderSettles` (`OnlyTheHolderSettles`). The
assumptions are `ConstantsAssumption` of `PeerGrants`: `Source` is a device, the
numbers are naturals, `None` is none of the values it stands beside.

None of the invariants is inductive. That a claim cannot start a second transfer
of a file rests on every running transfer still holding its reservation
(`HolderIsReserved`) *or its grant being gone*: a transfer that outlives its
grant holds nothing. What saves the property then is that a token is registered
once (`UnusedIsUntouched`), so no new grant of that token can meet the old
transfer. That a delivery happens once rests on the registry and the history
agreeing (`ServedIsDelivered`) and on nobody running for a delivered file
(`RunningIsUndelivered`). `IInv` is the conjunction; each action has a
lemma `...KeepsIInv` with one step per conjunct, `RegistryCleaned` and
`ProgressKeepsIInv` serve the actions that only clean the registry or only advance
a job, and the lemmas `CleanedGrants`, `CommittedGrants`, `ReleasedGrants` say what
the registry's operations do.

`KeepsThePromise` (`ImplementsPromise`) is the refinement of `OneTimeGrants`, one lemma
per kind of step: `RegisterPublishes`, `ClaimReserves`, `RefuseExpires`,
`FinishDelivers`, `GiveUpGivesBack`, `OpenFailsAbandons`, `RestartRestarts` and
`OtherStepsStutter`. The set of publications that expire is what a use of the registry
cleans away (`Dropped`). That a reserved slot is not running, that an end takes its slot
out of `running`, and that a delivery is the first one need `IInv`: the claims the
promise makes are not visible in the step alone.

`FileTransferProofs` proves for any attempts, workers, files and chunks `OneAttempt`
(`[]OneAttemptPerFile`), `ReceivedIsNeverOffered` (`[]ReceivedIsSpent`) and
`TypeCorrect`. The source's half is not proved again: `Inv` is an instance of
`PeerGrantsProofs`, `SameRegistry` says that the two instances of the registry are one,
`SourceImplementsRegistry` that the whole system takes registry steps only, and
`TransfersKeepThePromise` carries the refinement over. The other half ties the ends
together: a linked worker carries its attempt's token, index and bytes (`LinkedAgree`),
an attempt has one connection (`OneConnection`), bytes add up (`AttemptsCounted`).
A file an attempt *holds* — in the cache or all of it on the way — is *spent*
(`HeldIsSpent`): closed at the registry for good, or carried by a worker that can only
commit it. That is what survives the recipient going away first, the source going away
first, and a restart; `OneHolder` follows, because a spent file has no second claim.
That the file an attempt asks for next exists is a least-element argument from the order
of the naturals (`FirstMissingExists`).

`RelayHubProofs` proves for any connections, capacity and budget `FramesArriveAsSent`
(`[]PipeIsFaithful`), `RoomsHaveMembers` (`[]NoOrphanRoom`), `NobodyIsReplaced`
(`[]SecondOnlyAfterALeave`) and `TypeCorrect`. That no room is orphaned rests on the
creator: it is in its room (`CreatorsJoin`), and nobody left a room that is still in the
hub (`NobodyLeft`). The pipe needs an equation that holds between the two tasks' steps,
`Accounted`: what was sent and what is queued is what the peer handed over, while the
writer lives; before the receiving role is taken, what is queued is already what the
peer will be found to have handed over (`Waiting`), and before the sending role is taken
there is nothing (`NothingFromNobody`).

`InboxProofs` proves for any texts, files, buttons and length of the history
`MarkersNameTheNewest` (`[]MarkersAgree`), `RowsAreTrue` (`[]RowsTellTheTruth`),
`DownloadsAreShown` (`[]HeldIsShown`), `NothingElseEmptiesTheSlot` (`SlotIsKept`),
`EchoNeedsOverlap` (`FileEchoNeedsOverlap`, which no run checks: the one exception it makes
is the file form of finding 4) and `TypeCorrect`. The invariant says where
each worker can be and with which clip (`JobsFit`), that nothing is about a clip before
it arrived (`NothingEarly`), which number belongs to the first row (`Newest`), who works
on a downloading row (`RowsFit`) and that two workers meet only on a clip recorded as
raced (`Apart`). `ShowsHeld` strengthens `HeldIsShown` by who will still show what was
downloaded; `SlotFits` says that the slot is never older than what is applied from it;
`BoardFits` and `PollFits` that files of the agent's own on the clipboard are guarded,
seen, or about to be guarded by their one writer.

`TrayProofs` proves for any processes, server tasks, addresses and uses of the settings
`SwitchTellsTheTruth` (`[]StatusIsTrue`), `IdOfTheRightServer` (`[]RightServer`),
`CodesAreTried` (`CodeIsTriedFirst`) and `TypeCorrect`, whichever writes fail and however
many trays the user starts. A process that no other tray has overtaken (not `behind`) runs
with the configuration as it is, and nobody is about to clear the id it reads
(`ConfigFits`); the id in the file is of the configured server, is about to be cleared, or is
astray (`FileFits`), and so is what an agent carries (`IdFits`). The controller's half needs one
more fact, that a task which has not ended has a process (`Owned`).

`DeviceStoreProofs` proves `TypeCorrect`, `ChainOfTrust` (`[]TrustIsHandedOn`) and
`RenamesDemote` (`TrustLostOnlyToStaleRename`) for any devices, codes and number of
concurrent requests. The strengthening
`TrustIsBacked` extends the claim from the table to everything a request carries
from one transaction to the next: the vouching device of an approval or of a code,
and the trust recorded in a snapshot that will be written back. That a heartbeat does not
take trust away rests on `TouchedWereTrusted`: a websocket's device was trusted when it
connected, so a websocket that read it untrusted read what a rename had done.

`ClipSyncProofs` proves `TypeCorrect`, `NoEchoWithoutOverlap`
(`[]EchoNeedsOverlap`) and `ClipsAppliedInOrder` (`AppliedInOrder`) for any texts
and bounds, from `HubAssumption` and `ClipAssumption`. Order rests on `InOrder`: what
was applied lies before what is handled, that before what is under way, that, in
increasing order (`WireSorted`), before the cursor, also while a broken connection is
read out and a new one is not yet subscribed. The absence of echoes rests on
`Guarded`: while a text of the loop's is on the clipboard or in the poller's hand,
the guard names it, the poller has seen it, or the loop is about to set it.

`ClipStoreProofs` proves all that `clip_store` checks: `TypeCorrect`,
`RepeatsRefused` (`RepeatsAreRefused`), `AnnouncedIsStored`
(`[]ToldOfWhatIsStored`), `AnswersStayFresh` (`[]AnswersAreFresh`) and
`InboxLosesToOverlap` (`TextIsLostOnlyToOverlap`), for any number of requests, slots,
clips and sessions, any clock drift, skew and lifetime of a nonce, from
`GateAssumption` and `StoreAssumption`. That repeats are refused rests on two facts. What was
accepted is in the cache until its lifetime is over by the server's clock
(`AcceptedIsKept`), in whatever order the slots get the lock: a slot forgets what ran out by
the time it noted, which is never ahead of the clock (`KeptIsKept`). And what a slot holds
was in time when its timestamp was checked (`WaitsInTime`), so a repeat whose timestamp was
checked after the nonce ran out shows a stamp of which the skew outlives the nonce.
The store's half follows each slot: what it is about fits what it
does (`Suits`), what it lists or answers with was live or not yet stored when it began
(`Fresh`), what it is about to announce is stored, deleted or expired (`ToTell`). The
handlers' lemmas say that a handler keeps to its own slot (`HandlersKeepToTheirSlot`)
and how the store may change (`HandlersOnTheStore`); the rest is about that slot.

Every inductive invariant was first checked by TLC on the instance of the component's run.
The assumptions are those the modules declare: sizes and times are naturals, `None` and its
like are none of the values they stand beside, a default is a member of its set.

Only model-checked are the liveness properties `RoomsAreFreed`, `FullDuplex`
(`RelayHub`), `RelayBounded` (`FileTransfer`) and `Delivered` (`ClipSync`): the prover can
treat neither fairness nor ENABLED. Every invariant and action property that a passing run
checks is a theorem as well. The properties of the four findings are false and have runs only.

## 6. Plan

Done: the modules of section 2 and the proofs of section 5. Next, in this order; each
module gets one action per operation, constants with named assumptions and no RECURSIVE
operator where a proof is meant to follow.

1. *The safety part of the liveness properties*: what a reader held by a full queue waits
   for is its own peer (`FullDuplex`), and no clip announced while subscribed is
   skipped without being recorded as missed (`Delivered`); both are invariants of the
   existing modules that a theorem can state.
2. *Clients and the clip store as refinements*: a specification of what a recipient is
   promised of one clip, implemented by `EventHub` with `ClipSync`.
3. *Two agents*: the automatic apply of files of two devices that wait for each other's
   relay tasks; events to one device, online and offline events.

## 7. Not modelled, and why

Cryptographic primitives: a signature is whether it checks out, a sealed body is
whether it opens. File contents are chunks and a comparison that may fail. Header
parsing, URLs, paths (`safe_cache_path` is a pure function over strings with unit
tests of its own), the command line, key files, mDNS, platform clipboards,
hotkeys and paste simulation, the tray's screens and the vendored toolkit are
conversions, I/O or drawing without protocol state. A file is written in one step:
`fs::write` is not atomic, and a torn configuration or state file is not modelled. The
relay in `FileTransfer` is the pipe that
`RelayHub` shows it to be: in order, or broken. A source's idle timeout only ends a
relay task between two files, which the model covers by nobody serving the next
request. Control frames that neither carry data nor end the connection restart the
recipient's timeout in the code; the server's relay sends none of its own.
