# docker-control in TLA+

docker-control is an HTTP server that gives each client key a Docker container
(a *sandbox*), replaces it by another image, takes and restores snapshots of it,
and streams commands into it over a WebSocket.  This directory holds TLA+
modules of its concurrent parts, TLC runs over small instances of them, and
theorems checked by TLAPS.

Check one run with `tlc -config MCSandboxes.cfg MCSandboxes.tla`, the proofs of
one module with `tlapm Sandboxes_proofs.tla`.

## 1. The system

Every HTTP request is a goroutine.  The controller itself remembers very
little: the map of image pulls (under `pullMu`) and the number of open terminal
windows (an atomic counter).  Everything else lives in Docker, and a request is
a sequence of calls to Docker without any lock around them.  What two requests
do to one key is therefore decided by the order of their calls and by the few
things Docker refuses: a name that is taken, a container that is gone, an image
that is missing, the start of a container that runs.

| component | code | state | operations |
|---|---|---|---|
| image preparation | docker.go `PrepareImage`, `pullImage` | `imagePull` map, `imagePullState`, Docker's images | inspect, join a pull, take its result, start one; the pull goroutine |
| sandbox operations | server.go handlers, docker.go `Ensure`, `Remove`, `RestoreSnapshot`, `createSandbox`, `waitForReady` | Docker's containers with their labels, names, health | PUT, DELETE, rebuild, restore, health |
| terminal | terminal.go, websocket.go, docker.go `ExecStream` | `open`, one connection per window, its read deadline | acquire, upgrade, command, output, idle reclaim, release |
| snapshots | docker.go `CreateSnapshot`, `ListSnapshots`, `RemoveSnapshot` | labelled images, the staging directory in the sandbox | capture, list, delete |
| output stream | docker.go `readDockerStream` | output so far, truncation flag | cut at the limit, hand on |
| files | docker.go `WriteFile`, `ReadFile` | - | a readiness check, one or two calls to Docker |
| configuration, port, runtime file | runtime.go, types.go | the configuration file, the runtime file | search a free port, write the file |
| deployment | command.go, the systemd unit it writes | binary, unit, configuration, marker and runtime files; systemd's link and service | server, install, uninstall, config, status |

How they interact: PUT, rebuild and health call `PrepareImage`; a restore calls
`createSandbox` with the snapshot's image; a terminal window calls `ExecStream`,
which needs a ready sandbox, and so do the two helper commands of a capture, which are
run in the very container that is captured; a container that is created from a
snapshot copies the staging directory of the image back when it starts; a new
process of the server finds the containers and images of the old one and an
empty pull map; the deployment's commands change the files that a restarting
service reads and writes, and uninstall deletes sandboxes under a server that it
may have failed to stop.

What makes each of them correct, and what is hard about it:

- *Image preparation.* One pull per image at a time; every failure of a pull is
  told to exactly one call; "ready" is true.  Hard: the inspect is made before
  the lock, and the result of a pull is believed without another inspect.
- *Sandbox operations.* One sandbox per key; a sandbox is deleted only by a
  request entitled to it, and not by one that is then told to wait for its image; a
  token opens the sandbox it comes with; a restore never leaves a key without a
  sandbox.  Hard: every decision is made on a listing and acted on by id
  several calls later; each call can be refused, lose its answer, or be
  cancelled when the client goes away; there are two containers of one key in
  the middle of a restore.
- *Terminal.* Slots are neither lost nor given twice; events come in the
  documented order; idle windows are reclaimed; commands end.  Hard: the
  compare-and-swap loop, the deferred release on every way out, a read deadline
  that lasts over pings, writes without a deadline.
- *Command output.* The client gets the first `MaxOutputBytes` bytes, and is told of
  truncation if and only if there were more.  Hard: the frame that ends exactly
  at the limit, and the one that crosses it.
- *Snapshots.* A snapshot that was answered holds the workspace of its sandbox and
  nothing else; a key has at most ten.  Hard: concurrent captures share one
  staging directory, which is emptied by the preparation of each and by the
  deferred cleanup of each; a crash leaves it behind, a commit puts it into the
  image; the limit is compared long before the commit.
- *Deployment, runtime file.* systemd never executes half a binary; what is
  installed has the marker without which uninstall refuses to remove it; an uninstall
  that reports success left nothing; the runtime file says where the server listens; an
  installed service comes back.  Hard: every command is a sequence of system
  calls that may be killed or fail anywhere, `os.WriteFile` empties before it
  writes, nothing is locked, and the service restarts by itself in between.

`PROJECT.json` lists the hazards line by line, with the properties that would
notice them.

## 2. The modules

    ImagePull  <---- INSTANCE ----  Sandboxes  <-- SandboxRequirements <-- MCSandboxes
        |                               |
    ImagePull_proofs  <-- INSTANCE --  Sandboxes_proofs (extends SandboxRequirements)
                                        |
            SandboxAnswers_proofs  and  SandboxItems_proofs (extend Sandboxes_proofs)
                                        |
                                    SandboxRestores_proofs (extends SandboxItems_proofs)

    WindowSlots, OutputStream  <---- INSTANCE ----  TerminalHub <-- TerminalHub_proofs
                                                        |
                                                    MCTerminalHub

    Snapshots <-- MCSnapshots            Deployment <-- MCDeployment
        |                                    |
    Snapshots_proofs                     Deployment_proofs

**ImagePull.** A call of `PrepareImage` has two steps.  `Inspect` is the request
to Docker, without the lock; the section under `pullMu` is one step, with one
action per way out: `JoinPull`, `TakeResult`, `StartPull`.  The goroutine of a
pull is a `Pulls` object with a phase: `running`, `landed` (Docker has stored
the image, `done` is still open), then `ok` or `failed` (closed, by
`state.err`).  `PullEnds` may fail before or after the image landed.
`SilentFailures` is the set of images whose failed pull Docker may report inside
the body of a 200 answer, which `pullImage` discards; `Removable` the set that
others may remove from Docker.  `ImageArrives` is an image that comes without a pull
of this process: Docker goes on with a pull whose goroutine has given up or died, or
somebody else pulls.  `Restart` is a new process.

**Sandboxes.** `containers` is Docker's table, `req` the request goroutines.
One action is one call to Docker together with the code up to the next one;
`pc` says which call is next.  The names follow the code: `Find`, `Start`,
`List`, `Create`, `Boot` (the start in `createSandbox`), `Await`
(`waitForReady`), `Replace` (the delete of a switch), `Undo` (the ignored delete
after a failure), `FindOld`, `DropOld`, `Rename` (restore), `Version` (health).
`Call` is the outcome of a call: done and answered; refused before it had an
effect; done with the answer lost; or cut by the client going away, after which
the request's context is cancelled and nothing is sent any more.  `Reject` is
Docker's own refusal, with the 304 of a second start, which `dockerStatus`
treats as an error.  A request creates at most one container and generates one
token, so that the request's own identity stands for both.  `HealthPasses` and
`ContainerFails` are the containers' own life; `Crash` is the end of the
process and the start of another one; `PullMoves` are the pull goroutines.
PrepareImage is ImagePull's, by INSTANCE: the requests are its callers.  A request
whose image is not there yet is told to ask again in one of two ways, and the model
keeps them apart: "preserved" before its deletion ("current sandbox was preserved",
docker.go:113 and server.go:259), "preparing" before a creation, perhaps after a
deletion ("retry after the controller finishes pulling it", docker.go:135).
`FindOld` may fail for want of the snapshot or of a sandbox, or by a failed call
(`findSnapshot` and `find`).

**SandboxRequirements.** The promises, over the steps of Sandboxes.

**TerminalHub.** One goroutine per window, with `pc` for where `Serve` is:
`load` and `swap` of `acquire`, `upgrade`, `read`, `exec`, the name of the event
it is about to write, `close`, `release`.  `expired` is the read deadline, which
is set once per message and not for each frame.  The client reads, is stalled
(keeps the connection and does not read) or is gone.  A write waits for a
stalled client, as `writeFrame` does, which has no deadline.  `stream` is the
OutputStream of the running command and `produced` what it has printed: `Output` is a
frame of any size, cut by `readDockerStream` and written as an event.

**WindowSlots.** The abstract hub: windows open and close in one step, at most
`MaxWindows` at a time.  TerminalHub implements it with `holders <- Holders`.

**OutputStream.** The accounting of `readDockerStream`: `Accept` is one frame,
`Accounts` the reference, a function of the total only.

**Snapshots.** One key.  `box` is its containers, each with the files of its
workspace and the staging directory; `images` the labelled images; `req` the requests.
A capture goes through `List` (the limit), `Find` (`requireReady`), `Prepare`
(`rm -rf` and `mkdir` by an Exec, which looks the key up again), `CopyFile` and
`Copied` (the archive passes the files one by one, while commands change them), `Commit`,
`Confirm` (`findSnapshot`), `Cleanup` (deferred, by a context of its own); a deletion
through `Lookup` and `Drop`.  `Call` is an answer, a refusal, or an effect whose answer
is lost.  `BoxGoes` and `BoxComes` stand for what Sandboxes models in detail.  The
variables `kept`, `seen` and `alone` are history, and no guard reads them.

**Deployment.** One root, one service, and the operator's commands.  A step is one
system call or one call of systemctl or Docker; `os.WriteFile` and the copy of the
binary are two, `Open` and `Fill`, and a file is absent, empty or whole.  `pc` is
the next call: `stat` and `statMarker` (`ensureLocalFiles`, `ensureMarker`), `listen`
(`ListenWithFallback`, one port a step), `openRuntime` to `renameAgain`
(`WriteRuntimeFile`), `openBin` to `renameBin` (`copyExecutable`), `link`, `enable`,
`disable`, `unlink`, `list`, `remove`, `snapshots` (`cleanManagedSandboxes`), `check`,
`removeFiles` (`safeRemoveState`).  `StartService` is systemd's Restart=on-failure,
`Kill` a signal or an error that ends the command where it is.  `Unlink` may leave
the link: `removeOwnedUnitLink` can fail, and `runUninstall` ignores it.  `alone`,
`quiet`, `spoilt` (files were removed under a server or in part), `torn` (a process was
stopped before the marker was whole) and `stuck` (the last uninstall could not remove
the link) are history; `alone` also tells `FillRuntime` whether another server can have
renamed the file that this one holds open.

Definitions marked as *variants* are used by no action.  They are plausible
mistakes (a dropped guard, a missing reset, a swapped order) put in place of the
definition they stand before, to see that a property notices: `PROJECT.json`
lists for each property of each passing run the variant that violates it.

## 3. The runs

| run | instance | what it shows |
|---|---|---|
| MCImagePull | 2 callers, 2 images, 2 pulls; `i2` fails silently and is removed by others, `i1` is benign | `OnePullPerImage`, `Registered`, `ReadyIsPresent`, `FailureIsReported`; under fairness `PreparingEnds` |
| MCSandboxes | 2 requests of every kind but restore, 1 key, 2 images, every fault | `OneSandboxPerKey`, `PreparingKeepsSandbox` |
| MCSandboxKeys | 2 requests of every kind that acts on containers, 2 keys, 2 images, 2 snapshots of one key; containers fail | `AnswerFits`, `NoLeftover`, `DeletesOnlyWhatItMay` |
| MCSandboxLive | 2 requests of every kind, 1 key, 2 snapshots; refusals, clients that leave, crash, images that disappear | `RestoreKeepsSandbox`; under fairness `EveryRequestAnswered` |
| MCTerminalHub | 3 windows, 1 slot, up to 3 bytes of output against a limit of 2; clients leave, stall or are silent | `SlotsCounted`, `EventOrder`, `OutputAccounted`, `SlotsImplemented`; under fairness `IdleIsLeft`, `CommandEnds` |
| MCSnapshots | 2 requests, 1 container at a time, limit 1; every fault | `LoneCaptureIsWhole`, `ExcessBounded` |
| MCDeployment | the service and 1 command at a time, 2 ports, 1 sandbox; one failure or kill anywhere | `BinaryWhole`, `Owned`, `RuntimeNames`, `UninstallCleans`; under fairness `ServiceReturns` |
| MCSilentPull | 2 PUTs, 2 images, one pulled with a hidden failure | `PreparingKeepsSandbox` violated |
| MCLimitSwitch | 2 PUTs, 2 keys, limit 1 | `LimitKeepsSandbox` violated |
| MCEnsureRace | 2 PUTs of one key, no fault | `EnsureYieldsSandbox` violated |
| MCRebuildToken | a rebuild and a PUT of one key, no fault | `TokenFits` violated |
| MCSnapshotRace | 2 captures, no fault | `CaptureIsWhole` violated |

The last five show where the code and its documents disagree:

- *MCSilentPull.* Docker answers 200 to a pull and reports the failure in the
  body, which is thrown away.  The next PUT takes the result "ok", deletes the
  old sandbox, inspects again before the creation, finds no image, starts another
  pull and answers "retry after the controller finishes pulling it"
  (docker.go:135).  The answer is true as far as it goes, but README.md:98-100 of the
  repository promises that the old container is replaced only once the new image is
  known to be usable, so that a failed switch does not lose the usable environment.
- *MCLimitSwitch.* A switch deletes first and compares with the limit after;
  when another key takes the place in between, the sandbox is lost.
- *MCEnsureRace.* A PUT finds the container that another PUT has created and not
  started, and starts it.  The creator is answered 304, takes it for a failure
  and deletes the container.
- *MCRebuildToken.* A rebuild answers with its own token also when its `Ensure`
  found a container that a PUT created in between with another token.
- *MCSnapshotRace.* Two captures of one sandbox: the second empties the staging
  directory that the first has copied into and commits next.  The first answers
  201 with a snapshot that lacks files of the workspace.

Bounds, and why they are enough.  Each property speaks of what one request does with
what another one changed, so that two requests show every conflict of two.  They do
not show a conflict of three: `NoLeftover` once had no exception for restores that fail
after their deletion beside a PUT, and held in all instances of two requests; the attempt to prove it led to the
run of three in which a PUT that has found nothing creates its container between the
delete and the rename of a restore, with a second restore beside them.  The
theorems of section 4 now say of each safety property of the passing runs that the
number of requests does not matter, and `NoLeftover` and `RestoreKeepsSandbox`
were run with three requests as well (up to 3.3 million states).  A request is made
once in the runs of Sandboxes, so that these instances end and deadlock is not
checked there (in the other passing runs, whose processes go on for ever, it is).  One key makes the
requests collide; MCSandboxKeys has a second one for the questions about keys.
Two images make a switch.  Initially a key has no sandbox or one, running or
exited, of either image.  `Pulls` objects and `Windows` are reused, so that
there is no bound on how many pulls or windows there are over time.  `MaxProduced`
bounds the bytes a command prints; it is above `MaxOutput`, so that frames stay
below the limit, meet it and cross it.

In MCSnapshots requests, containers and identifiers are reused as well, so that
captures follow each other for ever; one file is enough to be missing or left
over, and the variation with two (3.5 million states) shows the same.  Three
identifiers leave one free when the limit of one is exceeded by one.  In
MCDeployment one command at a time is what an operator does, beside a service that
starts whenever it can; `Fallbacks` goes beyond `MaxPort`, so that of the two bounds of
the port search it is `MaxPort` (65535 in the code) that ends it, and the number of
fallbacks never does; `MaxFaults` bounds failures and kills together, and one may hit
any step of any process.  Two commands at a time (a foreground server beside the
others) without faults were run to nine million states without a violation and not
to the end.  Requests, pull objects and files are symmetric; runs with liveness use
no symmetry.

Fairness.  ImagePull: a pull ends, because its context has ten minutes
(docker.go:723).  Sandboxes: each request goes on, because the Go scheduler runs
its goroutine, Docker answers (the HTTP client has no timeout of its own; a
Docker that never answers is not covered), and `waitForReady` has a deadline of
five seconds; pulls end.  TerminalHub: each goroutine goes on where it is not
waiting for its client, the idle deadline passes, and `ExecStream` ends by its
timeout and its context.  Deployment: the service's process runs on, and systemd
starts it again three seconds after a failure (RestartSec=3s, too slow to meet
systemd's start limit).  No client is assumed to send, leave or read, no
container to become healthy, and the operator to do nothing at all.

Limits of what the runs say, each found by running the variation:

- Two concurrent creations for different keys pass the limit's check together
  and exceed it; no property claims that the limit holds.
- A restore may delete what it found and then fail to take over the key's name: a PUT
  that had found nothing before has the name by then, or what it deleted was
  the temporary container of another restore, and the old sandbox still has it.
  It answers an error and its own container stays under the temporary name.
  `NoLeftover` leaves these restores out.  Where calls to Docker can fail as well, the ignored
  outcome of `Undo` leaves containers too; its run has no such faults.
- `RestoreKeepsSandbox` is false when the answer to the delete of the old
  container is lost after its effect: the restore takes this for a failure and
  deletes the new one too.  The run has every other fault but not this one.
- `CommandEnds` and `IdleIsLeft` speak of windows whose client does not stall.
  `writeFrame` (websocket.go:163) has no deadline: a client that stops reading
  holds its command and its slot as long as it likes, although README.md:146 of
  the repository has commands limited by their timeout only.
- `PreparingKeepsSandbox` needs images that are benign, not in `SilentFailures`
  and not in `Removable` (MCSilentPull).
- The limit of snapshots, ten per key (README.md:105), is exceeded by concurrent
  captures; `ExcessBounded` says by how many.
- `LoneCaptureIsWhole` is false with two containers of the key at a time
  (`MaxLive = 2`, the middle of a restore): a capture prepares by key what it then
  copies by id.  Files written during a restore have the same weakness.
- A failed stop of the service is ignored by uninstall (command.go:545); the server
  that lives on then makes sandboxes and files again.  `UninstallCleans` is stated
  for uninstalls after whose stop no server ran.  Creations that Docker still
  works on when the server is killed are not modelled either.
- Two servers of one root write the same `runtime.json.tmp`: one may fail to start,
  and remove the runtime file of the other.  `RuntimeNames` speaks of a server
  that named itself alone, `ServiceReturns` of a service beside which no other
  server is naming itself for ever.
- A kill between the Remove and the Rename of `copyExecutable` leaves no binary:
  `BinaryWhole` allows it, `ServiceReturns` assumes there is one.
- A marker that was opened and not written makes every later uninstall refuse; a
  configuration that was, or one given by `--env-file` without a token, gives the
  server a token that is stored nowhere.  Nothing repairs them.
  `Owned` says when this can be: only after a process was stopped on its way to the
  marker (`torn`) and before another one has written it whole.
- Uninstall ignores that it cannot read or remove the link to the unit, or that the link
  is another deployment's (command.go:546, 566-582), and reports success with the link
  left, although README.md:262 of the repository says that it unloads the service.
  `UninstallCleans` excepts the link in exactly this case (`stuck`).
- An interrupted `RemoveAll` may leave files without their marker, which uninstall then
  refuses to remove; `Owned` leaves this case out (`spoilt`).

## 4. The proofs

All theorems hold for any sets of requests, keys, images, pulls and windows that
satisfy the `ASSUME` of the module.

- **ImagePull_proofs.** `PullTypeCorrect`; `OnePullAtATime` from the inductive
  invariant `Registered`: every entry of the map is an object of that image which
  is not free, and *every object that is not free is the entry of its image*.  The
  second half is what makes two pulls of one image the same object.
  `ReadyMeansPresent` from `ReadyInv`, which adds that a pull which landed or ended
  well has its image.  `FailuresAreReported`: only `TakeResult` and `Restart`
  change the entry of a failed pull (`EntryLeavesWithAnswer`), and a call that answers
  the error takes the entry with it (`AnswerTakesEntry`), so that no second one can.
- **Sandboxes_proofs.** `SandboxTypeCorrect`: types, and that a request is inside a
  function its operation calls (`OnCourse`), without which `AfterReady[pc]` and
  `containers[item]` would not be defined.  The lemma `RequestsUseImagePull`,
  `Spec => Pull!Spec`, carries ImagePull's theorems over to the requests; as each action
  of Sandboxes is built from one of ImagePull or leaves its variables alone, it says
  nothing of the code by itself.  `OneSandbox`: without restores a key has one
  sandbox at most; the inductive invariant `NameInv` says that every live container
  has the canonical name of its key and that names are unique, which is the only
  thing that stands between two concurrent creations.  Restores are excluded
  because they make a second container under another name on purpose.
- **SandboxAnswers_proofs.** `PreparingIsHarmless`: a request told to ask again for its
  image, in either way, has not deleted its sandbox.  The theorem assumes that Docker reports the
  failures of its pulls and that nobody removes images; MCSilentPull shows that the
  assumption is needed.  `ReadyMeansPresent` comes from ImagePull through
  `RequestsUseImagePull`; the inductive invariant `KeptInv` says that a request which is about
  to delete for the sake of an image, or has deleted, has that image and is not in
  the section between a failed inspect and the lock.
- **TerminalHub_proofs.** `HubTypeCorrect` and `SlotsAreCounted` from `HubInv`: the
  counter equals the number of holders, and what a window has loaded in
  `acquire` is below the limit (`SeenBelow`); without the latter a
  compare-and-swap that succeeds might pass the limit.
  `HubImplementsSlots`: every step of the hub is a step of WindowSlots or a stutter.
  `EventsInOrder` from `Stories`: where a window is determines what its last event can
  have been.  `OutputIsAccounted`, for any limit and any division into frames, from
  `Accounted`: the stream of a command agrees with what it has produced at every
  moment of it, not only when it is reported, and the last event of a window that
  executes is "output" exactly if bytes were handed on.

- **SandboxItems_proofs.** `AnswersFit` and `DeletesOnlyAllowed`, for every operation and fault.
  A request finds a container in one call and deletes or answers it in
  another, with other requests at work on the key in between.  The inductive invariant `ItemInv` says what
  each request may rely on: its own container is not made yet, or has its key and
  image; the container it found has its key, and the image it asked for or
  another one, as its place in the code requires.  It survives the steps of others because
  no step changes the key or image of a container that was made (`Lasts`), and a
  container is made by the request of its own identity (`LastsBut`).
- **SandboxRestores_proofs.** `RestoresLeaveNothing`: `NoLeftover`, if every call to Docker is answered, no client
  leaves and the controller is not restarted (`CallsSucceed`; containers may
  fail).  All three are needed, because a restore that cannot delete its own container
  leaves it.  `TidyInv` says who has a name other than its key's: a restore that
  is not over, or one that failed after it had deleted.
  `RestoresKeepSandboxes`: `RestoreKeepsSandbox`, if no answer is lost after its effect (section 3 says
  why), whatever else fails.  What makes it hard is that a restore may find, and later delete, the
  temporary container of another one, which in turn is about to delete what it found,
  and so on.  `KeepInv` has a rank in which what is found comes before what is
  made to replace it.  A request that lost its container before
  it deletes is then `Outlived` by a younger one, ready and beyond the point where it would give up, and
  the chain of those who replace each other ends.  Without the
  rank the chain might be a cycle in which all delete each other.  The rank is
  bound by an existential quantifier, and raised for a request when it finds.
- **Snapshots_proofs.** `SnapshotTypeCorrect`.  `ExcessIsBounded`: the bound itself is not inductive;
  `ExcessInv` adds to the listed snapshots the captures between the comparison with the limit and the
  commit.  `LoneCapturesAreWhole`, with one container of the key at a time
  (`MaxLive = 1`; false with two, section 3): `LoneInv` says of a capture
  that is alone that the staging directory holds, while it copies, only files that the
  workspace has had in the meantime, and of those that were there throughout all that it has
  passed; and at the commit all of them.
- **Deployment_proofs.** `DeploymentTypeCorrect`, `Spec => [](TypeOK /\ CourseInv)`: besides the types, a
  command is only at steps of its own mode, the service is no operator's command, and one operator
  command is under way at a time, from its beginning to its end; the other invariants rest on it.
  `BinaryIsWhole` (`BinInv`: when the installed binary is about to be replaced, its copy is not empty; it
  needs that only one operator command is under way).
  `FilesAreOwned` (`OwnedInv`: a command beyond `statMarker` has a marker behind it; and `MarkerIsMade`: an
  empty marker has a process about to fill it, and a configuration without a marker one on its way there,
  unless a process was stopped on that way).
  `RuntimeNamesServer` (`NamingInv`: a server that is alone among those naming
  themselves finds its own words in the temporary file).  `UninstallIsClean` (`QuietInv`: an
  uninstall after whose stop no server ran is alone, so that what it has removed stays removed; the link
  is gone from `unlink` on, or `stuck`).

With these, every safety invariant and every action property of the passing runs is a
theorem.  Two results of the proofs changed the model.  The counterexample to an
earlier `NoLeftover` is told in section 3.  And `Waited` had two guards of a CASE true at
once for a restore, of which TLC takes the first, while TLA+ leaves the choice open;
the guards now exclude each other.

Only model-checked are the liveness properties `PreparingEnds`, `EveryRequestAnswered`,
`IdleIsLeft`, `CommandEnds` and `ServiceReturns`: fairness and ENABLED are out of the prover's reach.

## 5. What is not modelled

- Payloads: file archives, command texts, environment, resource limits, hashes,
  headers and authentication.  Which token opens which sandbox is modelled, how it
  is compared is not.
- `WriteFile` and `ReadFile`: they keep no state.  What they do to the workspace is the
  action `Work` of Snapshots; a container that was replaced since the readiness
  check is answered 404 by Docker.
- WebSocket framing below whole frames, and JSON.
- Docker itself, but for the effects above.  Image names are images: the same
  reference always means the same image.  The image of a snapshot is taken to be
  there when it is restored, and to go when it is deleted; that Docker keeps
  an image which a container uses is left out.
- The values of the configuration: parsing, validation, the options of install that
  an existing configuration overrides, environment files.  `--migrate-legacy`, which
  copies another configuration and stops another unit.  Two installs at once, which
  would share `bin.tmp`: of commands other than servers one runs at a time.
- The preflight of `runServer`, which makes the same two calls as a health report.
- Read-only endpoints and commands (capabilities, list, get, openapi, status).

## 6. Plan

Done are ImagePull, Sandboxes, TerminalHub, OutputStream, Snapshots and Deployment,
with theorems for all safety properties of their passing runs.  Left:

1. An abstract registry of keys (each key has a sandbox or none, replaced in one
   step) that Sandboxes implements without restores.
2. `LoneCaptureIsWhole` with two containers of the key, for captures that no restore
   meets.
3. `PreparingIsHarmless` with images that others remove, for requests that delete nothing.
