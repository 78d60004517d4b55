----------------------------- MODULE Sandboxes -----------------------------
(***************************************************************************)
(* The sandbox operations of the controller, as HTTP requests that run     *)
(* concurrently and share nothing but Docker and the pull map:             *)
(*   PUT sandbox      Server.ensureContainer   -> DockerEngine.Ensure      *)
(*   DELETE sandbox   Server.deleteContainer   -> DockerEngine.Remove      *)
(*   POST rebuild     Server.rebuildContainer  -> PrepareImage, Remove,    *)
(*                                                Ensure                   *)
(*   POST restore     Server.restoreSnapshot   -> RestoreSnapshot          *)
(*   GET health       Server.health            -> Version, PrepareImage    *)
(* A step is one call to Docker together with the code up to the next one; *)
(* the controller takes no lock around them (pullMu only guards the map of *)
(* ImagePull).                                                             *)
(***************************************************************************)
EXTENDS Naturals, FiniteSets

CONSTANTS
    Requests,       \* HTTP requests (bound: each is made once)
    Existing,       \* sandboxes from before the controller started
    Keys,           \* sandbox keys
    Images,
    DefaultImage,   \* Config.Image
    Snapshots,      \* records [id, key, image]: image is SourceImage
    MaxContainers,  \* Config.MaxContainers
    Ops,            \* the operations clients use
    Faults,         \* what may go wrong: see Call, ContainerFails and Crash
    Pulls, None, PullMissing, SilentFailures, Removable \* as in ImagePull

ASSUME SandboxAssumption ==
    /\ Requests \cap Existing = {}
    /\ None \notin Requests \cup Existing \cup Keys \cup Images \cup Pulls
    /\ DefaultImage \in Images
    /\ \A s \in Snapshots : s.key \in Keys /\ s.image \in Images /\ s.id # None
    /\ MaxContainers \in Nat \ {0}
    /\ Ops \subseteq {"ensure", "remove", "rebuild", "restore", "health"}
    /\ Faults \subseteq {"refuse", "lose", "disconnect", "fail", "crash"}
    /\ PullMissing \in BOOLEAN
    /\ SilentFailures \cup Removable \subseteq Images

VARIABLES
    containers, \* Docker's containers, by identity
    req,        \* the requests
    present, imagePull, state, caller \* of ImagePull; a request is a caller

Pull == INSTANCE ImagePull WITH Callers <- Requests

vars == <<containers, req, present, imagePull, state, caller>>

(* A request creates at most one container, and generates one token        *)
(* (newSandboxSpec) that only this container gets: the request stands for  *)
(* both, and a container of Existing for its own token.                    *)
Ids == Requests \cup Existing

(* The name is prefix-key, or prefix-key-restore-id while a restore checks *)
(* the container.  "created" is a container that was never started.        *)
Canonical(k) == <<k, None>>
Names == (Keys \cup {None}) \X ({None} \cup {s.id : s \in Snapshots})

Absent == [status |-> "gone", healthy |-> FALSE, name |-> Canonical(None),
           key |-> None, image |-> None]
Statuses == {"gone", "created", "running", "exited"}

Live == {c \in Ids : containers[c].status # "gone"}

(* Variants, faulty on purpose; no action uses them.  Mutations replace    *)
(* the definition below by one of them, to see which property notices.     *)
(* Here: find without the key's label.                                     *)
OfAny(k) == Live

Of(k) == {c \in Live : containers[c].key = k}
Named(n) == {c \in Live : containers[c].name = n}
Running(c) == containers[c].status = "running"
IsReady(c) == Running(c) /\ containers[c].healthy

(* What a client may ask for, with the name its container would get.       *)
Orders ==
    {[op |-> op, key |-> k, image |-> i, name |-> Canonical(k)] :
        op \in Ops \cap {"ensure", "rebuild"}, k \in Keys, i \in Images}
    \cup {[op |-> op, key |-> k, image |-> None, name |-> Canonical(k)] :
        op \in Ops \cap {"remove"}, k \in Keys}
    \cup {[op |-> op, key |-> s.key, image |-> s.image, name |-> <<s.key, s.id>>] :
        op \in Ops \cap {"restore"}, s \in Snapshots}
    \cup {[op |-> op, key |-> None, image |-> DefaultImage, name |-> Canonical(None)] :
        op \in Ops \cap {"health"}}

NoOrder == [op |-> "none", key |-> None, image |-> None, name |-> Canonical(None)]

(* The steps of a request, by the function they belong to: Ensure (FindSteps *)
(* up to its call of createSandbox), createSandbox, Remove, RestoreSnapshot. *)
FindSteps == {"find", "start", "await", "prepareSwitch", "delete", "list", "prepareCreate"}
CreateSteps == {"create", "boot", "awaitNew", "undo"}
RemoveSteps == {"removeFind", "remove"}
RestoreSteps == {"findOld", "dropOld", "rename"}
Preparations == {"prepareFirst", "prepareSwitch", "prepareCreate"}
Steps == FindSteps \cup CreateSteps \cup RemoveSteps \cup RestoreSteps
            \cup {"version", "prepareFirst"}

(* "Ask again later": "preserved" says that the current sandbox was        *)
(* preserved, "preparing" only that the image is being pulled.             *)
Retries == {"preserved", "preparing"}
Replies == {"none", "ok", "failed", "limit", "error", "lost"} \cup Retries

Container == [status : Statuses, healthy : BOOLEAN, name : Names,
              key : Keys \cup {None}, image : Images \cup {None}]

(* order: what was asked.  item: the container found for the key.  dead:   *)
(* the request's context is cancelled.  deleted: it has deleted the        *)
(* container it found.  container and token: what an "ok" reply carries.   *)
Request == [order : Orders \cup {NoOrder}, pc : Steps \cup {"new", "done"},
            item : Ids \cup {None}, dead : BOOLEAN, deleted : BOOLEAN,
            reply : Replies, container : Ids \cup {None}, token : Requests \cup {None}]

(* A request is in a function that its operation calls, and inside         *)
(* PrepareImage only for its own image.                                    *)
OnCourse(r) ==
    LET op == req[r].order.op
        pc == req[r].pc
    IN
    /\ pc = "new" => op = "none"
    /\ pc \in FindSteps => op \in {"ensure", "rebuild"}
    /\ pc \in CreateSteps => op \in {"ensure", "rebuild", "restore"}
    /\ pc \in RemoveSteps => op \in {"remove", "rebuild"}
    /\ pc = "prepareFirst" => op \in {"rebuild", "health"}
    /\ pc \in RestoreSteps => op = "restore"
    /\ pc = "version" => op = "health"
    /\ caller[r].phase = "missed" =>
          pc \in Preparations /\ caller[r].image = req[r].order.image

TypeOK ==
    /\ containers \in [Ids -> Container]
    /\ req \in [Requests -> Request]
    /\ Pull!TypeOK
    /\ \A r \in Requests : OnCourse(r)

NewRequest == [order |-> NoOrder, pc |-> "new", item |-> None, dead |-> FALSE,
               deleted |-> FALSE, reply |-> "none", container |-> None, token |-> None]

(* Some keys have a sandbox already, made by an earlier process.           *)
Init ==
    /\ \E old \in SUBSET Existing :
       \E key \in [old -> Keys], image \in [old -> Images],
          status \in [old -> {"running", "exited"}] :
          /\ \A c, d \in old : key[c] = key[d] => c = d
          /\ containers = [c \in Ids |->
                IF c \in old
                THEN [status |-> status[c], healthy |-> status[c] = "running",
                      name |-> Canonical(key[c]), key |-> key[c], image |-> image[c]]
                ELSE Absent]
    /\ req = [r \in Requests |-> NewRequest]
    /\ Pull!Init
-----------------------------------------------------------------------------
(* Docker's side of a call, and what the request makes of the answer.      *)

Key(r) == req[r].order.key
Op(r) == req[r].order.op
At(r, pc) == req[r].pc = pc

Goto(r, pc) == [req[r] EXCEPT !.pc = pc]
Reply(r, code) == [req[r] EXCEPT !.pc = "done", !.reply = code]
Fail(r) == Reply(r, "error")
Deliver(r, c, token) ==
    [Reply(r, "ok") EXCEPT !.container = c, !.token = token]

Removed(c) == [containers EXCEPT ![c].status = "gone", ![c].healthy = FALSE]
Started(c) == [containers EXCEPT ![c].status = "running", ![c].healthy = FALSE]
(* Variant: a name that no other container can have.                       *)
CreatedUnique(r) == [containers EXCEPT ![r] =
                  [status |-> "created", healthy |-> FALSE, name |-> <<Key(r), r>>,
                   key |-> Key(r), image |-> req[r].order.image]]

Created(r) == [containers EXCEPT ![r] =
                  [status |-> "created", healthy |-> FALSE, name |-> req[r].order.name,
                   key |-> Key(r), image |-> req[r].order.image]]
Renamed(c, n) == [containers EXCEPT ![c].name = n]

(* DockerEngine.json: the request reaches Docker and its effect is         *)
(* answered, or it fails ("refuse": before the effect; "lose": after it),  *)
(* or the client goes away and the context is cancelled during the call.   *)
(* With a cancelled context nothing is sent any more.                      *)
Call(r, effect, ok, error) ==
    \/ /\ ~req[r].dead
       /\ containers' = effect
       /\ req' = [req EXCEPT ![r] = ok]
    \/ /\ req[r].dead \/ "refuse" \in Faults
       /\ req' = [req EXCEPT ![r] = error]
       /\ UNCHANGED containers
    \/ /\ ~req[r].dead /\ "lose" \in Faults
       /\ containers' = effect
       /\ req' = [req EXCEPT ![r] = error]
    \/ /\ ~req[r].dead /\ "disconnect" \in Faults
       /\ containers' \in {containers, effect}
       /\ req' = [req EXCEPT ![r] = [error EXCEPT !.dead = TRUE]]

(* Docker's own refusal: not found, name taken, or 304 for a start of a    *)
(* running container, which dockerStatus takes for an error as well.       *)
Reject(r, error) ==
    /\ req' = [req EXCEPT ![r] = error]
    /\ UNCHANGED containers

Ask(r, ok) == Call(r, containers, ok, Fail(r))

-----------------------------------------------------------------------------
(* DockerEngine.find by the managed and key labels, for each operation.    *)
(* Of several containers of a key, the first that Docker lists is taken.   *)

(* Variant: the old container goes before the new image is prepared.       *)
FoundUnprepared(r, c) ==
    [Goto(r, IF containers[c].image = req[r].order.image THEN "await" ELSE "delete")
        EXCEPT !.item = c]

(* Ensure: the image and state found here decide, and are not read again.  *)
Found(r, c) ==
    LET next == CASE containers[c].image # req[r].order.image -> "prepareSwitch"
                  [] containers[c].image = req[r].order.image /\ Running(c) -> "await"
                  [] OTHER -> "start"
    IN [Goto(r, next) EXCEPT !.item = c]

Find(r) ==
    /\ At(r, "find")
    /\ \/ \E c \in Of(Key(r)) : Ask(r, Found(r, c))
       \/ Of(Key(r)) = {} /\ Ask(r, Goto(r, "list"))

(* Variant: every removal goes on to Ensure.                               *)
AfterRemoveEnsure(r) == Goto(r, "find")

(* Remove: nothing to remove is no error; a rebuild goes on to Ensure.     *)
AfterRemove(r) == IF Op(r) = "rebuild" THEN Goto(r, "find") ELSE Reply(r, "ok")

RemoveFind(r) ==
    /\ At(r, "removeFind")
    /\ \/ \E c \in Of(Key(r)) : Ask(r, [Goto(r, "remove") EXCEPT !.item = c])
       \/ Of(Key(r)) = {} /\ Ask(r, AfterRemove(r))

(* RestoreSnapshot needs a snapshot, which findSnapshot may not find (it   *)
(* was deleted, or the call fails), and a sandbox to replace.              *)
SnapshotFound(r) == \E c \in Of(Key(r)) : Ask(r, [Goto(r, "create") EXCEPT !.item = c])

FindOld(r) == At(r, "findOld") /\ (SnapshotFound(r) \/ Reject(r, Fail(r)))

-----------------------------------------------------------------------------
(* Deleting the container that was found.                                  *)

Delete(r, ok, error) ==
    LET c == req[r].item IN
    IF c \in Live
    THEN Call(r, Removed(c), [ok EXCEPT !.deleted = TRUE], error)
    ELSE Reject(r, error)

Remove(r) == At(r, "remove") /\ Delete(r, AfterRemove(r), Fail(r))
Replace(r) == At(r, "delete") /\ Delete(r, Goto(r, "list"), Fail(r))
DropOld(r) == At(r, "dropOld") /\ Delete(r, Goto(r, "rename"), Goto(r, "undo"))

-----------------------------------------------------------------------------
(* Ensure.                                                                 *)

(* POST start of a container found stopped.                                *)
Start(r) ==
    LET c == req[r].item IN
    /\ At(r, "start")
    /\ IF containers[c].status \in {"created", "exited"}
       THEN Call(r, Started(c), Goto(r, "await"), Fail(r))
       ELSE Reject(r, Fail(r))

(* The limit is compared with what List returns at this moment.            *)
List(r) ==
    /\ At(r, "list")
    /\ Ask(r, IF Cardinality(Live) >= MaxContainers
              THEN Reply(r, "limit")
              ELSE Goto(r, "prepareCreate"))

(* createSandbox: Docker refuses a name that is taken and an image that is *)
(* missing.  A restore creates from the snapshot's own image.              *)
Create(r) ==
    /\ At(r, "create")
    /\ IF Named(req[r].order.name) = {}
             /\ (Op(r) = "restore" \/ req[r].order.image \in present)
       THEN Call(r, Created(r), Goto(r, "boot"), Fail(r))
       ELSE Reject(r, Fail(r))

Boot(r) ==
    /\ At(r, "boot")
    /\ IF containers[r].status \in {"created", "exited"}
       THEN Call(r, Started(r), Goto(r, "awaitNew"), Goto(r, "undo"))
       ELSE Reject(r, Goto(r, "undo"))

(* Deleting the request's own container after a failure, with the          *)
(* request's own context; the outcome is ignored.                          *)
Undo(r) ==
    /\ At(r, "undo")
    /\ IF r \in Live
       THEN Call(r, Removed(r), Fail(r), Fail(r))
       ELSE Reject(r, Fail(r))

(* Variants: a token for every answer; a restore that does not look at     *)
(* readiness; a restore that leaves the container it gives up.             *)
WaitedToken(r, c, ready) ==
    IF Op(r) = "restore" THEN Goto(r, IF ready THEN "dropOld" ELSE "undo")
    ELSE Deliver(r, c, r)

WaitedBlindly(r, c, ready) ==
    IF Op(r) = "restore" THEN Goto(r, "dropOld") ELSE Deliver(r, c, None)

WaitedLeaving(r, c, ready) ==
    IF Op(r) = "restore" THEN (IF ready THEN Goto(r, "dropOld") ELSE Fail(r))
    ELSE Deliver(r, c, None)

(* waitForReady polls until the container is ready or the deadline has     *)
(* passed; the latter is no error, the caller gets a container that is not *)
(* ready.  ensureContainer hands out the token only if it created the      *)
(* container, rebuildContainer always; a restore goes on by readiness.     *)
Waited(r, c, ready) ==
    CASE Op(r) = "restore" -> Goto(r, IF ready THEN "dropOld" ELSE "undo")
      [] Op(r) = "rebuild" \/ (Op(r) = "ensure" /\ At(r, "awaitNew")) -> Deliver(r, c, r)
      [] OTHER -> Deliver(r, c, None)

(* Variant: without the deadline.                                          *)
AwaitReady(r) ==
    LET c == IF At(r, "awaitNew") THEN r ELSE req[r].item IN
    /\ At(r, "await") \/ At(r, "awaitNew")
    /\ IF c \in Live THEN IsReady(c) /\ Ask(r, Waited(r, c, TRUE)) ELSE Reject(r, Fail(r))

Await(r) ==
    LET c == IF At(r, "awaitNew") THEN r ELSE req[r].item IN
    /\ At(r, "await") \/ At(r, "awaitNew")
    /\ IF c \in Live
       THEN \E ready \in {FALSE, IsReady(c)} : Ask(r, Waited(r, c, ready))
       ELSE Reject(r, Fail(r))

(* A restored container takes over the name of the one it replaces.        *)
Rename(r) ==
    /\ At(r, "rename")
    /\ IF r \in Live /\ Named(Canonical(Key(r))) = {}
       THEN Call(r, Renamed(r, Canonical(Key(r))), Deliver(r, r, r), Fail(r))
       ELSE Reject(r, Fail(r))

-----------------------------------------------------------------------------
(* A health report asks Docker for its version first.                      *)
Version(r) == At(r, "version") /\ Ask(r, Goto(r, "prepareFirst"))

(* PrepareImage: before a rebuild touches anything and for the health      *)
(* report, before a switch deletes, and before a creation.                 *)
AfterReady == [prepareFirst |-> "removeFind", prepareSwitch |-> "delete",
               prepareCreate |-> "create"]

(* Before its deletion a request is told that the sandbox was preserved;   *)
(* before a creation, perhaps after a deletion of its own, it is not.      *)
NotReady(r) == IF At(r, "prepareCreate") THEN "preparing" ELSE "preserved"

Prepared(r, verdict) ==
    CASE verdict = "missed" -> req[r]
      [] verdict # "missed" /\ Op(r) = "health" -> Reply(r, "ok")
      [] verdict = "ready" /\ Op(r) # "health" -> Goto(r, AfterReady[req[r].pc])
      [] verdict = "preparing" /\ Op(r) # "health" -> Reply(r, NotReady(r))
      [] OTHER -> Reply(r, "failed")

PrepareImage(r) ==
    /\ req[r].pc \in Preparations
    /\ \/ ~req[r].dead /\ Pull!Inspect(r, req[r].order.image)
       \/ /\ req[r].dead \/ Faults \cap {"refuse", "lose", "disconnect"} # {}
          /\ Pull!InspectFails(r, req[r].order.image)
       \/ Pull!Consult(r)
    /\ req' = [req EXCEPT ![r] = Prepared(r, caller'[r].phase)]
    /\ UNCHANGED containers

-----------------------------------------------------------------------------
(* A request arrives and is dispatched.                                    *)
FirstStep == [ensure |-> "find", remove |-> "removeFind", rebuild |-> "prepareFirst",
              health |-> "version", restore |-> "findOld"]

Arrive(r) ==
    /\ At(r, "new")
    /\ \E order \in Orders :
          req' = [req EXCEPT ![r].order = order, ![r].pc = FirstStep[order.op]]
    /\ UNCHANGED <<containers, present, imagePull, state, caller>>

DockerStep(r) ==
    /\ \/ Find(r) \/ RemoveFind(r) \/ FindOld(r)
       \/ Remove(r) \/ Replace(r) \/ DropOld(r)
       \/ Start(r) \/ List(r) \/ Create(r) \/ Boot(r) \/ Undo(r) \/ Await(r) \/ Rename(r)
       \/ Version(r)
    /\ UNCHANGED <<present, imagePull, state, caller>>

Step(r) == DockerStep(r) \/ PrepareImage(r)

(* The containers' own life: the readiness probe passes; and with "fail"   *)
(* the probe fails or the container stops.                                 *)
HealthPasses(c) ==
    /\ Running(c)
    /\ containers' = [containers EXCEPT ![c].healthy = TRUE]
    /\ UNCHANGED <<req, present, imagePull, state, caller>>

ContainerFails(c) ==
    /\ "fail" \in Faults
    /\ Running(c)
    /\ \E status \in {"running", "exited"} :
          containers' = [containers EXCEPT ![c].status = status, ![c].healthy = FALSE]
    /\ UNCHANGED <<req, present, imagePull, state, caller>>

(* Pulls, and images that come and go without them.                        *)
PullMoves ==
    /\ \/ Pull!PullStep
       \/ \E i \in Images : Pull!RemoveImage(i) \/ Pull!ImageArrives(i)
    /\ UNCHANGED <<containers, req>>

(* The process ends and is started again: requests under way get no answer,*)
(* the pull map is lost, containers stay.                                  *)
Crash ==
    /\ "crash" \in Faults
    /\ Pull!Restart
    /\ req' = [r \in Requests |->
                  IF At(r, "new") \/ At(r, "done") THEN req[r] ELSE Reply(r, "lost")]
    /\ UNCHANGED containers

Next ==
    \/ \E r \in Requests : Arrive(r) \/ Step(r)
    \/ \E c \in Ids : HealthPasses(c) \/ ContainerFails(c)
    \/ PullMoves
    \/ Crash

Spec == Init /\ [][Next]_vars

(* The Go scheduler runs every handler on, and a call to Docker returns:   *)
(* waitForReady has a deadline of five seconds.                            *)
FairSpec ==
    /\ Spec
    /\ \A r \in Requests : WF_vars(Step(r))
    /\ \A p \in Pulls : WF_vars(Pull!PullEnds(p) /\ UNCHANGED <<containers, req>>)
=============================================================================
