-------------------------- MODULE Sandboxes_proofs --------------------------
(***************************************************************************)
(* Theorems about the sandbox operations, for any number of requests,      *)
(* keys, images and older sandboxes, and whatever fails.                   *)
(***************************************************************************)
EXTENDS SandboxRequirements, TLAPS

(* The theorems of ImagePull, for the requests as its callers.             *)
PullProofs == INSTANCE ImagePull_proofs WITH Callers <- Requests

(* The operation of an order decides which of its fields mean something.   *)
LEMMA OrderFields ==
    ASSUME NEW o \in Orders \cup {NoOrder}
    PROVE  /\ o.op \in Ops \cup {"none"}
           /\ o.op \in {"ensure", "rebuild", "health", "restore"} => o.image \in Images
           /\ o.op # "restore" => o.name = Canonical(o.key)
           /\ o.name \in Names
           /\ o.key \in Keys \cup {None}
           /\ o.image \in Images \cup {None}
           /\ o.op = "none" <=> o = NoOrder
BY SandboxAssumption DEF Orders, NoOrder, Names, Canonical

(* Every continuation of a request is a request.                           *)
LEMMA Continuations ==
    ASSUME req \in [Requests -> Request], NEW r \in Requests
    PROVE  /\ \A pc \in Steps : Goto(r, pc) \in Request
           /\ \A code \in Replies : Reply(r, code) \in Request
           /\ \A c \in Ids, t \in Requests \cup {None} : Deliver(r, c, t) \in Request
           /\ \A q \in Request, c \in Ids : [q EXCEPT !.item = c] \in Request
           /\ \A q \in Request : [q EXCEPT !.deleted = TRUE] \in Request
           /\ \A q \in Request : [q EXCEPT !.dead = TRUE] \in Request
<1>1. /\ \A pc \in Steps : Goto(r, pc) \in Request
      /\ \A code \in Replies : Reply(r, code) \in Request
    BY DEF Request, Goto, Reply
<1>2. ASSUME NEW c \in Ids, NEW t \in Requests \cup {None} PROVE Deliver(r, c, t) \in Request
  <2>1. Reply(r, "ok") \in Request
      BY <1>1 DEF Replies, Retries
  <2>2. [Reply(r, "ok") EXCEPT !.container = c] \in Request
      BY <2>1 DEF Request
  <2>3. [[Reply(r, "ok") EXCEPT !.container = c] EXCEPT !.token = t] \in Request
      BY <2>2 DEF Request
  <2> QED BY <2>3 DEF Deliver
<1>3. \A q \in Request, c \in Ids : [q EXCEPT !.item = c] \in Request
    BY DEF Request
<1>4. \A q \in Request : [q EXCEPT !.deleted = TRUE] \in Request
    BY DEF Request
<1>5. \A q \in Request : [q EXCEPT !.dead = TRUE] \in Request
    BY DEF Request
<1> QED BY <1>1, <1>2, <1>3, <1>4, <1>5

(* What a request may become: of the same order, and on its course.        *)
Fits(r, q) ==
    LET op == req[r].order.op IN
    /\ q \in Request
    /\ q.order = req[r].order
    /\ q.pc # "new"
    /\ q.pc \in FindSteps => op \in {"ensure", "rebuild"}
    /\ q.pc \in CreateSteps => op \in {"ensure", "rebuild", "restore"}
    /\ q.pc \in RemoveSteps => op \in {"remove", "rebuild"}
    /\ q.pc = "prepareFirst" => op \in {"rebuild", "health"}
    /\ q.pc \in RestoreSteps => op = "restore"
    /\ q.pc = "version" => op = "health"

LEMMA Replying ==
    ASSUME TypeOK, NEW r \in Requests
    PROVE  /\ \A code \in Replies : Fits(r, Reply(r, code))
           /\ Fits(r, Fail(r))
           /\ \A c \in Ids, t \in Requests \cup {None} : Fits(r, Deliver(r, c, t))
<1> USE DEF TypeOK
<1>1. ASSUME NEW q \in Request, q.order = req[r].order, q.pc = "done" PROVE Fits(r, q)
    BY <1>1 DEF Fits, FindSteps, CreateSteps, RemoveSteps, RestoreSteps
<1>2. ASSUME NEW code \in Replies
      PROVE  Reply(r, code).order = req[r].order /\ Reply(r, code).pc = "done"
    BY DEF Reply, Request
<1>3. ASSUME NEW c, NEW t
      PROVE  Deliver(r, c, t).order = req[r].order /\ Deliver(r, c, t).pc = "done"
    BY DEF Deliver, Reply, Request
<1> QED BY <1>1, <1>2, <1>3, Continuations DEF Fail, Replies, Retries

LEMMA Going ==
    ASSUME TypeOK, NEW r \in Requests
    PROVE  /\ \A pc \in FindSteps : Op(r) \in {"ensure", "rebuild"} => Fits(r, Goto(r, pc))
           /\ \A pc \in CreateSteps :
                 Op(r) \in {"ensure", "rebuild", "restore"} => Fits(r, Goto(r, pc))
           /\ \A pc \in RemoveSteps : Op(r) \in {"remove", "rebuild"} => Fits(r, Goto(r, pc))
           /\ \A pc \in RestoreSteps : Op(r) = "restore" => Fits(r, Goto(r, pc))
           /\ Op(r) = "health" => Fits(r, Goto(r, "prepareFirst"))
           /\ \A q, c : Fits(r, q) /\ c \in Ids => Fits(r, [q EXCEPT !.item = c])
           /\ \A q : Fits(r, q) => Fits(r, [q EXCEPT !.deleted = TRUE])
           /\ \A q : Fits(r, q) => Fits(r, [q EXCEPT !.dead = TRUE])
<1> USE DEF TypeOK
<1>1. ASSUME NEW pc \in Steps
      PROVE  Goto(r, pc) \in Request /\ Goto(r, pc).order = req[r].order /\ Goto(r, pc).pc = pc
    BY Continuations DEF Goto, Request
<1>2. \A pc \in Steps : pc # "new"
    BY DEF Steps, FindSteps, CreateSteps, RemoveSteps, RestoreSteps
<1>3. ASSUME NEW pc \in FindSteps, Op(r) \in {"ensure", "rebuild"} PROVE Fits(r, Goto(r, pc))
    BY <1>1, <1>2, <1>3 DEF Fits, Op, Steps, FindSteps, CreateSteps, RemoveSteps, RestoreSteps
<1>4. ASSUME NEW pc \in CreateSteps, Op(r) \in {"ensure", "rebuild", "restore"}
      PROVE  Fits(r, Goto(r, pc))
    BY <1>1, <1>2, <1>4 DEF Fits, Op, Steps, FindSteps, CreateSteps, RemoveSteps, RestoreSteps
<1>5. ASSUME NEW pc \in RemoveSteps, Op(r) \in {"remove", "rebuild"} PROVE Fits(r, Goto(r, pc))
    BY <1>1, <1>2, <1>5 DEF Fits, Op, Steps, FindSteps, CreateSteps, RemoveSteps, RestoreSteps
<1>6. ASSUME NEW pc \in RestoreSteps, Op(r) = "restore" PROVE Fits(r, Goto(r, pc))
    BY <1>1, <1>2, <1>6 DEF Fits, Op, Steps, FindSteps, CreateSteps, RemoveSteps, RestoreSteps
<1>7. ASSUME NEW q, Fits(r, q), NEW c \in Ids PROVE Fits(r, [q EXCEPT !.item = c])
  <2>1. /\ [q EXCEPT !.item = c].order = q.order
        /\ [q EXCEPT !.item = c].pc = q.pc
      BY <1>7 DEF Fits, Request
  <2> QED BY <2>1, <1>7, Continuations DEF Fits
<1>8. ASSUME NEW q, Fits(r, q) PROVE Fits(r, [q EXCEPT !.deleted = TRUE])
  <2>1. /\ [q EXCEPT !.deleted = TRUE].order = q.order
        /\ [q EXCEPT !.deleted = TRUE].pc = q.pc
      BY <1>8 DEF Fits, Request
  <2> QED BY <2>1, <1>8, Continuations DEF Fits
<1>9. ASSUME NEW q, Fits(r, q) PROVE Fits(r, [q EXCEPT !.dead = TRUE])
  <2>1. /\ [q EXCEPT !.dead = TRUE].order = q.order
        /\ [q EXCEPT !.dead = TRUE].pc = q.pc
      BY <1>9 DEF Fits, Request
  <2> QED BY <2>1, <1>9, Continuations DEF Fits
<1>10. ASSUME Op(r) = "health" PROVE Fits(r, Goto(r, "prepareFirst"))
    BY <1>1, <1>2, <1>10 DEF Fits, Op, Steps, FindSteps, CreateSteps, RemoveSteps, RestoreSteps
<1> QED BY <1>3, <1>4, <1>5, <1>6, <1>7, <1>8, <1>9, <1>10

(* A step of one request outside PrepareImage keeps the types and orders.  *)
SameOrders == \A s \in Requests : req'[s].order = req[s].order

LEMMA StepTypes ==
    ASSUME TypeOK, NEW r \in Requests, NEW q, Fits(r, q),
           req[r].pc \notin Preparations,
           req' = [req EXCEPT ![r] = q],
           containers' \in [Ids -> Container],
           UNCHANGED <<present, imagePull, state, caller>>
    PROVE  TypeOK' /\ SameOrders
<1>1. req' \in [Requests -> Request]
    BY DEF TypeOK, Fits
<1>2. Pull!TypeOK'
    BY DEF TypeOK, Pull!TypeOK
<1>3. ASSUME NEW s \in Requests PROVE OnCourse(s)'
    BY <1>3 DEF TypeOK, OnCourse, Fits
<1>4. SameOrders
    BY DEF TypeOK, Fits, SameOrders
<1> QED BY <1>1, <1>2, <1>3, <1>4 DEF TypeOK

LEMMA RejectTypes ==
    ASSUME TypeOK, NEW r \in Requests, NEW error, Fits(r, error),
           req[r].pc \notin Preparations, Reject(r, error),
           UNCHANGED <<present, imagePull, state, caller>>
    PROVE  TypeOK' /\ SameOrders
BY StepTypes DEF Reject, TypeOK

LEMMA CallTypes ==
    ASSUME TypeOK, NEW r \in Requests, NEW effect \in [Ids -> Container],
           NEW ok, Fits(r, ok), NEW error, Fits(r, error),
           req[r].pc \notin Preparations, Call(r, effect, ok, error),
           UNCHANGED <<present, imagePull, state, caller>>
    PROVE  TypeOK' /\ SameOrders
<1>1. containers' \in [Ids -> Container]
    BY DEF Call, TypeOK
<1>2. Fits(r, [error EXCEPT !.dead = TRUE])
    BY Going
<1>3. PICK q \in {ok, error, [error EXCEPT !.dead = TRUE]} : req' = [req EXCEPT ![r] = q]
    BY DEF Call
<1> QED BY <1>1, <1>2, <1>3, StepTypes

(* What Docker does to containers keeps their types.                       *)
LEMMA Effects ==
    ASSUME TypeOK
    PROVE  /\ \A c : Removed(c) \in [Ids -> Container]
           /\ \A c : Started(c) \in [Ids -> Container]
           /\ \A r \in Requests : Created(r) \in [Ids -> Container]
           /\ \A c, n : n \in Names => Renamed(c, n) \in [Ids -> Container]
<1>0. ASSUME NEW c, NEW status \in Statuses
      PROVE  [containers EXCEPT ![c].status = status, ![c].healthy = FALSE] \in [Ids -> Container]
  <2>1. containers \in [Ids -> Container]
      BY DEF TypeOK
  <2>2. \A q \in Container : [[q EXCEPT !.status = status] EXCEPT !.healthy = FALSE] \in Container
      BY DEF Container
  <2>3. CASE c \in Ids
    <3>1. [[containers[c] EXCEPT !.status = status] EXCEPT !.healthy = FALSE] \in Container
        BY <2>1, <2>2, <2>3
    <3> QED BY <2>1, <2>3, <3>1
  <2>4. CASE c \notin Ids
      BY <2>1, <2>4
  <2> QED BY <2>3, <2>4
<1>1. \A c : Removed(c) \in [Ids -> Container]
    BY <1>0 DEF Removed, Statuses
<1>2. \A c : Started(c) \in [Ids -> Container]
    BY <1>0 DEF Started, Statuses
<1>3. ASSUME NEW r \in Requests PROVE Created(r) \in [Ids -> Container]
    BY OrderFields DEF Created, Key, TypeOK, Container, Statuses, Request
<1>4. \A c, n : n \in Names => Renamed(c, n) \in [Ids -> Container]
    BY DEF Renamed, TypeOK, Container
<1> QED BY <1>1, <1>2, <1>3, <1>4
-----------------------------------------------------------------------------
(* The pull map under the requests is the one of ImagePull_proofs.         *)
LEMMA PullAssumed == PullProofs!PullAssumption
BY SandboxAssumption DEF PullProofs!PullAssumption

LEMMA SamePullTypes ==
    /\ PullProofs!TypeOK <=> Pull!TypeOK
    /\ PullProofs!TypeOK' <=> Pull!TypeOK'
BY DEF PullProofs!TypeOK, Pull!TypeOK, PullProofs!PullPhases, Pull!PullPhases,
       PullProofs!InFlight, Pull!InFlight, PullProofs!Closed, Pull!Closed,
       PullProofs!CallPhases, Pull!CallPhases, PullProofs!Verdicts, Pull!Verdicts

LEMMA SamePullNext == PullProofs!Next <=> Pull!Next
BY DEF PullProofs!Next, Pull!Next, PullProofs!Inspect, Pull!Inspect,
       PullProofs!InspectFails, Pull!InspectFails, PullProofs!Consult, Pull!Consult,
       PullProofs!JoinPull, Pull!JoinPull, PullProofs!TakeResult, Pull!TakeResult,
       PullProofs!StartPull, Pull!StartPull, PullProofs!PullStep, Pull!PullStep,
       PullProofs!PullLands, Pull!PullLands, PullProofs!PullEnds, Pull!PullEnds,
       PullProofs!RemoveImage, Pull!RemoveImage, PullProofs!ImageArrives, Pull!ImageArrives,
       PullProofs!Restart, Pull!Restart,
       PullProofs!NoPull, Pull!NoPull, PullProofs!NoCall, Pull!NoCall,
       PullProofs!Answer, Pull!Answer, PullProofs!Missed, Pull!Missed,
       PullProofs!InFlight, Pull!InFlight, PullProofs!Closed, Pull!Closed

LEMMA SamePullInit == PullProofs!Init <=> Pull!Init
BY DEF PullProofs!Init, Pull!Init, PullProofs!NoPull, Pull!NoPull, PullProofs!NoCall, Pull!NoCall

LEMMA PullTypes ==
    /\ Pull!Init => Pull!TypeOK
    /\ Pull!TypeOK /\ Pull!Next => Pull!TypeOK'
BY PullAssumed, SamePullTypes, SamePullNext, SamePullInit,
   PullProofs!InitTypeOK, PullProofs!NextTypeOK
-----------------------------------------------------------------------------
(* PrepareImage: the verdict of the pull map decides the next step.        *)
LEMMA Preparing ==
    ASSUME TypeOK, NEW r \in Requests, req[r].pc \in Preparations,
           NEW v \in {"ready", "preparing", "failed"}
    PROVE  Fits(r, Prepared(r, v))
<1>1. CASE Op(r) = "health"
    BY <1>1, Replying DEF Prepared, NotReady, Replies, Retries
<1>2. CASE Op(r) # "health" /\ v # "ready"
    BY <1>2, Replying DEF Prepared, NotReady, Replies, Retries
<1>3. CASE Op(r) # "health" /\ v = "ready"
  <2>1. Prepared(r, v) = Goto(r, AfterReady[req[r].pc])
      BY <1>3 DEF Prepared
  <2>2. CASE req[r].pc = "prepareFirst"
      BY <2>1, <2>2, <1>3, Going DEF AfterReady, TypeOK, OnCourse, Op, RemoveSteps
  <2>3. CASE req[r].pc = "prepareSwitch"
      BY <2>1, <2>3, <1>3, Going DEF AfterReady, TypeOK, OnCourse, Op, FindSteps
  <2>4. CASE req[r].pc = "prepareCreate"
      BY <2>1, <2>4, <1>3, Going DEF AfterReady, TypeOK, OnCourse, Op, FindSteps, CreateSteps
  <2> QED BY <2>2, <2>3, <2>4 DEF Preparations
<1> QED BY <1>1, <1>2, <1>3

(* A request that prepares an image names one.                             *)
LEMMA PreparedImage ==
    ASSUME TypeOK, NEW r \in Requests, req[r].pc \in Preparations
    PROVE  req[r].order.image \in Images
<1>1. Op(r) \in {"ensure", "rebuild", "health"}
    BY DEF TypeOK, OnCourse, Preparations, FindSteps, Op
<1> QED BY <1>1, OrderFields DEF TypeOK, Request, Op

LEMMA VerdictTypes ==
    ASSUME TypeOK, NEW r \in Requests, req[r].pc \in Preparations,
           NEW v \in {"ready", "preparing", "failed", "missed"},
           caller' = [caller EXCEPT ![r] = [image |-> req[r].order.image, phase |-> v]],
           req' = [req EXCEPT ![r] = Prepared(r, caller'[r].phase)],
           UNCHANGED containers,
           Pull!TypeOK'
    PROVE  TypeOK'
<1>1. caller'[r].phase = v /\ caller'[r].image = req[r].order.image
    BY DEF TypeOK, Pull!TypeOK
<1>2. CASE v = "missed"
  <2>1. req' = req
      BY <1>1, <1>2 DEF Prepared, TypeOK
  <2>2. ASSUME NEW s \in Requests PROVE OnCourse(s)'
      BY <1>1, <2>1 DEF TypeOK, Pull!TypeOK, OnCourse
  <2> QED BY <2>1, <2>2 DEF TypeOK
<1>3. CASE v # "missed"
  <2>1. Fits(r, Prepared(r, v))
      BY <1>3, Preparing
  <2>2. req' \in [Requests -> Request]
      BY <1>1, <2>1 DEF TypeOK, Fits
  <2>3. ASSUME NEW s \in Requests PROVE OnCourse(s)'
      BY <1>1, <1>3, <2>1 DEF TypeOK, Pull!TypeOK, OnCourse, Fits
  <2> QED BY <2>2, <2>3 DEF TypeOK
<1> QED BY <1>2, <1>3

(* PrepareImage answers the request for its own image.                     *)
LEMMA VerdictFor ==
    ASSUME TypeOK, NEW r \in Requests, PrepareImage(r)
    PROVE  \E v \in {"ready", "preparing", "failed", "missed"} :
              caller' = [caller EXCEPT ![r] = [image |-> req[r].order.image, phase |-> v]]
<1>1. CASE Pull!Inspect(r, req[r].order.image)
    BY <1>1 DEF Pull!Inspect, Pull!Answer
<1>2. CASE Pull!InspectFails(r, req[r].order.image)
    BY <1>2 DEF Pull!InspectFails, Pull!Answer
<1>3. CASE Pull!Consult(r)
  <2>1. caller[r].image = req[r].order.image
      BY <1>3 DEF Pull!Consult, Pull!JoinPull, Pull!TakeResult, Pull!StartPull, Pull!Missed,
                  TypeOK, OnCourse
  <2> QED BY <1>3, <2>1 DEF Pull!Consult, Pull!JoinPull, Pull!TakeResult, Pull!StartPull, Pull!Answer
<1> QED BY <1>1, <1>2, <1>3 DEF PrepareImage

LEMMA PrepareImageSteps ==
    ASSUME TypeOK, NEW r \in Requests, PrepareImage(r)
    PROVE  Pull!Next /\ TypeOK'
<1>1. req[r].order.image \in Images
    BY PreparedImage DEF PrepareImage
<1>2. Pull!Next
    BY <1>1 DEF PrepareImage, Pull!Next
<1>3. Pull!TypeOK'
    BY <1>2, PullTypes DEF TypeOK
<1> QED BY <1>2, <1>3, VerdictFor, VerdictTypes DEF PrepareImage
-----------------------------------------------------------------------------
(* The steps that call Docker.                                             *)
LEMMA ReadTypes ==
    ASSUME TypeOK, NEW r \in Requests, NEW ok, Fits(r, ok),
           req[r].pc \notin Preparations, Ask(r, ok),
           UNCHANGED <<present, imagePull, state, caller>>
    PROVE  TypeOK' /\ SameOrders
BY CallTypes, Replying DEF Ask, TypeOK

LEMMA DeleteTypes ==
    ASSUME TypeOK, NEW r \in Requests, NEW ok, Fits(r, ok), NEW error, Fits(r, error),
           req[r].pc \notin Preparations, Delete(r, ok, error),
           UNCHANGED <<present, imagePull, state, caller>>
    PROVE  TypeOK' /\ SameOrders
<1>1. Fits(r, [ok EXCEPT !.deleted = TRUE])
    BY Going
<1>2. \A c : Removed(c) \in [Ids -> Container]
    BY Effects
<1>3. CASE Reject(r, error)
    BY <1>3, RejectTypes
<1>4. CASE Call(r, Removed(req[r].item), [ok EXCEPT !.deleted = TRUE], error)
    BY <1>1, <1>2, <1>4, CallTypes
<1> QED BY <1>3, <1>4 DEF Delete

LEMMA DockerStepTypes ==
    ASSUME TypeOK, NEW r \in Requests, DockerStep(r) PROVE TypeOK' /\ SameOrders
<1> USE DEF Preparations
<1>0. UNCHANGED <<present, imagePull, state, caller>>
    BY DEF DockerStep
<1>1. CASE Find(r)
  <2>1. Op(r) \in {"ensure", "rebuild"}
      BY <1>1 DEF Find, At, TypeOK, OnCourse, Op, FindSteps
  <2>2. \A c \in Ids : Fits(r, Found(r, c))
      BY <2>1, Going DEF Found, FindSteps
  <2>3. Fits(r, Goto(r, "list"))
      BY <2>1, Going DEF FindSteps
  <2> QED BY <1>0, <1>1, <2>2, <2>3, ReadTypes DEF Find, At, Of, Live
<1>2. CASE RemoveFind(r)
  <2>1. Op(r) \in {"remove", "rebuild"}
      BY <1>2 DEF RemoveFind, At, TypeOK, OnCourse, Op, RemoveSteps
  <2>2. \A c \in Ids : Fits(r, [Goto(r, "remove") EXCEPT !.item = c])
      BY <2>1, Going DEF RemoveSteps
  <2>3. Fits(r, AfterRemove(r))
      BY Going, Replying DEF AfterRemove, FindSteps, Replies, Retries
  <2> QED BY <1>0, <1>2, <2>2, <2>3, ReadTypes DEF RemoveFind, At, Of, Live
<1>3. CASE FindOld(r)
  <2>1. Op(r) = "restore"
      BY <1>3 DEF FindOld, SnapshotFound, At, TypeOK, OnCourse, Op, RestoreSteps
  <2>2. \A c \in Ids : Fits(r, [Goto(r, "create") EXCEPT !.item = c])
      BY <2>1, Going DEF CreateSteps
  <2> QED BY <1>0, <1>3, <2>2, ReadTypes, RejectTypes, Replying DEF FindOld, SnapshotFound, At, Of, Live
<1>4. CASE Remove(r)
  <2>1. Fits(r, AfterRemove(r))
      BY Going, Replying DEF AfterRemove, FindSteps, Replies, Retries
  <2> QED BY <1>0, <1>4, <2>1, DeleteTypes, Replying DEF Remove, At
<1>5. CASE Replace(r)
  <2>1. Fits(r, Goto(r, "list"))
      BY <1>5, Going DEF Replace, At, TypeOK, OnCourse, Op, FindSteps
  <2> QED BY <1>0, <1>5, <2>1, DeleteTypes, Replying DEF Replace, At
<1>6. CASE DropOld(r)
  <2>1. Op(r) = "restore"
      BY <1>6 DEF DropOld, At, TypeOK, OnCourse, Op, RestoreSteps
  <2>2. Fits(r, Goto(r, "rename")) /\ Fits(r, Goto(r, "undo"))
      BY <2>1, Going DEF RestoreSteps, CreateSteps
  <2> QED BY <1>0, <1>6, <2>2, DeleteTypes DEF DropOld, At
<1>7. CASE Start(r)
  <2>1. Fits(r, Goto(r, "await"))
      BY <1>7, Going DEF Start, At, TypeOK, OnCourse, Op, FindSteps
  <2> QED BY <1>0, <1>7, <2>1, CallTypes, RejectTypes, Replying, Effects DEF Start, At
<1>8. CASE List(r)
  <2>1. Fits(r, Goto(r, "prepareCreate"))
      BY <1>8, Going DEF List, At, TypeOK, OnCourse, Op, FindSteps
  <2>2. Fits(r, Reply(r, "limit"))
      BY Replying DEF Replies, Retries
  <2> QED BY <1>0, <1>8, <2>1, <2>2, ReadTypes DEF List, At
<1>9. CASE Create(r)
  <2>1. Fits(r, Goto(r, "boot"))
      BY <1>9, Going DEF Create, At, TypeOK, OnCourse, Op, CreateSteps
  <2> QED BY <1>0, <1>9, <2>1, CallTypes, RejectTypes, Replying, Effects DEF Create, At
<1>10. CASE Boot(r)
  <2>1. Fits(r, Goto(r, "awaitNew")) /\ Fits(r, Goto(r, "undo"))
      BY <1>10, Going DEF Boot, At, TypeOK, OnCourse, Op, CreateSteps
  <2> QED BY <1>0, <1>10, <2>1, CallTypes, RejectTypes, Effects DEF Boot, At
<1>11. CASE Undo(r)
    BY <1>0, <1>11, CallTypes, RejectTypes, Replying, Effects DEF Undo, At
<1>12. CASE Await(r)
  <2> DEFINE c == IF At(r, "awaitNew") THEN r ELSE req[r].item
  <2>1. req[r].pc \notin Preparations
      BY <1>12 DEF Await, At
  <2>2. Op(r) = "restore" => \A pc \in {"dropOld", "undo"} : Fits(r, Goto(r, pc))
      BY Going DEF RestoreSteps, CreateSteps
  <2>3. ASSUME c \in Live, NEW ready \in BOOLEAN PROVE Fits(r, Waited(r, c, ready))
      BY <2>2, <2>3, Replying DEF Waited, Live
  <2>4. CASE c \in Live
    <3>1. PICK ready \in {FALSE, IsReady(c)} : Ask(r, Waited(r, c, ready))
        BY <1>12, <2>4 DEF Await
    <3>2. ready \in BOOLEAN
        BY <3>1, <2>4 DEF IsReady, Live, TypeOK, Container, Running
    <3> QED BY <1>0, <2>1, <2>3, <2>4, <3>1, <3>2, ReadTypes
  <2>5. CASE c \notin Live
      BY <1>0, <1>12, <2>1, <2>5, RejectTypes, Replying DEF Await
  <2> QED BY <2>4, <2>5
<1>13. CASE Rename(r)
  <2>1. r \in Ids /\ Canonical(Key(r)) \in Names
      BY OrderFields DEF Ids, TypeOK, Request, Key, Canonical, Names
  <2>2. Fits(r, Deliver(r, r, r))
      BY <2>1, Replying
  <2> QED BY <1>0, <1>13, <2>1, <2>2, CallTypes, RejectTypes, Replying, Effects DEF Rename, At
<1>14. CASE Version(r)
  <2>1. Fits(r, Goto(r, "prepareFirst"))
      BY <1>14, Going DEF Version, At, TypeOK, OnCourse, Op
  <2> QED BY <1>0, <1>14, <2>1, ReadTypes DEF Version, At
<1> QED BY <1>1, <1>2, <1>3, <1>4, <1>5, <1>6, <1>7, <1>8, <1>9, <1>10, <1>11, <1>12, <1>13, <1>14
        DEF DockerStep
-----------------------------------------------------------------------------
(* The other steps.                                                        *)
LEMMA ArriveTypes ==
    ASSUME TypeOK, NEW r \in Requests, Arrive(r) PROVE TypeOK'
<1>1. PICK order \in Orders :
         req' = [req EXCEPT ![r].order = order, ![r].pc = FirstStep[order.op]]
    BY DEF Arrive
<1>2. UNCHANGED <<containers, present, imagePull, state, caller>>
    BY DEF Arrive
<1>3. order.op \in {"ensure", "remove", "rebuild", "restore", "health"}
    BY SandboxAssumption DEF Orders
<1>4. FirstStep[order.op] \in Steps
    BY <1>3 DEF FirstStep, Steps, FindSteps, RemoveSteps, RestoreSteps
<1>5. req' \in [Requests -> Request]
  <2> DEFINE q == [req[r] EXCEPT !.order = order, !.pc = FirstStep[order.op]]
  <2>1. q \in Request
      BY <1>4 DEF TypeOK, Request
  <2>2. req' = [req EXCEPT ![r] = q]
      BY <1>1 DEF TypeOK
  <2> HIDE DEF q
  <2> QED BY <2>1, <2>2 DEF TypeOK
<1>6. OnCourse(r)'
  <2>1. req'[r].order = order /\ req'[r].pc = FirstStep[order.op]
      BY <1>1 DEF TypeOK, Request
  <2>2. caller[r].phase # "missed"
      BY DEF TypeOK, OnCourse, Arrive, At, Preparations
  <2> QED BY <1>2, <1>3, <2>1, <2>2
          DEF OnCourse, FirstStep, FindSteps, CreateSteps, RemoveSteps, RestoreSteps
<1>7. ASSUME NEW s \in Requests, s # r PROVE OnCourse(s)'
    BY <1>1, <1>2, <1>7 DEF TypeOK, OnCourse
<1> QED BY <1>2, <1>5, <1>6, <1>7 DEF TypeOK, Pull!TypeOK

LEMMA CrashTypes == TypeOK /\ Crash => TypeOK'
<1> SUFFICES ASSUME TypeOK, Crash PROVE TypeOK'
    OBVIOUS
<1>1. Pull!TypeOK'
    BY PullTypes DEF Crash, Pull!Next, TypeOK
<1>2. ASSUME NEW r \in Requests
      PROVE  /\ \/ req'[r] = req[r] /\ req[r].pc \in {"new", "done"}
                \/ Fits(r, req'[r])
             /\ req'[r] \in Request
    BY Replying DEF Crash, At, TypeOK, Replies, Retries, Fits
<1>3. req' \in [Requests -> Request]
    BY <1>2 DEF Crash
<1>4. ASSUME NEW r \in Requests PROVE caller'[r].phase # "missed"
    BY DEF Crash, Pull!Restart, Pull!NoCall
<1>5. ASSUME NEW r \in Requests PROVE OnCourse(r)'
    BY <1>2, <1>4 DEF TypeOK, OnCourse, Fits, FindSteps, CreateSteps, RemoveSteps, RestoreSteps
<1> QED BY <1>1, <1>3, <1>5 DEF TypeOK, Crash

LEMMA PullMovesSteps == TypeOK /\ PullMoves => Pull!Next /\ TypeOK'
<1> SUFFICES ASSUME TypeOK, PullMoves PROVE Pull!Next /\ TypeOK'
    OBVIOUS
<1>1. Pull!Next
    BY DEF PullMoves, Pull!Next
<1>2. Pull!TypeOK'
    BY <1>1, PullTypes DEF TypeOK
<1>3. UNCHANGED <<containers, req, caller>>
    BY DEF PullMoves, Pull!PullStep, Pull!PullLands, Pull!PullEnds, Pull!RemoveImage,
           Pull!ImageArrives
<1> QED BY <1>1, <1>2, <1>3 DEF TypeOK, OnCourse

LEMMA NextTypes == TypeOK /\ [Next]_vars => TypeOK'
<1> SUFFICES ASSUME TypeOK, [Next]_vars PROVE TypeOK'
    OBVIOUS
<1>1. ASSUME NEW r \in Requests, Arrive(r) PROVE TypeOK'
    BY <1>1, ArriveTypes
<1>2. ASSUME NEW r \in Requests, Step(r) PROVE TypeOK'
    BY <1>2, DockerStepTypes, PrepareImageSteps DEF Step
<1>3. ASSUME NEW c \in Ids, HealthPasses(c) \/ ContainerFails(c) PROVE TypeOK'
  <2>1. containers' \in [Ids -> Container]
    <3>1. CASE HealthPasses(c)
        BY <3>1 DEF HealthPasses, TypeOK, Container
    <3>2. CASE ContainerFails(c)
      <4>1. PICK status \in {"running", "exited"} :
               containers' = [containers EXCEPT ![c].status = status, ![c].healthy = FALSE]
          BY <3>2 DEF ContainerFails
      <4> QED BY <4>1, ZenonT(40) DEF TypeOK, Container, Statuses
    <3> QED BY <1>3, <3>1, <3>2
  <2> QED BY <1>3, <2>1 DEF HealthPasses, ContainerFails, TypeOK, Pull!TypeOK, OnCourse
<1>4. CASE PullMoves
    BY <1>4, PullMovesSteps
<1>5. CASE Crash
    BY <1>5, CrashTypes
<1>6. CASE UNCHANGED vars
    BY <1>6 DEF vars, TypeOK, Pull!TypeOK, OnCourse
<1> QED BY <1>1, <1>2, <1>3, <1>4, <1>5, <1>6 DEF Next

LEMMA InitTypes == Init => TypeOK
<1> SUFFICES ASSUME Init PROVE TypeOK
    OBVIOUS
<1>1. containers \in [Ids -> Container]
    BY DEF Init, Container, Statuses, Absent, Names, Canonical, Ids
<1>2. req \in [Requests -> Request]
    BY DEF Init, Request, NewRequest, Replies, Retries
<1>3. Pull!TypeOK
    BY PullTypes DEF Init
<1>4. ASSUME NEW r \in Requests PROVE OnCourse(r)
    BY DEF Init, OnCourse, NewRequest, NoOrder, Pull!Init, Pull!NoCall,
           FindSteps, CreateSteps, RemoveSteps, RestoreSteps
<1> QED BY <1>1, <1>2, <1>3, <1>4 DEF TypeOK

(* The types, and that a request is always inside a function its operation *)
(* calls: in particular no request but a restore ever renames.             *)
THEOREM SandboxTypeCorrect == Spec => []TypeOK
<1> QED BY InitTypes, NextTypes, PTL DEF Spec
-----------------------------------------------------------------------------
(* The requests together are callers of one PrepareImage: every step of    *)
(* Sandboxes is a step of ImagePull or leaves it alone, so that what holds *)
(* of ImagePull holds below the sandbox operations.                        *)
LEMMA RequestsUseImagePull == Spec => Pull!Spec
<1>1. Init => Pull!Init
    BY DEF Init
<1>2. TypeOK /\ [Next]_vars => [Pull!Next]_(Pull!pullVars)
  <2> SUFFICES ASSUME TypeOK, [Next]_vars, ~ UNCHANGED Pull!pullVars PROVE Pull!Next
      OBVIOUS
  <2>1. ASSUME NEW r \in Requests, Step(r) PROVE Pull!Next
      BY <2>1, PrepareImageSteps DEF Step, DockerStep, Pull!pullVars
  <2>2. CASE PullMoves
      BY <2>2, PullMovesSteps
  <2>3. CASE Crash
      BY <2>3 DEF Crash, Pull!Next
  <2> QED BY <2>1, <2>2, <2>3
          DEF Next, Arrive, HealthPasses, ContainerFails, vars, Pull!pullVars
<1> QED BY <1>1, <1>2, SandboxTypeCorrect, PTL DEF Spec, Pull!Spec
-----------------------------------------------------------------------------
(* Why a key never has two containers.  find and the creation that follows *)
(* it are far apart, and nothing keeps two requests from creating after    *)
(* both found nothing.  What does is that Docker keeps names unique and    *)
(* that the name of a sandbox is determined by its key: CanonicalNames,    *)
(* which a restore breaks, makes the uniqueness of names one of keys.      *)
CanonicalNames == \A c \in Live : containers[c].name = Canonical(containers[c].key)
UniqueNames == \A c, d \in Live : containers[c].name = containers[d].name => c = d

NameInv == CanonicalNames /\ UniqueNames

LEMMA NamesDecide == NameInv => OneSandboxPerKey
BY DEF NameInv, CanonicalNames, UniqueNames, OneSandboxPerKey

(* What a call does to the containers, whether it is answered or not.      *)
LEMMA CallEffect ==
    ASSUME NEW r, NEW effect, NEW ok, NEW error, Call(r, effect, ok, error)
    PROVE  containers' = containers \/ containers' = effect
BY DEF Call

LEMMA DeleteEffect ==
    ASSUME NEW r, NEW ok, NEW error, Delete(r, ok, error)
    PROVE  containers' = containers \/ containers' = Removed(req[r].item)
BY CallEffect DEF Delete, Reject

(* All that a request can do to the containers.                            *)
LEMMA StepEffect ==
    ASSUME TypeOK, NEW r \in Requests, Step(r)
    PROVE  \/ containers' = containers
           \/ \E c : containers' = Removed(c)
           \/ \E c \in Live : containers' = Started(c)
           \/ /\ At(r, "create") /\ Named(req[r].order.name) = {}
              /\ containers' = Created(r)
           \/ /\ Op(r) = "restore" /\ r \in Live /\ Named(Canonical(Key(r))) = {}
              /\ containers' = Renamed(r, Canonical(Key(r)))
<1>1. CASE Find(r) \/ RemoveFind(r) \/ FindOld(r) \/ List(r) \/ Await(r) \/ Version(r)
    BY <1>1, CallEffect DEF Find, RemoveFind, FindOld, SnapshotFound, List, Await, Version, Ask, Reject
<1>2. CASE Remove(r) \/ Replace(r) \/ DropOld(r)
    BY <1>2, DeleteEffect DEF Remove, Replace, DropOld
<1>3. CASE Start(r)
  <2>1. CASE containers[req[r].item].status \in {"created", "exited"} /\ req[r].item \in Ids
      BY <1>3, <2>1, CallEffect DEF Start, Reject, Live
  <2>2. CASE req[r].item \notin Ids
    <3>1. Started(req[r].item) = containers
        BY <2>2 DEF Started, TypeOK
    <3> QED BY <1>3, <3>1, CallEffect DEF Start, Reject
  <2> QED BY <1>3, <2>1, <2>2 DEF Start, Reject
<1>4. CASE Create(r)
    BY <1>4, CallEffect DEF Create, Reject
<1>5. CASE Boot(r)
    BY <1>5, CallEffect DEF Boot, Reject, Live, Ids
<1>6. CASE Undo(r)
    BY <1>6, CallEffect DEF Undo, Reject
<1>7. CASE Rename(r)
  <2>1. Op(r) = "restore"
      BY <1>7 DEF Rename, At, TypeOK, OnCourse, RestoreSteps, Op
  <2> QED BY <1>7, <2>1, CallEffect DEF Rename, Reject
<1>8. CASE PrepareImage(r)
    BY <1>8 DEF PrepareImage
<1> QED BY <1>1, <1>2, <1>3, <1>4, <1>5, <1>6, <1>7, <1>8 DEF Step, DockerStep

(* Containers that only disappear, start, stop or change health keep the   *)
(* invariant.                                                              *)
LEMMA SameNames ==
    ASSUME NameInv,
           \A c \in Live' : /\ c \in Live
                            /\ containers'[c].name = containers[c].name
                            /\ containers'[c].key = containers[c].key
    PROVE  NameInv'
BY DEF NameInv, CanonicalNames, UniqueNames

(* Docker creates a container only under a name that nobody has.           *)
LEMMA CreatedName ==
    ASSUME TypeOK, NameInv, "restore" \notin Ops, NEW r \in Requests,
           Named(req[r].order.name) = {}, containers' = Created(r)
    PROVE  NameInv'
<1>1. req[r].order.name = Canonical(Key(r))
    BY OrderFields, SandboxAssumption DEF TypeOK, Request, Key
<1>2. r \in Ids
    BY DEF Ids
<1>3. containers'[r].name = Canonical(Key(r)) /\ containers'[r].key = Key(r)
    BY <1>1, <1>2 DEF Created, TypeOK
<1>4. \A c \in Live' : c # r => c \in Live /\ containers'[c] = containers[c]
    BY <1>2 DEF Created, Live, TypeOK
<1>5. \A c \in Live : containers[c].name # Canonical(Key(r))
    BY <1>1 DEF Named
<1>6. CanonicalNames'
    BY <1>3, <1>4 DEF NameInv, CanonicalNames
<1>7. UniqueNames'
    BY <1>3, <1>4, <1>5 DEF NameInv, UniqueNames
<1> QED BY <1>6, <1>7 DEF NameInv

LEMMA NextNames ==
    ASSUME "restore" \notin Ops, TypeOK, NameInv, [Next]_vars PROVE NameInv'
<1>1. ASSUME NEW r \in Requests, Step(r) PROVE NameInv'
  <2>1. CASE containers' = containers
      BY <2>1, SameNames DEF Live
  <2>2. ASSUME NEW c, containers' = Removed(c) PROVE NameInv'
    <3>1. \A d \in Live' : /\ d \in Live
                           /\ containers'[d].name = containers[d].name
                           /\ containers'[d].key = containers[d].key
        BY <2>2 DEF Removed, Live, TypeOK, Container
    <3> QED BY <3>1, SameNames
  <2>3. ASSUME NEW c \in Live, containers' = Started(c) PROVE NameInv'
    <3>1. \A d \in Live' : /\ d \in Live
                           /\ containers'[d].name = containers[d].name
                           /\ containers'[d].key = containers[d].key
        BY <2>3 DEF Started, Live, TypeOK, Container
    <3> QED BY <3>1, SameNames
  <2>4. CASE Named(req[r].order.name) = {} /\ containers' = Created(r)
      BY <2>4, CreatedName
  <2>5. Op(r) # "restore"
      BY OrderFields, SandboxAssumption DEF TypeOK, Request, Op
  <2> QED BY <1>1, <2>1, <2>2, <2>3, <2>4, <2>5, StepEffect
<1>2. ASSUME NEW c \in Ids, HealthPasses(c) PROVE NameInv'
  <2>1. \A d \in Live' : /\ d \in Live
                         /\ containers'[d].name = containers[d].name
                         /\ containers'[d].key = containers[d].key
      BY <1>2 DEF HealthPasses, Live, TypeOK, Container
  <2> QED BY <2>1, SameNames
<1>3. ASSUME NEW c \in Ids, ContainerFails(c) PROVE NameInv'
  <2>1. PICK status \in {"running", "exited"} :
           containers' = [containers EXCEPT ![c].status = status, ![c].healthy = FALSE]
      BY <1>3 DEF ContainerFails
  <2>2. \A d \in Live' : /\ d \in Live
                         /\ containers'[d].name = containers[d].name
                         /\ containers'[d].key = containers[d].key
      BY <2>1, <1>3 DEF ContainerFails, Running, Live, TypeOK, Container
  <2> QED BY <2>2, SameNames
<1>4. CASE UNCHANGED containers
    BY <1>4, SameNames DEF Live
<1> QED BY <1>1, <1>2, <1>3, <1>4 DEF Next, Arrive, PullMoves, Crash, vars

LEMMA InitNames == Init => NameInv
<1> SUFFICES ASSUME Init PROVE NameInv
    OBVIOUS
<1>1. PICK old \in SUBSET Existing :
      \E key \in [old -> Keys], image \in [old -> Images],
         status \in [old -> {"running", "exited"}] :
         /\ \A c, d \in old : key[c] = key[d] => c = d
         /\ containers = [c \in Ids |->
               IF c \in old
               THEN [status |-> status[c], healthy |-> status[c] = "running",
                     name |-> Canonical(key[c]), key |-> key[c], image |-> image[c]]
               ELSE Absent]
    BY DEF Init
<1>2. PICK key \in [old -> Keys], image \in [old -> Images],
           status \in [old -> {"running", "exited"}] :
         /\ \A c, d \in old : key[c] = key[d] => c = d
         /\ containers = [c \in Ids |->
               IF c \in old
               THEN [status |-> status[c], healthy |-> status[c] = "running",
                     name |-> Canonical(key[c]), key |-> key[c], image |-> image[c]]
               ELSE Absent]
    BY <1>1
<1>3. \A c \in Live : /\ c \in old
                      /\ containers[c].name = Canonical(key[c])
                      /\ containers[c].key = key[c]
    BY <1>2 DEF Live, Absent
<1>4. \A c, d \in Live : containers[c].name = containers[d].name => key[c] = key[d]
    BY <1>3 DEF Canonical
<1>5. \A c, d \in old : key[c] = key[d] => c = d
    BY <1>2
<1> QED BY <1>3, <1>4, <1>5 DEF NameInv, CanonicalNames, UniqueNames

(* Where nobody restores, a key never has two sandboxes, whatever requests *)
(* race, whatever fails between two calls and however often the controller *)
(* is restarted.                                                           *)
THEOREM OneSandbox == "restore" \notin Ops => (Spec => []OneSandboxPerKey)
<1> SUFFICES ASSUME "restore" \notin Ops PROVE Spec => []OneSandboxPerKey
    OBVIOUS
<1>1. Init => TypeOK /\ NameInv
    BY InitTypes, InitNames
<1>2. TypeOK /\ NameInv /\ [Next]_vars => (TypeOK /\ NameInv)'
    BY NextTypes, NextNames
<1>3. NameInv => OneSandboxPerKey
    BY NamesDecide
<1> QED BY <1>1, <1>2, <1>3, PTL DEF Spec
=============================================================================
