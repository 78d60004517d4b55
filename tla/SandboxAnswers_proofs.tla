----------------------- MODULE SandboxAnswers_proofs -----------------------
(***************************************************************************)
(* A request told to ask again because its image is not there yet has not  *)
(* deleted its sandbox, for any number of requests, where Docker reports   *)
(* the failures of its pulls and nobody removes images.  It rests on       *)
(* ImagePull's theorem that "ready" is answered only for an image that is  *)
(* present, which holds of the requests because they implement ImagePull.  *)
(***************************************************************************)
EXTENDS Sandboxes_proofs

BenignImages == SilentFailures \cup Removable = {}

LEMMA ReadyHolds == Spec => []Pull!ReadyIsPresent
<1>1. PullProofs!Spec <=> Pull!Spec
    BY SamePullInit, SamePullNext, PTL
       DEF PullProofs!Spec, Pull!Spec, PullProofs!pullVars, Pull!pullVars
<1>2. PullProofs!Spec => []PullProofs!ReadyIsPresent
    BY PullAssumed, PullProofs!ReadyMeansPresent
<1>3. PullProofs!ReadyIsPresent <=> Pull!ReadyIsPresent
    BY DEF PullProofs!ReadyIsPresent, Pull!ReadyIsPresent, PullProofs!Benign, Pull!Benign
<1> QED BY <1>1, <1>2, <1>3, RequestsUseImagePull, PTL

(* A request about to delete for the sake of a new image, or that has done *)
(* so, has its image; it does not wait for the pull map any more.          *)
Deleting == {"removeFind", "remove", "delete"}

Kept(r) ==
    /\ req[r].pc \in Deleting /\ Op(r) # "remove" => req[r].order.image \in present
    /\ req[r].deleted /\ Op(r) \in {"ensure", "rebuild"} =>
          req[r].order.image \in present /\ caller[r].phase # "missed"
    /\ req[r].pc # "done" => req[r].reply = "none"
    /\ req[r].pc = "new" => ~req[r].deleted
    /\ req[r].reply \in Retries => ~req[r].deleted

KeptInv == \A r \in Requests : Kept(r)

LEMMA KeptSuffices == KeptInv => PreparingKeepsSandbox
BY DEF KeptInv, Kept, PreparingKeepsSandbox
-----------------------------------------------------------------------------
(* What a step outside PrepareImage may make of a request: it answers      *)
(* anything but to ask again, comes to a deletion only from the removal's  *)
(* own find, and has deleted only when it was at a deletion.               *)
Moves(r, q) ==
    /\ q \in Request
    /\ q.order = req[r].order
    /\ q.reply \notin Retries
    /\ q.pc # "new"
    /\ q.pc = "done" \/ q.reply = "none"
    /\ q.pc \in Deleting => req[r].pc = "removeFind"
    /\ q.deleted => req[r].deleted \/ req[r].pc \in {"remove", "delete", "dropOld"}

LEMMA MovesTo ==
    ASSUME TypeOK, NEW r \in Requests, req[r].reply = "none"
    PROVE  /\ \A code \in Replies \ Retries : Moves(r, Reply(r, code))
           /\ Moves(r, Fail(r))
           /\ \A c \in Ids, t \in Requests \cup {None} : Moves(r, Deliver(r, c, t))
           /\ \A pc \in Steps \ Deleting : Moves(r, Goto(r, pc))
           /\ req[r].pc = "removeFind" => Moves(r, Goto(r, "remove"))
<1>0. req[r] \in Request
    BY DEF TypeOK
<1>1. ASSUME NEW code \in Replies \ Retries PROVE Moves(r, Reply(r, code))
  <2>1. Reply(r, code) \in Request
      BY Continuations DEF TypeOK, Replies
  <2>2. /\ Reply(r, code).order = req[r].order
        /\ Reply(r, code).reply = code
        /\ Reply(r, code).pc = "done"
        /\ Reply(r, code).deleted = req[r].deleted
      BY <1>0 DEF Reply, Request
  <2> QED BY <2>1, <2>2 DEF Moves, Deleting
<1>2. ASSUME NEW c \in Ids, NEW t \in Requests \cup {None} PROVE Moves(r, Deliver(r, c, t))
  <2>1. Deliver(r, c, t) = [req[r] EXCEPT !.pc = "done", !.reply = "ok",
                                          !.container = c, !.token = t]
      BY DEF Deliver, Reply
  <2>2. Deliver(r, c, t) \in Request
      BY Continuations DEF TypeOK
  <2>3. /\ Deliver(r, c, t).order = req[r].order
        /\ Deliver(r, c, t).reply = "ok"
        /\ Deliver(r, c, t).pc = "done"
        /\ Deliver(r, c, t).deleted = req[r].deleted
      BY <1>0, <2>1 DEF Request
  <2> QED BY <2>2, <2>3 DEF Moves, Deleting, Retries
<1>3. ASSUME NEW pc \in Steps
      PROVE  /\ Goto(r, pc) \in Request
             /\ Goto(r, pc).order = req[r].order
             /\ Goto(r, pc).reply = "none"
             /\ Goto(r, pc).pc = pc
             /\ Goto(r, pc).deleted = req[r].deleted
    BY <1>0, Continuations DEF TypeOK, Goto, Request
<1>4. "remove" \in Steps /\ "new" \notin Steps
    BY DEF Steps, FindSteps, CreateSteps, RemoveSteps, RestoreSteps
<1> QED BY <1>1, <1>2, <1>3, <1>4 DEF Moves, Fail, Replies, Retries

LEMMA MovesOn ==
    ASSUME NEW r, NEW q, Moves(r, q)
    PROVE  /\ \A c \in Ids : Moves(r, [q EXCEPT !.item = c])
           /\ Moves(r, [q EXCEPT !.dead = TRUE])
           /\ req[r].pc \in {"remove", "delete", "dropOld"} => Moves(r, [q EXCEPT !.deleted = TRUE])
BY DEF Moves, Request

Moving(r) == \E q : req' = [req EXCEPT ![r] = q] /\ Moves(r, q)

LEMMA CallMoves ==
    ASSUME NEW r, NEW effect, NEW ok, Moves(r, ok), NEW error, Moves(r, error),
           Call(r, effect, ok, error)
    PROVE  Moving(r)
<1>1. Moves(r, [error EXCEPT !.dead = TRUE])
    BY MovesOn
<1> QED BY <1>1 DEF Call, Moving

LEMMA RejectMoves ==
    ASSUME NEW r, NEW error, Moves(r, error), Reject(r, error) PROVE Moving(r)
BY DEF Reject, Moving

LEMMA AskMoves ==
    ASSUME NEW r, NEW ok, Moves(r, ok), Moves(r, Fail(r)), Ask(r, ok) PROVE Moving(r)
BY CallMoves DEF Ask

LEMMA DeleteMoves ==
    ASSUME NEW r, req[r].pc \in {"remove", "delete", "dropOld"},
           NEW ok, Moves(r, ok), NEW error, Moves(r, error), Delete(r, ok, error)
    PROVE  Moving(r)
<1>1. Moves(r, [ok EXCEPT !.deleted = TRUE])
    BY MovesOn
<1> QED BY <1>1, CallMoves, RejectMoves DEF Delete

LEMMA DockerStepMoves ==
    ASSUME TypeOK, NEW r \in Requests, req[r].reply = "none", DockerStep(r)
    PROVE  Moving(r)
<1>1. \A pc \in {"prepareSwitch", "await", "start", "list", "find", "create", "prepareCreate",
                 "boot", "awaitNew", "undo", "dropOld", "rename", "prepareFirst"} :
         Moves(r, Goto(r, pc))
    BY MovesTo DEF Steps, FindSteps, CreateSteps, RestoreSteps, Deleting
<1>2. \A code \in {"ok", "limit", "error"} : Moves(r, Reply(r, code))
    BY MovesTo DEF Replies, Retries
<1>3. Moves(r, Fail(r))
    BY MovesTo
<1>4. CASE Find(r)
  <2>1. \A c \in Ids : Moves(r, Found(r, c))
      BY <1>1, MovesOn DEF Found
  <2> QED BY <1>1, <1>3, AskMoves, <1>4, <2>1 DEF Find, Of, Live
<1>5. CASE RemoveFind(r)
  <2>1. \A c \in Ids : Moves(r, [Goto(r, "remove") EXCEPT !.item = c])
      BY <1>5, MovesTo, MovesOn DEF RemoveFind, At
  <2> QED BY AskMoves, <1>1, <1>2, <1>3, <1>5, <2>1 DEF RemoveFind, AfterRemove, Of, Live
<1>6. CASE FindOld(r)
  <2>1. \A c \in Ids : Moves(r, [Goto(r, "create") EXCEPT !.item = c])
      BY <1>1, MovesOn
  <2> QED BY AskMoves, RejectMoves, <1>3, <1>6, <2>1 DEF FindOld, SnapshotFound, Of, Live
<1>7. CASE Remove(r) \/ Replace(r) \/ DropOld(r)
  <2>1. Moves(r, AfterRemove(r))
      BY <1>1, <1>2 DEF AfterRemove
  <2> QED BY <1>1, <1>3, <1>7, <2>1, DeleteMoves DEF Remove, Replace, DropOld, At
<1>8. CASE Start(r) \/ Create(r) \/ Boot(r) \/ Undo(r)
    BY <1>1, <1>3, <1>8, CallMoves, RejectMoves DEF Start, Create, Boot, Undo
<1>9. CASE List(r) \/ Version(r)
    BY AskMoves, <1>1, <1>2, <1>3, <1>9 DEF List, Version
<1>10. CASE Await(r)
  <2> DEFINE c == IF At(r, "awaitNew") THEN r ELSE req[r].item
  <2>1. ASSUME c \in Live, NEW ready PROVE Moves(r, Waited(r, c, ready))
      BY <1>1, <2>1, MovesTo DEF Waited, Live
  <2> QED BY AskMoves, RejectMoves, <1>3, <1>10, <2>1 DEF Await
<1>11. CASE Rename(r)
  <2>1. Moves(r, Deliver(r, r, r))
      BY MovesTo DEF Ids
  <2> QED BY <1>3, <1>11, <2>1, CallMoves, RejectMoves DEF Rename
<1> QED BY <1>4, <1>5, <1>6, <1>7, <1>8, <1>9, <1>10, <1>11 DEF DockerStep
-----------------------------------------------------------------------------
(* The invariant is preserved.                                             *)
LEMMA ImagesStay == BenignImages /\ Pull!Next => present \subseteq present'
BY DEF BenignImages, Pull!Next, Pull!Inspect, Pull!InspectFails, Pull!Consult, Pull!JoinPull,
       Pull!TakeResult, Pull!StartPull, Pull!PullStep, Pull!PullLands, Pull!PullEnds,
       Pull!RemoveImage, Pull!ImageArrives, Pull!Restart

LEMMA DockerStepKeeps ==
    ASSUME TypeOK, KeptInv, NEW r \in Requests, DockerStep(r) PROVE KeptInv'
<1>1. UNCHANGED <<present, caller>>
    BY DEF DockerStep
<1>2. req[r].pc \notin {"new", "done"} \cup Preparations
    BY DEF DockerStep, Find, RemoveFind, FindOld, SnapshotFound, Remove, Replace, DropOld, Start, List, Create,
           Boot, Undo, Await, Rename, Version, At, Preparations
<1>3. PICK q : req' = [req EXCEPT ![r] = q] /\ Moves(r, q)
    BY <1>2, DockerStepMoves DEF KeptInv, Kept, Moving
<1>4. req'[r] = q /\ \A s \in Requests \ {r} : req'[s] = req[s]
    BY <1>3 DEF TypeOK
<1>5. ASSUME NEW s \in Requests, s # r PROVE Kept(s)'
    BY <1>1, <1>4, <1>5 DEF KeptInv, Kept, Op
<1>6. Kept(r)'
  <2>1. q.deleted /\ Op(r) \in {"ensure", "rebuild"} =>
           req[r].order.image \in present /\ caller[r].phase # "missed"
      BY <1>2, <1>3 DEF Moves, KeptInv, Kept, TypeOK, OnCourse, RestoreSteps, Deleting, Op
  <2>2. q.pc \in Deleting /\ Op(r) # "remove" => req[r].order.image \in present
      BY <1>3 DEF Moves, KeptInv, Kept, Deleting
  <2>3. q.pc # "new"
      BY <1>3 DEF Moves
  <2> QED BY <1>1, <1>3, <1>4, <2>1, <2>2, <2>3 DEF Kept, Moves, Op
<1> QED BY <1>5, <1>6 DEF KeptInv

LEMMA PrepareImageKeeps ==
    ASSUME BenignImages, TypeOK, KeptInv, Pull!ReadyIsPresent', NEW r \in Requests,
           PrepareImage(r)
    PROVE  KeptInv'
<1> DEFINE image == req[r].order.image
<1>1. present \subseteq present'
    BY PrepareImageSteps, ImagesStay
<1>2. PICK v \in {"ready", "preparing", "failed", "missed"} :
         caller' = [caller EXCEPT ![r] = [image |-> image, phase |-> v]]
    BY VerdictFor
<1>3. caller'[r] = [image |-> image, phase |-> v] /\ \A s \in Requests \ {r} : caller'[s] = caller[s]
    BY <1>2 DEF TypeOK, Pull!TypeOK
<1>4. req'[r] = Prepared(r, v) /\ \A s \in Requests \ {r} : req'[s] = req[s]
    BY <1>3 DEF PrepareImage, TypeOK
<1>5. ASSUME NEW s \in Requests, s # r PROVE Kept(s)'
    BY <1>1, <1>3, <1>4, <1>5 DEF KeptInv, Kept, Op
<1>6. Kept(r)'
  <2>0. /\ req[r] \in Request
        /\ req[r].pc \in Preparations /\ req[r].reply = "none"
        /\ req[r].pc \notin {"new", "done"} \cup Deleting
        /\ Op(r) \in {"ensure", "rebuild", "health"}
        /\ Kept(r)
      BY DEF PrepareImage, KeptInv, Kept, TypeOK, OnCourse, Preparations, FindSteps, Deleting, Op
  <2>1. CASE v = "missed"
    <3>1. Prepared(r, v) = req[r]
        BY <2>1 DEF Prepared
    <3>2. image \notin present
        BY <1>3, <2>1 DEF PrepareImage, Pull!Inspect, Pull!InspectFails, Pull!Consult, Pull!JoinPull,
                    Pull!TakeResult, Pull!StartPull, Pull!Answer, TypeOK, Pull!TypeOK
    <3> QED BY <1>1, <1>3, <1>4, <2>0, <3>1, <3>2 DEF Kept, Op
  <2>2. CASE v = "ready"
    <3>1. image \in present'
        BY <1>3, <2>2 DEF Pull!ReadyIsPresent, Pull!Benign, BenignImages
    <3>2. CASE Op(r) = "health"
      <4>1. Prepared(r, v) = [req[r] EXCEPT !.pc = "done", !.reply = "ok"]
          BY <2>2, <3>2 DEF Prepared, Reply
      <4>2. /\ req'[r].order = req[r].order /\ req'[r].pc = "done"
            /\ req'[r].reply = "ok" /\ req'[r].deleted = req[r].deleted
          BY <1>4, <2>0, <4>1 DEF Request
      <4> QED BY <3>2, <4>2 DEF Kept, Op, Deleting, Retries
    <3>3. CASE Op(r) # "health"
      <4>1. Prepared(r, v) = [req[r] EXCEPT !.pc = AfterReady[req[r].pc]]
          BY <2>2, <3>3 DEF Prepared, Goto
      <4>2. /\ req'[r].order = req[r].order /\ req'[r].pc = AfterReady[req[r].pc]
            /\ req'[r].reply = "none" /\ req'[r].deleted = req[r].deleted
          BY <1>4, <2>0, <4>1 DEF Request
      <4>3. AfterReady[req[r].pc] \in {"removeFind", "delete", "create"}
          BY <2>0 DEF AfterReady, Preparations
      <4>4. caller'[r].phase # "missed"
          BY <1>3, <2>2
      <4> QED BY <3>1, <4>2, <4>3, <4>4 DEF Kept, Op, Retries
    <3> QED BY <3>2, <3>3
  <2>3. CASE v \in {"preparing", "failed"}
    <3>1. PICK code \in {"ok", "failed"} \cup Retries :
             /\ Prepared(r, v) = [req[r] EXCEPT !.pc = "done", !.reply = code]
             /\ code \in Retries => v = "preparing" /\ Op(r) # "health"
      <4>1. CASE Op(r) = "health"
          BY <2>3, <4>1 DEF Prepared, Reply, Retries
      <4>2. CASE Op(r) # "health" /\ v = "preparing"
          BY <4>2 DEF Prepared, NotReady, Reply, Retries
      <4>3. CASE Op(r) # "health" /\ v = "failed"
          BY <4>3 DEF Prepared, Reply, Retries
      <4> QED BY <2>3, <4>1, <4>2, <4>3
    <3>2. /\ req'[r].order = req[r].order /\ req'[r].pc = "done"
          /\ req'[r].reply = code /\ req'[r].deleted = req[r].deleted
        BY <1>4, <2>0, <3>1 DEF Request
    <3>3. v = "preparing" => caller[r].phase = "missed"
        BY <1>3 DEF PrepareImage, Pull!Inspect, Pull!InspectFails, Pull!Consult, Pull!JoinPull,
                    Pull!TakeResult, Pull!StartPull, Pull!Missed, Pull!Answer, TypeOK, Pull!TypeOK
    <3>4. code \in Retries => ~req[r].deleted
        BY <2>0, <3>1, <3>3 DEF Kept
    <3>5. caller'[r].phase # "missed"
        BY <1>3, <2>3
    <3> QED BY <1>1, <2>0, <3>2, <3>4, <3>5 DEF Kept, Op, Deleting
  <2> QED BY <2>1, <2>2, <2>3
<1> QED BY <1>5, <1>6 DEF KeptInv

LEMMA ArriveKeeps ==
    ASSUME TypeOK, KeptInv, NEW r \in Requests, Arrive(r) PROVE KeptInv'
<1>1. PICK order \in Orders :
         req' = [req EXCEPT ![r].order = order, ![r].pc = FirstStep[order.op]]
    BY DEF Arrive
<1>2. /\ req'[r].order = order /\ req'[r].pc = FirstStep[order.op]
      /\ req'[r].reply = req[r].reply /\ req'[r].deleted = req[r].deleted
      /\ \A s \in Requests \ {r} : req'[s] = req[s]
    BY <1>1 DEF TypeOK, Request
<1>3. req[r].pc = "new" /\ req[r].reply = "none" /\ ~req[r].deleted
    BY DEF Arrive, At, KeptInv, Kept
<1>4. order.op \in {"ensure", "rebuild", "remove", "health", "restore"}
    BY DEF Orders
<1>5. /\ FirstStep[order.op] \notin {"new", "done"}
      /\ FirstStep[order.op] \in Deleting => order.op = "remove"
    BY <1>4 DEF FirstStep, Deleting
<1>6. Kept(r)'
    BY <1>2, <1>3, <1>5 DEF Kept, Op
<1>7. ASSUME NEW s \in Requests, s # r PROVE Kept(s)'
    BY <1>2, <1>7 DEF Arrive, KeptInv, Kept, Op
<1> QED BY <1>6, <1>7 DEF KeptInv

LEMMA CrashKeeps == TypeOK /\ KeptInv /\ Crash => KeptInv'
<1> SUFFICES ASSUME TypeOK, KeptInv, Crash, NEW r \in Requests PROVE Kept(r)'
    BY DEF KeptInv
<1>1. present' = present /\ caller'[r].phase = "idle"
    BY DEF Crash, Pull!Restart, Pull!NoCall
<1>2. CASE req'[r] = req[r]
    BY <1>1, <1>2 DEF KeptInv, Kept, Op
<1>3. CASE req'[r] = Reply(r, "lost")
  <2>1. /\ req'[r].order = req[r].order /\ req'[r].pc = "done"
        /\ req'[r].reply = "lost" /\ req'[r].deleted = req[r].deleted
      BY <1>3 DEF Reply, TypeOK, Request
  <2> QED BY <1>1, <2>1 DEF KeptInv, Kept, Op, Deleting, Retries
<1> QED BY <1>2, <1>3 DEF Crash

LEMMA NextKeeps ==
    ASSUME BenignImages, TypeOK, KeptInv, Pull!ReadyIsPresent', [Next]_vars PROVE KeptInv'
<1>1. ASSUME NEW r \in Requests, Step(r) PROVE KeptInv'
    BY <1>1, DockerStepKeeps, PrepareImageKeeps DEF Step
<1>2. ASSUME NEW r \in Requests, Arrive(r) PROVE KeptInv'
    BY <1>2, ArriveKeeps
<1>3. CASE PullMoves
  <2>1. present \subseteq present' /\ req' = req
      BY <1>3, PullMovesSteps, ImagesStay DEF PullMoves
  <2>2. caller' = caller
      BY <1>3 DEF PullMoves, Pull!PullStep, Pull!PullLands, Pull!PullEnds, Pull!RemoveImage,
                    Pull!ImageArrives
  <2> QED BY <2>1, <2>2 DEF KeptInv, Kept, Op
<1>4. CASE Crash
    BY <1>4, CrashKeeps
<1>5. CASE UNCHANGED <<req, present, caller>>
    BY <1>5 DEF KeptInv, Kept, Op
<1> QED BY <1>1, <1>2, <1>3, <1>4, <1>5 DEF Next, HealthPasses, ContainerFails, vars

(* Where Docker reports the failures of its pulls and images stay, a       *)
(* request that is told to retry because its image is being prepared has   *)
(* not lost the sandbox it had, whatever else goes wrong.                  *)
THEOREM PreparingIsHarmless == BenignImages => (Spec => []PreparingKeepsSandbox)
<1> SUFFICES ASSUME BenignImages PROVE Spec => []PreparingKeepsSandbox
    OBVIOUS
<1>1. Init => KeptInv
    BY DEF Init, KeptInv, Kept, NewRequest, NoOrder, Op, Deleting
<1>2. TypeOK /\ KeptInv /\ Pull!ReadyIsPresent' /\ [Next]_vars => KeptInv'
    BY NextKeeps
<1> QED BY <1>1, <1>2, KeptSuffices, SandboxTypeCorrect, ReadyHolds, PTL DEF Spec
=============================================================================
