----------------------- MODULE SandboxRestores_proofs -----------------------
(***************************************************************************)
(* Restores, for any number of requests and snapshots: what they leave     *)
(* when they have ended.                                                   *)
(***************************************************************************)
EXTENDS SandboxItems_proofs

(* Docker answers every call, nobody goes away, and the controller runs on.*)
CallsSucceed == Faults \subseteq {"fail"}

(* A container has its key's own name, or it is the temporary one of a     *)
(* restore that is not over, or that has failed after it had deleted the   *)
(* old one.                                                                *)
Owns(r, q, C) ==
    C[r].status # "gone" =>
       \/ C[r].name = Canonical(C[r].key)
       \/ q.order.op = "restore" /\ q.pc \in After
       \/ q.order.op = "restore" /\ q.pc = "done" /\ q.deleted /\ q.reply = "error"

Tidy(r, q, C) ==
    /\ ~q.dead
    /\ q.pc = "rename" => q.deleted
    /\ Owns(r, q, C)

TidyInv ==
    /\ \A r \in Requests : Tidy(r, req[r], containers)
    /\ \A c \in Existing \cap Live : containers[c].name = Canonical(containers[c].key)

LEMMA CallAnswered ==
    ASSUME CallsSucceed, NEW r, ~req[r].dead, NEW effect, NEW ok, NEW error,
           Call(r, effect, ok, error)
    PROVE  containers' = effect /\ req' = [req EXCEPT ![r] = ok]
BY DEF CallsSucceed, Call

-----------------------------------------------------------------------------
(* Names are unique, with restores too: Docker gives none that is taken.   *)
LEMMA CreatedUniquely ==
    ASSUME TypeOK, UniqueNames, NEW r \in Requests, Named(req[r].order.name) = {},
           containers' = Created(r)
    PROVE  UniqueNames'
<1>1. r \in Ids /\ containers'[r].name = req[r].order.name
    BY DEF Created, TypeOK, Ids
<1>2. \A c \in Live' : c # r => c \in Live /\ containers'[c] = containers[c]
    BY <1>1 DEF Created, Live, TypeOK
<1>3. \A c \in Live : containers[c].name # req[r].order.name
    BY DEF Named
<1> QED BY <1>1, <1>2, <1>3 DEF UniqueNames

LEMMA RenamedUniquely ==
    ASSUME TypeOK, UniqueNames, NEW r \in Live, NEW n, Named(n) = {}, containers' = Renamed(r, n)
    PROVE  UniqueNames'
<1>1. r \in Ids /\ containers'[r].name = n
    BY DEF Renamed, TypeOK, Live, Container
<1>2. \A c \in Live' : c # r => c \in Live /\ containers'[c] = containers[c]
    BY <1>1 DEF Renamed, Live, TypeOK
<1>3. \A c \in Live : containers[c].name # n
    BY DEF Named
<1> QED BY <1>1, <1>2, <1>3 DEF UniqueNames

LEMMA SameNamesUnique ==
    ASSUME UniqueNames,
           \A c \in Live' : c \in Live /\ containers'[c].name = containers[c].name
    PROVE  UniqueNames'
BY DEF UniqueNames

LEMMA NextUnique == TypeOK /\ UniqueNames /\ [Next]_vars => UniqueNames'
<1> SUFFICES ASSUME TypeOK, UniqueNames, [Next]_vars PROVE UniqueNames'
    OBVIOUS
<1>1. ASSUME NEW r \in Requests, Step(r) PROVE UniqueNames'
  <2>1. CASE containers' = containers
      BY <2>1, SameNamesUnique DEF Live
  <2>2. ASSUME NEW c, containers' = Removed(c) PROVE UniqueNames'
    <3>1. \A d \in Live' : d \in Live /\ containers'[d].name = containers[d].name
        BY <2>2 DEF Removed, Live, TypeOK, Container
    <3> QED BY <3>1, SameNamesUnique
  <2>3. ASSUME NEW c \in Live, containers' = Started(c) PROVE UniqueNames'
    <3>1. \A d \in Live' : d \in Live /\ containers'[d].name = containers[d].name
        BY <2>3 DEF Started, Live, TypeOK, Container
    <3> QED BY <3>1, SameNamesUnique
  <2> QED BY <1>1, <2>1, <2>2, <2>3, StepEffect, CreatedUniquely, RenamedUniquely
<1>2. ASSUME NEW c \in Ids, HealthPasses(c) \/ ContainerFails(c) PROVE UniqueNames'
  <2>1. \A d \in Live' : d \in Live /\ containers'[d].name = containers[d].name
    <3>1. CASE HealthPasses(c)
        BY <3>1 DEF HealthPasses, Live, TypeOK, Container
    <3>2. CASE ContainerFails(c)
        BY <3>2 DEF ContainerFails, Running, Live, TypeOK, Container
    <3> QED BY <1>2, <3>1, <3>2
  <2> QED BY <2>1, SameNamesUnique
<1>3. CASE UNCHANGED containers
    BY <1>3, SameNamesUnique DEF Live
<1> QED BY <1>1, <1>2, <1>3 DEF Next, Arrive, PullMoves, Crash, vars

-----------------------------------------------------------------------------
(* What a step leaves of the other containers, and of one not made yet.    *)
LEMMA OthersNamed ==
    ASSUME TypeOK, NEW r \in Requests, Step(r), NEW c \in Ids, c # r, c \in Live'
    PROVE  /\ c \in Live /\ containers'[c].name = containers[c].name
           /\ containers'[c].key = containers[c].key
<1>1. CASE containers' = containers
    BY <1>1 DEF Live
<1>2. ASSUME NEW d, containers' = Removed(d)
      PROVE  c \in Live /\ containers'[c].name = containers[c].name
             /\ containers'[c].key = containers[c].key
    BY <1>2 DEF Removed, Live, TypeOK, Container
<1>3. ASSUME NEW d \in Live, containers' = Started(d)
      PROVE  c \in Live /\ containers'[c].name = containers[c].name
             /\ containers'[c].key = containers[c].key
    BY <1>3 DEF Started, Live, TypeOK, Container
<1>4. CASE containers' = Created(r) \/ containers' = Renamed(r, Canonical(Key(r)))
  <2>1. containers'[c] = containers[c]
      BY <1>4 DEF Created, Renamed, TypeOK
  <2> QED BY <2>1 DEF Live
<1> QED BY <1>1, <1>2, <1>3, <1>4, StepEffect

LEMMA StaysGone ==
    ASSUME TypeOK, NEW r \in Requests, Step(r), r \notin Live, ~At(r, "create")
    PROVE  r \notin Live'
<1>1. CASE containers' = containers
    BY <1>1 DEF Live
<1>2. ASSUME NEW d, containers' = Removed(d) PROVE r \notin Live'
    BY <1>2 DEF Removed, Live, TypeOK, Container
<1>3. ASSUME NEW d \in Live, containers' = Started(d) PROVE r \notin Live'
    BY <1>3 DEF Started, Live, TypeOK, Container
<1>4. CASE containers' = Renamed(r, Canonical(Key(r)))
    BY <1>4 DEF Renamed, Live, TypeOK, Container
<1> QED BY <1>1, <1>2, <1>3, <1>4, StepEffect

LEMMA Others ==
    ASSUME TypeOK, TidyInv, NEW r \in Requests, Step(r), NEW q, req' = [req EXCEPT ![r] = q],
           Tidy(r, q, containers')
    PROVE  TidyInv'
<1>1. req'[r] = q /\ \A s \in Requests \ {r} : req'[s] = req[s]
    BY DEF TypeOK
<1>2. ASSUME NEW s \in Requests \ {r} PROVE Tidy(s, req'[s], containers')
  <2>1. s \in Ids /\ Tidy(s, req[s], containers)
      BY DEF Ids, TidyInv
  <2>2. CASE containers'[s].status = "gone"
      BY <1>1, <2>1, <2>2 DEF Tidy, Owns
  <2>3. CASE s \in Live'
      BY <1>1, <2>1, <2>3, OthersNamed DEF Tidy, Owns, Live
  <2> QED BY <2>1, <2>2, <2>3 DEF Live
<1>3. ASSUME NEW c \in Existing \cap Live'
      PROVE  containers'[c].name = Canonical(containers'[c].key)
  <2>1. c \in Ids /\ c # r
      BY SandboxAssumption DEF Ids
  <2> QED BY <2>1, OthersNamed DEF TidyInv
<1> QED BY <1>1, <1>2, <1>3 DEF TidyInv

(* A request that has made nothing, before and after.                      *)
LEMMA NothingMade ==
    ASSUME TypeOK, ItemInv, TidyInv, NEW r \in Requests, Step(r), req[r].pc \in Before,
           ~At(r, "create"), NEW q, req' = [req EXCEPT ![r] = q], ~q.dead, q.pc # "rename"
    PROVE  TidyInv'
<1>1. r \notin Live
    BY DEF ItemInv, Sane, Live
<1>2. containers'[r].status = "gone"
    BY <1>1, StaysGone DEF Live, Ids
<1> QED BY <1>2, Others DEF Tidy, Owns

LEMMA TidyFields ==
    ASSUME TypeOK, NEW r \in Requests
    PROVE  /\ \A pc : LET n == Goto(r, pc) IN
                 n.dead = req[r].dead /\ n.pc = pc /\ n.order = req[r].order
                 /\ n.deleted = req[r].deleted
           /\ \A code : LET n == Reply(r, code) IN
                 n.dead = req[r].dead /\ n.pc = "done" /\ n.order = req[r].order
                 /\ n.deleted = req[r].deleted /\ n.reply = code
           /\ \A c, t : LET n == Deliver(r, c, t) IN
                 n.dead = req[r].dead /\ n.pc = "done" /\ n.order = req[r].order
                 /\ n.reply = "ok"
           /\ \A q \in Request : LET n == [q EXCEPT !.deleted = TRUE] IN
                 n.dead = q.dead /\ n.pc = q.pc /\ n.order = q.order /\ n.deleted
           /\ \A c : \A q \in Request : LET n == [q EXCEPT !.item = c] IN
                 n.dead = q.dead /\ n.pc = q.pc /\ n.order = q.order /\ n.deleted = q.deleted
BY DEF TypeOK, Request, Goto, Reply, Deliver

(* A request whose step leaves the name of its container as it is.         *)
LEMMA NameKept ==
    ASSUME TypeOK, TidyInv, NEW r \in Requests, Step(r), ~At(r, "create"),
           NEW q, req' = [req EXCEPT ![r] = q], ~q.dead, q.order = req[r].order,
           q.pc = "rename" => q.deleted,
           r \in Live' => Op(r) # "restore" \/ q.pc \in After
    PROVE  TidyInv'
<1>0. r \in Ids /\ Tidy(r, req[r], containers)
    BY DEF Ids, TidyInv
<1>1. CASE r \notin Live'
    BY <1>0, <1>1, Others DEF Tidy, Owns, Live
<1>2. CASE Op(r) = "restore" /\ q.pc \in After
    BY <1>2, Others DEF Tidy, Owns, Op
<1>3. CASE Op(r) # "restore" /\ r \in Live'
  <2>1. /\ r \in Live /\ containers'[r].name = containers[r].name
        /\ containers'[r].key = containers[r].key
    <3>1. CASE containers' = containers
        BY <1>3, <3>1 DEF Live
    <3>2. ASSUME NEW d, containers' = Removed(d)
          PROVE  r \in Live /\ containers'[r].name = containers[r].name
                 /\ containers'[r].key = containers[r].key
        BY <1>3, <3>2 DEF Removed, Live, TypeOK, Container
    <3>3. ASSUME NEW d \in Live, containers' = Started(d)
          PROVE  r \in Live /\ containers'[r].name = containers[r].name
                 /\ containers'[r].key = containers[r].key
        BY <1>3, <3>3 DEF Started, Live, TypeOK, Container
    <3> QED BY <1>3, <3>1, <3>2, <3>3, StepEffect
  <2>2. containers'[r].name = Canonical(containers'[r].key)
      BY <1>0, <1>3, <2>1 DEF Tidy, Owns, Live, Op
  <2> QED BY <2>2, Others DEF Tidy, Owns
<1> QED BY <1>1, <1>2, <1>3

-----------------------------------------------------------------------------
(* The steps, if every call is answered.                                   *)
LEMMA AskAnswered ==
    ASSUME CallsSucceed, NEW r, ~req[r].dead, NEW ok, Ask(r, ok)
    PROVE  containers' = containers /\ req' = [req EXCEPT ![r] = ok]
BY CallAnswered DEF Ask

LEMMA DeleteAnswered ==
    ASSUME CallsSucceed, NEW r, ~req[r].dead, NEW ok, NEW error, Delete(r, ok, error)
    PROVE  req' = [req EXCEPT ![r] = [ok EXCEPT !.deleted = TRUE]] \/ req' = [req EXCEPT ![r] = error]
BY CallAnswered DEF Delete, Reject

(* What a request goes on with.                                            *)
Onward(r, q) == ~q.dead /\ q.order = req[r].order /\ q.pc # "rename"

LEMMA OnwardFields ==
    ASSUME TypeOK, NEW r \in Requests, ~req[r].dead
    PROVE  /\ \A pc : pc # "rename" => Onward(r, Goto(r, pc)) /\ Goto(r, pc).pc = pc
           /\ \A code : Onward(r, Reply(r, code)) /\ Reply(r, code).pc = "done"
           /\ Onward(r, Fail(r)) /\ Fail(r).pc = "done"
           /\ \A c, t : Onward(r, Deliver(r, c, t)) /\ Deliver(r, c, t).pc = "done"
           /\ \A c : \A q \in Request : Onward(r, q) => Onward(r, [q EXCEPT !.item = c])
           /\ \A q \in Request : Onward(r, q) => Onward(r, [q EXCEPT !.deleted = TRUE])
BY TidyFields DEF Onward, Fail

LEMMA BeforeTidy ==
    ASSUME TypeOK, ItemInv, TidyInv, CallsSucceed, NEW r \in Requests, DockerStep(r),
           req[r].pc \in Before, ~At(r, "create")
    PROVE  TidyInv'
<1>0. ~req[r].dead /\ Step(r) /\ Before \cap {"rename", "undo", "boot", "dropOld", "awaitNew"} = {}
    BY DEF TidyInv, Tidy, Step, Before, FindSteps, RemoveSteps
<1>1. SUFFICES ASSUME TRUE PROVE \E q : req' = [req EXCEPT ![r] = q] /\ Onward(r, q)
    BY <1>0, NothingMade DEF Onward
<1>2. /\ \A pc \in {"find", "list", "start", "await", "prepareSwitch", "remove", "create",
                    "prepareCreate", "delete", "prepareFirst"} :
            Onward(r, Goto(r, pc)) /\ Goto(r, pc) \in Request
      /\ \A code : Onward(r, Reply(r, code))
      /\ Onward(r, Fail(r)) /\ Reply(r, "ok") \in Request
      /\ \A c, t : Onward(r, Deliver(r, c, t))
      /\ \A c : \A q \in Request : Onward(r, q) => Onward(r, [q EXCEPT !.item = c])
      /\ \A q \in Request : Onward(r, q) => Onward(r, [q EXCEPT !.deleted = TRUE])
    BY <1>0, OnwardFields, Continuations
    DEF TypeOK, Steps, FindSteps, RemoveSteps, CreateSteps, Replies
<1> DEFINE Item(pc, c) == [Goto(r, pc) EXCEPT !.item = c]
<1>12. \A c : \A pc \in {"start", "await", "prepareSwitch", "remove", "create"} : Onward(r, Item(pc, c))
    BY <1>2
<1> HIDE DEF Item
<1>3. CASE Find(r)
  <2>1. \A c : \E pc \in {"start", "await", "prepareSwitch"} : Found(r, c) = Item(pc, c)
      BY DEF Found, Item
  <2>2. \E ok : Ask(r, ok) /\ Onward(r, ok)
      BY <1>2, <1>3, <1>12, <2>1 DEF Find
  <2> QED BY <1>0, <2>2, AskAnswered
<1>4. Onward(r, AfterRemove(r)) /\ AfterRemove(r) \in Request
    BY <1>2 DEF AfterRemove
<1>5. CASE RemoveFind(r)
  <2>1. \E ok : Ask(r, ok) /\ Onward(r, ok)
      BY <1>4, <1>5, <1>12 DEF RemoveFind, Item
  <2> QED BY <1>0, <2>1, AskAnswered
<1>6. CASE FindOld(r)
  <2>1. Reject(r, Fail(r)) \/ \E ok : Ask(r, ok) /\ Onward(r, ok)
      BY <1>6, <1>12 DEF FindOld, SnapshotFound, Item
  <2> QED BY <1>0, <1>2, <2>1, AskAnswered DEF Reject
<1>7. CASE Remove(r)
    BY <1>0, <1>2, <1>4, <1>7, DeleteAnswered DEF Remove
<1>8. CASE Replace(r)
    BY <1>0, <1>2, <1>8, DeleteAnswered DEF Replace
<1>9. CASE Start(r)
    BY <1>0, <1>2, <1>9, CallAnswered DEF Start, Reject
<1>10. CASE List(r) \/ Version(r)
    BY <1>0, <1>2, <1>10, AskAnswered DEF List, Version
<1>11. CASE Await(r)
  <2>1. At(r, "await") /\ ~At(r, "awaitNew") /\ Op(r) # "restore"
      BY <1>0, <1>11 DEF Await, At, TypeOK, OnCourse, FindSteps, Op
  <2> QED BY <1>0, <1>2, <1>11, <2>1, AskAnswered DEF Await, Waited, Reject
<1> QED BY <1>0, <1>3, <1>5, <1>6, <1>7, <1>8, <1>9, <1>10, <1>11
        DEF DockerStep, Boot, Undo, DropOld, Rename, Create, At

LEMMA AfterTidy ==
    ASSUME TypeOK, ItemInv, TidyInv, CallsSucceed, NEW r \in Requests,
           Boot(r) \/ Undo(r) \/ DropOld(r) \/ (Await(r) /\ At(r, "awaitNew")), DockerStep(r)
    PROVE  TidyInv'
<1>0. ~req[r].dead /\ Step(r) /\ ~At(r, "create") /\ r \in Ids
    BY DEF TidyInv, Tidy, Step, Boot, Undo, DropOld, Await, At, Ids
<1>1. /\ \A pc \in {"awaitNew", "undo", "dropOld"} :
            Onward(r, Goto(r, pc)) /\ Goto(r, pc).pc = pc /\ pc \in After
      /\ Onward(r, Fail(r))
      /\ \A c, t : Onward(r, Deliver(r, c, t))
    BY <1>0, OnwardFields DEF After
<1>2. ASSUME NEW q, req' = [req EXCEPT ![r] = q], Onward(r, q),
             r \in Live' => Op(r) # "restore" \/ q.pc \in After
      PROVE  TidyInv'
    BY <1>0, <1>2, NameKept DEF Onward
<1>3. CASE Boot(r)
  <2>1. \E pc \in {"awaitNew", "undo"} : req' = [req EXCEPT ![r] = Goto(r, pc)]
      BY <1>0, <1>3, CallAnswered DEF Boot, Reject
  <2> QED BY <1>1, <1>2, <2>1
<1>4. CASE Undo(r)
  <2>1. req' = [req EXCEPT ![r] = Fail(r)]
      BY <1>0, <1>4, CallAnswered DEF Undo, Reject
  <2>2. r \notin Live'
    <3>1. CASE r \in Live
      <4>1. containers' = Removed(r)
          BY <1>0, <1>4, <3>1, CallAnswered DEF Undo
      <4> QED BY <1>0, <4>1 DEF Removed, Live, TypeOK, Container
    <3>2. CASE r \notin Live
        BY <1>0, <3>2, StaysGone
    <3> QED BY <3>1, <3>2
  <2> QED BY <1>1, <1>2, <2>1, <2>2
<1>5. CASE DropOld(r)
  <2>0. Goto(r, "rename") \in Request
      BY Continuations DEF TypeOK, Steps, RestoreSteps
  <2> DEFINE q == [Goto(r, "rename") EXCEPT !.deleted = TRUE]
  <2>1. ~q.dead /\ q.order = req[r].order /\ q.pc = "rename" /\ q.deleted
      BY <1>0, <2>0, TidyFields
  <2> HIDE DEF q
  <2>2. req' = [req EXCEPT ![r] = q] \/ req' = [req EXCEPT ![r] = Goto(r, "undo")]
      BY <1>0, <1>5, DeleteAnswered DEF DropOld, q
  <2> QED BY <1>0, <1>1, <1>2, <2>1, <2>2, NameKept DEF After
<1>6. CASE Await(r) /\ At(r, "awaitNew")
  <2>1. CASE r \in Live
    <3>1. PICK ready \in BOOLEAN : Ask(r, Waited(r, r, ready))
        BY <1>6, <2>1 DEF Await, IsReady, Running, TypeOK, Container, Live
    <3>2. req' = [req EXCEPT ![r] = Waited(r, r, ready)]
        BY <1>0, <3>1, AskAnswered
    <3>3. CASE Op(r) = "restore"
      <4> DEFINE pc == IF ready THEN "dropOld" ELSE "undo"
      <4>1. pc \in {"dropOld", "undo"}
          OBVIOUS
      <4>2. Waited(r, r, ready) = Goto(r, pc)
          BY <3>3 DEF Waited
      <4> HIDE DEF pc
      <4> QED BY <1>1, <1>2, <3>2, <4>1, <4>2
    <3>4. CASE Op(r) # "restore"
      <4>1. \E t : Waited(r, r, ready) = Deliver(r, r, t)
          BY <3>4 DEF Waited
      <4> QED BY <1>1, <1>2, <3>2, <3>4, <4>1
    <3> QED BY <3>3, <3>4
  <2>2. CASE r \notin Live
      BY <1>0, <1>1, <1>2, <1>6, <2>2, StaysGone DEF Await, Reject
  <2> QED BY <2>1, <2>2
<1> QED BY <1>3, <1>4, <1>5, <1>6

LEMMA CreateTidy ==
    ASSUME TypeOK, ItemInv, TidyInv, CallsSucceed, NEW r \in Requests, Create(r), DockerStep(r)
    PROVE  TidyInv'
<1>0. ~req[r].dead /\ Step(r) /\ r \in Ids /\ containers[r].status = "gone"
    BY DEF TidyInv, Tidy, Step, Create, At, Ids, ItemInv, Sane, Before
<1>1. CASE containers' = Created(r) /\ req' = [req EXCEPT ![r] = Goto(r, "boot")]
  <2>1. Goto(r, "boot").pc = "boot" /\ Goto(r, "boot").order = req[r].order /\ ~Goto(r, "boot").dead
      BY <1>0, TidyFields
  <2>2. containers'[r].name = req[r].order.name /\ containers'[r].key = Key(r)
      BY <1>0, <1>1 DEF Created, TypeOK
  <2>3. Op(r) # "restore" => req[r].order.name = Canonical(Key(r))
      BY OrderFields DEF TypeOK, Request, Op, Key
  <2>4. Tidy(r, Goto(r, "boot"), containers')
      BY <2>1, <2>2, <2>3 DEF Tidy, Owns, Op, After
  <2> QED BY <1>0, <1>1, <2>4, Others
<1>2. CASE containers' = containers /\ req' = [req EXCEPT ![r] = Fail(r)]
  <2>1. Tidy(r, Fail(r), containers')
      BY <1>0, <1>2, TidyFields DEF Tidy, Owns, Fail
  <2> QED BY <1>0, <1>2, <2>1, Others
<1> QED BY <1>0, <1>1, <1>2, CallAnswered DEF Create, Reject

LEMMA RenameTidy ==
    ASSUME TypeOK, ItemInv, TidyInv, CallsSucceed, NEW r \in Requests, Rename(r), DockerStep(r)
    PROVE  TidyInv'
<1>0. /\ ~req[r].dead /\ Step(r) /\ r \in Ids /\ req[r].deleted
      /\ req[r].order.op = "restore" /\ containers[r].key = Key(r)
    BY DEF TidyInv, Tidy, Step, Rename, At, Ids, ItemInv, Sane, After, TypeOK, OnCourse,
           RestoreSteps, Key
<1>1. CASE containers' = Renamed(r, Canonical(Key(r))) /\ req' = [req EXCEPT ![r] = Deliver(r, r, r)]
  <2>1. containers'[r].name = Canonical(Key(r)) /\ containers'[r].key = Key(r)
      BY <1>0, <1>1 DEF Renamed, TypeOK, Container
  <2>2. Tidy(r, Deliver(r, r, r), containers')
      BY <1>0, <2>1, TidyFields DEF Tidy, Owns
  <2> QED BY <1>0, <1>1, <2>2, Others
<1>2. CASE containers' = containers /\ req' = [req EXCEPT ![r] = Fail(r)]
  <2>1. Tidy(r, Fail(r), containers')
      BY <1>0, <1>2, TidyFields DEF Tidy, Owns, Fail
  <2> QED BY <1>0, <1>2, <2>1, Others
<1> QED BY <1>0, <1>1, <1>2, CallAnswered DEF Rename, Reject

LEMMA PrepareImageTidy ==
    ASSUME TypeOK, ItemInv, TidyInv, CallsSucceed, NEW r \in Requests, PrepareImage(r)
    PROVE  TidyInv'
<1>0. ~req[r].dead /\ Step(r) /\ req[r].pc \in Before /\ ~At(r, "create") /\ req[r].pc # "rename"
    BY DEF TidyInv, Tidy, Step, PrepareImage, Preparations, Before, FindSteps, At
<1>1. PICK verdict : req' = [req EXCEPT ![r] = Prepared(r, verdict)]
    BY DEF PrepareImage
<1>2. Onward(r, req[r]) /\ \A code : Onward(r, Reply(r, code))
    BY <1>0, OnwardFields DEF Onward
<1>3. Onward(r, Goto(r, AfterReady[req[r].pc]))
    BY <1>0, OnwardFields DEF AfterReady, PrepareImage, Preparations
<1>4. Onward(r, Prepared(r, verdict))
    BY <1>2, <1>3 DEF Prepared, NotReady
<1> HIDE DEF Before
<1> QED BY <1>0, <1>1, <1>4, NothingMade DEF Onward

LEMMA ArriveTidy ==
    ASSUME TypeOK, ItemInv, TidyInv, NEW r \in Requests, Arrive(r) PROVE TidyInv'
<1>1. PICK order \in Orders :
         req' = [req EXCEPT ![r].order = order, ![r].pc = FirstStep[order.op]]
    BY DEF Arrive
<1>2. /\ req'[r].pc = FirstStep[order.op] /\ req'[r].dead = req[r].dead
      /\ \A s \in Requests \ {r} : req'[s] = req[s]
    BY <1>1 DEF TypeOK, Request
<1>3. req'[r].pc \in {"find", "removeFind", "prepareFirst", "version", "findOld"}
    BY <1>2 DEF Orders, FirstStep
<1>4. containers[r].status = "gone" /\ containers' = containers
    BY DEF Arrive, At, Before, ItemInv, Sane
<1> QED BY <1>2, <1>3, <1>4 DEF TidyInv, Tidy, Owns, Live

LEMMA NextTidy == CallsSucceed /\ TypeOK /\ ItemInv /\ TidyInv /\ [Next]_vars => TidyInv'
<1> SUFFICES ASSUME CallsSucceed, TypeOK, ItemInv, TidyInv, [Next]_vars PROVE TidyInv'
    OBVIOUS
<1>1. ASSUME NEW r \in Requests, DockerStep(r) PROVE TidyInv'
  <2>1. CASE Find(r) \/ RemoveFind(r) \/ FindOld(r) \/ Remove(r) \/ Replace(r) \/ Start(r)
             \/ List(r) \/ Version(r) \/ (Await(r) /\ At(r, "await"))
    <3>1. req[r].pc \in Before /\ ~At(r, "create")
        BY <2>1 DEF Find, RemoveFind, FindOld, SnapshotFound, Remove, Replace, Start, List, Version, At,
           Before, FindSteps, RemoveSteps
    <3> QED BY <1>1, <3>1, BeforeTidy
  <2>2. CASE Boot(r) \/ Undo(r) \/ DropOld(r) \/ (Await(r) /\ At(r, "awaitNew"))
      BY <1>1, <2>2, AfterTidy
  <2> QED BY <1>1, <2>1, <2>2, CreateTidy, RenameTidy DEF DockerStep, Await
<1>2. ASSUME NEW c \in Ids, HealthPasses(c) \/ ContainerFails(c) PROVE TidyInv'
  <2>1. \A d \in Ids : /\ containers'[d].name = containers[d].name
                       /\ containers'[d].key = containers[d].key
                       /\ containers'[d].status = "gone" <=> containers[d].status = "gone"
    <3>1. CASE HealthPasses(c)
        BY <3>1 DEF HealthPasses, TypeOK, Container
    <3>2. CASE ContainerFails(c)
        BY <3>2 DEF ContainerFails, Running, TypeOK, Container
    <3> QED BY <1>2, <3>1, <3>2
  <2>2. req' = req
      BY <1>2 DEF HealthPasses, ContainerFails
  <2> QED BY <2>1, <2>2 DEF TidyInv, Tidy, Owns, Live, Ids
<1>3. CASE UNCHANGED <<containers, req>>
    BY <1>3 DEF TidyInv, Tidy, Owns, Live
<1>4. ~Crash
    BY DEF CallsSucceed, Crash
<1> QED BY <1>1, <1>2, <1>3, <1>4, PrepareImageTidy, ArriveTidy DEF Next, Step, PullMoves, vars

LEMMA InitTidy == Init => TidyInv
<1> SUFFICES ASSUME Init PROVE TidyInv
    OBVIOUS
<1>1. \A r \in Requests : containers[r] = Absent
    BY SandboxAssumption DEF Init, Ids
<1>2. \A c \in Live : containers[c].name = Canonical(containers[c].key)
    BY InitNames DEF NameInv, CanonicalNames
<1>3. ASSUME NEW r \in Requests PROVE Tidy(r, req[r], containers)
  <2>1. ~req[r].dead /\ req[r].pc = "new"
      BY DEF Init, NewRequest
  <2>2. containers[r].status = "gone"
      BY <1>1 DEF Absent
  <2> QED BY <2>1, <2>2 DEF Tidy, Owns
<1>4. \A c \in Existing \cap Live : containers[c].name = Canonical(containers[c].key)
    BY <1>2
<1> QED BY <1>3, <1>4 DEF TidyInv

(* As long as Docker answers every call, clients wait for their answers    *)
(* and the controller is not restarted: when all requests have ended, and  *)
(* no restore has failed after it had deleted the old sandbox, every key   *)
(* has at most one container, under the key's own name, and no restore has *)
(* left its temporary one, however many requests of whatever kinds ran     *)
(* into each other, and whatever the containers did meanwhile.             *)
THEOREM RestoresLeaveNothing == CallsSucceed => (Spec => []NoLeftover)
<1> SUFFICES ASSUME CallsSucceed PROVE Spec => []NoLeftover
    OBVIOUS
<1> DEFINE Inv == TypeOK /\ ItemInv /\ UniqueNames /\ TidyInv
<1>1. Init => Inv
    BY InitTypes, InitSane, InitNames, InitTidy DEF NameInv
<1>2. Inv /\ [Next]_vars => Inv'
    BY NextTypes, NextSane, NextUnique, NextTidy
<1>3. Inv => NoLeftover
  <2> SUFFICES ASSUME Inv, Ended,
                      \A r \in Requests : Op(r) = "restore" /\ req[r].deleted => req[r].reply = "ok"
               PROVE  OneSandboxPerKey
                      /\ \A c \in Live : containers[c].name = Canonical(containers[c].key)
      BY DEF NoLeftover
  <2>1. \A c \in Live : containers[c].name = Canonical(containers[c].key)
    <3>1. ASSUME NEW c \in Requests, c \in Live
          PROVE  containers[c].name = Canonical(containers[c].key)
      <4>1. req[c].pc = "done" /\ req[c].pc \notin After
          BY DEF Ended, At, After
      <4> QED BY <3>1, <4>1 DEF TidyInv, Tidy, Owns, Live, Op
    <3> QED BY <3>1 DEF TidyInv, Live, Ids
  <2> QED BY <2>1 DEF OneSandboxPerKey, UniqueNames
<1> HIDE DEF Inv
<1> QED BY <1>1, <1>2, <1>3, PTL DEF Spec

-----------------------------------------------------------------------------
(* Restores alone on their keys: a key that has a container keeps one.     *)
Quiet == \A r \in Requests : Op(r) \in {"none", "restore", "health"}

(* The steps of a restore between finding the old container and deleting   *)
(* it, and the containers that no request will give up.                    *)
Holding == {"create", "boot", "awaitNew", "dropOld"}

Committed(c) ==
    \/ c \in Existing
    \/ /\ c \in Requests
       /\ req[c].pc \in {"rename", "done"} \/ (At(c, "undo") /\ req[c].dead)

Passed(c) == "fail" \in Faults \/ IsReady(c)

(* A restore may find and replace the container that another one is still  *)
(* checking, and so on: rank is an order of age in which what is found     *)
(* comes before the container made to replace it.  When a request has lost *)
(* its container before it deletes the older one, a younger one is there   *)
(* to stay, because the chain of those who replace each other ends.        *)
Outlived(r, rank) ==
    \E w \in Of(Key(r)) \cap Requests : Committed(w) /\ Passed(w) /\ rank[w] > rank[r]

Anchored(k) == \E c \in Of(k) : Committed(c)

KeepInv(rank) ==
    /\ \A r \in Requests :
          Op(r) = "restore" /\ req[r].pc \in Holding => rank[req[r].item] < rank[r]
    /\ \A r \in Requests : At(r, "dropOld") /\ r \in Live => Passed(r)
    /\ \A r \in Requests : At(r, "dropOld") /\ r \notin Live => Outlived(r, rank)
    /\ \A c \in Ids : containers[c].key \in Keys => Anchored(containers[c].key)

Ranks == [Ids -> Nat]

LEMMA HeldItem ==
    ASSUME TypeOK, ItemInv, NEW r \in Requests, Op(r) = "restore", req[r].pc \in Holding
    PROVE  req[r].item \in Ids /\ containers[req[r].item].key = Key(r) /\ Key(r) \in Keys
<1>1. Holds(req[r])
    BY DEF Holding, Holds, Touching, Op
<1> QED BY <1>1, OrderKeys DEF ItemInv, Sane, Key, Keyed

(* A step after which all that stays for good is still there, ready if it  *)
(* was, no container has a new key, no restore has found another one, and  *)
(* nobody comes to delete without a ready container.                       *)
LEMMA Calm ==
    ASSUME NEW rank, KeepInv(rank),
           \A s \in Requests :
              req'[s].pc \in Holding /\ Op(s)' = "restore" =>
                 req[s].pc \in Holding /\ req'[s].item = req[s].item /\ req'[s].order = req[s].order,
           \A s \in Requests :
              req'[s].pc = "dropOld" =>
                 \/ s \in Live' /\ Passed(s)'
                 \/ s \notin Live /\ s \notin Live' /\ At(s, "dropOld") /\ Key(s)' = Key(s),
           \A c \in Live :
              Committed(c) => /\ c \in Live' /\ containers'[c].key = containers[c].key
                              /\ Committed(c)' /\ (Passed(c) => Passed(c)'),
           \A c \in Ids : containers'[c].key \in Keys =>
                             \E d \in Ids : containers[d].key = containers'[c].key
    PROVE  KeepInv(rank)'
<1>1. \A r \in Requests :
         Op(r)' = "restore" /\ req'[r].pc \in Holding => rank[req'[r].item] < rank[r]
    BY DEF KeepInv, Op
<1>2. \A r \in Requests : At(r, "dropOld")' /\ r \in Live' => Passed(r)'
    BY DEF At
<1>3. \A k : \A c \in Of(k) : Committed(c) =>
         c \in Of(k)' /\ Committed(c)' /\ (Passed(c) => Passed(c)')
    BY DEF Of
<1>4. ASSUME NEW r \in Requests, At(r, "dropOld")', r \notin Live' PROVE Outlived(r, rank)'
  <2>1. At(r, "dropOld") /\ r \notin Live /\ Key(r)' = Key(r)
      BY <1>4 DEF At
  <2>2. PICK w \in Of(Key(r)) \cap Requests : Committed(w) /\ Passed(w) /\ rank[w] > rank[r]
      BY <2>1 DEF KeepInv, Outlived
  <2>3. w \in Of(Key(r))' /\ Committed(w)' /\ Passed(w)'
      BY <1>3, <2>1, <2>2 DEF Of
  <2> QED BY <2>2, <2>3 DEF Outlived
<1>5. ASSUME NEW c \in Ids, containers'[c].key \in Keys PROVE Anchored(containers[c].key)'
  <2>1. PICK d \in Ids : containers[d].key = containers'[c].key
      BY <1>5
  <2>2. PICK a \in Of(containers[d].key) : Committed(a)
      BY <1>5, <2>1 DEF KeepInv, Anchored
  <2>3. a \in Live' /\ containers'[a].key = containers'[c].key /\ Committed(a)'
      BY <2>1, <2>2 DEF Of
  <2> QED BY <2>3 DEF Anchored, Of
<1> QED BY <1>1, <1>2, <1>4, <1>5 DEF KeepInv, Op, At

(* A step of a request that touches at most its own container, and removes *)
(* or restarts it only if it has not passed its check.                     *)
LEMMA OwnStep ==
    ASSUME TypeOK, ItemInv, NEW rank, KeepInv(rank), NEW r \in Requests,
           NEW q, req' = [req EXCEPT ![r] = q], q.order = req[r].order,
           q.pc \in Holding /\ Op(r) = "restore" =>
              req[r].pc \in Holding /\ q.item = req[r].item,
           q.pc = "dropOld" => r \in Live' /\ Passed(r)',
           Committed(r) => Committed(r)',
           \/ containers' = containers
           \/ ~Committed(r) /\ (containers' = Removed(r) \/ containers' = Started(r))
           \/ containers' = Created(r) /\ At(r, "create") /\ Op(r) = "restore"
           \/ r \in Live /\ \E n : containers' = Renamed(r, n)
    PROVE  KeepInv(rank)'
<1>0. r \in Ids /\ r \notin Existing
    BY SandboxAssumption DEF Ids
<1>1. req'[r] = q /\ \A s \in Requests \ {r} : req'[s] = req[s]
    BY DEF TypeOK
<1>2. \A c \in Ids \ {r} : containers'[c] = containers[c]
    BY DEF TypeOK, Removed, Started, Created, Renamed
<1>3. \A c \in Ids \ {r} : (c \in Live <=> c \in Live') /\ (Passed(c) <=> Passed(c)')
    BY <1>2 DEF Live, Passed, IsReady, Running
<1>4. \A c \in Ids \ {r} : Committed(c) <=> Committed(c)'
    BY <1>1 DEF Committed, At
<1>5. /\ r \in Live /\ Committed(r) => /\ r \in Live' /\ containers'[r].key = containers[r].key
                                       /\ Passed(r) => Passed(r)'
      /\ containers'[r].key = containers[r].key \/ (containers'[r].key = Key(r) /\ At(r, "create")
                                                    /\ Op(r) = "restore")
  <2>1. CASE containers' = containers
      BY <1>0, <2>1 DEF Live, Passed, IsReady, Running
  <2>2. CASE ~Committed(r) /\ (containers' = Removed(r) \/ containers' = Started(r))
      BY <1>0, <2>2 DEF Removed, Started, TypeOK, Container
  <2>3. CASE containers' = Created(r) /\ At(r, "create") /\ Op(r) = "restore"
    <3>1. ~Committed(r) /\ containers'[r].key = Key(r)
        BY <1>0, <2>3 DEF Created, TypeOK, At, Committed
    <3> QED BY <2>3, <3>1
  <2>4. CASE r \in Live /\ \E n : containers' = Renamed(r, n)
    <3>1. /\ containers'[r].status = containers[r].status
          /\ containers'[r].healthy = containers[r].healthy
          /\ containers'[r].key = containers[r].key
        BY <1>0, <2>4 DEF Renamed, TypeOK, Container
    <3> QED BY <1>0, <3>1 DEF Live, Passed, IsReady, Running
  <2> QED BY <2>1, <2>2, <2>3, <2>4
<1>6. \A c \in Ids : containers'[c].key \in Keys =>
         \E d \in Ids : containers[d].key = containers'[c].key
  <2>1. ASSUME At(r, "create"), Op(r) = "restore"
        PROVE  \E d \in Ids : containers[d].key = Key(r)
      BY <2>1, HeldItem DEF Holding, At
  <2> QED BY <1>2, <1>5, <2>1
<1>7. \A c \in Live : Committed(c) => /\ c \in Live' /\ containers'[c].key = containers[c].key
                                      /\ Committed(c)' /\ (Passed(c) => Passed(c)')
    BY <1>2, <1>3, <1>4, <1>5 DEF Live
<1>8. \A s \in Requests :
         req'[s].pc \in Holding /\ Op(s)' = "restore" =>
            req[s].pc \in Holding /\ req'[s].item = req[s].item /\ req'[s].order = req[s].order
    BY <1>1 DEF Op
<1>9. \A s \in Requests :
         req'[s].pc = "dropOld" =>
            \/ s \in Live' /\ Passed(s)'
            \/ s \notin Live /\ s \notin Live' /\ At(s, "dropOld") /\ Key(s)' = Key(s)
    BY <1>1, <1>3 DEF KeepInv, At, Key, Ids
<1> QED BY <1>6, <1>7, <1>8, <1>9, Calm

(* The one step that takes a container from another: what is deleted is    *)
(* older than the container of the one who deletes it, or than one that    *)
(* replaced that.                                                          *)
LEMMA OldDropped ==
    ASSUME TypeOK, ItemInv, NEW rank \in Ranks, KeepInv(rank), NEW r \in Requests,
           At(r, "dropOld"), Op(r) = "restore", req[r].item \in Live,
           containers' = Removed(req[r].item),
           NEW q, req' = [req EXCEPT ![r] = q], q.order = req[r].order,
           q.pc = "rename" \/ (q.pc = "undo" /\ q.dead)
    PROVE  /\ KeepInv(rank)'
           /\ \E w \in Of(Key(r))' : Passed(w)'
<1> DEFINE y == req[r].item
<1>0. /\ r \in Ids /\ r \notin Existing /\ \A c \in Ids : rank[c] \in Nat
      /\ y \in Ids /\ containers[y].key = Key(r) /\ Key(r) \in Keys /\ containers[r].key = Key(r)
      /\ rank[y] < rank[r]
    BY SandboxAssumption, HeldItem
    DEF Ids, Ranks, Holding, At, KeepInv, ItemInv, Sane, After, Key
<1> HIDE DEF y
<1>1. req'[r] = q /\ \A s \in Requests \ {r} : req'[s] = req[s]
    BY DEF TypeOK
<1>2. /\ \A c \in Ids \ {y} : containers'[c] = containers[c]
      /\ containers'[y].status = "gone" /\ \A c \in Ids : containers'[c].key = containers[c].key
    BY <1>0 DEF TypeOK, Removed, Container, y
<1>3. \A c \in Ids \ {y} : (c \in Live <=> c \in Live') /\ (Passed(c) <=> Passed(c)')
    BY <1>2 DEF Live, Passed, IsReady, Running
<1>4. Committed(r)' /\ ~Committed(r) /\ \A c \in Ids : Committed(c) => Committed(c)'
    BY <1>0, <1>1 DEF Committed, At
<1>5. \A c \in Live : c # y => c \in Live' /\ containers'[c].key = containers[c].key
    BY <1>2, <1>3 DEF Live
<1>6. PICK w \in Ids \cap Requests :
         /\ w \in Live' /\ containers'[w].key = Key(r) /\ Committed(w)' /\ Passed(w)'
         /\ rank[w] > rank[y]
  <2>1. CASE r \in Live
    <3>1. r # y /\ Passed(r)
        BY <1>0, <2>1 DEF KeepInv
    <3> QED BY <1>0, <1>3, <1>4, <1>5, <2>1, <3>1
  <2>2. CASE r \notin Live
    <3>1. PICK w \in Of(Key(r)) \cap Requests : Committed(w) /\ Passed(w) /\ rank[w] > rank[r]
        BY <2>2 DEF KeepInv, Outlived
    <3>2. w \in Ids /\ w \in Live /\ containers[w].key = Key(r) /\ rank[w] > rank[y] /\ w # y
        BY <1>0, <3>1 DEF Of, Live
    <3> QED BY <1>3, <1>4, <1>5, <3>1, <3>2
  <2> QED BY <2>1, <2>2
<1>7. ASSUME NEW s \in Requests, At(s, "dropOld")', s \in Live' PROVE Passed(s)'
  <2>1. s # r /\ s # y /\ s \in Ids /\ At(s, "dropOld")
      BY <1>1, <1>2, <1>7 DEF At, Live, Ids
  <2> QED BY <1>3, <1>7, <2>1 DEF KeepInv
<1>8. ASSUME NEW s \in Requests, At(s, "dropOld")', s \notin Live' PROVE Outlived(s, rank)'
  <2>1. s # r /\ s \in Ids /\ At(s, "dropOld") /\ req'[s] = req[s] /\ Key(s)' = Key(s)
      BY <1>1, <1>8 DEF At, Ids, Key
  <2>2. CASE \E v \in Of(Key(s)) \cap Requests :
                v # y /\ Committed(v) /\ Passed(v) /\ rank[v] > rank[s]
    <3>1. PICK v \in Of(Key(s)) \cap Requests :
                v # y /\ Committed(v) /\ Passed(v) /\ rank[v] > rank[s]
        BY <2>2
    <3>2. v \in Of(Key(s))' /\ Committed(v)' /\ Passed(v)'
        BY <1>3, <1>4, <1>5, <2>1, <3>1 DEF Of, Live
    <3> QED BY <3>1, <3>2 DEF Outlived
  <2>3. CASE Key(s) = Key(r) /\ rank[y] >= rank[s]
    <3>1. w \in Of(Key(s))' /\ rank[w] > rank[s]
        BY <1>0, <1>6, <2>1, <2>3 DEF Of
    <3> QED BY <1>6, <3>1 DEF Outlived
  <2>4. CASE s \in Live
    <3>1. s = y
        BY <1>3, <1>8, <2>1, <2>4
    <3>2. containers[s].key = Key(s)
        BY <2>1 DEF ItemInv, Sane, After, At, Key
    <3> QED BY <1>0, <2>1, <2>3, <3>1, <3>2
  <2>5. CASE s \notin Live
    <3>1. PICK v \in Of(Key(s)) \cap Requests : Committed(v) /\ Passed(v) /\ rank[v] > rank[s]
        BY <2>1, <2>5 DEF KeepInv, Outlived
    <3>2. v = y => Key(s) = Key(r) /\ rank[y] >= rank[s]
        BY <1>0, <2>1, <3>1 DEF Of
    <3> QED BY <2>2, <2>3, <3>1, <3>2
  <2> QED BY <2>4, <2>5
<1>9. ASSUME NEW c \in Ids, containers'[c].key \in Keys PROVE Anchored(containers[c].key)'
  <2>1. PICK a \in Of(containers[c].key) : Committed(a)
      BY <1>2, <1>9 DEF KeepInv, Anchored
  <2>2. CASE a # y
    <3>1. a \in Live' /\ containers'[a].key = containers'[c].key /\ Committed(a)'
        BY <1>2, <1>4, <1>5, <2>1, <2>2 DEF Of, Live
    <3> QED BY <3>1 DEF Anchored, Of
  <2>3. CASE a = y
    <3>1. w \in Live' /\ containers'[w].key = containers'[c].key /\ Committed(w)'
        BY <1>0, <1>2, <1>6, <2>1, <2>3 DEF Of
    <3> QED BY <3>1 DEF Anchored, Of
  <2> QED BY <2>2, <2>3
<1>10. ASSUME NEW s \in Requests, Op(s)' = "restore", req'[s].pc \in Holding
       PROVE  rank[req'[s].item] < rank[s]
  <2>1. s # r
      BY <1>1, <1>10 DEF Holding
  <2> QED BY <1>1, <1>10, <2>1 DEF KeepInv, Op
<1>11. KeepInv(rank)'
    BY <1>7, <1>8, <1>9, <1>10 DEF KeepInv, At, Op
<1>12. w \in Of(Key(r))'
    BY <1>1, <1>6 DEF Of, Key
<1> QED BY <1>6, <1>11, <1>12

(* A restore that has found its old container makes a younger one.         *)
LEMMA OldFound ==
    ASSUME TypeOK, ItemInv, NEW rank \in Ranks, KeepInv(rank), NEW r \in Requests,
           At(r, "findOld"), NEW c \in Of(Key(r)), containers' = containers,
           req' = [req EXCEPT ![r] = [Goto(r, "create") EXCEPT !.item = c]]
    PROVE  \E newer \in Ranks : KeepInv(newer)'
<1> DEFINE q == [Goto(r, "create") EXCEPT !.item = c]
           newer == [rank EXCEPT ![r] = rank[c] + 1]
<1>0. /\ r \in Ids /\ r \notin Existing /\ containers[r].status = "gone" /\ containers[r].key = None
      /\ r \notin Live /\ c \in Ids /\ c # r
    BY SandboxAssumption DEF Ids, At, ItemInv, Sane, Before, Of, Live
<1>1. /\ newer \in Ranks /\ newer[r] = rank[c] + 1 /\ newer[c] < newer[r]
      /\ \A d \in Ids \ {r} : newer[d] = rank[d]
    BY <1>0 DEF Ranks
<1>2. /\ req'[r] = q /\ \A s \in Requests \ {r} : req'[s] = req[s]
      /\ q.pc = "create" /\ q.item = c
    BY DEF TypeOK, Request, Goto
<1> HIDE DEF q, newer
<1>3. \A d \in Ids : (d \in Live <=> d \in Live') /\ (Passed(d) <=> Passed(d)')
    BY DEF Live, Passed, IsReady, Running
<1>4. \A d \in Ids : Committed(d) => Committed(d)'
    BY <1>0, <1>2 DEF Committed, At
<1>5. ASSUME NEW s \in Requests, Op(s)' = "restore", req'[s].pc \in Holding
      PROVE  newer[req'[s].item] < newer[s]
  <2>1. CASE s = r
      BY <1>1, <1>2, <2>1
  <2>2. CASE s # r
    <3>1. Op(s) = "restore" /\ req[s].pc \in Holding /\ req'[s].item = req[s].item
        BY <1>2, <1>5, <2>2 DEF Op
    <3>2. req[s].item \in Ids /\ req[s].item # r /\ s \in Ids
        BY <1>0, <3>1, HeldItem, SandboxAssumption DEF Ids
    <3> QED BY <1>1, <2>2, <3>1, <3>2 DEF KeepInv
  <2> QED BY <2>1, <2>2
<1>6. ASSUME NEW s \in Requests, At(s, "dropOld")' PROVE s # r /\ At(s, "dropOld") /\ Key(s)' = Key(s)
    BY <1>2, <1>6 DEF At, Key
<1>7. ASSUME NEW s \in Requests, At(s, "dropOld")', s \in Live' PROVE Passed(s)'
    BY <1>3, <1>6, <1>7 DEF KeepInv, Ids
<1>8. ASSUME NEW s \in Requests, At(s, "dropOld")', s \notin Live' PROVE Outlived(s, newer)'
  <2>1. PICK w \in Of(Key(s)) \cap Requests : Committed(w) /\ Passed(w) /\ rank[w] > rank[s]
      BY <1>3, <1>6, <1>8 DEF KeepInv, Outlived, Ids
  <2>2. w \in Ids /\ w # r /\ s \in Ids /\ s # r
      BY <1>0, <1>6, <1>8, <2>1 DEF Of, Ids
  <2>3. w \in Of(Key(s))' /\ Committed(w)' /\ Passed(w)' /\ newer[w] > newer[s]
      BY <1>1, <1>3, <1>4, <1>6, <1>8, <2>1, <2>2 DEF Of, Live
  <2> QED BY <2>3 DEF Outlived
<1>9. ASSUME NEW d \in Ids, containers'[d].key \in Keys PROVE Anchored(containers[d].key)'
  <2>1. PICK a \in Of(containers[d].key) : Committed(a)
      BY <1>9 DEF KeepInv, Anchored
  <2>2. a \in Live' /\ containers'[a].key = containers'[d].key /\ Committed(a)'
      BY <1>3, <1>4, <2>1 DEF Of, Live
  <2> QED BY <2>2 DEF Anchored, Of
<1>10. KeepInv(newer)'
    BY <1>5, <1>7, <1>8, <1>9 DEF KeepInv, At, Op
<1> QED BY <1>1, <1>10

(* What a request makes of a call, if no answer is lost after its effect.  *)
LEMMA CallOutcomes ==
    ASSUME "lose" \notin Faults, NEW r, NEW effect, NEW ok, NEW error, Call(r, effect, ok, error)
    PROVE  \/ ~req[r].dead /\ containers' = effect /\ req' = [req EXCEPT ![r] = ok]
           \/ containers' = containers /\ req' = [req EXCEPT ![r] = error]
           \/ /\ ~req[r].dead /\ (containers' = containers \/ containers' = effect)
              /\ req' = [req EXCEPT ![r] = [error EXCEPT !.dead = TRUE]]
BY DEF Call

(* What a request goes on with, and how it ends.                           *)
LEMMA Stepping ==
    ASSUME TypeOK, NEW r \in Requests
    PROVE  /\ \A pc \in Steps : LET q == Goto(r, pc) IN
                 q.order = req[r].order /\ q.pc = pc /\ q.item = req[r].item
           /\ LET q == [Goto(r, "undo") EXCEPT !.dead = TRUE] IN
                 q.order = req[r].order /\ q.pc = "undo" /\ q.dead
           /\ LET q == [Goto(r, "rename") EXCEPT !.deleted = TRUE] IN
                 q.order = req[r].order /\ q.pc = "rename"
           /\ Fail(r).order = req[r].order /\ Fail(r).pc = "done"
           /\ LET q == [Fail(r) EXCEPT !.dead = TRUE] IN q.order = req[r].order /\ q.pc = "done"
<1>1. Fail(r) \in Request /\ Goto(r, "undo") \in Request /\ Goto(r, "rename") \in Request
    BY Continuations DEF TypeOK, Fail, Replies, Steps, CreateSteps, RestoreSteps
<1>2. LET q == [Goto(r, "rename") EXCEPT !.deleted = TRUE] IN
         q.order = req[r].order /\ q.pc = "rename"
    BY <1>1, GotoFields, TidyFields
<1>3. LET q == [Goto(r, "undo") EXCEPT !.dead = TRUE] IN
         q.order = req[r].order /\ q.pc = "undo" /\ q.dead
    BY <1>1, GotoFields, Fields DEF Request
<1>4. Fail(r).order = req[r].order /\ Fail(r).pc = "done"
    BY ReplyFields DEF Fail
<1>5. LET q == [Fail(r) EXCEPT !.dead = TRUE] IN q.order = req[r].order /\ q.pc = "done"
    BY <1>1, <1>4, Fields
<1> QED BY <1>2, <1>3, <1>4, <1>5, GotoFields

LEMMA Ending ==
    ASSUME TypeOK, ItemInv, NEW rank, KeepInv(rank), NEW r \in Requests,
           NEW q, req' = [req EXCEPT ![r] = q], q.order = req[r].order, q.pc = "done",
           \/ containers' = containers
           \/ ~Committed(r) /\ containers' = Removed(r)
           \/ containers' = Created(r) /\ At(r, "create") /\ Op(r) = "restore"
           \/ r \in Live /\ \E n : containers' = Renamed(r, n)
    PROVE  KeepInv(rank)'
<1>1. Committed(r)'
    BY DEF Committed, TypeOK
<1>2. q.pc \notin Holding \cup {"dropOld"}
    BY DEF Holding
<1> QED BY <1>1, <1>2, OwnStep

LEMMA GivingUp ==
    ASSUME TypeOK, ItemInv, NEW rank, KeepInv(rank), NEW r \in Requests, ~Committed(r),
           NEW q, req' = [req EXCEPT ![r] = q], q.order = req[r].order, q.pc = "undo",
           containers' = containers \/ containers' = Started(r)
    PROVE  KeepInv(rank)'
<1>1. q.pc \notin Holding \cup {"dropOld"}
    BY DEF Holding
<1> QED BY <1>1, OwnStep

-----------------------------------------------------------------------------
LEMMA RestoreProgress ==
    ASSUME "lose" \notin Faults, TypeOK, ItemInv, NEW rank \in Ranks, KeepInv(rank),
           NEW r \in Requests, Op(r) = "restore",
           FindOld(r) \/ Create(r) \/ Boot(r) \/ Undo(r) \/ Rename(r) \/ (Await(r) /\ At(r, "awaitNew"))
    PROVE  \E newer \in Ranks : KeepInv(newer)'
<1>0. r \in Ids /\ r \notin Existing
    BY SandboxAssumption DEF Ids
<1> DEFINE failed == [Fail(r) EXCEPT !.dead = TRUE]
           lost == [Goto(r, "undo") EXCEPT !.dead = TRUE]
<1>1. /\ Fail(r).order = req[r].order /\ Fail(r).pc = "done"
      /\ failed.order = req[r].order /\ failed.pc = "done"
      /\ lost.order = req[r].order /\ lost.pc = "undo"
      /\ \A pc \in {"boot", "awaitNew", "undo", "dropOld"} :
            /\ Goto(r, pc).order = req[r].order /\ Goto(r, pc).pc = pc
            /\ Goto(r, pc).item = req[r].item
    BY Stepping DEF Steps, CreateSteps, RestoreSteps
<1> HIDE DEF failed, lost
<1>2. CASE FindOld(r)
  <2>1. CASE req' = [req EXCEPT ![r] = Fail(r)] /\ containers' = containers
      BY <1>1, <2>1, Ending
  <2>2. CASE req' = [req EXCEPT ![r] = failed] /\ containers' = containers
      BY <1>1, <2>2, Ending
  <2>3. ASSUME NEW c \in Of(Key(r)), Ask(r, [Goto(r, "create") EXCEPT !.item = c])
        PROVE  \E newer \in Ranks : KeepInv(newer)'
    <3>1. CASE /\ req' = [req EXCEPT ![r] = [Goto(r, "create") EXCEPT !.item = c]]
               /\ containers' = containers
        BY <1>2, <3>1, OldFound DEF FindOld, SnapshotFound
    <3> QED BY <2>1, <2>2, <2>3, <3>1, CallOutcomes DEF Ask, failed
  <2> QED BY <1>2, <2>1, <2>3 DEF FindOld, SnapshotFound, Reject
<1>3. CASE Create(r)
  <2>1. At(r, "create") /\ ~Committed(r)
      BY <1>0, <1>3 DEF Create, At, Committed
  <2>2. CASE containers' = Created(r) /\ req' = [req EXCEPT ![r] = Goto(r, "boot")]
    <3>1. "boot" # "dropOld" /\ req[r].pc \in Holding
        BY <2>1 DEF At, Holding
    <3> QED BY <1>1, <2>1, <2>2, <3>1, OwnStep
  <2>3. CASE /\ containers' = Created(r) \/ containers' = containers
             /\ req' = [req EXCEPT ![r] = Fail(r)] \/ req' = [req EXCEPT ![r] = failed]
      BY <1>1, <2>1, <2>3, Ending
  <2> QED BY <1>3, <2>2, <2>3, CallOutcomes DEF Create, Reject, failed
<1>4. CASE Boot(r)
  <2>1. At(r, "boot") /\ ~Committed(r)
      BY <1>0, <1>4 DEF Boot, At, Committed
  <2>2. CASE containers' = Started(r) /\ req' = [req EXCEPT ![r] = Goto(r, "awaitNew")]
    <3>1. "awaitNew" # "dropOld" /\ req[r].pc \in Holding
        BY <2>1 DEF At, Holding
    <3> QED BY <1>1, <2>1, <2>2, <3>1, OwnStep
  <2>3. CASE /\ containers' = Started(r) \/ containers' = containers
             /\ req' = [req EXCEPT ![r] = Goto(r, "undo")] \/ req' = [req EXCEPT ![r] = lost]
      BY <1>1, <2>1, <2>3, GivingUp
  <2> QED BY <1>4, <2>2, <2>3, CallOutcomes DEF Boot, Reject, lost
<1>5. CASE Undo(r)
  <2>1. ~req[r].dead => ~Committed(r)
      BY <1>0, <1>5 DEF Undo, At, Committed
  <2>2. CASE /\ containers' = containers \/ (~req[r].dead /\ containers' = Removed(r))
             /\ req' = [req EXCEPT ![r] = Fail(r)] \/ req' = [req EXCEPT ![r] = failed]
      BY <1>1, <2>1, <2>2, Ending
  <2> QED BY <1>5, <2>2, CallOutcomes DEF Undo, Reject, failed
<1>6. CASE Rename(r)
  <2>1. Deliver(r, r, r).order = req[r].order /\ Deliver(r, r, r).pc = "done"
      BY DeliverFields
  <2>2. CASE /\ containers' = containers \/ (r \in Live /\ \E n : containers' = Renamed(r, n))
             /\ \/ req' = [req EXCEPT ![r] = Fail(r)] \/ req' = [req EXCEPT ![r] = failed]
                \/ req' = [req EXCEPT ![r] = Deliver(r, r, r)]
      BY <1>1, <2>1, <2>2, Ending
  <2> QED BY <1>6, <2>2, CallOutcomes DEF Rename, Reject, failed
<1>7. CASE Await(r) /\ At(r, "awaitNew")
  <2>1. ~Committed(r) /\ req[r].pc \in Holding
      BY <1>0, <1>7 DEF At, Committed, Holding
  <2>2. CASE /\ containers' = containers
             /\ req' = [req EXCEPT ![r] = Fail(r)] \/ req' = [req EXCEPT ![r] = failed]
      BY <1>1, <2>2, Ending
  <2>3. CASE containers' = containers /\ req' = [req EXCEPT ![r] = Goto(r, "undo")]
      BY <1>1, <2>1, <2>3, GivingUp
  <2>4. CASE /\ containers' = containers /\ req' = [req EXCEPT ![r] = Goto(r, "dropOld")]
             /\ r \in Live /\ IsReady(r)
    <3>1. r \in Live' /\ Passed(r)'
        BY <2>4 DEF Live, Passed, IsReady, Running
    <3> QED BY <1>1, <2>1, <2>4, <3>1, OwnStep
  <2>5. ASSUME r \in Live, NEW ready \in {FALSE, IsReady(r)}, Ask(r, Waited(r, r, ready))
        PROVE  \/ Ask(r, Goto(r, "undo"))
               \/ IsReady(r) /\ Ask(r, Goto(r, "dropOld"))
      BY <2>5 DEF Waited
  <2>6. CASE r \in Live
      BY <1>7, <2>2, <2>3, <2>4, <2>5, <2>6, CallOutcomes DEF Await, Ask, failed
  <2>7. CASE r \notin Live
      BY <1>7, <2>2, <2>7 DEF Await, Reject
  <2> QED BY <2>6, <2>7
<1> QED BY <1>2, <1>3, <1>4, <1>5, <1>6, <1>7

LEMMA DropOldKeeps ==
    ASSUME "lose" \notin Faults, TypeOK, ItemInv, NEW rank \in Ranks, KeepInv(rank),
           NEW r \in Requests, Op(r) = "restore", DropOld(r)
    PROVE  /\ KeepInv(rank)'
           /\ containers' # containers => \E w \in Of(Key(r))' : Passed(w)'
<1> DEFINE dropped == [Goto(r, "rename") EXCEPT !.deleted = TRUE]
           lost == [Goto(r, "undo") EXCEPT !.dead = TRUE]
<1>1. /\ dropped.order = req[r].order /\ dropped.pc = "rename"
      /\ lost.order = req[r].order /\ lost.pc = "undo" /\ lost.dead
      /\ Goto(r, "undo").order = req[r].order /\ Goto(r, "undo").pc = "undo"
    BY Stepping DEF Steps, CreateSteps
<1> HIDE DEF dropped, lost
<1>2. At(r, "dropOld") /\ ~Committed(r)
    BY SandboxAssumption DEF DropOld, At, Committed
<1>3. CASE /\ containers' = containers
           /\ req' = [req EXCEPT ![r] = Goto(r, "undo")] \/ req' = [req EXCEPT ![r] = lost]
    BY <1>1, <1>2, <1>3, GivingUp
<1>4. CASE /\ req[r].item \in Live /\ containers' = Removed(req[r].item)
           /\ req' = [req EXCEPT ![r] = dropped] \/ req' = [req EXCEPT ![r] = lost]
    BY <1>1, <1>2, <1>4, OldDropped
<1> QED BY <1>3, <1>4, CallOutcomes DEF DropOld, Delete, Reject, dropped, lost

LEMMA HealthKeeps ==
    ASSUME TypeOK, ItemInv, NEW rank \in Ranks, KeepInv(rank),
           NEW r \in Requests, Op(r) = "health", Version(r) \/ PrepareImage(r)
    PROVE  KeepInv(rank)' /\ containers' = containers
<1>1. containers' = containers
    BY CallEffect DEF Version, Ask, PrepareImage
<1>2. ~Committed(r)
    BY SandboxAssumption DEF Version, PrepareImage, Preparations, At, Committed
<1>3. ASSUME NEW q, req' = [req EXCEPT ![r] = q], q.order = req[r].order, q.pc # "dropOld"
      PROVE  KeepInv(rank)'
    BY <1>1, <1>2, <1>3, OwnStep
<1>4. CASE Version(r)
  <2> DEFINE failed == [Fail(r) EXCEPT !.dead = TRUE]
  <2>1. /\ failed.order = req[r].order /\ failed.pc = "done"
        /\ Fail(r).order = req[r].order /\ Fail(r).pc = "done"
        /\ Goto(r, "prepareFirst").order = req[r].order
        /\ Goto(r, "prepareFirst").pc = "prepareFirst"
      BY Stepping DEF Steps
  <2> HIDE DEF failed
  <2>2. \/ req' = [req EXCEPT ![r] = failed] \/ req' = [req EXCEPT ![r] = Fail(r)]
        \/ req' = [req EXCEPT ![r] = Goto(r, "prepareFirst")]
      BY <1>4 DEF Version, Ask, Call, failed
  <2> QED BY <1>1, <1>3, <2>1, <2>2
<1>5. CASE PrepareImage(r)
  <2>1. PICK verdict : req' = [req EXCEPT ![r] = Prepared(r, verdict)]
      BY <1>5 DEF PrepareImage
  <2>2. Prepared(r, verdict) = req[r] \/ \E code : Prepared(r, verdict) = Reply(r, code)
      BY DEF Prepared, NotReady
  <2>3. req[r].pc # "dropOld"
      BY <1>5 DEF PrepareImage, Preparations
  <2>4. Prepared(r, verdict).order = req[r].order /\ Prepared(r, verdict).pc # "dropOld"
      BY <2>2, <2>3, ReplyFields
  <2> QED BY <1>1, <1>3, <2>1, <2>4
<1> QED BY <1>1, <1>4, <1>5

LEMMA StepKeeps ==
    ASSUME "lose" \notin Faults, Quiet, TypeOK, ItemInv, NEW rank \in Ranks, KeepInv(rank),
           NEW r \in Requests, Step(r)
    PROVE  /\ \E newer \in Ranks : KeepInv(newer)'
           /\ (\E c \in Of(Key(r)) \ {r} : c \notin Live') => \E w \in Of(Key(r))' : Passed(w)'
<1>1. Op(r) = "restore" \/ Op(r) = "health" \/ Op(r) = "none"
    BY DEF Quiet
<1>2. CASE Op(r) = "restore"
  <2>1. ~PrepareImage(r) /\ ~Version(r) /\ ~Find(r) /\ ~RemoveFind(r) /\ ~Remove(r) /\ ~Replace(r)
        /\ ~Start(r) /\ ~List(r) /\ ~At(r, "await")
      BY <1>2 DEF PrepareImage, Preparations, Version, Find, RemoveFind, Remove, Replace, Start,
         List, At, TypeOK, OnCourse, Op, FindSteps, RemoveSteps
  <2>2. CASE DropOld(r)
    <3>1. containers' = containers => Live' = Live
        BY DEF Live
    <3> QED BY <1>2, <2>2, <3>1, DropOldKeeps DEF Of
  <2>3. CASE FindOld(r) \/ Create(r) \/ Boot(r) \/ Undo(r) \/ Rename(r)
             \/ (Await(r) /\ At(r, "awaitNew"))
    <3>1. \E newer \in Ranks : KeepInv(newer)'
        BY <1>2, <2>3, RestoreProgress
    <3>2. \A c \in Of(Key(r)) \ {r} : c \in Live'
      <4>1. \/ containers' = containers \/ containers' = Created(r) \/ containers' = Started(r)
            \/ containers' = Removed(r) \/ \E n : containers' = Renamed(r, n)
          BY <2>3, CallEffect DEF FindOld, SnapshotFound, Create, Boot, Undo, Rename, Await, Ask, Reject
      <4>2. \A c \in Ids \ {r} : containers'[c] = containers[c]
          BY <4>1 DEF TypeOK, Created, Started, Removed, Renamed
      <4> QED BY <4>2 DEF Of, Live
    <3> QED BY <3>1, <3>2
  <2> QED BY <2>1, <2>2, <2>3 DEF Step, DockerStep, Await
<1>3. CASE Op(r) = "health" \/ Op(r) = "none"
  <2>1. /\ ~FindOld(r) /\ ~Create(r) /\ ~Boot(r) /\ ~Undo(r) /\ ~Rename(r) /\ ~Await(r)
        /\ ~DropOld(r) /\ ~Find(r) /\ ~RemoveFind(r) /\ ~Remove(r) /\ ~Replace(r) /\ ~Start(r)
        /\ ~List(r)
      BY <1>3 DEF FindOld, SnapshotFound, Create, Boot, Undo, Rename, Await, DropOld, Find, RemoveFind, Remove,
         Replace, Start, List, At, TypeOK, OnCourse, Op, FindSteps, RemoveSteps, CreateSteps,
         RestoreSteps
  <2>2. (Version(r) \/ PrepareImage(r)) /\ Op(r) = "health"
      BY <1>3, <2>1 DEF Step, DockerStep, Version, PrepareImage, Preparations, At, TypeOK,
         OnCourse, Op, FindSteps
  <2>3. KeepInv(rank)' /\ containers' = containers
      BY <2>2, HealthKeeps
  <2>4. Live' = Live
      BY <2>3 DEF Live
  <2> QED BY <2>3, <2>4 DEF Of
<1> QED BY <1>1, <1>2, <1>3

-----------------------------------------------------------------------------
Kept == \E rank \in Ranks : KeepInv(rank)

LEMMA ArriveKeeps ==
    ASSUME TypeOK, ItemInv, NEW rank, KeepInv(rank), NEW r \in Requests, Arrive(r)
    PROVE  KeepInv(rank)'
<1>1. PICK order \in Orders :
         req' = [req EXCEPT ![r].order = order, ![r].pc = FirstStep[order.op]]
    BY DEF Arrive
<1>2. req'[r].pc = FirstStep[order.op] /\ \A s \in Requests \ {r} : req'[s] = req[s]
    BY <1>1 DEF TypeOK, Request
<1>3. req'[r].pc \in {"find", "removeFind", "prepareFirst", "version", "findOld"}
    BY <1>2 DEF Orders, FirstStep
<1>4. containers' = containers /\ ~Committed(r) /\ req'[r].pc \notin Holding
    BY <1>3, SandboxAssumption DEF Arrive, Committed, At, Holding
<1>5. /\ Live' = Live /\ \A c \in Ids : Passed(c)' <=> Passed(c)
      /\ \A c \in Ids : Committed(c) => Committed(c)'
    BY <1>2, <1>4 DEF Live, Passed, IsReady, Running, Committed, At
<1>6. \A s \in Requests :
         req'[s].pc \in Holding /\ Op(s)' = "restore" =>
            req[s].pc \in Holding /\ req'[s].item = req[s].item /\ req'[s].order = req[s].order
    BY <1>2, <1>4
<1>7. \A s \in Requests :
         req'[s].pc = "dropOld" =>
            \/ s \in Live' /\ Passed(s)'
            \/ s \notin Live /\ s \notin Live' /\ At(s, "dropOld") /\ Key(s)' = Key(s)
    BY <1>2, <1>4, <1>5 DEF KeepInv, Holding, At, Key, Ids
<1>8. \A c \in Live :
         Committed(c) => /\ c \in Live' /\ containers'[c].key = containers[c].key
                         /\ Committed(c)' /\ (Passed(c) => Passed(c)')
    BY <1>4, <1>5 DEF Live
<1> QED BY <1>4, <1>6, <1>7, <1>8, Calm

LEMMA CrashKeeps ==
    ASSUME TypeOK, ItemInv, NEW rank, KeepInv(rank), Crash PROVE KeepInv(rank)'
<1>1. containers' = containers /\ Live' = Live /\ \A c \in Ids : Passed(c)' <=> Passed(c)
    BY DEF Crash, Live, Passed, IsReady, Running
<1>2. \A s \in Requests : req'[s] = req[s] \/ req'[s].pc = "done"
    BY ReplyFields DEF Crash
<1>3. \A s \in Requests : req'[s].pc \in Holding \cup {"dropOld"} => req'[s] = req[s]
    BY <1>2 DEF Holding
<1>4. \A c \in Ids : Committed(c) => Committed(c)'
    BY <1>2 DEF Committed, At
<1>5. \A s \in Requests :
         req'[s].pc = "dropOld" =>
            \/ s \in Live' /\ Passed(s)'
            \/ s \notin Live /\ s \notin Live' /\ At(s, "dropOld") /\ Key(s)' = Key(s)
    BY <1>1, <1>3 DEF KeepInv, At, Key, Ids
<1>6. \A c \in Live :
         Committed(c) => /\ c \in Live' /\ containers'[c].key = containers[c].key
                         /\ Committed(c)' /\ (Passed(c) => Passed(c)')
    BY <1>1, <1>4 DEF Live
<1> QED BY <1>1, <1>3, <1>5, <1>6, Calm

(* The containers' own life, which takes no readiness away unless "fail".  *)
LEMMA LifeKeeps ==
    ASSUME TypeOK, NEW rank, KeepInv(rank), NEW c \in Ids, HealthPasses(c) \/ ContainerFails(c)
    PROVE  KeepInv(rank)'
<1>1. req' = req
    BY DEF HealthPasses, ContainerFails
<1>2. \A d \in Ids : /\ containers'[d].key = containers[d].key
                     /\ (d \in Live <=> d \in Live') /\ (Passed(d) => Passed(d)')
  <2>1. CASE HealthPasses(c)
      BY <2>1 DEF HealthPasses, Passed, IsReady, Running, Live, TypeOK, Container
  <2>2. CASE ContainerFails(c)
      BY <2>2 DEF ContainerFails, Passed, Running, Live, TypeOK, Container
  <2> QED BY <2>1, <2>2
<1>3. \A d \in Ids : Committed(d) => Committed(d)'
    BY <1>1 DEF Committed, At
<1>4. \A s \in Requests :
         req'[s].pc = "dropOld" =>
            \/ s \in Live' /\ Passed(s)'
            \/ s \notin Live /\ s \notin Live' /\ At(s, "dropOld") /\ Key(s)' = Key(s)
    BY <1>1, <1>2 DEF KeepInv, At, Key, Ids
<1>5. \A d \in Live :
         Committed(d) => /\ d \in Live' /\ containers'[d].key = containers[d].key
                         /\ Committed(d)' /\ (Passed(d) => Passed(d)')
    BY <1>2, <1>3 DEF Live
<1> QED BY <1>1, <1>2, <1>4, <1>5, Calm

(* An order does not change once it is made, so who works on a key is      *)
(* seen afterwards.                                                        *)
LEMMA StepOrders == ASSUME TypeOK, NEW r \in Requests, Step(r) PROVE SameOrders
<1>1. CASE PrepareImage(r)
  <2>1. PICK verdict : req' = [req EXCEPT ![r] = Prepared(r, verdict)]
      BY <1>1 DEF PrepareImage
  <2>2. \/ Prepared(r, verdict) = req[r]
        \/ \E code : Prepared(r, verdict) = Reply(r, code)
        \/ \E pc : Prepared(r, verdict) = Goto(r, pc)
      BY DEF Prepared, NotReady
  <2>3. Prepared(r, verdict).order = req[r].order
      BY <2>2, ReplyFields, GotoFields
  <2> QED BY <2>1, <2>3 DEF SameOrders, TypeOK
<1> QED BY <1>1, DockerStepTypes DEF Step

LEMMA CrashOrders == TypeOK /\ Crash => SameOrders
BY ReplyFields DEF Crash, SameOrders

LEMMA QuietBefore == TypeOK /\ [Next]_vars /\ Quiet' => Quiet
<1> SUFFICES ASSUME TypeOK, [Next]_vars, Quiet', NEW s \in Requests
             PROVE  Op(s) \in {"none", "restore", "health"}
    BY DEF Quiet
<1>1. Op(s)' \in {"none", "restore", "health"}
    BY DEF Quiet
<1>2. ASSUME NEW r \in Requests, Arrive(r) PROVE s # r => req'[s] = req[s]
    BY <1>2 DEF Arrive, TypeOK
<1>3. ASSUME NEW r \in Requests, Arrive(r) PROVE Op(r) = "none"
    BY <1>3 DEF Arrive, TypeOK, OnCourse, At, Op
<1>4. ASSUME SameOrders PROVE Op(s)' = Op(s)
    BY <1>4 DEF SameOrders, Op
<1>5. req' = req => SameOrders
    BY DEF SameOrders
<1>6. SameOrders \/ \E r \in Requests : Arrive(r)
    BY <1>5, StepOrders, CrashOrders DEF Next, HealthPasses, ContainerFails, PullMoves, vars
<1> QED BY <1>1, <1>2, <1>3, <1>4, <1>6 DEF Op

-----------------------------------------------------------------------------
LEMMA NextKeeps ==
    "lose" \notin Faults /\ TypeOK /\ ItemInv /\ (Quiet => Kept) /\ [Next]_vars => (Quiet => Kept)'
<1> SUFFICES ASSUME "lose" \notin Faults, TypeOK, ItemInv, Quiet => Kept, [Next]_vars, Quiet'
             PROVE  Kept'
    OBVIOUS
<1>1. Quiet
    BY QuietBefore
<1>2. PICK rank \in Ranks : KeepInv(rank)
    BY <1>1 DEF Kept
<1>3. ASSUME NEW newer \in Ranks, KeepInv(newer)' PROVE Kept'
    BY <1>3 DEF Kept
<1>4. ASSUME NEW r \in Requests, Step(r) PROVE Kept'
    BY <1>1, <1>2, <1>3, <1>4, StepKeeps
<1>5. ASSUME NEW r \in Requests, Arrive(r) PROVE Kept'
    BY <1>2, <1>3, <1>5, ArriveKeeps
<1>6. ASSUME NEW c \in Ids, HealthPasses(c) \/ ContainerFails(c) PROVE Kept'
    BY <1>2, <1>3, <1>6, LifeKeeps
<1>7. CASE Crash
    BY <1>2, <1>3, <1>7, CrashKeeps
<1>8. CASE UNCHANGED <<containers, req>>
  <2>1. KeepInv(rank)' = KeepInv(rank)
      BY <1>8 DEF KeepInv, Outlived, Anchored, Committed, Passed, IsReady, Running, Of, Live,
                  Key, Op, At
  <2> QED BY <1>2, <1>3, <2>1
<1> QED BY <1>4, <1>5, <1>6, <1>7, <1>8 DEF Next, PullMoves, vars

LEMMA InitKeeps == Init => Kept
<1> SUFFICES ASSUME Init PROVE Kept
    OBVIOUS
<1> DEFINE rank == [c \in Ids |-> 0]
<1>1. rank \in Ranks
    BY DEF Ranks
<1> HIDE DEF rank
<1>2. \A r \in Requests : req[r].pc = "new"
    BY DEF Init, NewRequest
<1>3. ASSUME NEW c \in Ids, containers[c].key \in Keys PROVE Anchored(containers[c].key)
  <2>1. c \in Existing /\ c \in Live
      BY <1>3, SandboxAssumption DEF Init, Absent, Live, Ids
  <2> QED BY <2>1 DEF Anchored, Of, Committed
<1>4. KeepInv(rank)
    BY <1>2, <1>3 DEF KeepInv, Holding, At
<1> QED BY <1>1, <1>4 DEF Kept

(* Whichever step moves a request with an order is that request's own, or  *)
(* the end of the process.                                                 *)
LEMMA OwnSteps ==
    ASSUME TypeOK, Next, NEW r \in Requests, StepOf(r), Op(r) # "none"
    PROVE  Step(r) \/ Crash
<1>1. ASSUME NEW s \in Requests, Step(s) PROVE s = r
  <2>1. \E q : req' = [req EXCEPT ![s] = q]
      BY <1>1 DEF Step, DockerStep, PrepareImage, Find, RemoveFind, FindOld, SnapshotFound, Remove, Replace,
         DropOld, Start, List, Create, Boot, Undo, Await, Rename, Version, Delete, Ask, Call, Reject
  <2> QED BY <2>1 DEF TypeOK, StepOf
<1>2. ASSUME NEW s \in Requests, Arrive(s) PROVE FALSE
  <2>1. Op(s) = "none"
      BY <1>2 DEF Arrive, TypeOK, OnCourse, At, Op
  <2> QED BY <1>2, <2>1 DEF Arrive, TypeOK, StepOf
<1> QED BY <1>1, <1>2 DEF Next, HealthPasses, ContainerFails, PullMoves, StepOf

LEMMA StepLasts ==
    ASSUME TypeOK, ItemInv, NEW r \in Requests, Step(r)
    PROVE  Lasts(containers, containers') \/ LastsBut(r, containers, containers')
<1>1. At(r, "create") => containers[r].key = None
    BY DEF ItemInv, Sane, Before, At
<1> QED BY <1>1, StepEffect, EffectsLast

(* As long as Docker loses no answer to a deletion that took effect: among *)
(* restores and health reports, however many, of whatever snapshots, and   *)
(* whoever goes away or restarts the controller meanwhile, no step of a    *)
(* restore takes the last container of its key away; and if no container   *)
(* loses its readiness by itself, the one it replaces goes only when       *)
(* another one of the key is ready, even if the restore's own container    *)
(* has been replaced while it was about to delete.                         *)
THEOREM RestoresKeepSandboxes == "lose" \notin Faults => (Spec => RestoreKeepsSandbox)
<1> SUFFICES ASSUME "lose" \notin Faults PROVE Spec => RestoreKeepsSandbox
    OBVIOUS
<1> DEFINE Keeps ==
       \A r \in Requests :
          LET k == Key(r) IN
          /\ StepOf(r) /\ Op(r) = "restore" /\ Of(k) # {}
          /\ \A other \in Requests : Op(other) \in {"none", "restore", "health"}
          =>
          /\ Of(k)' # {}
          /\ "fail" \notin Faults /\ (\E c \in Of(k) \ {r} : c \notin Live')
                => \E c \in Of(k)' : IsReady(c)'
    Inv == TypeOK /\ ItemInv /\ (Quiet => Kept)
<1>1. Inv /\ Inv' /\ Next => Keeps
  <2> SUFFICES ASSUME Inv, Inv', Next, NEW r \in Requests, StepOf(r), Op(r) = "restore",
                      Of(Key(r)) # {}, Quiet
               PROVE  /\ Of(Key(r))' # {}
                      /\ "fail" \notin Faults /\ (\E c \in Of(Key(r)) \ {r} : c \notin Live')
                            => \E c \in Of(Key(r))' : IsReady(c)'
      BY DEF Quiet
  <2>1. Step(r) \/ Crash
      BY OwnSteps
  <2>2. SameOrders
      BY <2>1, StepOrders, CrashOrders
  <2>3. Quiet' /\ Key(r)' = Key(r)
      BY <2>2 DEF SameOrders, Quiet, Op, Key
  <2>4. PICK rank \in Ranks : KeepInv(rank)'
      BY <2>3 DEF Kept
  <2>5. PICK c \in Of(Key(r)) : TRUE
      OBVIOUS
  <2>6. c \in Ids /\ containers[c].key = Key(r) /\ Key(r) \in Keys /\ Key(r) # None
      BY <2>5, OrderKeys DEF Of, Live, Keyed
  <2>7. containers'[c].key = Key(r)
      BY <2>1, <2>6, StepLasts DEF Crash, Lasts, LastsBut, Same
  <2>8. Anchored(containers[c].key)'
      BY <2>4, <2>6, <2>7 DEF KeepInv
  <2>9. Of(Key(r))' # {}
      BY <2>3, <2>7, <2>8 DEF Anchored, Of
  <2>10. ASSUME "fail" \notin Faults, \E d \in Of(Key(r)) \ {r} : d \notin Live'
         PROVE  \E d \in Of(Key(r))' : IsReady(d)'
    <3>1. Step(r)
        BY <2>1, <2>10 DEF Crash, Live, Of
    <3>2. PICK old \in Ranks : KeepInv(old)
        BY DEF Kept
    <3>3. PICK w \in Of(Key(r))' : Passed(w)'
        BY <2>10, <3>1, <3>2, StepKeeps
    <3> QED BY <2>10, <3>3 DEF Passed
  <2> QED BY <2>9, <2>10
<1>2. Inv /\ Inv' /\ [Next]_vars => [Keeps]_vars
    BY <1>1
<1>3. Init => Inv
    BY InitTypes, InitSane, InitKeeps
<1>4. Inv /\ [Next]_vars => Inv'
    BY NextTypes, NextSane, NextKeeps
<1> HIDE DEF Keeps, Inv
<1>5. Spec => [][Keeps]_vars
    BY <1>2, <1>3, <1>4, PTL DEF Spec
<1> QED BY <1>5 DEF Keeps, RestoreKeepsSandbox
=============================================================================
