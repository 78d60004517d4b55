------------------------- MODULE SandboxItems_proofs ------------------------
(***************************************************************************)
(* The containers that the sandbox operations touch, for any number of     *)
(* requests, whatever fails, and however often the controller is           *)
(* restarted: between the call that finds a container and the one that     *)
(* deletes it or hands it out, other requests work on the same key.  What  *)
(* keeps this right is that the identity of a container is used, and that  *)
(* its key and image never change.                                         *)
(***************************************************************************)
EXTENDS Sandboxes_proofs

(* Where a request has not made its container yet, where it has, where it  *)
(* has an item to touch, and where the item has the image that is asked    *)
(* for, or another one.                                                    *)
Before == FindSteps \cup RemoveSteps \cup {"new", "findOld", "version", "prepareFirst", "create"}
After == {"boot", "awaitNew", "undo", "dropOld", "rename"}
Touching == {"start", "await", "prepareSwitch", "delete", "remove", "dropOld"}
Fitting == {"start", "await"}
Unfitting == {"prepareSwitch", "delete"}

Keyed == {"ensure", "rebuild", "remove", "restore"}

(* The containers C, seen by a request r that is in state q.               *)
Holds(q) ==
    \/ q.pc \in Touching
    \/ q.order.op = "restore" /\ q.pc \in {"create", "boot", "awaitNew"}

Fulfils(r, q, C) ==
    LET c == q.container IN
    /\ c \in Ids /\ q.order.op \in Keyed
    /\ C[c].key = q.order.key /\ C[c].image = q.order.image
    /\ q.order.op # "rebuild" /\ q.token # None => c = q.token

Sane(r, q, C) ==
    /\ q.pc \in Before => C[r].key = None /\ C[r].status = "gone"
    /\ q.pc \in After => C[r].key = q.order.key /\ C[r].image = q.order.image
    /\ Holds(q) => q.item \in Ids /\ C[q.item].key = q.order.key
    /\ q.pc \in Fitting => C[q.item].image = q.order.image
    /\ q.pc \in Unfitting => C[q.item].image # q.order.image
    /\ q.pc # "done" => q.reply = "none"
    /\ q.container # None => q.pc = "done" /\ Fulfils(r, q, C)

ItemInv == \A r \in Requests : Sane(r, req[r], containers)

(* Containers D after C: none has another key or image, and none is made,  *)
(* but that of s.                                                          *)
Same(C, D, c) ==
    /\ D[c].key = C[c].key /\ D[c].image = C[c].image
    /\ C[c].status = "gone" => D[c].status = "gone"

Lasts(C, D) == \A c \in Ids : Same(C, D, c)
LastsBut(s, C, D) == C[s].key = None /\ \A c \in Ids \ {s} : Same(C, D, c)

LEMMA OrderKeys ==
    ASSUME TypeOK, NEW r \in Requests, Op(r) \in Keyed PROVE Key(r) \in Keys /\ Key(r) # None
BY SandboxAssumption DEF TypeOK, Request, Op, Key, Keyed, Orders, NoOrder

(* A request with an item, or with a container to answer, is for a key.    *)
LEMMA HoldsKey ==
    ASSUME TypeOK, NEW r \in Requests, Holds(req[r]) PROVE Op(r) \in Keyed
BY DEF TypeOK, OnCourse, Holds, Touching, Op, Keyed, FindSteps, CreateSteps, RemoveSteps,
       RestoreSteps

LEMMA Lasting ==
    ASSUME TypeOK, NEW r \in Requests, NEW C, NEW D, Sane(r, req[r], C),
           Lasts(C, D) \/ \E s \in Requests \ {r} : LastsBut(s, C, D)
    PROVE  Sane(r, req[r], D)
<1> DEFINE q == req[r]
<1>0. r \in Ids
    BY DEF Ids
<1>1. Same(C, D, r)
    BY <1>0 DEF Lasts, LastsBut
<1>2. \A c \in Ids : C[c].key # None => Same(C, D, c)
    BY DEF Lasts, LastsBut
<1>3. Holds(q) => Same(C, D, q.item)
    BY <1>2, HoldsKey, OrderKeys DEF Sane, Key
<1>4. q.container # None => Same(C, D, q.container)
    BY <1>2, OrderKeys DEF Sane, Fulfils, Key, Op
<1>5. q.pc \in Fitting \cup Unfitting => Holds(q)
    BY DEF Holds, Fitting, Unfitting, Touching
<1> QED BY <1>1, <1>3, <1>4, <1>5 DEF Sane, Same, Fulfils

-----------------------------------------------------------------------------
(* What Docker does to the containers, and what the request makes of it.   *)
LEMMA EffectsLast ==
    ASSUME TypeOK
    PROVE  /\ Lasts(containers, containers)
           /\ \A c : Lasts(containers, Removed(c))
           /\ \A n : \A c \in Live : Lasts(containers, Renamed(c, n))
           /\ \A c \in Live : Lasts(containers, Started(c))
           /\ \A r \in Requests :
                 containers[r].key = None => LastsBut(r, containers, Created(r))
<1> USE DEF TypeOK, Container, Same
<1>1. \A c : Lasts(containers, Removed(c))
    BY DEF Removed, Lasts
<1>2. \A n : \A c \in Live : Lasts(containers, Renamed(c, n))
    BY DEF Renamed, Lasts, Live
<1>3. \A c \in Live : Lasts(containers, Started(c))
    BY DEF Started, Lasts, Live
<1>4. ASSUME NEW r \in Requests, containers[r].key = None
      PROVE  LastsBut(r, containers, Created(r))
    BY <1>4 DEF Created, LastsBut
<1> QED BY <1>1, <1>2, <1>3, <1>4 DEF Lasts

LEMMA Fields ==
    ASSUME NEW q \in Request
    PROVE  /\ \A c : LET n == [q EXCEPT !.item = c] IN
                 /\ n.order = q.order /\ n.pc = q.pc /\ n.item = c /\ n.reply = q.reply
                 /\ n.container = q.container /\ n.token = q.token
           /\ LET n == [q EXCEPT !.dead = TRUE] IN
                 /\ n.order = q.order /\ n.pc = q.pc /\ n.item = q.item /\ n.reply = q.reply
                 /\ n.container = q.container /\ n.token = q.token
           /\ LET n == [q EXCEPT !.deleted = TRUE] IN
                 /\ n.order = q.order /\ n.pc = q.pc /\ n.item = q.item /\ n.reply = q.reply
                 /\ n.container = q.container /\ n.token = q.token
BY DEF Request

LEMMA GotoFields ==
    ASSUME TypeOK, NEW r \in Requests, NEW pc
    PROVE  LET n == Goto(r, pc)
               q == req[r]
           IN  /\ n.order = q.order /\ n.pc = pc /\ n.item = q.item /\ n.reply = q.reply
               /\ n.container = q.container /\ n.token = q.token
BY DEF TypeOK, Request, Goto

LEMMA ReplyFields ==
    ASSUME TypeOK, NEW r \in Requests, NEW code
    PROVE  LET n == Reply(r, code)
               q == req[r]
           IN  /\ n.order = q.order /\ n.pc = "done" /\ n.reply = code
               /\ n.container = q.container /\ n.token = q.token
BY DEF TypeOK, Request, Reply

LEMMA DeliverFields ==
    ASSUME TypeOK, NEW r \in Requests, NEW c, NEW t
    PROVE  LET n == Deliver(r, c, t) IN
           /\ n.order = req[r].order /\ n.pc = "done" /\ n.reply = "ok"
           /\ n.container = c /\ n.token = t
BY DEF TypeOK, Request, Reply, Deliver

(* A request that has ended without a container asks for nothing.          *)
LEMMA DoneSane ==
    ASSUME NEW r, NEW q, NEW C, q.pc = "done", q.container = None PROVE Sane(r, q, C)
BY DEF Sane, Holds, Before, After, Touching, Fitting, Unfitting, FindSteps, RemoveSteps

LEMMA RepliesSane ==
    ASSUME TypeOK, NEW r \in Requests, ItemInv, ~At(r, "done")
    PROVE  /\ \A C, code : Sane(r, Reply(r, code), C)
           /\ \A C : Sane(r, Fail(r), C)
<1>1. req[r].container = None
    BY DEF ItemInv, Sane, At
<1>2. \A code : Reply(r, code).pc = "done" /\ Reply(r, code).container = None
    BY <1>1, ReplyFields
<1> QED BY <1>2, DoneSane DEF Fail

(* The step of a request is right if it is right for the request itself.   *)
LEMMA StepSane ==
    ASSUME TypeOK, ItemInv, NEW r \in Requests, NEW q, req' = [req EXCEPT ![r] = q],
           Lasts(containers, containers') \/ LastsBut(r, containers, containers'),
           Sane(r, q, containers')
    PROVE  ItemInv'
<1>1. req'[r] = q /\ \A s \in Requests \ {r} : req'[s] = req[s]
    BY DEF TypeOK
<1>2. ASSUME NEW s \in Requests \ {r} PROVE Sane(s, req[s], containers')
    BY Lasting DEF ItemInv
<1> QED BY <1>1, <1>2 DEF ItemInv

LEMMA RejectSane ==
    ASSUME TypeOK, ItemInv, NEW r \in Requests, NEW error, Sane(r, error, containers),
           Reject(r, error)
    PROVE  ItemInv'
BY StepSane, EffectsLast DEF Reject

LEMMA CallSane ==
    ASSUME TypeOK, ItemInv, NEW r \in Requests, NEW effect, NEW ok, NEW error \in Request,
           Lasts(containers, effect) \/ LastsBut(r, containers, effect),
           Sane(r, ok, effect), Sane(r, error, effect), Sane(r, error, containers),
           Call(r, effect, ok, error)
    PROVE  ItemInv'
<1> DEFINE gone == [error EXCEPT !.dead = TRUE]
<1>1. Sane(r, gone, effect) /\ Sane(r, gone, containers)
    BY Fields DEF Sane, Holds, Fulfils
<1> HIDE DEF gone
<1>2. PICK q : req' = [req EXCEPT ![r] = q] /\ Sane(r, q, containers')
    BY <1>1 DEF Call, gone
<1>3. Lasts(containers, containers') \/ LastsBut(r, containers, containers')
    BY EffectsLast, CallEffect
<1> QED BY <1>2, <1>3, StepSane

LEMMA AskSane ==
    ASSUME TypeOK, ItemInv, NEW r \in Requests, ~At(r, "done"), NEW ok,
           Sane(r, ok, containers), Ask(r, ok)
    PROVE  ItemInv'
<1>1. Fail(r) \in Request /\ Sane(r, Fail(r), containers)
    BY RepliesSane, Continuations DEF TypeOK, Fail, Replies
<1> QED BY <1>1, CallSane, EffectsLast DEF Ask

LEMMA DeleteSane ==
    ASSUME TypeOK, ItemInv, NEW r \in Requests, NEW ok \in Request, NEW error \in Request,
           \A C : Lasts(containers, C) => Sane(r, ok, C) /\ Sane(r, error, C),
           Delete(r, ok, error)
    PROVE  ItemInv'
<1> DEFINE effect == Removed(req[r].item)
           done == [ok EXCEPT !.deleted = TRUE]
<1>1. Lasts(containers, effect) /\ Lasts(containers, containers)
    BY EffectsLast
<1>2. Sane(r, done, effect)
    BY <1>1, Fields DEF Sane, Holds, Fulfils
<1>3. Reject(r, error) \/ Call(r, effect, done, error)
    BY DEF Delete
<1> HIDE DEF effect, done
<1> QED BY <1>1, <1>2, <1>3, RejectSane, CallSane

-----------------------------------------------------------------------------
(* The steps, by the containers C that they leave.                         *)
Groups == FindSteps \cup RemoveSteps \cup CreateSteps \cup RestoreSteps
             \cup {"version", "prepareFirst"}

(* A request that has made nothing yet, and goes where it touches nothing, *)
(* or touches what it did before.                                          *)
LEMMA BeforeSane ==
    ASSUME TypeOK, ItemInv, NEW r \in Requests, req[r].pc \in Before, ~At(r, "done"),
           NEW C, Lasts(containers, C),
           NEW pc \in {"find", "list", "prepareCreate", "removeFind", "prepareFirst", "create"},
           Op(r) = "restore" => pc # "create"
    PROVE  Sane(r, Goto(r, pc), C)
<1>1. Same(containers, C, r) /\ Sane(r, req[r], containers)
    BY DEF Ids, Lasts, ItemInv
<1>2. pc \notin After \cup Touching \cup Fitting \cup Unfitting \cup {"boot", "awaitNew", "done"}
    BY DEF After, Touching, Fitting, Unfitting
<1>3. ~Holds(Goto(r, pc))
    BY <1>2, GotoFields DEF Holds, Op
<1> QED BY <1>1, <1>2, <1>3, GotoFields DEF Sane, Same, At

(* A request that has found its container.                                 *)
LEMMA FindSane ==
    ASSUME TypeOK, ItemInv, NEW r \in Requests, req[r].pc \in Before, ~At(r, "done"),
           NEW c \in Of(Key(r)),
           NEW pc \in {"start", "await", "prepareSwitch", "remove", "create"},
           pc \in Fitting => containers[c].image = req[r].order.image,
           pc \in Unfitting => containers[c].image # req[r].order.image
    PROVE  Sane(r, [Goto(r, pc) EXCEPT !.item = c], containers)
<1> DEFINE q == [Goto(r, pc) EXCEPT !.item = c]
<1>1. Sane(r, req[r], containers) /\ c \in Ids /\ containers[c].key = Key(r)
    BY DEF ItemInv, Of, Live
<1>2. pc \in Steps
    BY DEF Steps, FindSteps, RemoveSteps, CreateSteps
<1>3. /\ q.order = req[r].order /\ q.pc = pc /\ q.item = c /\ q.reply = req[r].reply
      /\ q.container = req[r].container /\ q.token = req[r].token
    BY <1>2, GotoFields, Continuations, Fields DEF TypeOK
<1> HIDE DEF q
<1>4. pc \notin After \cup {"done"}
    BY DEF After
<1>5. /\ containers[r].key = None /\ containers[r].status = "gone"
      /\ q.reply = "none" /\ q.container = None
    BY <1>1, <1>3 DEF Sane, At
<1>6. q.item \in Ids /\ containers[q.item].key = q.order.key
    BY <1>1, <1>3 DEF Key
<1>7. /\ pc \in Fitting => containers[q.item].image = q.order.image
      /\ pc \in Unfitting => containers[q.item].image # q.order.image
    BY <1>3
<1>8. Sane(r, q, containers)
    BY <1>3, <1>4, <1>5, <1>6, <1>7 DEF Sane
<1> QED BY <1>8 DEF q

(* A request that has made its container.                                  *)
LEMMA AfterSane ==
    ASSUME TypeOK, ItemInv, NEW r \in Requests, NEW pc \in After, NEW C,
           C[r].key = Key(r), C[r].image = req[r].order.image,
           pc = "dropOld" => Op(r) = "restore",
           Op(r) = "restore" /\ pc \in {"boot", "awaitNew", "dropOld"} =>
              /\ req[r].item \in Ids
              /\ C[req[r].item].key = Key(r),
           ~At(r, "done")
    PROVE  Sane(r, Goto(r, pc), C)
<1>1. Sane(r, req[r], containers)
    BY DEF ItemInv
<1>2. pc \notin Before \cup Fitting \cup Unfitting \cup {"done", "create"}
    BY DEF After, Before, Fitting, Unfitting, FindSteps, RemoveSteps
<1>3. Holds(Goto(r, pc)) => Op(r) = "restore" /\ pc \in {"boot", "awaitNew", "dropOld"}
    BY <1>2, GotoFields DEF Holds, Touching, Op, After
<1> QED BY <1>1, <1>2, <1>3, GotoFields DEF Sane, Key, At

LEMMA DockerStepSane ==
    ASSUME TypeOK, ItemInv, NEW r \in Requests, DockerStep(r) PROVE ItemInv'
<1> DEFINE q == req[r]
           k == Key(r)
           i == req[r].order.image
<1>0. Sane(r, q, containers) /\ r \in Ids /\ q \in Request /\ Lasts(containers, containers)
    BY EffectsLast DEF ItemInv, Ids, TypeOK
<1>1. /\ \A pc \in Groups : Goto(r, pc) \in Request
      /\ \A code \in Replies : Reply(r, code) \in Request
      /\ Fail(r) \in Request
    BY Continuations DEF TypeOK, Groups, Steps, Fail, Replies
<1>2. Before \cup After = Groups \cup {"new"}
    BY DEF Before, After, Groups, FindSteps, RemoveSteps, CreateSteps, RestoreSteps
<1>3. "done" \notin Groups
    BY DEF Groups, FindSteps, RemoveSteps, CreateSteps, RestoreSteps
<1>4. ~At(r, "done")
    BY DEF DockerStep, At, Find, RemoveFind, FindOld, SnapshotFound, Remove, Replace, DropOld, Start, List,
           Create, Boot, Undo, Await, Rename, Version
<1>5. /\ \A C, code : Sane(r, Reply(r, code), C)
      /\ \A C : Sane(r, Fail(r), C)
    BY <1>4, RepliesSane
<1>6. CASE Find(r)
  <2>1. q.pc \in Before /\ Op(r) # "restore"
      BY <1>6 DEF Find, At, Before, FindSteps, TypeOK, OnCourse, Op
  <2>2. ASSUME NEW c \in Of(k) PROVE Sane(r, Found(r, c), containers)
      BY <1>4, <2>1, FindSane DEF Found, Fitting, Unfitting
  <2>3. Sane(r, Goto(r, "list"), containers)
      BY <1>0, <1>4, <2>1, BeforeSane
  <2> QED BY <1>4, <1>6, <2>2, <2>3, AskSane DEF Find
<1>7. CASE RemoveFind(r)
  <2>1. q.pc \in Before /\ Op(r) # "restore"
      BY <1>7 DEF RemoveFind, At, Before, RemoveSteps, TypeOK, OnCourse, Op
  <2>2. ASSUME NEW c \in Of(k) PROVE Sane(r, [Goto(r, "remove") EXCEPT !.item = c], containers)
      BY <1>4, <2>1, FindSane DEF Fitting, Unfitting
  <2>3. Sane(r, AfterRemove(r), containers)
      BY <1>0, <1>4, <1>5, <2>1, BeforeSane DEF AfterRemove
  <2> QED BY <1>4, <1>7, <2>2, <2>3, AskSane DEF RemoveFind
<1>8. CASE FindOld(r)
  <2>1. q.pc \in Before
      BY <1>8 DEF FindOld, SnapshotFound, At, Before
  <2>2. ASSUME NEW c \in Of(k) PROVE Sane(r, [Goto(r, "create") EXCEPT !.item = c], containers)
      BY <1>4, <2>1, FindSane DEF Fitting, Unfitting
  <2> QED BY <1>4, <1>5, <1>8, <2>2, AskSane, RejectSane DEF FindOld, SnapshotFound
<1>9. CASE Remove(r)
  <2>1. q.pc \in Before /\ Op(r) # "restore"
      BY <1>9 DEF Remove, At, Before, RemoveSteps, TypeOK, OnCourse, Op
  <2>2. ASSUME NEW C, Lasts(containers, C) PROVE Sane(r, AfterRemove(r), C)
      BY <1>4, <1>5, <2>1, <2>2, BeforeSane DEF AfterRemove
  <2>3. AfterRemove(r) \in Request
      BY <1>1 DEF AfterRemove, Groups, FindSteps, Replies
  <2> QED BY <1>1, <1>5, <1>9, <2>2, <2>3, DeleteSane DEF Remove
<1>10. CASE Replace(r)
  <2>1. q.pc \in Before /\ Op(r) # "restore"
      BY <1>10 DEF Replace, At, Before, FindSteps, TypeOK, OnCourse, Op
  <2>2. ASSUME NEW C, Lasts(containers, C) PROVE Sane(r, Goto(r, "list"), C)
      BY <1>4, <2>1, <2>2, BeforeSane
  <2>3. Goto(r, "list") \in Request
      BY <1>1 DEF Groups, FindSteps
  <2> QED BY <1>1, <1>5, <1>10, <2>2, <2>3, DeleteSane DEF Replace
<1>11. CASE DropOld(r)
  <2>1. q.pc \in After /\ At(r, "dropOld")
      BY <1>11 DEF DropOld, At, After
  <2>2. ASSUME NEW C, Lasts(containers, C), NEW pc \in {"rename", "undo"}
        PROVE  Sane(r, Goto(r, pc), C)
    <3>1. C[r].key = k /\ C[r].image = i
        BY <1>0, <2>1, <2>2 DEF Sane, Lasts, Same, Key
    <3> QED BY <1>4, <3>1, AfterSane DEF After
  <2>3. Goto(r, "rename") \in Request /\ Goto(r, "undo") \in Request
      BY <1>1 DEF Groups, RestoreSteps, CreateSteps
  <2> QED BY <1>11, <2>2, <2>3, DeleteSane DEF DropOld
<1>12. CASE Start(r)
  <2> DEFINE c == q.item
  <2>1. At(r, "start") /\ q.pc \in Before /\ Holds(q) /\ Op(r) # "restore"
      BY <1>12 DEF Start, At, Before, FindSteps, Holds, Touching, TypeOK, OnCourse, Op
  <2>2. c \in Ids /\ containers[c].key = k /\ containers[c].image = i /\ containers[r].key = None
        /\ containers[r].status = "gone"
      BY <1>0, <2>1 DEF Sane, At, Fitting, Key
  <2>3. ASSUME containers[c].status \in {"created", "exited"}
        PROVE  Lasts(containers, Started(c)) /\ Sane(r, Goto(r, "await"), Started(c))
    <3>1. Lasts(containers, Started(c))
        BY <2>2, <2>3, EffectsLast DEF Live
    <3>2. Same(containers, Started(c), c) /\ Same(containers, Started(c), r)
        BY <1>0, <2>2, <3>1 DEF Lasts
    <3>3. "await" \notin After \cup Unfitting \cup {"done"}
        BY DEF After, Unfitting
    <3> QED BY <1>0, <2>1, <2>2, <3>1, <3>2, <3>3, GotoFields DEF Sane, Same, At, Key
  <2> QED BY <1>1, <1>5, <1>12, <2>3, CallSane, RejectSane DEF Start
<1>13. CASE List(r)
  <2>1. q.pc \in Before /\ Op(r) # "restore"
      BY <1>13 DEF List, At, Before, FindSteps, TypeOK, OnCourse, Op
  <2> QED BY <1>0, <1>4, <1>5, <1>13, <2>1, BeforeSane, AskSane DEF List
<1>14. CASE Create(r)
  <2>1. At(r, "create") /\ containers[r].key = None
      BY <1>0, <1>14 DEF Create, At, Before, Sane
  <2>2. LastsBut(r, containers, Created(r))
      BY <2>1, EffectsLast
  <2>3. Created(r)[r].key = k /\ Created(r)[r].image = i
      BY <1>0 DEF Created, TypeOK
  <2>4. Op(r) = "restore" => q.item \in Ids /\ Created(r)[q.item].key = k
    <3>1. Op(r) = "restore" => Holds(q)
        BY <2>1 DEF Holds, Op, At
    <3>2. Op(r) = "restore" => q.item \in Ids /\ containers[q.item].key = k
        BY <1>0, <3>1 DEF Sane, Key
    <3> QED BY <2>1, <3>2, OrderKeys DEF Keyed, Created, TypeOK
  <2>5. Sane(r, Goto(r, "boot"), Created(r))
      BY <1>4, <2>3, <2>4, AfterSane DEF After
  <2> QED BY <1>1, <1>5, <1>14, <2>2, <2>5, CallSane, RejectSane DEF Create
<1>15. CASE Boot(r)
  <2>1. q.pc \in After /\ At(r, "boot")
      BY <1>15 DEF Boot, At, After
  <2>2. ASSUME NEW C, Lasts(containers, C), NEW pc \in {"awaitNew", "undo"}
        PROVE  Sane(r, Goto(r, pc), C)
    <3>1. C[r].key = k /\ C[r].image = i
        BY <1>0, <2>1, <2>2 DEF Sane, Lasts, Same, Key
    <3>2. Op(r) = "restore" => Holds(q)
        BY <2>1 DEF Holds, Op, At
    <3>3. Op(r) = "restore" => q.item \in Ids /\ C[q.item].key = k
        BY <1>0, <2>2, <3>2 DEF Sane, Lasts, Same, Key
    <3> QED BY <1>4, <3>1, <3>3, AfterSane DEF After
  <2>3. Goto(r, "undo") \in Request
      BY <1>1 DEF Groups, CreateSteps
  <2>4. containers[r].status \in {"created", "exited"} => Lasts(containers, Started(r))
      BY <1>0, EffectsLast DEF Live
  <2> QED BY <1>0, <1>15, <2>2, <2>3, <2>4, CallSane, RejectSane DEF Boot
<1>16. CASE Undo(r)
    BY <1>1, <1>5, <1>16, CallSane, RejectSane, EffectsLast DEF Undo
<1>17. CASE Await(r)
  <2> DEFINE c == IF At(r, "awaitNew") THEN r ELSE q.item
  <2>1. c \in Ids /\ containers[c].key = k /\ containers[c].image = i /\ Op(r) \in Keyed
    <3>1. CASE At(r, "awaitNew")
        BY <1>0, <3>1 DEF Sane, At, After, Key, Op, Keyed, TypeOK, OnCourse, CreateSteps
    <3>2. CASE At(r, "await") /\ ~At(r, "awaitNew")
      <4>1. Holds(q)
          BY <3>2 DEF Holds, At, Touching
      <4> QED BY <1>0, <3>2, <4>1, HoldsKey DEF Sane, At, Fitting, Key
    <3> QED BY <1>17, <3>1, <3>2 DEF Await
  <2>2. Op(r) = "restore" => At(r, "awaitNew")
      BY <1>17 DEF Await, At, TypeOK, OnCourse, FindSteps, Op
  <2>3. ASSUME Op(r) = "restore", NEW pc \in {"dropOld", "undo"}
        PROVE  Sane(r, Goto(r, pc), containers)
    <3>1. Holds(q)
        BY <2>2, <2>3 DEF Holds, Op, At
    <3>2. q.item \in Ids /\ containers[q.item].key = k
        BY <1>0, <3>1 DEF Sane, Key
    <3> QED BY <1>4, <2>1, <2>2, <2>3, <3>2, AfterSane DEF After
  <2>4. ASSUME NEW t, Op(r) # "rebuild" /\ t # None => t = c
        PROVE  Sane(r, Deliver(r, c, t), containers)
    <3>1. Fulfils(r, Deliver(r, c, t), containers)
        BY <2>1, <2>4, DeliverFields DEF Fulfils, Key, Op
    <3>2. "done" \notin Before \cup After \cup Touching \cup Fitting \cup Unfitting
        BY DEF Before, After, Touching, Fitting, Unfitting, FindSteps, RemoveSteps
    <3> QED BY <3>1, <3>2, DeliverFields DEF Sane, Holds
  <2>5. \A ready : Sane(r, Waited(r, c, ready), containers)
      BY <2>3, <2>4 DEF Waited
  <2> QED BY <1>4, <1>5, <1>17, <2>5, AskSane, RejectSane DEF Await
<1>18. CASE Rename(r)
  <2>1. containers[r].key = k /\ containers[r].image = i /\ Op(r) \in Keyed
      BY <1>0, <1>18
      DEF Rename, Sane, At, After, Key, Op, Keyed, TypeOK, OnCourse, RestoreSteps
  <2>2. ASSUME NEW n, r \in Live
        PROVE  /\ Lasts(containers, Renamed(r, n))
               /\ Sane(r, Deliver(r, r, r), Renamed(r, n))
    <3>1. Lasts(containers, Renamed(r, n))
        BY <2>2, EffectsLast
    <3>2. Renamed(r, n)[r].key = k /\ Renamed(r, n)[r].image = i
        BY <1>0, <2>1, <3>1 DEF Lasts, Same
    <3>3. Fulfils(r, Deliver(r, r, r), Renamed(r, n))
        BY <1>0, <2>1, <3>2, DeliverFields DEF Fulfils, Key, Op
    <3>4. "done" \notin Before \cup After \cup Touching \cup Fitting \cup Unfitting
        BY DEF Before, After, Touching, Fitting, Unfitting, FindSteps, RemoveSteps
    <3> QED BY <3>1, <3>3, <3>4, DeliverFields DEF Sane, Holds
  <2> QED BY <1>1, <1>5, <1>18, <2>2, CallSane, RejectSane DEF Rename
<1>19. CASE Version(r)
  <2>1. q.pc \in Before /\ Op(r) # "restore"
      BY <1>19 DEF Version, At, Before, TypeOK, OnCourse, Op
  <2> QED BY <1>0, <1>4, <1>19, <2>1, BeforeSane, AskSane DEF Version
<1> QED BY <1>6, <1>7, <1>8, <1>9, <1>10, <1>11, <1>12, <1>13, <1>14, <1>15, <1>16, <1>17,
           <1>18, <1>19 DEF DockerStep

-----------------------------------------------------------------------------
(* The other steps.                                                        *)
LEMMA PrepareImageSane ==
    ASSUME TypeOK, ItemInv, NEW r \in Requests, PrepareImage(r) PROVE ItemInv'
<1> DEFINE q == req[r]
<1>1. PICK v \in {"ready", "preparing", "failed", "missed"} :
         req' = [req EXCEPT ![r] = Prepared(r, v)]
  <2>1. PICK v \in {"ready", "preparing", "failed", "missed"} :
           caller' = [caller EXCEPT ![r] = [image |-> q.order.image, phase |-> v]]
      BY VerdictFor
  <2>2. caller'[r].phase = v
      BY <2>1 DEF TypeOK, Pull!TypeOK
  <2> QED BY <2>2 DEF PrepareImage
<1>2. /\ containers' = containers /\ Lasts(containers, containers)
      /\ Sane(r, q, containers) /\ ~At(r, "done") /\ q.pc \in Preparations
    BY EffectsLast DEF PrepareImage, ItemInv, At, Preparations
<1>3. Op(r) \in {"ensure", "rebuild", "health"} /\ q.pc \in Before
      /\ (Op(r) = "health" => q.pc = "prepareFirst")
    BY <1>2 DEF Preparations, TypeOK, OnCourse, FindSteps, Op, Before
<1>4. CASE v = "missed"
    BY <1>1, <1>2, <1>4, StepSane DEF Prepared, NotReady
<1>5. CASE v = "ready" /\ Op(r) # "health"
  <2>1. ASSUME NEW new \in {"removeFind", "create"}
        PROVE  Sane(r, Goto(r, new), containers)
      BY <1>2, <1>3, BeforeSane
  <2>2. ASSUME q.pc = "prepareSwitch" PROVE Sane(r, Goto(r, "delete"), containers)
    <3>1. Holds(q) /\ q.pc \in Unfitting
        BY <2>2 DEF Holds, Touching, Unfitting
    <3>2. /\ "delete" \notin After \cup Fitting \cup {"done"}
          /\ "delete" \in Before /\ "delete" \in Touching
        BY DEF After, Fitting, Before, Touching, FindSteps
    <3>3. Holds(Goto(r, "delete"))
        BY <3>2, GotoFields DEF Holds
    <3> QED BY <1>2, <1>3, <3>1, <3>2, <3>3, GotoFields DEF Sane, At
  <2>3. Sane(r, Goto(r, AfterReady[q.pc]), containers)
      BY <1>2, <2>1, <2>2 DEF AfterReady, Preparations
  <2> QED BY <1>1, <1>2, <1>5, <2>3, StepSane DEF Prepared, NotReady
<1>6. CASE v # "missed" /\ ~(v = "ready" /\ Op(r) # "health")
  <2>1. Sane(r, Prepared(r, v), containers)
      BY <1>2, <1>6, RepliesSane DEF Prepared, NotReady
  <2> QED BY <1>1, <1>2, <2>1, StepSane
<1> QED BY <1>4, <1>5, <1>6

LEMMA ArriveSane ==
    ASSUME TypeOK, ItemInv, NEW r \in Requests, Arrive(r) PROVE ItemInv'
<1>1. PICK order \in Orders :
         req' = [req EXCEPT ![r].order = order, ![r].pc = FirstStep[order.op]]
    BY DEF Arrive
<1> DEFINE q == req'[r]
<1>2. /\ q.order = order /\ q.pc = FirstStep[order.op]
      /\ q.reply = req[r].reply /\ q.container = req[r].container
      /\ \A s \in Requests \ {r} : req'[s] = req[s]
    BY <1>1 DEF TypeOK, Request
<1> HIDE DEF q
<1>3. q.pc \in {"find", "removeFind", "prepareFirst", "version", "findOld"}
    BY <1>2 DEF Orders, FirstStep
<1>4. /\ q.pc \in Before /\ q.pc \notin After \cup Fitting \cup Unfitting \cup {"done"}
      /\ ~Holds(q)
    BY <1>3 DEF Before, After, Fitting, Unfitting, Holds, Touching, FindSteps, RemoveSteps
<1>5. req[r].pc = "new" /\ "new" \in Before /\ Sane(r, req[r], containers)
    BY DEF Arrive, At, Before, ItemInv
<1>6. Sane(r, q, containers) /\ containers' = containers
    BY <1>2, <1>4, <1>5 DEF Sane, Arrive
<1> QED BY <1>2, <1>6 DEF ItemInv, q

LEMMA CrashSane == TypeOK /\ ItemInv /\ Crash => ItemInv'
<1> SUFFICES ASSUME TypeOK, ItemInv, Crash, NEW r \in Requests PROVE Sane(r, req'[r], containers)
    BY DEF ItemInv, Crash
<1>1. CASE req'[r] = req[r]
    BY <1>1 DEF ItemInv
<1>2. CASE req'[r] = Reply(r, "lost") /\ ~At(r, "done")
    BY <1>2, RepliesSane
<1> QED BY <1>1, <1>2 DEF Crash

LEMMA NextSane == TypeOK /\ ItemInv /\ [Next]_vars => ItemInv'
<1> SUFFICES ASSUME TypeOK, ItemInv, [Next]_vars PROVE ItemInv'
    OBVIOUS
<1>1. ASSUME NEW r \in Requests, Arrive(r) \/ Step(r) PROVE ItemInv'
    BY <1>1, ArriveSane, DockerStepSane, PrepareImageSane DEF Step
<1>2. ASSUME NEW c \in Ids, HealthPasses(c) \/ ContainerFails(c) PROVE ItemInv'
  <2>1. req' = req /\ Lasts(containers, containers')
      BY <1>2 DEF HealthPasses, ContainerFails, Running, Lasts, Same, TypeOK, Container
  <2> QED BY <2>1, Lasting DEF ItemInv
<1>3. CASE Crash
    BY <1>3, CrashSane
<1>4. CASE UNCHANGED <<containers, req>>
    BY <1>4 DEF ItemInv
<1> QED BY <1>1, <1>2, <1>3, <1>4 DEF Next, PullMoves, vars

LEMMA InitSane == Init => ItemInv
<1> SUFFICES ASSUME Init, NEW r \in Requests PROVE Sane(r, NewRequest, containers)
    BY DEF Init, ItemInv
<1>1. containers[r] = Absent /\ r \in Ids
    BY SandboxAssumption DEF Init, Ids
<1>2. /\ NewRequest.pc = "new" /\ NewRequest.reply = "none" /\ NewRequest.container = None
      /\ NewRequest.order.op = "none"
    BY DEF NewRequest, NoOrder
<1>3. "new" \notin After \cup Touching \cup Fitting \cup Unfitting
    BY DEF After, Touching, Fitting, Unfitting
<1> QED BY <1>1, <1>2, <1>3 DEF Sane, Holds, Absent

LEMMA ItemsAreKept == Spec => [](TypeOK /\ ItemInv)
<1>1. Init => TypeOK /\ ItemInv
    BY InitTypes, InitSane
<1>2. TypeOK /\ ItemInv /\ [Next]_vars => (TypeOK /\ ItemInv)'
    BY NextTypes, NextSane
<1> QED BY <1>1, <1>2, PTL DEF Spec

(* Whatever other requests did to the key between the find and the answer, *)
(* and whatever failed: the container of an answer has the key and the     *)
(* image that were asked for, and its token is that container's own,       *)
(* except after a rebuild.                                                 *)
THEOREM AnswersFit == Spec => []AnswerFits
<1>1. ItemInv => AnswerFits
    BY DEF ItemInv, Sane, Fulfils, AnswerFits, Key, Op
<1> QED BY <1>1, ItemsAreKept, PTL

-----------------------------------------------------------------------------
(* Which containers a step can delete.                                     *)
LEMMA CallDeletes ==
    ASSUME TypeOK, NEW r, NEW effect, NEW ok, NEW error, Call(r, effect, ok, error),
           NEW c \in Live, c \notin Live'
    PROVE  effect[c].status = "gone" /\ effect # containers
BY DEF Call, Live

LEMMA DeleteDeletes ==
    ASSUME TypeOK, NEW r, NEW ok, NEW error, Delete(r, ok, error), NEW c \in Live, c \notin Live'
    PROVE  c = req[r].item
<1>1. Removed(req[r].item)[c].status = "gone"
    BY CallDeletes DEF Delete, Reject, Live
<1> QED BY <1>1 DEF Removed, Live, TypeOK

LEMMA StepDeletes ==
    ASSUME TypeOK, ItemInv, NEW r \in Requests, Step(r), NEW c \in Live, c \notin Live'
    PROVE  /\ containers[c].key = Key(r)
           /\ Op(r) # "health"
           /\ Op(r) = "ensure" /\ containers[c].image = req[r].order.image => c = r
<1>0. Sane(r, req[r], containers) /\ r \in Ids /\ c \in Ids
    BY DEF ItemInv, Ids, Live
<1>1. CASE Remove(r) \/ Replace(r) \/ DropOld(r)
  <2>1. c = req[r].item
      BY <1>1, DeleteDeletes DEF Remove, Replace, DropOld
  <2>2. Holds(req[r])
      BY <1>1 DEF Remove, Replace, DropOld, At, Holds, Touching
  <2>3. Replace(r) => containers[c].image # req[r].order.image
      BY <1>0, <2>1 DEF Replace, At, Sane, Unfitting
  <2>4. Remove(r) \/ DropOld(r) => Op(r) # "ensure"
      BY DEF Remove, DropOld, At, TypeOK, OnCourse, RemoveSteps, RestoreSteps, Op
  <2> QED BY <1>0, <1>1, <2>1, <2>2, <2>3, <2>4, HoldsKey DEF Sane, Key, Keyed
<1>2. CASE Undo(r)
  <2>1. Removed(r)[c].status = "gone"
      BY <1>2, CallDeletes DEF Undo, Reject, Live
  <2>2. c = r
      BY <2>1 DEF Removed, Live, TypeOK
  <2> QED BY <1>0, <1>2, <2>2
          DEF Undo, At, Sane, After, Key, TypeOK, OnCourse, CreateSteps, Op
<1>3. CASE Start(r)
  <2>1. Started(req[r].item)[c].status = "gone"
      BY <1>3, CallDeletes DEF Start, Reject, Live
  <2> QED BY <2>1 DEF Started, Live, TypeOK
<1>4. CASE Boot(r)
  <2>1. Started(r)[c].status = "gone"
      BY <1>4, CallDeletes DEF Boot, Reject, Live
  <2> QED BY <2>1 DEF Started, Live, TypeOK
<1>5. CASE Create(r)
  <2>1. Created(r)[c].status = "gone"
      BY <1>5, CallDeletes DEF Create, Reject, Live
  <2> QED BY <2>1 DEF Created, Live, TypeOK
<1>6. CASE Rename(r)
  <2>1. Renamed(r, Canonical(Key(r)))[c].status = "gone"
      BY <1>6, CallDeletes DEF Rename, Reject, Live
  <2> QED BY <2>1 DEF Renamed, Live, TypeOK
<1>7. CASE Find(r) \/ RemoveFind(r) \/ FindOld(r) \/ List(r) \/ Await(r) \/ Version(r)
  <2>1. containers' = containers
      BY <1>7, CallEffect DEF Find, RemoveFind, FindOld, SnapshotFound, List, Await, Version, Ask, Reject
  <2> QED BY <2>1 DEF Live
<1>8. CASE PrepareImage(r)
    BY <1>8 DEF PrepareImage, Live
<1> QED BY <1>1, <1>2, <1>3, <1>4, <1>5, <1>6, <1>7, <1>8 DEF Step, DockerStep

LEMMA NextDeletes ==
    ASSUME TypeOK, ItemInv, Next, NEW r \in Requests, NEW c \in Ids, StepOf(r),
           c \in Live, c \notin Live'
    PROVE  /\ containers[c].key = Key(r)
           /\ Op(r) # "health"
           /\ Op(r) = "ensure" /\ containers[c].image = req[r].order.image => c = r
<1>1. containers' # containers /\ req' # req
    BY DEF Live, StepOf
<1>2. PICK s \in Requests : Step(s)
    BY <1>1 DEF Next, Arrive, HealthPasses, ContainerFails, PullMoves, Crash
<1>3. \A other \in Requests \ {s} : req'[other] = req[other]
  <2>1. DockerStep(s) \/ PrepareImage(s)
      BY <1>2 DEF Step
  <2>2. \E q : req' = [req EXCEPT ![s] = q]
      BY <2>1 DEF DockerStep, PrepareImage, Find, RemoveFind, FindOld, SnapshotFound, Remove, Replace, DropOld,
         Start, List, Create, Boot, Undo, Await, Rename, Version, Delete, Ask, Call, Reject
  <2> QED BY <2>2 DEF TypeOK
<1>4. r = s
    BY <1>3 DEF StepOf
<1> QED BY <1>2, <1>4, StepDeletes

(* A request deletes no container but of its own key; a health report      *)
(* deletes none, and a PUT none with the image it asks for, but its own.   *)
(* The container is found in one call and deleted by another.              *)
THEOREM DeletesOnlyAllowed == Spec => DeletesOnlyWhatItMay
<1> DEFINE Allowed ==
       \A r \in Requests, c \in Ids :
          StepOf(r) /\ c \in Live /\ c \notin Live' =>
             /\ containers[c].key = Key(r)
             /\ Op(r) # "health"
             /\ Op(r) = "ensure" /\ containers[c].image = req[r].order.image => c = r
<1>1. TypeOK /\ ItemInv /\ Next => Allowed
    BY NextDeletes
<1>2. TypeOK /\ ItemInv /\ [Next]_vars => [Allowed]_vars
    BY <1>1
<1> HIDE DEF Allowed
<1>3. Spec => [][Allowed]_vars
    BY <1>2, ItemsAreKept, PTL DEF Spec
<1> QED BY <1>3 DEF Allowed, DeletesOnlyWhatItMay
=============================================================================
