-------------------------- MODULE Snapshots_proofs --------------------------
(***************************************************************************)
(* The captures and deletions of one key, for any number of requests,      *)
(* containers, files and snapshots.                                        *)
(***************************************************************************)
EXTENDS Snapshots, FiniteSetTheorems, TLAPS

(* What TypeOK says of one request.                                        *)
Sound(new) ==
    /\ new \in Request
    /\ new.pc \in {"prepare", "copy", "commit"} => new.item # None
    /\ new.pc \in {"prepare", "copy", "commit", "confirm", "lookup", "drop"} => new.id # None

LEMMA SoundRequests == TypeOK => \A r \in Requests : Sound(req[r])
BY DEF TypeOK, Sound

LEMMA Become_Types ==
    ASSUME TypeOK, NEW r \in Requests, NEW new, Sound(new), Become(r, new)
    PROVE  /\ req' \in [Requests -> Request]
           /\ \A q \in Requests : Sound(req'[q])
BY DEF TypeOK, Sound, Become

(* The continuations that the actions pass to Call, Ask and Reject.        *)
LEMMA Replying ==
    ASSUME TypeOK, NEW r \in Requests, NEW code \in Replies
    PROVE  Sound(Reply(r, code)) /\ Sound(Leave(r, code))
BY ZenonT(40) DEF TypeOK, Sound, Reply, Leave, Request, CaptureSteps, DeleteSteps

LEMMA Going ==
    ASSUME TypeOK, NEW r \in Requests, NEW pc \in CaptureSteps \cup DeleteSteps,
           pc \in {"prepare", "copy", "commit"} => req[r].item # None,
           pc \in {"prepare", "copy", "commit", "confirm", "lookup", "drop"} => req[r].id # None
    PROVE  Sound(Goto(r, pc))
BY ZenonT(40) DEF TypeOK, Sound, Goto, Request, CaptureSteps, DeleteSteps

LEMMA Finding ==
    ASSUME TypeOK, NEW r \in Requests, NEW b \in Boxes, NEW i \in Ids,
           NEW files \in SUBSET Files, NEW alone \in BOOLEAN
    PROVE  Sound([Goto(r, "prepare") EXCEPT !.item = b, !.id = i, !.kept = files,
                                            !.seen = files, !.alone = alone])
<1> DEFINE go == Goto(r, "prepare")
           new == [go EXCEPT !.item = b, !.id = i, !.kept = files, !.seen = files, !.alone = alone]
<1>1. go \in Request /\ go.pc = "prepare"
    BY DEF TypeOK, Goto, Request, CaptureSteps
<1> HIDE DEF go
<1>2. new \in Request /\ new.pc = "prepare" /\ new.item = b /\ new.id = i
    BY <1>1 DEF Request
<1>3. b # None /\ i # None
    BY SnapshotsAssumption
<1> QED BY <1>2, <1>3 DEF Sound, go

(* What the staging directory becomes, and what a capture remembers.       *)
LEMMA StagingTypes ==
    ASSUME TypeOK, NEW b \in Boxes, NEW staged \in BOOLEAN, NEW staging \in SUBSET Files
    PROVE  [box EXCEPT ![b].staged = staged, ![b].staging = staging] \in [Boxes -> Box]
<1>1. box \in [Boxes -> Box] /\ box[b] \in Box
    BY DEF TypeOK
<1>2. [box[b] EXCEPT !.staged = staged] \in Box
    BY <1>1 DEF Box
<1>3. [[box[b] EXCEPT !.staged = staged] EXCEPT !.staging = staging] \in Box
    BY <1>2 DEF Box
<1> QED BY <1>1, <1>3

LEMMA Remembering ==
    ASSUME TypeOK, NEW r \in Requests, NEW kept \in SUBSET Files, NEW seen \in SUBSET Files
    PROVE  Sound([req[r] EXCEPT !.kept = kept, !.seen = seen])
<1>1. Sound(req[r])
    BY SoundRequests
<1>2. [req[r] EXCEPT !.kept = kept] \in Request
    BY <1>1 DEF Sound, Request
<1>3. [[req[r] EXCEPT !.kept = kept] EXCEPT !.seen = seen] \in Request
    BY <1>2 DEF Request
<1> QED BY <1>1, <1>3 DEF Sound, Request

LEMMA CallTypes ==
    ASSUME TypeOK, NEW r \in Requests,
           NEW newBox \in [Boxes -> Box], NEW newImages \in [Ids -> Image],
           NEW ok, Sound(ok), NEW error, Sound(error),
           Call(r, newBox, newImages, ok, error)
    PROVE  TypeOK'
BY Become_Types DEF TypeOK, Call, Sound

LEMMA AskTypes ==
    ASSUME TypeOK, NEW r \in Requests, NEW ok, Sound(ok), NEW error, Sound(error),
           Ask(r, ok, error)
    PROVE  TypeOK'
BY CallTypes DEF TypeOK, Ask

LEMMA RejectTypes ==
    ASSUME TypeOK, NEW r \in Requests, NEW error, Sound(error), Reject(r, error)
    PROVE  TypeOK'
BY Become_Types DEF TypeOK, Reject, Sound

-----------------------------------------------------------------------------
LEMMA InitTypeOK == Init => TypeOK
BY DEF Init, TypeOK, Gone, NoImage, NewRequest, Box, Image, Request, CaptureSteps, DeleteSteps,
       Replies

LEMMA StepTypes == ASSUME TypeOK, NEW r \in Requests, Step(r) PROVE TypeOK'
<1> USE DEF At
<1> DEFINE Emptied(b) == [box EXCEPT ![b].staged = TRUE, ![b].staging = {}]
           Cleaned(b) == [box EXCEPT ![b].staged = FALSE, ![b].staging = {}]
<1>0. /\ \A code \in Replies : Sound(Reply(r, code)) /\ Sound(Leave(r, code))
      /\ {"ok", "limit", "error", "removed", "absent"} \subseteq Replies
      /\ Sound(req[r]) /\ req[r].reply \in Replies
    BY Replying, SoundRequests DEF Replies, TypeOK, Request
<1>1. CASE Arrive(r)
  <2>1. Sound([NewRequest EXCEPT !.pc = "list"])
        /\ \A i \in Ids : Sound([NewRequest EXCEPT !.pc = "lookup", !.id = i])
      BY SnapshotsAssumption DEF Sound, NewRequest, Request, CaptureSteps, DeleteSteps, Replies
  <2> QED BY <1>1, <2>1, Become_Types DEF Arrive, TypeOK, Sound
<1>2. CASE List(r)
  <2>1. Sound(Goto(r, "find"))
      BY Going DEF CaptureSteps
  <2> QED BY <1>0, <1>2, <2>1, AskTypes DEF List
<1>3. CASE Find(r)
  <2>1. CASE Become(r, Reply(r, "error")) /\ UNCHANGED <<box, images>>
      BY <1>0, <2>1, RejectTypes DEF Reject
  <2>2. CASE ~ (Become(r, Reply(r, "error")) /\ UNCHANGED <<box, images>>)
    <3>1. PICK b \in Live, i \in Ids \ Listed :
            req' = [q \in Requests |->
                   IF q = r
                   THEN [Goto(r, "prepare") EXCEPT
                            !.item = b, !.id = i, !.kept = box[b].files, !.seen = box[b].files,
                            !.alone = \A other \in Requests \ {r} : ~AtWork(other)]
                   ELSE [req[q] EXCEPT !.alone =
                            @ /\ req[q].pc \notin {"prepare", "copy", "commit"}]]
        BY <1>3, <2>2 DEF Find
    <3>2. Sound([Goto(r, "prepare") EXCEPT
                            !.item = b, !.id = i, !.kept = box[b].files, !.seen = box[b].files,
                            !.alone = \A other \in Requests \ {r} : ~AtWork(other)])
      <4>1. box[b].files \in SUBSET Files /\ b \in Boxes /\ i \in Ids
          BY DEF TypeOK, Live, Box
      <4> QED BY <4>1, Finding
    <3>3. \A q \in Requests : Sound([req[q] EXCEPT !.alone =
                                @ /\ req[q].pc \notin {"prepare", "copy", "commit"}])
        BY ZenonT(40) DEF TypeOK, Sound, Request
    <3>4. \A q \in Requests : Sound(req'[q])
        BY <3>1, <3>2, <3>3
    <3> QED BY <1>3, <3>1, <3>2, <3>3, <3>4 DEF Find, TypeOK, Sound
  <2> QED BY <2>1, <2>2
<1>4. CASE Prepare(r)
  <2>1. Sound(Goto(r, "copy"))
      BY <1>0, <1>4, Going DEF Prepare, Sound, CaptureSteps
  <2>2. \A b \in Live : Emptied(b) \in [Boxes -> Box]
      BY StagingTypes DEF Live
  <2> QED BY <1>0, <1>4, <2>1, <2>2, CallTypes, RejectTypes DEF Prepare, TypeOK
<1>5. ASSUME NEW f \in Files, CopyFile(r, f) PROVE TypeOK'
  <2>1. Sound([req[r] EXCEPT !.copied = @ \cup {f}])
      BY <1>0 DEF Sound, Request
  <2> DEFINE b == req[r].item
             more == box[b].staging \cup {f}
  <2>2. box' = box \/ (b \in Boxes /\ box' = [box EXCEPT ![b].staged = TRUE, ![b].staging = more])
      BY <1>5 DEF CopyFile, Live
  <2>3. b \in Boxes => more \in SUBSET Files
      BY DEF TypeOK, Box
  <2> HIDE DEF b, more
  <2>4. box' \in [Boxes -> Box]
    <3>1. CASE box' = box
        BY <3>1 DEF TypeOK
    <3>2. CASE b \in Boxes /\ box' = [box EXCEPT ![b].staged = TRUE, ![b].staging = more]
      <4>1. [box EXCEPT ![b].staged = TRUE, ![b].staging = more] \in [Boxes -> Box]
          BY <2>3, <3>2, StagingTypes
      <4> QED BY <3>2, <4>1
    <3> QED BY <2>2, <3>1, <3>2
  <2> QED BY <1>5, <2>1, <2>4, Become_Types DEF CopyFile, TypeOK, Sound
<1>6. CASE Copied(r)
  <2>1. Sound(Goto(r, "commit"))
      BY <1>0, <1>6, Going DEF Copied, Sound, CaptureSteps
  <2> QED BY <1>6, <2>1, RejectTypes DEF Copied
<1>7. CASE CopyFails(r)
    BY <1>0, <1>7, RejectTypes DEF CopyFails
<1>8. CASE Commit(r)
  <2>1. Sound(Goto(r, "confirm"))
      BY <1>0, <1>8, Going DEF Commit, Sound, CaptureSteps
  <2>2. ASSUME req[r].item \in Live
        PROVE  [images EXCEPT ![req[r].id] = [listed |-> TRUE, staged |-> box[req[r].item].staged,
                                              files |-> box[req[r].item].staging]]
                  \in [Ids -> Image]
      BY <2>2 DEF TypeOK, Live, Box, Image
  <2> QED BY <1>0, <1>8, <2>1, <2>2, CallTypes, RejectTypes DEF Commit, TypeOK
<1>9. CASE Confirm(r)
    BY <1>0, <1>9, AskTypes DEF Confirm
<1>10. CASE Cleanup(r)
  <2>1. \A b \in Live : Cleaned(b) \in [Boxes -> Box]
      BY StagingTypes DEF Live
  <2> QED BY <1>0, <1>10, <2>1, CallTypes, RejectTypes DEF Cleanup, TypeOK
<1>11. CASE Lookup(r)
  <2>1. Sound(Goto(r, "drop"))
      BY <1>0, <1>11, Going DEF Lookup, Sound, DeleteSteps
  <2> QED BY <1>0, <1>11, <2>1, AskTypes DEF Lookup
<1>12. CASE Drop(r)
  <2>1. [images EXCEPT ![req[r].id] = NoImage] \in [Ids -> Image]
      BY DEF TypeOK, NoImage, Image
  <2> QED BY <1>0, <1>12, <2>1, CallTypes, RejectTypes DEF Drop, TypeOK
<1> QED BY <1>1, <1>2, <1>3, <1>4, <1>5, <1>6, <1>7, <1>8, <1>9, <1>10, <1>11, <1>12 DEF Step

LEMMA NextTypeOK == TypeOK /\ [Next]_vars => TypeOK'
<1> SUFFICES ASSUME TypeOK, [Next]_vars PROVE TypeOK'
    OBVIOUS
<1>1. CASE \E r \in Requests : Step(r)
    BY <1>1, StepTypes
<1>2. ASSUME NEW b \in Boxes, BoxGoes(b) PROVE TypeOK'
    BY <1>2 DEF BoxGoes, TypeOK, Gone, Box
<1>3. ASSUME NEW b \in Boxes, BoxComes(b) PROVE TypeOK'
  <2>1. [Gone EXCEPT !.live = TRUE] \in Box
      BY DEF Gone, Box
  <2>2. \A i \in Listed : [live |-> TRUE, files |-> images[i].files,
                           staged |-> images[i].staged, staging |-> images[i].files] \in Box
      BY DEF TypeOK, Listed, Image, Box
  <2> HIDE DEF Box
  <2>3. box' \in [Boxes -> Box]
      BY <1>3, <2>1, <2>2 DEF BoxComes, TypeOK
  <2> QED BY <1>3, <2>3 DEF BoxComes, TypeOK
<1>4. ASSUME NEW b \in Boxes, NEW f \in Files, Work(b, f) PROVE TypeOK'
  <2> DEFINE now == IF f \in box[b].files THEN box[b].files \ {f} ELSE box[b].files \cup {f}
             new(r) == [req[r] EXCEPT !.kept = @ \cap now, !.seen = @ \cup now]
  <2>1. now \in SUBSET Files /\ box' \in [Boxes -> Box]
      BY <1>4 DEF Work, TypeOK, Box
  <2>2. \A r \in Requests : Sound(new(r)) /\ Sound(req[r])
    <3> HIDE DEF now
    <3> SUFFICES ASSUME NEW r \in Requests PROVE Sound(new(r)) /\ Sound(req[r])
        OBVIOUS
    <3>1. Sound(req[r]) /\ req[r].kept \cap now \in SUBSET Files /\ req[r].seen \cup now \in SUBSET Files
        BY <2>1, SoundRequests DEF Sound, Request
    <3> QED BY <3>1, Remembering
  <2>3. req' = [r \in Requests |-> IF Copying(r) /\ req[r].item = b THEN new(r) ELSE req[r]]
      BY <1>4 DEF Work
  <2> HIDE DEF now, new
  <2>4. req' \in [Requests -> Request] /\ \A r \in Requests : Sound(req'[r])
      BY <2>2, <2>3 DEF Sound
  <2> QED BY <1>4, <2>1, <2>4 DEF Work, TypeOK, Sound
<1>5. CASE Crash
  <2>1. \A r \in Requests : Sound(Reply(r, "lost")) /\ Sound(req[r])
      BY Replying, SoundRequests DEF Replies
  <2>2. req' \in [Requests -> Request] /\ \A r \in Requests : Sound(req'[r])
      BY <1>5, <2>1 DEF Crash, Sound
  <2> QED BY <1>5, <2>2 DEF Crash, TypeOK, Sound
<1>6. CASE UNCHANGED vars
    BY <1>6 DEF vars, TypeOK
<1> QED BY <1>1, <1>2, <1>3, <1>4, <1>5, <1>6 DEF Next

(* The tables keep their types; a capture knows its container and its      *)
(* identifier as long as it needs them.                                    *)
THEOREM SnapshotTypeCorrect == Spec => []TypeOK
<1>1. Init => TypeOK
    BY InitTypeOK
<1>2. TypeOK /\ [Next]_vars => TypeOK'
    BY NextTypeOK
<1> QED BY <1>1, <1>2, PTL DEF Spec
(* What a successful Find does to each request.                            *)
Found(r, b, i) ==
    /\ UNCHANGED <<box, images>>
    /\ \A other \in Requests : req[other].id # i
    /\ req'[r] = [Goto(r, "prepare") EXCEPT
                    !.item = b, !.id = i, !.kept = box[b].files, !.seen = box[b].files,
                    !.alone = \A other \in Requests \ {r} : ~AtWork(other)]
    /\ \A q \in Requests \ {r} :
          /\ req'[q].pc = req[q].pc /\ req'[q].item = req[q].item /\ req'[q].id = req[q].id
          /\ req'[q].copied = req[q].copied /\ req'[q].reply = req[q].reply
          /\ req'[q].kept = req[q].kept /\ req'[q].seen = req[q].seen
          /\ req'[q].alone =>
                req[q].alone /\ req[q].pc \notin {"prepare", "copy", "commit"}

LEMMA FindFound ==
    ASSUME TypeOK, NEW r \in Requests, Find(r)
    PROVE  \/ Become(r, Reply(r, "error"))
           \/ \E b \in Live, i \in Ids \ Listed : Found(r, b, i)
<1> SUFFICES ASSUME ~Become(r, Reply(r, "error"))
             PROVE  \E b \in Live, i \in Ids \ Listed : Found(r, b, i)
    OBVIOUS
<1>1. PICK b \in Live, i \in Ids \ Listed :
         /\ \A other \in Requests : req[other].id # i
         /\ req' = [q \in Requests |->
               IF q = r
               THEN [Goto(r, "prepare") EXCEPT
                        !.item = b, !.id = i, !.kept = box[b].files, !.seen = box[b].files,
                        !.alone = \A other \in Requests \ {r} : ~AtWork(other)]
               ELSE [req[q] EXCEPT !.alone =
                        @ /\ req[q].pc \notin {"prepare", "copy", "commit"}]]
    BY DEF Find
<1>2. /\ req'[r] = [Goto(r, "prepare") EXCEPT
                    !.item = b, !.id = i, !.kept = box[b].files, !.seen = box[b].files,
                    !.alone = \A other \in Requests \ {r} : ~AtWork(other)]
      /\ \A q \in Requests \ {r} : req'[q] = [req[q] EXCEPT !.alone =
                        @ /\ req[q].pc \notin {"prepare", "copy", "commit"}]
    BY <1>1
<1>3. \A q \in Requests \ {r} :
          /\ req'[q].pc = req[q].pc /\ req'[q].item = req[q].item /\ req'[q].id = req[q].id
          /\ req'[q].copied = req[q].copied /\ req'[q].reply = req[q].reply
          /\ req'[q].kept = req[q].kept /\ req'[q].seen = req[q].seen
          /\ req'[q].alone =>
                req[q].alone /\ req[q].pc \notin {"prepare", "copy", "commit"}
  <2> SUFFICES ASSUME NEW q \in Requests \ {r}
               PROVE  /\ req'[q].pc = req[q].pc /\ req'[q].item = req[q].item
                      /\ req'[q].id = req[q].id
                      /\ req'[q].copied = req[q].copied /\ req'[q].reply = req[q].reply
                      /\ req'[q].kept = req[q].kept /\ req'[q].seen = req[q].seen
                      /\ req'[q].alone =>
                            req[q].alone /\ req[q].pc \notin {"prepare", "copy", "commit"}
      OBVIOUS
  <2>1. req[q] \in Request
      BY DEF TypeOK
  <2> DEFINE alone == req[q].alone /\ req[q].pc \notin {"prepare", "copy", "commit"}
  <2>2. req'[q] = [req[q] EXCEPT !.alone = alone]
      BY <1>2
  <2>3. alone => req[q].alone /\ req[q].pc \notin {"prepare", "copy", "commit"}
      OBVIOUS
  <2> HIDE DEF alone
  <2>4. req'[q].alone = alone
      BY <2>1, <2>2 DEF Request
  <2> QED BY <2>1, <2>2, <2>3, <2>4 DEF Request
<1>4. UNCHANGED <<box, images>>
    BY DEF Find
<1>5. Found(r, b, i)
    BY <1>1, <1>2, <1>3, <1>4, Zenon DEF Found
<1> QED BY <1>5

-----------------------------------------------------------------------------
(* The captures that have passed the limit and not yet committed.  Each of *)
(* them may become one more snapshot, so that they count like snapshots.   *)
Admitted == {r \in Requests : req[r].pc \in {"find", "prepare", "copy", "commit"}}

(* ExcessBounded alone is not inductive: a capture past the comparison     *)
(* commits without another look at the list.                               *)
ExcessInv == Cardinality(Listed) + Cardinality(Admitted) <= MaxSnapshots - 1 + Cardinality(Requests)

LEMMA Counted ==
    /\ IsFiniteSet(Listed) /\ Cardinality(Listed) \in Nat
    /\ IsFiniteSet(Admitted) /\ Cardinality(Admitted) \in Nat
    /\ Cardinality(Admitted) <= Cardinality(Requests)
    /\ Cardinality(Requests) \in Nat
<1>1. Listed \in SUBSET Ids /\ Admitted \in SUBSET Requests
    BY DEF Listed, Admitted
<1>2. IsFiniteSet(Requests) /\ IsFiniteSet(Ids)
    BY SnapshotsAssumption
<1>3. IsFiniteSet(Listed) /\ IsFiniteSet(Admitted) /\ Cardinality(Admitted) <= Cardinality(Requests)
    BY <1>1, <1>2, FS_Subset
<1> QED BY <1>2, <1>3, FS_CardinalityType

LEMMA CountedNext ==
    /\ IsFiniteSet(Listed') /\ Cardinality(Listed') \in Nat
    /\ IsFiniteSet(Admitted') /\ Cardinality(Admitted') \in Nat
    /\ Cardinality(Admitted') <= Cardinality(Requests)
<1>1. Listed' \in SUBSET Ids /\ Admitted' \in SUBSET Requests
    BY DEF Listed, Admitted
<1>2. IsFiniteSet(Requests) /\ IsFiniteSet(Ids)
    BY SnapshotsAssumption
<1>3. /\ IsFiniteSet(Listed') /\ IsFiniteSet(Admitted')
      /\ Cardinality(Admitted') <= Cardinality(Requests)
    BY <1>1, <1>2, FS_Subset
<1> QED BY <1>2, <1>3, FS_CardinalityType

(* What a step does to the snapshots and to the admitted captures.         *)
Shrinks == Listed' \subseteq Listed /\ Admitted' \subseteq Admitted
Admits == Listed' = Listed /\ Cardinality(Listed) < MaxSnapshots
Commits(r) ==
    /\ r \in Admitted /\ Admitted' \subseteq Admitted \ {r}
    /\ Listed' \subseteq Listed \cup {req[r].id}

(* A call that changes no image and moves r to an end or to a step that is *)
(* not admitted unless r was.                                              *)
LEMMA Shrinking ==
    ASSUME TypeOK, NEW r \in Requests, NEW new, Become(r, new), Listed' \subseteq Listed,
           new.pc \in {"find", "prepare", "copy", "commit"} => r \in Admitted
    PROVE  Shrinks
BY DEF TypeOK, Become, Shrinks, Admitted

LEMMA CallShrinks ==
    ASSUME TypeOK, NEW r \in Requests, NEW newBox, NEW newImages, NEW ok, NEW error,
           Call(r, newBox, newImages, ok, error),
           \A i \in Ids : newImages[i].listed => images[i].listed,
           ok.pc \in {"find", "prepare", "copy", "commit"} => r \in Admitted,
           error.pc \in {"find", "prepare", "copy", "commit"} => r \in Admitted
    PROVE  Shrinks
<1>1. Listed' \subseteq Listed
    BY DEF Call, Listed
<1> QED BY <1>1, Shrinking DEF Call

LEMMA StepCounts ==
    ASSUME TypeOK, NEW r \in Requests, Step(r)
    PROVE  Shrinks \/ Admits \/ Commits(r)
<1> USE DEF At
<1>0. /\ \A code \in Replies : Reply(r, code).pc = "idle" /\ Leave(r, code).pc = "cleanup"
      /\ \A pc \in CaptureSteps \cup DeleteSteps : Goto(r, pc).pc = pc
      /\ \A i \in Ids : images[i].listed => images[i].listed
      /\ r \in Admitted <=> req[r].pc \in {"find", "prepare", "copy", "commit"}
    BY DEF TypeOK, Request, Reply, Leave, Goto, Admitted
<1>1. CASE Arrive(r)
  <2>1. /\ [NewRequest EXCEPT !.pc = "list"].pc = "list"
        /\ \A i \in Ids : [NewRequest EXCEPT !.pc = "lookup", !.id = i].pc = "lookup"
      BY DEF NewRequest
  <2> QED BY <1>1, <2>1, Shrinking DEF Arrive, Listed
<1>2. CASE List(r)
  <2>1. CASE Cardinality(Listed) < MaxSnapshots
    <3>1. images' = images
        BY <1>2 DEF List, Ask, Call
    <3> QED BY <2>1, <3>1 DEF Admits, Listed
  <2>2. CASE ~ (Cardinality(Listed) < MaxSnapshots)
    <3>1. Ask(r, Reply(r, "limit"), Reply(r, "error"))
        BY <1>2, <2>2, Counted, SnapshotsAssumption DEF List
    <3> QED BY <1>0, <3>1, CallShrinks DEF Ask, Replies
  <2> QED BY <2>1, <2>2
<1>3. CASE Find(r)
  <2>1. Listed' = Listed
      BY <1>3 DEF Find, Listed
  <2>2. CASE Become(r, Reply(r, "error"))
      BY <1>0, <2>1, <2>2, Shrinking DEF Replies
  <2>3. CASE \E b \in Live, i \in Ids \ Listed : Found(r, b, i)
      BY <1>0, <1>3, <2>1, <2>3 DEF Found, Shrinks, Admitted, Find
  <2> QED BY <1>3, <2>2, <2>3, FindFound
<1>4. CASE Prepare(r)
    BY <1>0, <1>4, CallShrinks, Shrinking DEF Prepare, Reject, Replies, Listed
<1>5. CASE \E f \in Files : CopyFile(r, f)
    BY <1>0, <1>5, Shrinking DEF CopyFile, Listed
<1>6. CASE Copied(r)
    BY <1>0, <1>6, Shrinking DEF Copied, Reject, Listed
<1>7. CASE CopyFails(r)
    BY <1>0, <1>7, Shrinking DEF CopyFails, Reject, Listed
<1>8. CASE Commit(r)
  <2>1. CASE images' = images
    <3>1. PICK new : Become(r, new) /\ new.pc \in {"confirm", "cleanup"}
        BY <1>0, <1>8 DEF Commit, Call, Reject, Replies, CaptureSteps
    <3> QED BY <2>1, <3>1, Shrinking DEF Listed
  <2>2. CASE images' # images
    <3>0. Goto(r, "confirm").pc = "confirm" /\ Leave(r, "error").pc = "cleanup"
        BY <1>0 DEF Replies, CaptureSteps
    <3>1. PICK new, image :
             /\ Become(r, new) /\ new.pc \in {"confirm", "cleanup"}
             /\ images' = [images EXCEPT ![req[r].id] = image]
      <4> DEFINE b == req[r].item
                 taken == [listed |-> TRUE, staged |-> box[b].staged, files |-> box[b].staging]
      <4>1. Call(r, box, [images EXCEPT ![req[r].id] = taken], Goto(r, "confirm"), Leave(r, "error"))
          BY <1>8, <2>2 DEF Commit, Reject
      <4> HIDE DEF taken
      <4>2. /\ images' = [images EXCEPT ![req[r].id] = taken]
            /\ Become(r, Goto(r, "confirm")) \/ Become(r, Leave(r, "error"))
          BY <2>2, <4>1 DEF Call
      <4> QED BY <3>0, <4>2
    <3>2. Listed' \subseteq Listed \cup {req[r].id}
        BY <3>1 DEF Listed, TypeOK
    <3> QED BY <1>8, <3>1, <3>2 DEF Commits, Commit, Admitted, Become, TypeOK
  <2> QED BY <2>1, <2>2
<1>9. CASE Confirm(r)
    BY <1>0, <1>9, CallShrinks DEF Confirm, Ask, Replies
<1>10. CASE Cleanup(r)
    BY <1>0, <1>10, CallShrinks, Shrinking DEF Cleanup, Reject, Listed, TypeOK, Request
<1>11. CASE Lookup(r)
    BY <1>0, <1>11, CallShrinks DEF Lookup, Ask, Replies, DeleteSteps
<1>12. CASE Drop(r)
  <2>1. \A i \in Ids : [images EXCEPT ![req[r].id] = NoImage][i].listed => images[i].listed
      BY DEF TypeOK, NoImage
  <2> QED BY <1>0, <1>12, <2>1, CallShrinks, Shrinking DEF Drop, Reject, Listed, Replies
<1> QED BY <1>1, <1>2, <1>3, <1>4, <1>5, <1>6, <1>7, <1>8, <1>9, <1>10, <1>11, <1>12 DEF Step

LEMMA NextCounts ==
    TypeOK /\ [Next]_vars => Shrinks \/ Admits \/ \E r \in Requests : Commits(r)
<1> SUFFICES ASSUME TypeOK, [Next]_vars
             PROVE  Shrinks \/ Admits \/ \E r \in Requests : Commits(r)
    OBVIOUS
<1>1. CASE \E r \in Requests : Step(r)
    BY <1>1, StepCounts
<1>2. ASSUME NEW b \in Boxes, BoxGoes(b) \/ BoxComes(b) PROVE Shrinks
    BY <1>2 DEF BoxGoes, BoxComes, Shrinks, Listed, Admitted
<1>3. ASSUME NEW b \in Boxes, NEW f \in Files, Work(b, f) PROVE Shrinks
  <2> DEFINE now == IF f \in box[b].files THEN box[b].files \ {f} ELSE box[b].files \cup {f}
  <2>1. /\ images' = images
        /\ \A r \in Requests :
              \/ req'[r] = req[r]
              \/ req'[r] = [req[r] EXCEPT !.kept = @ \cap now, !.seen = @ \cup now]
      BY <1>3 DEF Work
  <2> HIDE DEF now
  <2>2. \A r \in Requests : req'[r].pc = req[r].pc
      BY <2>1, ZenonT(40) DEF TypeOK, Request
  <2> QED BY <2>1, <2>2 DEF Shrinks, Listed, Admitted
<1>4. CASE Crash
    BY <1>4 DEF Crash, Shrinks, Listed, Admitted, TypeOK, Request, Reply, At
<1>5. CASE UNCHANGED vars
    BY <1>5 DEF vars, Shrinks, Listed, Admitted
<1> QED BY <1>1, <1>2, <1>3, <1>4, <1>5 DEF Next

LEMMA NextExcess == TypeOK /\ ExcessInv /\ [Next]_vars => ExcessInv'
<1> SUFFICES ASSUME TypeOK, ExcessInv, [Next]_vars PROVE ExcessInv'
    OBVIOUS
<1> USE Counted, CountedNext, SnapshotsAssumption DEF ExcessInv
<1>1. CASE Shrinks
  <2>1. Cardinality(Listed') <= Cardinality(Listed)
        /\ Cardinality(Admitted') <= Cardinality(Admitted)
      BY <1>1, FS_Subset DEF Shrinks
  <2> QED BY <2>1
<1>2. CASE Admits
  <2>1. Cardinality(Listed') = Cardinality(Listed) /\ Cardinality(Listed) < MaxSnapshots
      BY <1>2 DEF Admits
  <2> QED BY <2>1
<1>3. ASSUME NEW r \in Requests, Commits(r) PROVE ExcessInv'
  <2>1. Cardinality(Admitted') <= Cardinality(Admitted) - 1
    <3>1. IsFiniteSet(Admitted \ {r}) /\ Cardinality(Admitted \ {r}) = Cardinality(Admitted) - 1
        BY <1>3, FS_RemoveElement DEF Commits
    <3> QED BY <1>3, <3>1, FS_Subset DEF Commits
  <2>2. Cardinality(Listed') <= Cardinality(Listed) + 1
    <3>1. /\ IsFiniteSet(Listed \cup {req[r].id})
          /\ \/ Cardinality(Listed \cup {req[r].id}) = Cardinality(Listed)
             \/ Cardinality(Listed \cup {req[r].id}) = Cardinality(Listed) + 1
        BY FS_AddElement
    <3>2. Cardinality(Listed') <= Cardinality(Listed \cup {req[r].id})
        BY <1>3, <3>1, FS_Subset DEF Commits
    <3> QED BY <3>1, <3>2
  <2> QED BY <2>1, <2>2
<1> QED BY <1>1, <1>2, <1>3, NextCounts

(* CreateSnapshot's late comparison with maxSnapshotsPerKey is exceeded by *)
(* less than the number of requests at a time, however often it is tried.  *)
THEOREM ExcessIsBounded == Spec => []ExcessBounded
<1>1. Init => ExcessInv
  <2> SUFFICES ASSUME Init PROVE ExcessInv
      OBVIOUS
  <2>1. Listed = {} /\ Admitted = {}
      BY DEF Init, Listed, Admitted, NoImage, NewRequest
  <2>2. Cardinality({}) = 0
      BY FS_EmptySet
  <2> QED BY <2>1, <2>2, Counted, SnapshotsAssumption DEF ExcessInv
<1>2. TypeOK /\ ExcessInv /\ [Next]_vars => ExcessInv'
    BY NextExcess
<1>3. ExcessInv => ExcessBounded
    BY Counted, SnapshotsAssumption DEF ExcessInv, ExcessBounded
<1> QED BY <1>1, <1>2, <1>3, SnapshotTypeCorrect, PTL DEF Spec
-----------------------------------------------------------------------------
(* A lone capture, with one container of the key at a time.                *)
OneLive == \A b, c \in Live : b = c

(* Whoever is at work, or has answered, has the identifier for itself.     *)
Owns(r) == AtWork(r) \/ (At(r, "idle") /\ req[r].reply = "ok")
OwnIds == \A r, q \in Requests : Owns(r) /\ Owns(q) /\ r # q => req[r].id # req[q].id

(* Find takes alone from every capture that has not committed yet.         *)
Filling == {"prepare", "copy", "commit"}
StaysAlone == \A r, q \in Requests : req[r].alone /\ req[r].pc \in Filling /\ AtWork(q) => q = r

(* How far a capture is.  kept and seen enclose the workspace while it is  *)
(* copied; the staging directory has every kept file that the archive has  *)
(* passed, then all of them; the image has what the directory had.         *)
Between(r, set) == req[r].kept \subseteq set /\ set \subseteq req[r].seen
Answered(r) == At(r, "confirm") \/ (req[r].pc \in {"cleanup", "idle"} /\ req[r].reply = "ok")

Story(r) ==
    LET b == req[r].item IN
    /\ req[r].pc \in {"list", "find", "prepare"} => req[r].copied = {}
    /\ Copying(r) /\ b \in Live => Between(r, box[b].files)
    /\ req[r].alone =>
          /\ At(r, "copy") /\ b \in Live =>
                /\ req[r].copied \cap req[r].kept \subseteq box[b].staging
                /\ box[b].staging \subseteq req[r].seen
          /\ At(r, "commit") /\ b \in Live => Between(r, box[b].staging)
          /\ Answered(r) /\ req[r].id \in Listed => Between(r, images[req[r].id].files)

LoneInv == OneLive /\ OwnIds /\ StaysAlone /\ \A r \in Requests : Story(r)

LEMMA StoriesEnd == LoneInv => LoneCaptureIsWhole
BY DEF LoneInv, Story, Answered, Between, LoneCaptureIsWhole, HoldsWorkspace, At

(* A step of one request that leaves the others' stories as they are: it   *)
(* touches the staging directory or adds a snapshot only if it is at work. *)
Touches(r, newBox, newImages) ==
    /\ \A b \in Boxes : newBox[b].live = box[b].live /\ newBox[b].files = box[b].files
    /\ AtWork(r) \/ \A b \in Boxes : newBox[b].staging = box[b].staging
    /\ \A i \in Ids : \/ newImages[i] = images[i]
                      \/ ~newImages[i].listed
                      \/ AtWork(r) /\ i = req[r].id

(* It stays at work only if it was, with its identifier; and it does not   *)
(* become alone.                                                           *)
Continues(r, new) ==
    /\ \/ new.pc \in {"prepare", "copy", "commit", "confirm", "cleanup"}
       \/ new.pc = "idle" /\ new.reply = "ok"
       => AtWork(r) /\ new.id = req[r].id
    /\ new.pc \in Filling /\ new.alone => req[r].pc \in Filling /\ req[r].alone

Turn(r) == Touches(r, box', images') /\ Continues(r, req'[r])
              /\ \A q \in Requests \ {r} : req'[q] = req[q]

LEMMA TurnKeeps ==
    ASSUME TypeOK, LoneInv, NEW r \in Requests, Turn(r), Story(r)'
    PROVE  LoneInv'
<1> USE DEF Turn, Touches, Continues
<1>1. Live' = Live /\ OneLive'
    BY DEF Live, LoneInv, OneLive
<1>2. OwnIds'
    BY DEF LoneInv, OwnIds, Owns, AtWork, At
<1>3. StaysAlone'
    BY DEF LoneInv, StaysAlone, AtWork, Filling
<1>4. ASSUME NEW q \in Requests \ {r} PROVE Story(q)'
  <2>1. req'[q] = req[q] /\ Story(q)
      BY DEF LoneInv
  <2>2. \A b \in Live : b \in Boxes
      BY DEF Live
  <2>3. ASSUME req[q].alone, req[q].pc \in Filling
        PROVE  \A b \in Boxes : box'[b].staging = box[b].staging
      BY <2>3 DEF LoneInv, StaysAlone
  <2>4. ASSUME Answered(q), req[q].id \in Listed'
        PROVE  req[q].id \in Listed /\ images'[req[q].id] = images[req[q].id]
    <3>1. AtWork(r) => req[q].id # req[r].id
        BY <2>4 DEF LoneInv, OwnIds, Owns, Answered, AtWork, At
    <3> QED BY <2>4, <3>1 DEF Listed
  <2> QED BY <1>1, <2>1, <2>2, <2>3, <2>4
          DEF Story, Between, Copying, At, Answered, Filling
<1> QED BY <1>1, <1>2, <1>3, <1>4 DEF LoneInv

(* The continuations.                                                      *)
LEMMA Leaving ==
    ASSUME TypeOK, NEW r \in Requests, NEW code \in Replies \ {"ok"}
    PROVE  /\ Continues(r, Reply(r, code))
           /\ AtWork(r) => Continues(r, Leave(r, code))
BY DEF TypeOK, Request, Continues, Reply, Leave, Filling

LEMMA LeftStory ==
    ASSUME TypeOK, NEW r \in Requests, NEW code \in Replies \ {"ok"},
           Become(r, Reply(r, code)) \/ Become(r, Leave(r, code))
    PROVE  Story(r)'
<1>1. req'[r].pc \in {"idle", "cleanup"} /\ req'[r].reply = code
    BY ZenonT(40) DEF TypeOK, Request, Become, Reply, Leave
<1> QED BY <1>1 DEF Story, Copying, Answered, At

LEMMA CallTurns ==
    ASSUME TypeOK, NEW r \in Requests, NEW newBox, NEW newImages, NEW ok, NEW error,
           Call(r, newBox, newImages, ok, error), Touches(r, newBox, newImages),
           Continues(r, ok), Continues(r, error)
    PROVE  Turn(r)
<1>1. Touches(r, box, images)
    BY DEF Touches
<1>2. Touches(r, box', images')
    BY <1>1 DEF Call
<1>3. Continues(r, req'[r]) /\ \A q \in Requests \ {r} : req'[q] = req[q]
    BY DEF Call, Become, TypeOK
<1> QED BY <1>2, <1>3 DEF Turn

LEMMA AskTurns ==
    ASSUME TypeOK, NEW r \in Requests, NEW ok, NEW error, Ask(r, ok, error),
           Continues(r, ok), Continues(r, error)
    PROVE  Turn(r)
<1>1. Touches(r, box, images)
    BY DEF Touches
<1> QED BY <1>1, CallTurns DEF Ask

LEMMA RejectTurns ==
    ASSUME TypeOK, NEW r \in Requests, NEW error, Reject(r, error), Continues(r, error)
    PROVE  Turn(r)
<1>1. Touches(r, box, images)
    BY DEF Touches
<1> QED BY <1>1 DEF Reject, Become, TypeOK, Turn

-----------------------------------------------------------------------------
(* Find takes a fresh identifier and is told whether it is alone.          *)
LEMMA FoundKeeps ==
    ASSUME TypeOK, LoneInv, NEW r \in Requests, At(r, "find"),
           NEW b \in Live, NEW i \in Ids \ Listed, Found(r, b, i)
    PROVE  LoneInv'
<1> DEFINE alone == \A other \in Requests \ {r} : ~AtWork(other)
           files == box[b].files
<1>1. /\ req'[r].pc = "prepare" /\ req'[r].item = b /\ req'[r].id = i
      /\ req'[r].copied = req[r].copied /\ req'[r].reply = req[r].reply
      /\ req'[r].kept = files /\ req'[r].seen = files
      /\ req'[r].alone = alone
  <2>1. req'[r] = [Goto(r, "prepare") EXCEPT !.item = b, !.id = i, !.kept = files, !.seen = files,
                                             !.alone = alone]
      BY DEF Found
  <2>2. req[r] \in Request
      BY DEF TypeOK
  <2> HIDE DEF alone, files
  <2> QED BY <2>1, <2>2 DEF Goto, Request
<1>2. Live' = Live /\ Listed' = Listed /\ box' = box /\ images' = images
    BY DEF Found, Live, Listed
<1>3. OneLive'
    BY <1>2 DEF LoneInv, OneLive
<1>4. OwnIds'
  <2>1. \A q \in Requests \ {r} : Owns(q)' => Owns(q) /\ req'[q].id = req[q].id /\ req[q].id # i
      BY DEF Found, Owns, AtWork, At
  <2> QED BY <1>1, <2>1 DEF LoneInv, OwnIds
<1>5. StaysAlone'
  <2>1. \A q \in Requests \ {r} : ~ (req'[q].alone /\ req'[q].pc \in Filling)
      BY DEF Found, Filling
  <2>2. \A q \in Requests \ {r} : AtWork(q)' <=> AtWork(q)
      BY DEF Found, AtWork
  <2> QED BY <1>1, <2>1, <2>2 DEF StaysAlone
<1>6. Story(r)'
    BY <1>1, <1>2 DEF At, Story, LoneInv, Between, Copying, Answered
<1>7. ASSUME NEW q \in Requests \ {r} PROVE Story(q)'
  <2>1. /\ req'[q].pc = req[q].pc /\ req'[q].item = req[q].item /\ req'[q].id = req[q].id
        /\ req'[q].copied = req[q].copied /\ req'[q].reply = req[q].reply
        /\ req'[q].kept = req[q].kept /\ req'[q].seen = req[q].seen
        /\ req'[q].alone => req[q].alone
      BY DEF Found
  <2>2. Story(q)
      BY DEF LoneInv
  <2> QED BY <1>2, <2>1, <2>2 DEF At, Story, Between, Copying, Answered
<1> QED BY <1>3, <1>4, <1>5, <1>6, <1>7 DEF LoneInv

LEMMA CopyFileKeeps ==
    ASSUME TypeOK, LoneInv, NEW r \in Requests, NEW f \in Files, CopyFile(r, f)
    PROVE  LoneInv'
<1> DEFINE b == req[r].item
<1>1. /\ b \in Live /\ b \in Boxes /\ At(r, "copy")
      /\ req' = [req EXCEPT ![r] = [req[r] EXCEPT !.copied = @ \cup {f}]]
      /\ images' = images
    BY DEF CopyFile, Become, Live
<1>2. req[r] \in Request /\ req \in [Requests -> Request] /\ box \in [Boxes -> Box]
    BY DEF TypeOK
<1>3. /\ req'[r] = [req[r] EXCEPT !.copied = @ \cup {f}]
      /\ \A q \in Requests \ {r} : req'[q] = req[q]
    BY <1>1, <1>2
<1>4. /\ req'[r].pc = "copy" /\ req'[r].item = b /\ req'[r].id = req[r].id
      /\ req'[r].copied = req[r].copied \cup {f}
      /\ req'[r].kept = req[r].kept /\ req'[r].seen = req[r].seen
      /\ req'[r].alone = req[r].alone
    BY <1>1, <1>2, <1>3 DEF At, Request
<1>5. /\ \A c \in Boxes : box'[c].live = box[c].live /\ box'[c].files = box[c].files
      /\ box'[b].staging = IF f \in box[b].files THEN box[b].staging \cup {f} ELSE box[b].staging
    BY <1>1, <1>2 DEF CopyFile, Box
<1>6. Turn(r)
    BY <1>1, <1>3, <1>4, <1>5 DEF Turn, Touches, Continues, AtWork, At, Filling
<1>7. Story(r)'
  <2>1. Between(r, box[b].files)
        /\ (req[r].alone => /\ req[r].copied \cap req[r].kept \subseteq box[b].staging
                            /\ box[b].staging \subseteq req[r].seen)
      BY <1>1 DEF LoneInv, Story, Copying, At
  <2> QED BY <1>1, <1>4, <1>5, <2>1 DEF Story, Between, Copying, At, Answered
<1> QED BY <1>6, <1>7, TurnKeeps

LEMMA PrepareKeeps == ASSUME TypeOK, LoneInv, NEW r \in Requests, Prepare(r) PROVE LoneInv'
<1> DEFINE go == Goto(r, "copy")
           error == Reply(r, "error")
<1>0. /\ At(r, "prepare") /\ AtWork(r) /\ req[r] \in Request /\ Story(r)
      /\ "error" \in Replies \ {"ok"}
    BY DEF Prepare, At, AtWork, TypeOK, LoneInv, Replies
<1>1. Continues(r, error) /\ (Become(r, error) => Story(r)')
    BY <1>0, Leaving, LeftStory
<1>2. CASE Live = {} /\ Reject(r, error)
    BY <1>1, <1>2, RejectTurns, TurnKeeps DEF Reject
<1>3. ASSUME NEW b \in Live,
             Call(r, [box EXCEPT ![b].staged = TRUE, ![b].staging = {}], images, go, error)
      PROVE  LoneInv'
  <2> DEFINE new == [box EXCEPT ![b].staged = TRUE, ![b].staging = {}]
  <2>1. /\ \A c \in Boxes : new[c].live = box[c].live /\ new[c].files = box[c].files
        /\ new[b].staging = {} /\ b \in Boxes
      BY DEF TypeOK, Box, Live
  <2>2. /\ go.pc = "copy" /\ go.item = req[r].item /\ go.id = req[r].id
        /\ go.copied = req[r].copied /\ go.kept = req[r].kept /\ go.seen = req[r].seen
        /\ go.alone = req[r].alone
      BY <1>0 DEF Goto, Request
  <2> HIDE DEF new, go, error
  <2>3. Call(r, new, images, go, error)
      BY <1>3 DEF new, go, error
  <2>4. Turn(r)
    <3>1. Touches(r, new, images)
        BY <1>0, <2>1 DEF Touches
    <3>2. Continues(r, go)
        BY <1>0, <2>2 DEF Continues, Filling, At
    <3> QED BY <1>1, <2>3, <3>1, <3>2, CallTurns
  <2>5. CASE Become(r, error)
      BY <1>1, <2>4, <2>5, TurnKeeps
  <2>6. CASE Become(r, go) /\ box' = new /\ images' = images
    <3>1. req'[r] = go
        BY <2>6 DEF Become, TypeOK
    <3>2. req[r].item \in Live' => req[r].item \in Boxes /\ req[r].item \in Live /\ req[r].item = b
        BY <2>1, <2>6 DEF Live, LoneInv, OneLive
    <3>3. req[r].copied = {} /\ (req[r].item \in Live => Between(r, box[req[r].item].files))
        BY <1>0 DEF Story, Copying, At
    <3>4. Story(r)'
        BY <2>1, <2>2, <2>6, <3>1, <3>2, <3>3 DEF Story, Between, Copying, At, Answered
    <3> QED BY <2>4, <3>4, TurnKeeps
  <2> QED BY <2>3, <2>5, <2>6 DEF Call
<1> QED BY <1>2, <1>3 DEF Prepare

LEMMA CommitKeeps == ASSUME TypeOK, LoneInv, NEW r \in Requests, Commit(r) PROVE LoneInv'
<1> DEFINE b == req[r].item
           i == req[r].id
           taken == [listed |-> TRUE, staged |-> box[b].staged, files |-> box[b].staging]
           go == Goto(r, "confirm")
           error == Leave(r, "error")
           new == [images EXCEPT ![i] = taken]
<1>0. /\ At(r, "commit") /\ AtWork(r) /\ req[r] \in Request /\ Story(r)
      /\ "error" \in Replies \ {"ok"} /\ i \in Ids
    BY DEF Commit, At, AtWork, TypeOK, LoneInv, Replies, Request
<1>1. Continues(r, error) /\ (Become(r, error) => Story(r)')
    BY <1>0, Leaving, LeftStory
<1>2. CASE b \notin Live
    BY <1>1, <1>2, RejectTurns, TurnKeeps DEF Commit, Reject
<1>3. CASE b \in Live
  <2>1. Call(r, box, new, go, error)
      BY <1>3 DEF Commit
  <2>2. /\ go.pc = "confirm" /\ go.item = b /\ go.id = i
        /\ go.copied = req[r].copied /\ go.kept = req[r].kept /\ go.seen = req[r].seen
        /\ go.alone = req[r].alone
      BY <1>0 DEF Goto, Request
  <2>3. new[i].files = box[b].staging /\ \A j \in Ids \ {i} : new[j] = images[j]
      BY <1>0 DEF TypeOK
  <2>4. req[r].alone => Between(r, box[b].staging)
      BY <1>0, <1>3 DEF Story
  <2> HIDE DEF go, error, new
  <2>5. Turn(r)
    <3>1. Touches(r, box, new)
        BY <1>0, <2>3 DEF Touches
    <3>2. Continues(r, go)
        BY <1>0, <2>2 DEF Continues, Filling, At
    <3> QED BY <1>1, <2>1, <3>1, <3>2, CallTurns
  <2>6. CASE Become(r, error)
      BY <1>1, <2>5, <2>6, TurnKeeps
  <2>7. CASE Become(r, go) /\ images' = new
    <3>1. req'[r] = go
        BY <2>7 DEF Become, TypeOK
    <3>2. Story(r)'
        BY <2>2, <2>3, <2>4, <2>7, <3>1 DEF Story, Between, Copying, At, Answered
    <3> QED BY <2>5, <3>2, TurnKeeps
  <2> QED BY <2>1, <2>6, <2>7 DEF Call
<1> QED BY <1>2, <1>3

LEMMA ConfirmKeeps == ASSUME TypeOK, LoneInv, NEW r \in Requests, Confirm(r) PROVE LoneInv'
<1> DEFINE code == IF req[r].id \in Listed THEN "ok" ELSE "error"
           go == Leave(r, code)
           error == Leave(r, "error")
<1>0. /\ At(r, "confirm") /\ AtWork(r) /\ req[r] \in Request /\ Story(r)
      /\ "error" \in Replies \ {"ok"}
    BY DEF Confirm, At, AtWork, TypeOK, LoneInv, Replies
<1>1. Continues(r, error) /\ (Become(r, error) => Story(r)')
    BY <1>0, Leaving, LeftStory
<1>2. /\ go.pc = "cleanup" /\ go.item = req[r].item /\ go.id = req[r].id
      /\ go.kept = req[r].kept /\ go.seen = req[r].seen /\ go.alone = req[r].alone
  <2> HIDE DEF code
  <2> QED BY <1>0 DEF Leave, Request
<1>3. req[r].alone /\ req[r].id \in Listed => Between(r, images[req[r].id].files)
    BY <1>0 DEF Story, Answered
<1>4. Ask(r, go, error)
    BY DEF Confirm
<1> HIDE DEF go, error
<1>5. Turn(r)
  <2>1. Continues(r, go)
      BY <1>0, <1>2 DEF Continues, Filling, At
  <2> QED BY <1>1, <1>4, <2>1, AskTurns
<1>6. CASE Become(r, error)
    BY <1>1, <1>5, <1>6, TurnKeeps
<1>7. CASE Become(r, go) /\ images' = images
  <2>1. req'[r] = go
      BY <1>7 DEF Become, TypeOK
  <2>2. Story(r)'
      BY <1>2, <1>3, <1>7, <2>1 DEF Story, Between, Copying, At, Answered, Listed
  <2> QED BY <1>5, <2>2, TurnKeeps
<1> QED BY <1>4, <1>6, <1>7 DEF Ask, Call

LEMMA CleanupKeeps == ASSUME TypeOK, LoneInv, NEW r \in Requests, Cleanup(r) PROVE LoneInv'
<1> DEFINE done == Reply(r, req[r].reply)
<1>0. At(r, "cleanup") /\ AtWork(r) /\ req[r] \in Request /\ Story(r)
    BY DEF Cleanup, At, AtWork, TypeOK, LoneInv
<1>1. /\ done.pc = "idle" /\ done.id = req[r].id /\ done.reply = req[r].reply
      /\ done.kept = req[r].kept /\ done.seen = req[r].seen /\ done.alone = req[r].alone
    BY <1>0 DEF Reply, Request
<1>2. Continues(r, done)
    BY <1>0, <1>1 DEF Continues, Filling
<1>3. \A b \in Live : Touches(r, [box EXCEPT ![b].staged = FALSE, ![b].staging = {}], images)
    BY <1>0 DEF Touches, TypeOK, Box, Live
<1>4. (\E b \in Live : Call(r, [box EXCEPT ![b].staged = FALSE, ![b].staging = {}], images, done, done))
         \/ Reject(r, done)
    BY DEF Cleanup
<1> HIDE DEF done
<1>5. Turn(r) /\ Become(r, done) /\ images' = images
    BY <1>2, <1>3, <1>4, CallTurns, RejectTurns DEF Call, Reject
<1>6. Story(r)'
  <2>1. req'[r] = done
      BY <1>5 DEF Become, TypeOK
  <2> QED BY <1>0, <1>1, <1>5, <2>1 DEF Story, Between, Copying, At, Answered, Listed
<1> QED BY <1>5, <1>6, TurnKeeps

LEMMA DropKeeps == ASSUME TypeOK, LoneInv, NEW r \in Requests, Drop(r) PROVE LoneInv'
<1>1. /\ \A code \in {"removed", "error"} :
            Continues(r, Reply(r, code)) /\ (Become(r, Reply(r, code)) => Story(r)')
    BY Leaving, LeftStory DEF Replies
<1>2. Touches(r, box, [images EXCEPT ![req[r].id] = NoImage])
    BY DEF Touches, TypeOK, NoImage
<1>3. Turn(r)
    BY <1>1, <1>2, CallTurns, RejectTurns DEF Drop
<1>4. Story(r)'
    BY <1>1 DEF Drop, Call, Reject
<1> QED BY <1>3, <1>4, TurnKeeps

(* Arrivals and the steps before the first container call.                 *)
LEMMA BeginKeeps ==
    ASSUME TypeOK, LoneInv, NEW r \in Requests, Arrive(r) \/ List(r) \/ Lookup(r)
    PROVE  LoneInv'
<1> USE DEF At
<1>0. req[r] \in Request /\ Story(r)
    BY DEF TypeOK, LoneInv
<1>1. \A code \in {"limit", "absent", "error"} :
         Continues(r, Reply(r, code)) /\ (Become(r, Reply(r, code)) => Story(r)')
    BY Leaving, LeftStory DEF Replies
<1>2. ASSUME NEW new, Become(r, new), new.pc \in {"list", "find", "lookup", "drop"},
             new.copied = {} \/ new.pc \in {"lookup", "drop"}
      PROVE  Continues(r, new) /\ Story(r)'
  <2>1. req'[r] = new
      BY <1>2 DEF Become, TypeOK
  <2> QED BY <1>2, <2>1 DEF Continues, Filling, Story, Copying, Answered
<1>3. CASE Arrive(r)
  <2>1. /\ [NewRequest EXCEPT !.pc = "list"].pc = "list"
        /\ [NewRequest EXCEPT !.pc = "list"].copied = {}
        /\ \A i \in Ids : [NewRequest EXCEPT !.pc = "lookup", !.id = i].pc = "lookup"
      BY DEF NewRequest
  <2>2. PICK new : Become(r, new) /\ new.pc \in {"list", "lookup"}
                      /\ (new.copied = {} \/ new.pc = "lookup")
      BY <1>3, <2>1 DEF Arrive
  <2>3. Continues(r, new) /\ Story(r)'
      BY <1>2, <2>2
  <2>4. Turn(r)
      BY <1>3, <2>2, <2>3, RejectTurns DEF Arrive, Reject
  <2> QED BY <2>3, <2>4, TurnKeeps
<1>4. CASE List(r)
  <2>1. /\ Goto(r, "find").pc = "find" /\ Goto(r, "find").copied = req[r].copied
        /\ req[r].copied = {}
      BY <1>0, <1>4 DEF List, Goto, Request, Story
  <2>2. Continues(r, Goto(r, "find")) /\ (Become(r, Goto(r, "find")) => Story(r)')
    <3>1. Continues(r, Goto(r, "find"))
        BY <2>1 DEF Continues, Filling
    <3> QED BY <1>2, <2>1, <3>1
  <2>3. Turn(r)
      BY <1>1, <1>4, <2>2, AskTurns DEF List
  <2>4. Story(r)'
      BY <1>1, <1>4, <2>2 DEF List, Ask, Call
  <2> QED BY <2>3, <2>4, TurnKeeps
<1>5. CASE Lookup(r)
  <2>1. Goto(r, "drop").pc = "drop"
      BY <1>0 DEF Goto, Request
  <2>2. Continues(r, Goto(r, "drop")) /\ (Become(r, Goto(r, "drop")) => Story(r)')
    <3>1. Continues(r, Goto(r, "drop"))
        BY <2>1 DEF Continues, Filling
    <3> QED BY <1>2, <2>1, <3>1
  <2>3. Turn(r)
      BY <1>1, <1>5, <2>2, AskTurns DEF Lookup
  <2>4. Story(r)'
      BY <1>1, <1>5, <2>2 DEF Lookup, Ask, Call
  <2> QED BY <2>3, <2>4, TurnKeeps
<1> QED BY <1>3, <1>4, <1>5

LEMMA CopyEndsKeeps ==
    ASSUME TypeOK, LoneInv, NEW r \in Requests, Copied(r) \/ CopyFails(r) PROVE LoneInv'
<1>0. /\ At(r, "copy") /\ AtWork(r) /\ req[r] \in Request /\ Story(r)
      /\ "error" \in Replies \ {"ok"}
    BY DEF Copied, CopyFails, At, AtWork, TypeOK, LoneInv, Replies
<1>1. CASE CopyFails(r)
    BY <1>0, <1>1, Leaving, LeftStory, RejectTurns, TurnKeeps DEF CopyFails, Reject
<1>2. CASE Copied(r)
  <2> DEFINE go == Goto(r, "commit")
  <2>1. /\ go.pc = "commit" /\ go.item = req[r].item /\ go.id = req[r].id
        /\ go.kept = req[r].kept /\ go.seen = req[r].seen /\ go.alone = req[r].alone
      BY <1>0 DEF Goto, Request
  <2>2. Reject(r, go) /\ req[r].copied = Files /\ req[r].kept \subseteq Files
      BY <1>0, <1>2 DEF Copied, Request
  <2> HIDE DEF go
  <2>3. Turn(r)
    <3>1. Continues(r, go)
        BY <1>0, <2>1 DEF Continues, Filling, At
    <3> QED BY <2>2, <3>1, RejectTurns
  <2>4. Story(r)'
    <3>1. req'[r] = go /\ box' = box /\ images' = images
        BY <2>2 DEF Reject, Become, TypeOK
    <3> QED BY <1>0, <2>1, <2>2, <3>1 DEF Story, Between, Copying, At, Answered, Live
  <2> QED BY <2>3, <2>4, TurnKeeps
<1> QED BY <1>1, <1>2

LEMMA StepKeeps == ASSUME TypeOK, LoneInv, NEW r \in Requests, Step(r) PROVE LoneInv'
<1>1. CASE Find(r)
  <2>1. CASE Become(r, Reply(r, "error"))
    <3>1. "error" \in Replies \ {"ok"}
        BY DEF Replies
    <3> QED BY <1>1, <2>1, <3>1, Leaving, LeftStory, RejectTurns, TurnKeeps DEF Find, Reject
  <2>2. CASE \E b \in Live, i \in Ids \ Listed : Found(r, b, i)
      BY <1>1, <2>2, FoundKeeps DEF Find
  <2> QED BY <1>1, <2>1, <2>2, FindFound
<1> QED BY <1>1, BeginKeeps, PrepareKeeps, CopyFileKeeps, CopyEndsKeeps, CommitKeeps,
           ConfirmKeeps, CleanupKeeps, DropKeeps DEF Step

-----------------------------------------------------------------------------
(* What others do.  Where the requests stay, only the containers matter.   *)
LEMMA NoneLive == ASSUME OneLive, Cardinality(Live) < 1 PROVE Live = {}
<1> SUFFICES ASSUME NEW b \in Live PROVE FALSE
    OBVIOUS
<1>1. Live = {b}
    BY DEF OneLive
<1>2. Cardinality({b}) = 1
    BY FS_Singleton
<1> QED BY <1>1, <1>2

LEMMA BoxKeeps ==
    ASSUME TypeOK, LoneInv, MaxLive = 1, NEW b \in Boxes, BoxGoes(b) \/ BoxComes(b)
    PROVE  LoneInv'
<1>1. /\ req' = req /\ images' = images /\ Listed' = Listed
      /\ \A c \in Boxes \ {b} : box'[c] = box[c]
    BY DEF BoxGoes, BoxComes, Listed, TypeOK
<1>2. OneLive' /\ \A r \in Requests : AtWork(r) /\ req[r].item \in Live' =>
                     req[r].item # b /\ req[r].item \in Live
  <2>1. CASE BoxGoes(b)
      BY <2>1 DEF BoxGoes, Gone, TypeOK, Live, LoneInv, OneLive
  <2>2. CASE BoxComes(b)
    <3>1. Live = {}
        BY <2>2, NoneLive DEF BoxComes, LoneInv
    <3>2. Live' \subseteq {b}
        BY <1>1, <3>1 DEF Live
    <3> QED BY <2>2, <3>2 DEF OneLive, BoxComes
  <2> QED BY <2>1, <2>2
<1>3. OwnIds' /\ StaysAlone'
    BY <1>1 DEF LoneInv, OwnIds, Owns, StaysAlone, AtWork, At
<1>4. ASSUME NEW r \in Requests PROVE Story(r)'
  <2>1. /\ Story(r)
        /\ req[r].pc \in Filling => AtWork(r)
        /\ \A c \in Live' : c \in Boxes
      BY DEF LoneInv, Filling, AtWork, Live
  <2> QED BY <1>1, <1>2, <2>1 DEF Story, Between, Copying, At, Answered, Filling
<1> QED BY <1>2, <1>3, <1>4 DEF LoneInv

LEMMA WorkKeeps ==
    ASSUME TypeOK, LoneInv, NEW b \in Boxes, NEW f \in Files, Work(b, f) PROVE LoneInv'
<1> DEFINE now == IF f \in box[b].files THEN box[b].files \ {f} ELSE box[b].files \cup {f}
           new(r) == [req[r] EXCEPT !.kept = @ \cap now, !.seen = @ \cup now]
<1>1. images' = images /\ Listed' = Listed
    BY DEF Work, Listed
<1>2. /\ \A c \in Boxes : box'[c].live = box[c].live /\ box'[c].staging = box[c].staging
      /\ box'[b].files = now /\ \A c \in Boxes \ {b} : box'[c].files = box[c].files
    BY DEF Work, TypeOK, Box
<1>3. Live' = Live
    BY <1>2 DEF Live
<1>4. \A r \in Requests :
         req'[r] = IF Copying(r) /\ req[r].item = b THEN new(r) ELSE req[r]
    BY DEF Work
<1> HIDE DEF now
<1>5. \A r \in Requests :
         /\ req'[r].pc = req[r].pc /\ req'[r].item = req[r].item /\ req'[r].id = req[r].id
         /\ req'[r].copied = req[r].copied /\ req'[r].reply = req[r].reply
         /\ req'[r].alone = req[r].alone
         /\ Copying(r) /\ req[r].item = b =>
               req'[r].kept = req[r].kept \cap now /\ req'[r].seen = req[r].seen \cup now
         /\ ~ (Copying(r) /\ req[r].item = b) =>
               req'[r].kept = req[r].kept /\ req'[r].seen = req[r].seen
    BY <1>4, ZenonT(40) DEF TypeOK, Request
<1>6. OneLive' /\ OwnIds' /\ StaysAlone'
    BY <1>3, <1>5 DEF LoneInv, OneLive, OwnIds, Owns, StaysAlone, AtWork, At
<1>7. ASSUME NEW r \in Requests PROVE Story(r)'
  <2>1. Story(r) /\ Live \subseteq Boxes
      BY DEF LoneInv, Live
  <2>2. CASE Copying(r) /\ req[r].item = b
      BY <1>1, <1>2, <1>3, <1>5, <2>1, <2>2 DEF Story, Between, Copying, At, Answered
  <2>3. CASE ~ (Copying(r) /\ req[r].item = b)
      BY <1>1, <1>2, <1>3, <1>5, <2>1, <2>3 DEF Story, Between, Copying, At, Answered
  <2> QED BY <2>2, <2>3
<1> QED BY <1>6, <1>7 DEF LoneInv

LEMMA CrashKeeps == ASSUME TypeOK, LoneInv, Crash PROVE LoneInv'
<1>1. box' = box /\ images' = images /\ Live' = Live /\ Listed' = Listed
    BY DEF Crash, Live, Listed
<1>2. \A r \in Requests : \/ At(r, "idle") /\ req'[r] = req[r]
                          \/ req'[r].pc = "idle" /\ req'[r].reply = "lost"
    BY DEF Crash, Reply, TypeOK, Request
<1>3. OneLive' /\ OwnIds' /\ StaysAlone'
    BY <1>1, <1>2 DEF LoneInv, OneLive, OwnIds, Owns, StaysAlone, Filling, AtWork, At
<1>4. ASSUME NEW r \in Requests PROVE Story(r)'
    BY <1>1, <1>2 DEF LoneInv, Story, Between, Copying, At, Answered
<1> QED BY <1>3, <1>4 DEF LoneInv

LEMMA NextLone == MaxLive = 1 /\ TypeOK /\ LoneInv /\ [Next]_vars => LoneInv'
<1> SUFFICES ASSUME MaxLive = 1, TypeOK, LoneInv, [Next]_vars PROVE LoneInv'
    OBVIOUS
<1>1. CASE UNCHANGED vars
  <2>1. Live' = Live /\ Listed' = Listed
      BY <1>1 DEF vars, Live, Listed
  <2> QED BY <1>1, <2>1 DEF vars, LoneInv, OneLive, OwnIds, Owns, StaysAlone, AtWork, At, Story,
                            Between, Copying, Answered
<1> QED BY <1>1, StepKeeps, BoxKeeps, WorkKeeps, CrashKeeps DEF Next

(* A capture that no other one was at work beside is answered with a       *)
(* snapshot of its workspace, whatever earlier ones, crashes and failed    *)
(* cleanups left in the staging directory.  One container of the key at a  *)
(* time: in the middle of a restore, when there are two, CreateSnapshot    *)
(* may prepare the one and copy into the other.                            *)
THEOREM LoneCapturesAreWhole == MaxLive = 1 => (Spec => []LoneCaptureIsWhole)
<1> SUFFICES ASSUME MaxLive = 1 PROVE Spec => []LoneCaptureIsWhole
    OBVIOUS
<1>1. Init => LoneInv
    BY DEF Init, LoneInv, OneLive, Live, Gone, OwnIds, Owns, StaysAlone, Filling, AtWork, At,
           NewRequest, Story, Copying, Answered
<1>2. TypeOK /\ LoneInv /\ [Next]_vars => LoneInv'
    BY NextLone
<1>3. LoneInv => LoneCaptureIsWhole
    BY StoriesEnd
<1> QED BY <1>1, <1>2, <1>3, SnapshotTypeCorrect, PTL DEF Spec
=============================================================================
