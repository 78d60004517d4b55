-------------------------- MODULE ImagePull_proofs --------------------------
(***************************************************************************)
(* Theorems about PrepareImage, for every number of callers, images and    *)
(* pulls.                                                                  *)
(***************************************************************************)
EXTENDS ImagePull, TLAPS

(* None of the actions changes the types: in particular TakeResult and     *)
(* StartPull write only objects and entries that exist.                    *)
LEMMA InitTypeOK == Init => TypeOK
BY PullAssumption DEF Init, TypeOK, NoPull, NoCall, PullPhases, CallPhases, InFlight, Closed, Verdicts

LEMMA NextTypeOK == TypeOK /\ [Next]_pullVars => TypeOK'
<1> USE PullAssumption DEF PullPhases, CallPhases, InFlight, Closed, Verdicts, NoPull, NoCall
<1> SUFFICES ASSUME TypeOK, [Next]_pullVars PROVE TypeOK'
    OBVIOUS
<1>1. ASSUME NEW c \in Callers, NEW i \in Images, Inspect(c, i) PROVE TypeOK'
    BY <1>1 DEF TypeOK, Inspect, Answer
<1>2. ASSUME NEW c \in Callers, NEW i \in Images, InspectFails(c, i) PROVE TypeOK'
    BY <1>2 DEF TypeOK, InspectFails, Answer
<1>3. ASSUME NEW c \in Callers, JoinPull(c) PROVE TypeOK'
    BY <1>3 DEF TypeOK, JoinPull, Missed, Answer
<1>4. ASSUME NEW c \in Callers, TakeResult(c) PROVE TypeOK'
    BY <1>4 DEF TypeOK, TakeResult, Missed, Answer
<1>5. ASSUME NEW c \in Callers, StartPull(c) PROVE TypeOK'
    BY <1>5 DEF TypeOK, StartPull, Missed, Answer
<1>6. ASSUME NEW p \in Pulls, PullLands(p) PROVE TypeOK'
    BY <1>6 DEF TypeOK, PullLands
<1>7. ASSUME NEW p \in Pulls, PullEnds(p) PROVE TypeOK'
    BY <1>7 DEF TypeOK, PullEnds
<1>8. ASSUME NEW i \in Images, RemoveImage(i) PROVE TypeOK'
    BY <1>8 DEF TypeOK, RemoveImage
<1>9. ASSUME NEW i \in Images, ImageArrives(i) PROVE TypeOK'
    BY <1>9 DEF TypeOK, ImageArrives
<1>10. CASE Restart
    BY <1>10 DEF TypeOK, Restart
<1>11. CASE UNCHANGED pullVars
    BY <1>11 DEF TypeOK, pullVars
<1> QED BY <1>1, <1>2, <1>3, <1>4, <1>5, <1>6, <1>7, <1>8, <1>9, <1>10, <1>11
        DEF Next, Consult, PullStep

(* The variables of PrepareImage keep their types.                         *)
THEOREM PullTypeCorrect == Spec => []TypeOK
<1>1. Init => TypeOK
    BY InitTypeOK
<1>2. TypeOK /\ [Next]_pullVars => TypeOK'
    BY NextTypeOK
<1> QED BY <1>1, <1>2, PTL DEF Spec
-----------------------------------------------------------------------------
(* Registered is inductive: StartPull registers the object it starts, and  *)
(* TakeResult frees the object whose entry it drops.                       *)
LEMMA NextRegistered == TypeOK /\ Registered /\ [Next]_pullVars => Registered'
<1> USE PullAssumption DEF InFlight, Closed, NoPull, NoCall
<1> SUFFICES ASSUME TypeOK, Registered, [Next]_pullVars PROVE Registered'
    OBVIOUS
<1>1. ASSUME NEW c \in Callers, NEW i \in Images, Inspect(c, i) PROVE Registered'
    BY <1>1 DEF Registered, Inspect
<1>2. ASSUME NEW c \in Callers, NEW i \in Images, InspectFails(c, i) PROVE Registered'
    BY <1>2 DEF Registered, InspectFails
<1>3. ASSUME NEW c \in Callers, JoinPull(c) PROVE Registered'
    BY <1>3 DEF Registered, JoinPull
<1>4. ASSUME NEW c \in Callers, TakeResult(c) PROVE Registered'
    BY <1>4 DEF TypeOK, Registered, TakeResult, Missed
<1>5. ASSUME NEW c \in Callers, StartPull(c) PROVE Registered'
    BY <1>5 DEF TypeOK, Registered, StartPull, Missed
<1>6. ASSUME NEW p \in Pulls, PullLands(p) PROVE Registered'
    BY <1>6 DEF TypeOK, Registered, PullLands
<1>7. ASSUME NEW p \in Pulls, PullEnds(p) PROVE Registered'
    BY <1>7 DEF TypeOK, Registered, PullEnds
<1>8. ASSUME NEW i \in Images, RemoveImage(i) PROVE Registered'
    BY <1>8 DEF Registered, RemoveImage
<1>9. ASSUME NEW i \in Images, ImageArrives(i) PROVE Registered'
    BY <1>9 DEF Registered, ImageArrives
<1>10. CASE Restart
    BY <1>10 DEF Registered, Restart
<1>11. CASE UNCHANGED pullVars
    BY <1>11 DEF Registered, pullVars
<1> QED BY <1>1, <1>2, <1>3, <1>4, <1>5, <1>6, <1>7, <1>8, <1>9, <1>10, <1>11
        DEF Next, Consult, PullStep

(* The map and the objects agree.                                          *)
THEOREM EntriesAreRegistered == Spec => []Registered
<1>1. Init => TypeOK /\ Registered
    BY InitTypeOK DEF Init, Registered, NoPull
<1>2. TypeOK /\ Registered /\ [Next]_pullVars => (TypeOK /\ Registered)'
    BY NextTypeOK, NextRegistered
<1> QED BY <1>1, <1>2, PTL DEF Spec

(* Two objects under way for one image would both be the entry of that     *)
(* image.                                                                  *)
LEMMA RegisteredImpliesOne == Registered => OnePullPerImage
BY DEF Registered, OnePullPerImage, InFlight

(* Docker is asked to pull an image by one goroutine at a time.            *)
THEOREM OnePullAtATime == Spec => []OnePullPerImage
<1>1. Registered => OnePullPerImage
    BY RegisteredImpliesOne
<1> QED BY <1>1, EntriesAreRegistered, PTL DEF Spec
-----------------------------------------------------------------------------
(* A benign image stays once it is there, and its pull counts as           *)
(* successful only after the image landed.                                 *)
ReadyInv == TypeOK /\ Registered /\ LandedIsPresent /\ ReadyIsPresent

LEMMA NextReadyInv == ReadyInv /\ [Next]_pullVars => ReadyInv'
<1> SUFFICES ASSUME ReadyInv, [Next]_pullVars
             PROVE (LandedIsPresent /\ ReadyIsPresent)'
    BY NextTypeOK, NextRegistered DEF ReadyInv
<1> USE PullAssumption DEF ReadyInv, LandedIsPresent, ReadyIsPresent, Benign, InFlight, Closed, NoPull, NoCall
<1>1. ASSUME NEW c \in Callers, NEW i \in Images, Inspect(c, i)
      PROVE (LandedIsPresent /\ ReadyIsPresent)'
    BY <1>1 DEF TypeOK, Inspect, Answer
<1>2. ASSUME NEW c \in Callers, NEW i \in Images, InspectFails(c, i)
      PROVE (LandedIsPresent /\ ReadyIsPresent)'
    BY <1>2 DEF TypeOK, InspectFails, Answer
<1>3. ASSUME NEW c \in Callers, JoinPull(c)
      PROVE (LandedIsPresent /\ ReadyIsPresent)'
    BY <1>3 DEF TypeOK, JoinPull, Missed, Answer
<1>4. ASSUME NEW c \in Callers, TakeResult(c)
      PROVE (LandedIsPresent /\ ReadyIsPresent)'
    BY <1>4 DEF TypeOK, Registered, TakeResult, Missed, Answer
<1>5. ASSUME NEW c \in Callers, StartPull(c)
      PROVE (LandedIsPresent /\ ReadyIsPresent)'
    BY <1>5 DEF TypeOK, StartPull, Missed, Answer
<1>6. ASSUME NEW p \in Pulls, PullLands(p)
      PROVE (LandedIsPresent /\ ReadyIsPresent)'
    BY <1>6 DEF TypeOK, PullLands
<1>7. ASSUME NEW p \in Pulls, PullEnds(p)
      PROVE (LandedIsPresent /\ ReadyIsPresent)'
    BY <1>7 DEF TypeOK, PullEnds
<1>8. ASSUME NEW i \in Images, RemoveImage(i)
      PROVE (LandedIsPresent /\ ReadyIsPresent)'
    BY <1>8 DEF RemoveImage
<1>9. ASSUME NEW i \in Images, ImageArrives(i)
      PROVE (LandedIsPresent /\ ReadyIsPresent)'
    BY <1>9 DEF ImageArrives
<1>10. CASE Restart
    BY <1>10 DEF Restart
<1>11. CASE UNCHANGED pullVars
    BY <1>11 DEF pullVars
<1> QED BY <1>1, <1>2, <1>3, <1>4, <1>5, <1>6, <1>7, <1>8, <1>9, <1>10, <1>11
        DEF Next, Consult, PullStep

(* PrepareImage answers "ready" for a benign image only if it is there,    *)
(* even when it answers from the result of a pull.                         *)
THEOREM ReadyMeansPresent == Spec => []ReadyIsPresent
<1>1. Init => ReadyInv
    BY InitTypeOK DEF Init, ReadyInv, Registered, LandedIsPresent, ReadyIsPresent, NoPull, NoCall
<1>2. ReadyInv /\ [Next]_pullVars => ReadyInv'
    BY NextReadyInv
<1>3. ReadyInv => ReadyIsPresent
    BY DEF ReadyInv
<1> QED BY <1>1, <1>2, <1>3, PTL DEF Spec
-----------------------------------------------------------------------------
(* The entry of a failed pull is dropped by nobody but the call that       *)
(* answers its error, or by the end of the process.                        *)
LEMMA EntryLeavesWithAnswer ==
    ASSUME TypeOK, [Next]_pullVars, NEW i \in Images,
           imagePull[i] # None, state[imagePull[i]].phase = "failed",
           imagePull'[i] # imagePull[i]
    PROVE  Restart \/ \E c \in Callers : ReportsFailure(c, i)
<1>1. CASE \E c \in Callers : TakeResult(c)
  <2>1. PICK c \in Callers : TakeResult(c)
      BY <1>1
  <2>2. caller[c].image = i
      BY <2>1 DEF TakeResult, TypeOK
  <2>3. ReportsFailure(c, i)
      BY <2>1, <2>2 DEF ReportsFailure, TakeResult, Answer, TypeOK
  <2> QED BY <2>3
<1>2. CASE \E c \in Callers : StartPull(c)
    BY <1>2 DEF StartPull, TypeOK
<1>3. ASSUME ~ \E c \in Callers : TakeResult(c) \/ StartPull(c) PROVE Restart
    BY <1>3 DEF Next, Consult, PullStep, Inspect, InspectFails, JoinPull, PullLands,
                PullEnds, RemoveImage, ImageArrives, pullVars
<1> QED BY <1>1, <1>2, <1>3

(* A call past its inspect fails only by TakeResult, which drops the entry *)
(* whose error it answers.                                                 *)
LEMMA AnswerTakesEntry ==
    ASSUME TypeOK, [Next]_pullVars, NEW c \in Callers, NEW i \in Images, ReportsFailure(c, i)
    PROVE  /\ imagePull[i] # None
           /\ state[imagePull[i]].phase = "failed"
           /\ imagePull'[i] = None
<1>1. caller[c].phase = "missed" /\ caller'[c].phase = "failed" /\ caller'[c].image = i
    BY DEF ReportsFailure, Missed
<1>2. CASE TakeResult(c)
  <2>1. i = caller[c].image /\ state[imagePull[i]].phase = "failed"
      BY <1>1, <1>2 DEF TakeResult, Answer, TypeOK, Closed
  <2> QED BY <1>2, <2>1 DEF TakeResult, TypeOK
<1>3. ASSUME ~TakeResult(c) PROVE FALSE
  <2>1. CASE \E d \in Callers, j \in Images : Inspect(d, j) \/ InspectFails(d, j)
      BY <1>1, <2>1 DEF Inspect, InspectFails, Answer, TypeOK
  <2>2. CASE \E d \in Callers : Consult(d)
    <3>1. PICK d \in Callers : Consult(d)
        BY <2>2
    <3>2. CASE d = c
        BY <1>1, <1>3, <3>1, <3>2 DEF Consult, JoinPull, StartPull, Answer, TypeOK
    <3>3. CASE d # c
        BY <1>1, <3>1, <3>3 DEF Consult, JoinPull, TakeResult, StartPull, Answer, TypeOK
    <3> QED BY <3>2, <3>3
  <2>3. CASE Restart
      BY <1>1, <2>3 DEF Restart, NoCall
  <2>4. CASE UNCHANGED caller
      BY <1>1, <2>4
  <2> QED BY <2>1, <2>2, <2>3, <2>4 DEF Next, PullStep, PullLands, PullEnds, RemoveImage,
                                         ImageArrives, pullVars
<1> QED BY <1>2, <1>3

(* The error of a failed pull is told to exactly one call, unless the      *)
(* process ends first.                                                     *)
THEOREM FailuresAreReported == Spec => FailureIsReported
<1> DEFINE Told ==
      /\ \A i \in Images :
           LET p == imagePull[i] IN
           p # None /\ state[p].phase = "failed" /\ imagePull'[i] # p =>
              Restart \/ \E c \in Callers : ReportsFailure(c, i)
      /\ \A c \in Callers, i \in Images :
           ReportsFailure(c, i) =>
              /\ imagePull[i] # None
              /\ state[imagePull[i]].phase = "failed"
              /\ imagePull'[i] = None
<1>1. TypeOK /\ [Next]_pullVars => Told
    BY EntryLeavesWithAnswer, AnswerTakesEntry
<1>2. [Next]_pullVars /\ TypeOK => [Told]_pullVars
    BY <1>1
<1> QED BY <1>2, PullTypeCorrect, PTL DEF Spec, FailureIsReported
=============================================================================
