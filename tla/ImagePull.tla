----------------------------- MODULE ImagePull -----------------------------
(***************************************************************************)
(* DockerEngine.PrepareImage (internal/controller/docker.go): every        *)
(* operation that needs an image first asks Docker for it and, when it is  *)
(* missing, starts one background pull per image or reads the result of    *)
(* the one under way.  The call itself never waits: it answers "ready",    *)
(* "preparing" or an error.                                                *)
(*                                                                         *)
(* A call has two steps of its own.  Inspect is the request to Docker,     *)
(* made without the lock.  Consult is the section under pullMu; nothing    *)
(* blocks inside it, so it is one step.  Between the two, other calls, the *)
(* pull's goroutine and Docker may move.                                   *)
(***************************************************************************)
EXTENDS Naturals

CONSTANTS
    Callers,        \* goroutines calling PrepareImage
    Images,         \* image references
    Pulls,          \* imagePullState objects (bound: reused once dropped)
    None,           \* no object
    PullMissing,    \* Config.PullMissingImage
    SilentFailures, \* images whose failed pull Docker may report inside a 200 stream
    Removable       \* images that somebody else may remove from Docker

ASSUME PullAssumption ==
    /\ None \notin Pulls \cup Images
    /\ PullMissing \in BOOLEAN
    /\ SilentFailures \subseteq Images
    /\ Removable \subseteq Images

VARIABLES
    present,   \* images Docker holds
    imagePull, \* DockerEngine.imagePull: image -> pull object, or None
    state,     \* pull object -> its image and how far its goroutine is
    caller     \* caller -> its image, and where its call is or what it answered

pullVars == <<present, imagePull, state, caller>>

(* A free object belongs to no pull.  A running goroutine has asked Docker *)
(* to pull; "landed" means that Docker has stored the image and the        *)
(* goroutine has not closed `done` yet; "ok" and "failed" are the closed   *)
(* states, by state.err.                                                   *)
InFlight == {"running", "landed"}
Closed   == {"ok", "failed"}
PullPhases == {"free"} \cup InFlight \cup Closed

(* "missed": between the inspect that found no image and the lock.         *)
Verdicts == {"ready", "preparing", "failed"}
CallPhases == {"idle", "missed"} \cup Verdicts

NoPull == [image |-> None, phase |-> "free"]
NoCall == [image |-> None, phase |-> "idle"]

(* Types; moreover a call past its inspect has an image, a pull under way  *)
(* has one, and a free object has none.                                    *)
TypeOK ==
    /\ present \subseteq Images
    /\ imagePull \in [Images -> Pulls \cup {None}]
    /\ state \in [Pulls -> [image : Images \cup {None}, phase : PullPhases]]
    /\ caller \in [Callers -> [image : Images \cup {None}, phase : CallPhases]]
    /\ \A p \in Pulls : state[p].phase = "free" <=> state[p].image = None
    /\ \A c \in Callers : caller[c].phase = "idle" <=> caller[c].image = None

Init ==
    /\ present \in SUBSET Images
    /\ imagePull = [i \in Images |-> None]
    /\ state = [p \in Pulls |-> NoPull]
    /\ caller = [c \in Callers |-> NoCall]

Answer(c, i, phase) == caller' = [caller EXCEPT ![c] = [image |-> i, phase |-> phase]]

-----------------------------------------------------------------------------
(* One call of PrepareImage.                                               *)

(* GET /images/{image}/json: present, or 404; without PullMissingImage a   *)
(* missing image is an error at once.                                      *)
Inspect(c, i) ==
    /\ caller[c].phase # "missed"
    /\ Answer(c, i, CASE i \in present -> "ready"
                      [] i \notin present /\ PullMissing -> "missed"
                      [] OTHER -> "failed")
    /\ UNCHANGED <<present, imagePull, state>>

(* The request to Docker fails otherwise than by 404: the error is         *)
(* returned, the pull map is not looked at.                                *)
InspectFails(c, i) ==
    /\ caller[c].phase # "missed"
    /\ Answer(c, i, "failed")
    /\ UNCHANGED <<present, imagePull, state>>

Missed(c) == caller[c].phase = "missed"

(* An entry exists and its pull is still under way: answer "preparing".    *)
JoinPull(c) ==
    LET i == caller[c].image IN
    /\ Missed(c)
    /\ imagePull[i] # None
    /\ state[imagePull[i]].phase \in InFlight
    /\ Answer(c, i, "preparing")
    /\ UNCHANGED <<present, imagePull, state>>

(* Variants, faulty on purpose; no action uses them.  Mutations replace    *)
(* the definition below by one of them, to see which property notices.     *)
(* Here: state.err is not read; the object is dropped but for its image;   *)
(* the entry stays in the map.                                             *)
TakeResultUnread(c) ==
    LET i == caller[c].image
        p == imagePull[i]
    IN
    /\ Missed(c) /\ p # None /\ state[p].phase \in Closed
    /\ Answer(c, i, "ready")
    /\ imagePull' = [imagePull EXCEPT ![i] = None]
    /\ state' = [state EXCEPT ![p] = NoPull]
    /\ UNCHANGED present

TakeResultPartly(c) ==
    LET i == caller[c].image
        p == imagePull[i]
    IN
    /\ Missed(c) /\ p # None /\ state[p].phase \in Closed
    /\ Answer(c, i, IF state[p].phase = "ok" THEN "ready" ELSE "failed")
    /\ imagePull' = [imagePull EXCEPT ![i] = None]
    /\ state' = [state EXCEPT ![p].phase = "free"]
    /\ UNCHANGED present

TakeResultKept(c) ==
    LET i == caller[c].image
        p == imagePull[i]
    IN
    /\ Missed(c) /\ p # None /\ state[p].phase \in Closed
    /\ Answer(c, i, IF state[p].phase = "ok" THEN "ready" ELSE "failed")
    /\ UNCHANGED <<present, imagePull, state>>

(* An entry exists and its pull has ended: this caller takes the result    *)
(* and the entry leaves the map.  The image is not inspected again.        *)
TakeResult(c) ==
    LET i == caller[c].image
        p == imagePull[i]
    IN
    /\ Missed(c)
    /\ p # None
    /\ state[p].phase \in Closed
    /\ Answer(c, i, IF state[p].phase = "ok" THEN "ready" ELSE "failed")
    /\ imagePull' = [imagePull EXCEPT ![i] = None]
    /\ state' = [state EXCEPT ![p] = NoPull]
    /\ UNCHANGED present

(* Variants: the map is not looked at; a failed pull is started again in   *)
(* silence; the new object is not put into the map.                        *)
Launch(c, p) ==
    /\ state[p].phase = "free"
    /\ state' = [state EXCEPT ![p] = [image |-> caller[c].image, phase |-> "running"]]
    /\ Answer(c, caller[c].image, "preparing")
    /\ UNCHANGED present

Register(c, p) == imagePull' = [imagePull EXCEPT ![caller[c].image] = p]

StartPullUnchecked(c) == Missed(c) /\ \E p \in Pulls : Launch(c, p) /\ Register(c, p)

StartPullAgain(c) ==
    LET p == imagePull[caller[c].image] IN
    /\ Missed(c)
    /\ p # None => state[p].phase = "failed"
    /\ \E q \in Pulls : Launch(c, q) /\ Register(c, q)

StartPullUnregistered(c) ==
    /\ Missed(c)
    /\ imagePull[caller[c].image] = None
    /\ \E p \in Pulls : Launch(c, p) /\ UNCHANGED imagePull

(* No entry: register a new object and start its goroutine.                *)
StartPull(c) ==
    LET i == caller[c].image IN
    /\ Missed(c)
    /\ imagePull[i] = None
    /\ \E p \in Pulls :
          /\ state[p].phase = "free"
          /\ imagePull' = [imagePull EXCEPT ![i] = p]
          /\ state' = [state EXCEPT ![p] = [image |-> i, phase |-> "running"]]
    /\ Answer(c, i, "preparing")
    /\ UNCHANGED present

Consult(c) == JoinPull(c) \/ TakeResult(c) \/ StartPull(c)

-----------------------------------------------------------------------------
(* The pull goroutine and Docker.                                          *)

(* Docker stores the image while the goroutine reads the answer.           *)
PullLands(p) ==
    /\ state[p].phase = "running"
    /\ present' = present \cup {state[p].image}
    /\ state' = [state EXCEPT ![p].phase = "landed"]
    /\ UNCHANGED <<imagePull, caller>>

(* Variant: a pull without the ten minutes' limit.                         *)
PullEndsUntimed(p) ==
    /\ state[p].phase = "landed"
    /\ \E result \in Closed : state' = [state EXCEPT ![p].phase = result]
    /\ UNCHANGED <<present, imagePull, caller>>

(* pullImage returns and the goroutine closes `done` under the lock.  An   *)
(* error (refused, timed out after ten minutes, connection cut) may come   *)
(* before or after the image landed.  pullImage discards the body of a 200 *)
(* answer, so that a failure Docker reports in the stream counts as ok.    *)
PullEnds(p) ==
    /\ state[p].phase \in InFlight
    /\ \E result \in Closed :
          /\ result = "ok" /\ state[p].phase = "running"
                => state[p].image \in SilentFailures
          /\ state' = [state EXCEPT ![p].phase = result]
    /\ UNCHANGED <<present, imagePull, caller>>

(* `docker rmi`, or a prune, by somebody else.                             *)
RemoveImage(i) ==
    /\ i \in Removable \cap present
    /\ present' = present \ {i}
    /\ UNCHANGED <<imagePull, state, caller>>

(* An image comes without a pull of this process: Docker goes on with one  *)
(* whose goroutine has given up or died with its process, or somebody else *)
(* pulls it.                                                               *)
ImageArrives(i) ==
    /\ i \notin present
    /\ present' = present \cup {i}
    /\ UNCHANGED <<imagePull, state, caller>>

(* The pull map lives in memory only: a new process starts with none, and  *)
(* the goroutines and calls of the old one are gone.                       *)
Restart ==
    /\ imagePull' = [i \in Images |-> None]
    /\ state' = [p \in Pulls |-> NoPull]
    /\ caller' = [c \in Callers |-> NoCall]
    /\ UNCHANGED present

-----------------------------------------------------------------------------
PullStep == \E p \in Pulls : PullLands(p) \/ PullEnds(p)

Next ==
    \/ \E c \in Callers, i \in Images : Inspect(c, i) \/ InspectFails(c, i)
    \/ \E c \in Callers : Consult(c)
    \/ PullStep
    \/ \E i \in Images : RemoveImage(i) \/ ImageArrives(i)
    \/ Restart

Spec == Init /\ [][Next]_pullVars

(* The pull's context expires after ten minutes, so its goroutine ends     *)
(* whatever Docker does.                                                   *)
FairSpec == Spec /\ \A p \in Pulls : WF_pullVars(PullEnds(p))

-----------------------------------------------------------------------------
(* An entry of the map is an object of that image which is not free, and   *)
(* every object that is not free is the entry of its image: the goroutine  *)
(* that later closes it is one a caller can still find.                    *)
Registered ==
    /\ \A i \in Images : imagePull[i] # None =>
          state[imagePull[i]].image = i /\ state[imagePull[i]].phase # "free"
    /\ \A p \in Pulls : state[p].phase # "free" => imagePull[state[p].image] = p

(* However many calls miss the same image at once, Docker is asked to pull *)
(* it by one goroutine at a time (the map check of PrepareImage).          *)
OnePullPerImage ==
    \A p, q \in Pulls :
       /\ state[p].phase \in InFlight
       /\ state[q].phase \in InFlight
       /\ state[p].image = state[q].image
       => p = q

(* Docker reports every failure of its pull by the status, and nobody      *)
(* removes it.                                                             *)
Benign(i) == i \notin SilentFailures \cup Removable

(* "ready" may be answered from a pull's result without a second inspect;  *)
(* a benign image is there all the same.  Callers delete sandboxes on the  *)
(* strength of this answer.                                                *)
ReadyIsPresent ==
    \A c \in Callers :
       caller[c].phase = "ready" /\ Benign(caller[c].image) => caller[c].image \in present

(* A pull that landed or ended well has its image, if that is benign.      *)
LandedIsPresent ==
    \A p \in Pulls :
       state[p].phase \in {"landed", "ok"} /\ Benign(state[p].image) => state[p].image \in present

(* The call c, which had missed i, answers the error of its pull.          *)
ReportsFailure(c, i) == Missed(c) /\ caller'[c] = [image |-> i, phase |-> "failed"]

(* The error of a failed pull is told to exactly one call: its entry       *)
(* leaves the map only as the answer of a call (or with the process), so   *)
(* that no failure is dropped in silence; and a call that answers it takes *)
(* the entry with it, so that none is told twice.                          *)
FailureIsReported ==
    [][/\ \A i \in Images :
            LET p == imagePull[i] IN
            p # None /\ state[p].phase = "failed" /\ imagePull'[i] # p =>
               Restart \/ \E c \in Callers : ReportsFailure(c, i)
       /\ \A c \in Callers, i \in Images :
            ReportsFailure(c, i) =>
               /\ imagePull[i] # None
               /\ state[imagePull[i]].phase = "failed"
               /\ imagePull'[i] = None
      ]_pullVars

(* A caller told "preparing" is not told so for ever: the pull it waits    *)
(* for closes, so that a retry can learn its result.                       *)
PreparingEnds ==
    \A c \in Callers, i \in Images :
       caller[c] = [image |-> i, phase |-> "preparing"]
          ~> \A p \in Pulls : state[p].image = i => state[p].phase \notin InFlight
=============================================================================
