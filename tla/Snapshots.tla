----------------------------- MODULE Snapshots -----------------------------
(***************************************************************************)
(* The snapshots of one sandbox key (docker.go CreateSnapshot,             *)
(* RemoveSnapshot, findSnapshot, copyContainerArchive), by requests that   *)
(* run concurrently while commands change the workspace and the sandbox    *)
(* is replaced.                                                            *)
(*                                                                         *)
(* /workspace is a tmpfs that a commit does not see.  A capture therefore  *)
(* copies it into /.docker-control-snapshot of the same container, the     *)
(* staging directory, commits the container and removes the directory.     *)
(* A container created from the snapshot copies it back when it starts.    *)
(* All captures of a key use the one directory.                            *)
(***************************************************************************)
EXTENDS Naturals, FiniteSets

CONSTANTS
    Requests,     \* HTTP requests (bound: reused once answered)
    Boxes,        \* containers of the key (bound: reused when gone and unknown)
    MaxLive,      \* containers of the key at a time: two while a restore checks one
    Files,        \* files of the workspace (bound)
    Ids,          \* snapshot identifiers (bound: reused when free)
    MaxSnapshots, \* maxSnapshotsPerKey
    Faults,       \* what may go wrong with calls to Docker, see Call; and "crash"
    None

ASSUME SnapshotsAssumption ==
    /\ IsFiniteSet(Requests) /\ IsFiniteSet(Ids)
    /\ MaxLive \in Nat /\ MaxSnapshots \in Nat \ {0}
    /\ Faults \subseteq {"refuse", "lose", "crash"}
    /\ None \notin Boxes \cup Ids

VARIABLES
    box,    \* the containers, with workspace and staging directory
    images, \* the snapshots' images, by snapshot identifier
    req     \* the requests

vars == <<box, images, req>>

(* staged: the staging directory exists.  staging: the files in it.        *)
Box == [live : BOOLEAN, files : SUBSET Files, staged : BOOLEAN, staging : SUBSET Files]
Image == [listed : BOOLEAN, staged : BOOLEAN, files : SUBSET Files]

CaptureSteps == {"list", "find", "prepare", "copy", "commit", "confirm", "cleanup"}
DeleteSteps == {"lookup", "drop"}
Replies == {"none", "ok", "limit", "error", "removed", "absent", "lost"}

(* item: the container that requireReady found.  copied: the files that    *)
(* the archive has passed.  History, of the time from requireReady to the  *)
(* end of the copy: kept, the files that were there throughout; seen,      *)
(* those that were there at all; alone, no other capture was at work.      *)
Request == [pc : {"idle"} \cup CaptureSteps \cup DeleteSteps,
            item : Boxes \cup {None}, id : Ids \cup {None}, copied : SUBSET Files,
            reply : Replies, kept : SUBSET Files, seen : SUBSET Files, alone : BOOLEAN]

TypeOK ==
    /\ box \in [Boxes -> Box]
    /\ images \in [Ids -> Image]
    /\ req \in [Requests -> Request]
    /\ \A r \in Requests :
          /\ req[r].pc \in {"prepare", "copy", "commit"} => req[r].item # None
          /\ req[r].pc \in {"prepare", "copy", "commit", "confirm", "lookup", "drop"}
                => req[r].id # None

Gone == [live |-> FALSE, files |-> {}, staged |-> FALSE, staging |-> {}]
NoImage == [listed |-> FALSE, staged |-> FALSE, files |-> {}]
NewRequest == [pc |-> "idle", item |-> None, id |-> None, copied |-> {}, reply |-> "none",
               kept |-> {}, seen |-> {}, alone |-> TRUE]

Init ==
    /\ box = [b \in Boxes |-> Gone]
    /\ images = [i \in Ids |-> NoImage]
    /\ req = [r \in Requests |-> NewRequest]

Live == {b \in Boxes : box[b].live}
Listed == {i \in Ids : images[i].listed}
At(r, pc) == req[r].pc = pc

(* A capture is at work from requireReady to the end of its cleanup.       *)
AtWork(r) == req[r].pc \in {"prepare", "copy", "commit", "confirm", "cleanup"}
Copying(r) == req[r].pc \in {"prepare", "copy"}

-----------------------------------------------------------------------------
(* Calls to Docker.                                                        *)

Become(r, new) == req' = [req EXCEPT ![r] = new]
Goto(r, pc) == [req[r] EXCEPT !.pc = pc]
Reply(r, code) == [req[r] EXCEPT !.pc = "idle", !.reply = code]

(* After the staging directory was made, every way out passes the deferred *)
(* cleanup; the answer is sent when it is done.                            *)
Leave(r, code) == [req[r] EXCEPT !.pc = "cleanup", !.reply = code]

(* A call is answered; or fails before its effect, or after it: by Docker, *)
(* because the container is not ready, or because the client went away.    *)
Call(r, newBox, newImages, ok, error) ==
    \/ box' = newBox /\ images' = newImages /\ Become(r, ok)
    \/ "refuse" \in Faults /\ UNCHANGED <<box, images>> /\ Become(r, error)
    \/ "lose" \in Faults /\ box' = newBox /\ images' = newImages /\ Become(r, error)

Ask(r, ok, error) == Call(r, box, images, ok, error)
Reject(r, error) == Become(r, error) /\ UNCHANGED <<box, images>>

-----------------------------------------------------------------------------
(* CreateSnapshot.                                                         *)

Arrive(r) ==
    /\ At(r, "idle")
    /\ \/ Become(r, [NewRequest EXCEPT !.pc = "list"])
       \/ \E i \in Ids : Become(r, [NewRequest EXCEPT !.pc = "lookup", !.id = i])
    /\ UNCHANGED <<box, images>>

(* Variants, faulty on purpose and used by no action, like the one below:  *)
(* no requireReady; one snapshot too many.                                 *)
ListUnready(r) ==
    /\ At(r, "list")
    /\ Ask(r, IF Cardinality(Listed) >= MaxSnapshots THEN Reply(r, "limit")
              ELSE Goto(r, "prepare"), Reply(r, "error"))

ListOneMore(r) ==
    /\ At(r, "list")
    /\ Ask(r, IF Cardinality(Listed) > MaxSnapshots THEN Reply(r, "limit") ELSE Goto(r, "find"),
           Reply(r, "error"))

List(r) ==
    /\ At(r, "list")
    /\ Ask(r, IF Cardinality(Listed) >= MaxSnapshots THEN Reply(r, "limit") ELSE Goto(r, "find"),
           Reply(r, "error"))

(* requireReady, and a random identifier.  Docker lists the containers of  *)
(* the key in any order.                                                   *)
Find(r) ==
    /\ At(r, "find")
    /\ UNCHANGED <<box, images>>
    /\ \/ \E b \in Live, i \in Ids \ Listed :
             /\ \A other \in Requests : req[other].id # i
             /\ req' = [q \in Requests |->
                   IF q = r
                   THEN [Goto(r, "prepare") EXCEPT
                            !.item = b, !.id = i, !.kept = box[b].files, !.seen = box[b].files,
                            !.alone = \A other \in Requests \ {r} : ~AtWork(other)]
                   ELSE [req[q] EXCEPT !.alone =
                            @ /\ req[q].pc \notin {"prepare", "copy", "commit"}]]
       \/ (Live = {} \/ "refuse" \in Faults) /\ Become(r, Reply(r, "error"))

(* Variant: mkdir without rm -rf.                                          *)
PrepareKeeping(r) ==
    /\ At(r, "prepare")
    /\ \/ \E b \in Live :
             Call(r, [box EXCEPT ![b].staged = TRUE], images, Goto(r, "copy"), Reply(r, "error"))
       \/ Live = {} /\ Reject(r, Reply(r, "error"))

(* rm -rf and mkdir -p by an Exec, which looks the key up again.           *)
Prepare(r) ==
    /\ At(r, "prepare")
    /\ \/ \E b \in Live :
             Call(r, [box EXCEPT ![b].staged = TRUE, ![b].staging = {}], images,
                  Goto(r, "copy"), Reply(r, "error"))
       \/ Live = {} /\ Reject(r, Reply(r, "error"))

(* copyContainerArchive passes the files of the workspace one by one.  It  *)
(* needs the directory to begin; when another one removes it later, Docker *)
(* makes it again for the next file, or fails.                             *)
CopyFile(r, f) ==
    LET b == req[r].item IN
    /\ At(r, "copy")
    /\ f \notin req[r].copied
    /\ b \in Live /\ (box[b].staged \/ req[r].copied # {})
    /\ box' = IF f \in box[b].files
              THEN [box EXCEPT ![b].staged = TRUE, ![b].staging = @ \cup {f}]
              ELSE box
    /\ Become(r, [req[r] EXCEPT !.copied = @ \cup {f}])
    /\ UNCHANGED images

Copied(r) ==
    /\ At(r, "copy")
    /\ req[r].copied = Files
    /\ Reject(r, Goto(r, "commit"))

CopyFails(r) ==
    /\ At(r, "copy")
    /\ req[r].item \notin Live \/ ~box[req[r].item].staged \/ "refuse" \in Faults
    /\ Reject(r, Leave(r, "error"))

(* POST /commit pauses the container, so that it sees one moment of it.    *)
Commit(r) ==
    LET b == req[r].item
        taken == [listed |-> TRUE, staged |-> box[b].staged, files |-> box[b].staging]
    IN
    /\ At(r, "commit")
    /\ IF b \in Live
       THEN Call(r, box, [images EXCEPT ![req[r].id] = taken],
                 Goto(r, "confirm"), Leave(r, "error"))
       ELSE Reject(r, Leave(r, "error"))

(* findSnapshot: the new image is in the list, unless it is deleted again. *)
Confirm(r) ==
    /\ At(r, "confirm")
    /\ Ask(r, Leave(r, IF req[r].id \in Listed THEN "ok" ELSE "error"), Leave(r, "error"))

(* rm -rf, by an Exec with a context of its own; the outcome is ignored.   *)
Cleanup(r) ==
    LET done == Reply(r, req[r].reply) IN
    /\ At(r, "cleanup")
    /\ \/ \E b \in Live :
             Call(r, [box EXCEPT ![b].staged = FALSE, ![b].staging = {}], images, done, done)
       \/ Live = {} /\ Reject(r, done)

-----------------------------------------------------------------------------
(* RemoveSnapshot.                                                         *)

Lookup(r) ==
    /\ At(r, "lookup")
    /\ Ask(r, IF req[r].id \in Listed THEN Goto(r, "drop") ELSE Reply(r, "absent"),
           Reply(r, "error"))

Drop(r) ==
    /\ At(r, "drop")
    /\ IF req[r].id \in Listed
       THEN Call(r, box, [images EXCEPT ![req[r].id] = NoImage],
                 Reply(r, "removed"), Reply(r, "error"))
       ELSE Reject(r, Reply(r, "error"))

-----------------------------------------------------------------------------
(* What others do.                                                         *)

(* Commands in the sandbox create and delete files, and so do requests of  *)
(* PUT /files.                                                             *)
Work(b, f) ==
    /\ b \in Live
    /\ LET there == f \in box[b].files
           now == IF there THEN box[b].files \ {f} ELSE box[b].files \cup {f}
       IN /\ box' = [box EXCEPT ![b].files = now]
          /\ req' = [r \in Requests |->
                IF Copying(r) /\ req[r].item = b
                THEN [req[r] EXCEPT !.kept = @ \cap now, !.seen = @ \cup now]
                ELSE req[r]]
    /\ UNCHANGED images

(* The operations of Sandboxes: a container of the key goes, or comes, new *)
(* or from a snapshot; in the latter case its first command copies the     *)
(* staging directory of the image, which stays, into the workspace.        *)
BoxGoes(b) ==
    /\ b \in Live
    /\ box' = [box EXCEPT ![b] = Gone]
    /\ UNCHANGED <<images, req>>

BoxComes(b) ==
    /\ b \notin Live /\ Cardinality(Live) < MaxLive
    /\ \A r \in Requests : AtWork(r) => req[r].item # b
    /\ \/ box' = [box EXCEPT ![b] = [Gone EXCEPT !.live = TRUE]]
       \/ \E i \in Listed :
             box' = [box EXCEPT ![b] =
                       [live |-> TRUE, files |-> images[i].files,
                        staged |-> images[i].staged, staging |-> images[i].files]]
    /\ UNCHANGED <<images, req>>

(* The process ends: captures stop where they are, the directory stays.    *)
Crash ==
    /\ "crash" \in Faults
    /\ req' = [r \in Requests |-> IF At(r, "idle") THEN req[r] ELSE Reply(r, "lost")]
    /\ UNCHANGED <<box, images>>

Step(r) ==
    \/ Arrive(r) \/ List(r) \/ Find(r) \/ Prepare(r) \/ Copied(r) \/ CopyFails(r)
    \/ \E f \in Files : CopyFile(r, f)
    \/ Commit(r) \/ Confirm(r) \/ Cleanup(r) \/ Lookup(r) \/ Drop(r)

Next ==
    \/ \E r \in Requests : Step(r)
    \/ \E b \in Boxes : BoxGoes(b) \/ BoxComes(b) \/ \E f \in Files : Work(b, f)
    \/ Crash

Spec == Init /\ [][Next]_vars

-----------------------------------------------------------------------------
(* A snapshot that was answered holds the workspace: no file is missing    *)
(* that was there all the time, and there is none that was not there at    *)
(* all, like those of an earlier capture or of the image.                  *)
HoldsWorkspace(r) ==
    At(r, "idle") /\ req[r].reply = "ok" /\ req[r].id \in Listed
       => req[r].kept \subseteq images[req[r].id].files /\ images[req[r].id].files \subseteq req[r].seen

(* README.md:104: snapshots capture /workspace.  So they do, when the      *)
(* capture was alone, whatever earlier ones left behind.                   *)
LoneCaptureIsWhole == \A r \in Requests : req[r].alone => HoldsWorkspace(r)

(* The same of every capture.                                              *)
CaptureIsWhole == \A r \in Requests : HoldsWorkspace(r)

(* The limit is compared long before the commit.  Captures that run at the *)
(* same time exceed it, but by no more than their number less one, and     *)
(* repeating them does not add up.                                         *)
ExcessBounded == Cardinality(Listed) <= MaxSnapshots + Cardinality(Requests) - 1
=============================================================================
