------------------------ MODULE SandboxRequirements ------------------------
(***************************************************************************)
(* What the clients of the controller rely on, stated over the steps of    *)
(* Sandboxes.                                                              *)
(***************************************************************************)
EXTENDS Sandboxes

StepOf(r) == req'[r] # req[r]

Ended == \A r \in Requests : At(r, "done")

(* A key never has two containers: nothing but the name that Docker keeps  *)
(* unique stands between two concurrent creations.  Not so while a restore *)
(* checks its container.                                                   *)
OneSandboxPerKey == \A c, d \in Live : containers[c].key = containers[d].key => c = d

(* README.md:98-100: the old sandbox is replaced only once the new image   *)
(* is known to be usable.  A request that is told to ask again, because    *)
(* its image is not there yet, has not deleted the sandbox it found: not   *)
(* before the answer that it was preserved, and not before the later one,  *)
(* on the way to the creation.                                             *)
PreparingKeepsSandbox ==
    \A r \in Requests : req[r].reply \in Retries => ~req[r].deleted

(* A request refused by the container limit has not deleted a sandbox.     *)
LimitKeepsSandbox ==
    \A r \in Requests : req[r].reply = "limit" => ~req[r].deleted

(* A token handed to a client opens the sandbox named in the same answer.  *)
TokenFits ==
    \A r \in Requests :
       req[r].reply = "ok" /\ req[r].token # None => req[r].container = req[r].token

(* Except for rebuilds, so it is; and the sandbox of an answer has the key *)
(* and, unless it was restored, the image that were asked for, whatever    *)
(* other requests did to the key in between.                               *)
AnswerFits ==
    \A r \in Requests :
       LET c == req[r].container IN
       req[r].reply = "ok" /\ c # None =>
          /\ containers[c].key = Key(r)
          /\ containers[c].image = req[r].order.image
          /\ Op(r) # "rebuild" /\ req[r].token # None => c = req[r].token

(* A request deletes a container only if it belongs to the request's key,  *)
(* and a plain PUT only if its image is another one than asked for, or if  *)
(* it is its own failed creation.                                          *)
DeletesOnlyWhatItMay ==
    [][\A r \in Requests, c \in Ids :
          StepOf(r) /\ c \in Live /\ c \notin Live' =>
             /\ containers[c].key = Key(r)
             /\ Op(r) # "health"
             /\ Op(r) = "ensure" /\ containers[c].image = req[r].order.image => c = r
      ]_vars

(* A restore never takes the last container of its key away, and the one   *)
(* it replaces only when another one of the key is ready (as long as none  *)
(* loses its readiness by itself, and only restores work on the key).      *)
RestoreKeepsSandbox ==
    [][\A r \in Requests :
          LET k == Key(r) IN
          /\ StepOf(r) /\ Op(r) = "restore" /\ Of(k) # {}
          /\ \A other \in Requests : Op(other) \in {"none", "restore", "health"}
          =>
          /\ Of(k)' # {}
          /\ "fail" \notin Faults /\ (\E c \in Of(k) \ {r} : c \notin Live')
                => \E c \in Of(k)' : IsReady(c)'
      ]_vars

(* When all requests have ended, every key has at most one container, with *)
(* the key's own name: no temporary container of a restore is left, unless *)
(* that restore had deleted the old one already and still failed, because  *)
(* somebody else took the key's name in between.                           *)
NoLeftover ==
    /\ Ended
    /\ \A r \in Requests : Op(r) = "restore" /\ req[r].deleted => req[r].reply = "ok"
    => OneSandboxPerKey /\ \A c \in Live : containers[c].name = Canonical(containers[c].key)

(* After PUTs of a sandbox have ended, none of them for want of an image   *)
(* or by the limit, the sandbox runs.                                      *)
EnsureYieldsSandbox ==
    Ended /\ (\A r \in Requests : req[r].reply \notin Retries \cup {"failed", "limit"})
       => \A r \in Requests : \E c \in Of(Key(r)) : Running(c)

(* Every request that arrives is answered, whatever fails.                 *)
EveryRequestAnswered ==
    \A r \in Requests : ~At(r, "new") ~> At(r, "done")
=============================================================================
