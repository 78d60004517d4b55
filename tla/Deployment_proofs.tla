-------------------------- MODULE Deployment_proofs -------------------------
(***************************************************************************)
(* The commands of one deployment root, for any number of foreground       *)
(* servers, ports, sandboxes and faults.                                   *)
(***************************************************************************)
EXTENDS Deployment, TLAPS

(* The contents of files are told apart.                                   *)
LEMMA Contents ==
    /\ Absent # Empty /\ Absent # Whole /\ Empty # Whole
    /\ Absent \notin Info /\ Empty \notin Info /\ Whole \notin Info
    /\ \A info \in Info : info # Absent /\ info # Empty /\ info # Whole
<1>1. Absent # Empty /\ Absent # Whole /\ Empty # Whole
    BY DEF Absent, Empty, Whole
<1>2. \A info \in Info : DOMAIN info = {"by", "port"}
    BY DEF Info
<1>3. DOMAIN Absent = {"is"} /\ DOMAIN Empty = {"is"} /\ DOMAIN Whole = {"is"}
    BY DEF Absent, Empty, Whole
<1>4. "is" \notin {"by", "port"}
    OBVIOUS
<1> QED BY <1>1, <1>2, <1>3, <1>4

(* How a step leaves its process.                                          *)
Moved(p, pc) ==
    /\ proc'[p].pc = pc /\ proc'[p].mode = proc[p].mode /\ proc'[p].opts = proc[p].opts
    /\ proc'[p].port = proc[p].port /\ proc'[p].todo = proc[p].todo
    /\ proc'[p].alone = proc[p].alone /\ proc'[p].quiet = proc[p].quiet
    /\ proc'[p].reply = proc[p].reply

Ended(p, reply) ==
    /\ proc'[p].pc = "idle" /\ proc'[p].mode = "none" /\ proc'[p].opts = {}
    /\ proc'[p].port = 0 /\ proc'[p].todo = {} /\ ~proc'[p].alone
    /\ proc'[p].quiet = (proc[p].quiet /\ proc[p].opts = {}) /\ proc'[p].reply = reply

OthersStay(p) == \A q \in Processes \ {p} : proc'[q] = proc[q]

(* All that TypeOK says of one process.                                    *)
Sound(new) == new \in Process /\ (new.pc \in Naming \cup {"serving"} => new.port # 0)

LEMMA SoundProcesses == TypeOK => \A p \in Processes : proc[p] \in Process /\ Sound(proc[p])
BY DEF TypeOK, Sound

(* The modes and options of Deployment.                                    *)
LEMMA ModesAre == Modes = {"server", "install", "config", "uninstall"}
BY DEF Modes, Options

LEMMA OpensAre ==
    DOMAIN Opens = {"openConfig", "openMarker", "openEnv", "openBin", "openUnit", "openRuntime"}
BY DEF Opens

LEMMA StepsAre ==
    Steps = {"stat", "statMarker", "listen", "serving", "removeBin", "renameBin", "link", "enable",
             "disable", "unlink", "list", "remove", "snapshots", "check", "removeFiles",
             "openRuntime", "fillRuntime", "renameRuntime", "removeRuntime", "renameAgain",
             "openConfig", "openMarker", "openEnv", "openBin", "openUnit",
             "fillConfig", "fillMarker", "fillEnv", "fillBin", "fillUnit"}
BY DEF Steps, Naming, Opens, Fills

LEMMA Going ==
    ASSUME TypeOK, NEW p \in Processes, NEW pc \in Steps, Goto(p, pc),
           pc \in Naming \cup {"serving"} => proc[p].port # 0
    PROVE  /\ Moved(p, pc) /\ OthersStay(p)
           /\ proc' \in [Processes -> Process]
           /\ \A q \in Processes : Sound(proc'[q])
<1>1. Sound([proc[p] EXCEPT !.pc = pc])
    BY DEF TypeOK, Process, Sound
<1>2. proc' = [proc EXCEPT ![p] = [proc[p] EXCEPT !.pc = pc]]
    BY DEF Goto
<1>3. proc' \in [Processes -> Process] /\ \A q \in Processes : Sound(proc'[q])
    BY <1>1, <1>2, SoundProcesses DEF TypeOK, Sound
<1>4. Moved(p, pc) /\ OthersStay(p)
    BY <1>2 DEF Moved, OthersStay, TypeOK, Process
<1> QED BY <1>3, <1>4

LEMMA NoProcessTyped == NoProcess \in Process
<1>1. 0 \in 0..MaxPort
    BY DeploymentAssumption
<1> QED BY <1>1 DEF NoProcess, Process

LEMMA Ending ==
    ASSUME TypeOK, NEW p \in Processes, NEW reply \in {"ok", "error"}, End(p, reply)
    PROVE  /\ Ended(p, reply) /\ OthersStay(p)
           /\ proc' \in [Processes -> Process]
           /\ \A q \in Processes : Sound(proc'[q])
<1> DEFINE quiet == proc[p].quiet /\ proc[p].opts = {}
           new == [NoProcess EXCEPT !.reply = reply, !.quiet = quiet]
<1>1. proc' = [proc EXCEPT ![p] = new]
    BY DEF End
<1>2. quiet \in BOOLEAN
    BY DEF TypeOK, Process
<1>3. quiet = (proc[p].quiet /\ proc[p].opts = {})
    OBVIOUS
<1> HIDE DEF quiet
<1>4. /\ new.pc = "idle" /\ new.mode = "none" /\ new.opts = {} /\ new.port = 0 /\ new.todo = {}
      /\ new.alone = FALSE /\ new.quiet = quiet /\ new.reply = reply
    BY DEF NoProcess
<1>5. Sound(new)
  <2>1. new \in Process
      BY <1>2, NoProcessTyped DEF Process
  <2> QED BY <1>4, <2>1 DEF Sound, Naming
<1> HIDE DEF new
<1>6. proc' \in [Processes -> Process] /\ \A q \in Processes : Sound(proc'[q])
    BY <1>1, <1>5, SoundProcesses DEF TypeOK, Sound
<1>7. Ended(p, reply) /\ OthersStay(p)
    BY <1>1, <1>3, <1>4 DEF Ended, OthersStay, TypeOK
<1> QED BY <1>6, <1>7

LEMMA Continuing ==
    ASSUME TypeOK, NEW p \in Processes, NEW pc \in Steps \cup {"done"}, Continue(p, pc),
           pc \notin Naming \cup {"serving"}
    PROVE  /\ \/ pc = "done" /\ Ended(p, "ok")
              \/ pc # "done" /\ Moved(p, pc)
           /\ OthersStay(p)
           /\ proc' \in [Processes -> Process]
           /\ \A q \in Processes : Sound(proc'[q])
BY Going, Ending DEF Continue

LEMMA MarkerNext ==
    \A p \in Processes : AfterMarker(p) \in {"listen", "done", "openEnv", "openBin"}
BY DEF AfterMarker

LEMMA Setting ==
    ASSUME TypeOK, NEW name \in Names, NEW content, Set(name, content),
           \/ content \in {Absent, Empty, Whole}
           \/ content \in Info /\ name \in {"runtime", "runtimeTmp"}
    PROVE  /\ file' \in [Names -> {Absent, Empty, Whole} \cup Info]
           /\ \A other \in Names : file'[other] \in Info => other \in {"runtime", "runtimeTmp"}
           /\ file'[name] = content /\ \A other \in Names \ {name} : file'[other] = file[other]
BY Contents DEF TypeOK, Set

(* A process begins: what was quiet is not any more.                       *)
Beginning(p, mode, opts) ==
    /\ proc'[p].mode = mode /\ proc'[p].opts = opts
    /\ proc'[p].pc = IF mode = "uninstall" THEN "disable" ELSE "stat"
    /\ ~proc'[p].alone /\ ~proc'[p].quiet
    /\ \A q \in Processes \ {p} :
          /\ proc'[q].pc = proc[q].pc /\ proc'[q].mode = proc[q].mode
          /\ proc'[q].opts = proc[q].opts /\ proc'[q].port = proc[q].port
          /\ proc'[q].alone = proc[q].alone /\ ~proc'[q].quiet

LEMMA BeganBegins ==
    ASSUME TypeOK, NEW p \in Processes, NEW mode \in Modes, NEW opts \in SUBSET Options[mode],
           proc' = Began(p, mode, opts)
    PROVE  /\ Beginning(p, mode, opts)
           /\ proc' \in [Processes -> Process]
           /\ \A q \in Processes : Sound(proc'[q])
<1> DEFINE pc == IF mode = "uninstall" THEN "disable" ELSE "stat"
           new == [NoProcess EXCEPT !.mode = mode, !.opts = opts, !.port = Base, !.pc = pc]
<1>1. pc \in Steps /\ pc \notin Naming \cup {"serving"}
    BY StepsAre DEF Naming
<1>2. opts \in SUBSET UNION {Options[m] : m \in Modes} /\ Base \in 0..MaxPort
    BY DeploymentAssumption
<1>3. /\ proc'[p] = new
      /\ \A q \in Processes \ {p} : proc'[q] = [proc[q] EXCEPT !.quiet = FALSE]
      /\ DOMAIN proc' = Processes /\ proc' = [q \in Processes |-> proc'[q]]
    BY DEF Began
<1>4. pc = IF mode = "uninstall" THEN "disable" ELSE "stat"
    OBVIOUS
<1> HIDE DEF pc
<1>5. new.pc = pc /\ new.mode = mode /\ new.opts = opts /\ new.alone = FALSE /\ new.quiet = FALSE
    BY DEF NoProcess
<1>6. new \in Process
  <2>1. [NoProcess EXCEPT !.mode = mode, !.opts = opts] \in Process
      BY <1>2, NoProcessTyped DEF Process
  <2>2. new = [[NoProcess EXCEPT !.mode = mode, !.opts = opts] EXCEPT !.port = Base, !.pc = pc]
      OBVIOUS
  <2> QED BY <1>1, <1>2, <2>1, <2>2 DEF Process
<1> HIDE DEF new
<1>7. \A q \in Processes \ {p} :
         /\ Sound([proc[q] EXCEPT !.quiet = FALSE])
         /\ proc'[q].pc = proc[q].pc /\ proc'[q].mode = proc[q].mode
         /\ proc'[q].opts = proc[q].opts /\ proc'[q].port = proc[q].port
         /\ proc'[q].alone = proc[q].alone /\ ~proc'[q].quiet
  <2> SUFFICES ASSUME NEW q \in Processes \ {p}
               PROVE  /\ Sound([proc[q] EXCEPT !.quiet = FALSE])
                      /\ proc'[q].pc = proc[q].pc /\ proc'[q].mode = proc[q].mode
                      /\ proc'[q].opts = proc[q].opts /\ proc'[q].port = proc[q].port
                      /\ proc'[q].alone = proc[q].alone /\ ~proc'[q].quiet
      OBVIOUS
  <2>1. Sound(proc[q]) /\ proc'[q] = [proc[q] EXCEPT !.quiet = FALSE]
      BY <1>3, SoundProcesses
  <2> QED BY <2>1 DEF Sound, Process
<1>8. Sound(new)
    BY <1>1, <1>5, <1>6 DEF Sound
<1>9. \A q \in Processes : Sound(proc'[q])
    BY <1>3, <1>7, <1>8
<1>10. proc' \in [Processes -> Process]
    BY <1>3, <1>9 DEF Sound
<1> QED BY <1>3, <1>4, <1>5, <1>7, <1>9, <1>10 DEF Beginning

(* A server has found its port: no other one is alone from now on.         *)
Listened(p, n) ==
    /\ proc'[p].pc = "openRuntime" /\ proc'[p].mode = proc[p].mode
    /\ proc'[p].opts = proc[p].opts /\ proc'[p].port = n /\ proc'[p].quiet = proc[p].quiet
    /\ proc'[p].alone => \A q \in Processes : proc[q].pc \notin Naming
    /\ \A q \in Processes \ {p} :
          /\ proc'[q].pc = proc[q].pc /\ proc'[q].mode = proc[q].mode
          /\ proc'[q].opts = proc[q].opts /\ proc'[q].port = proc[q].port
          /\ proc'[q].todo = proc[q].todo /\ proc'[q].reply = proc[q].reply
          /\ ~proc'[q].alone /\ proc'[q].quiet = proc[q].quiet

LEMMA ListenListens ==
    ASSUME TypeOK, NEW p \in Processes, Listen(p)
    PROVE  /\ \E n \in 1..MaxPort : Listened(p, n)
           /\ proc' \in [Processes -> Process]
           /\ \A q \in Processes : Sound(proc'[q])
<1> DEFINE alone == \A other \in Processes : proc[other].pc \notin Naming
           new(n) == [proc[p] EXCEPT !.pc = "openRuntime", !.port = n, !.alone = alone]
<1>1. PICK n \in 1..MaxPort :
         proc' = [q \in Processes |-> IF q = p THEN new(n) ELSE [proc[q] EXCEPT !.alone = FALSE]]
    BY DEF Listen
<1>2. n \in 0..MaxPort /\ n # 0 /\ "openRuntime" \in Steps
    BY DeploymentAssumption, StepsAre
<1>3. /\ proc'[p] = new(n)
      /\ \A q \in Processes \ {p} : proc'[q] = [proc[q] EXCEPT !.alone = FALSE]
    BY <1>1
<1>4. alone \in BOOLEAN /\ (alone => \A q \in Processes : proc[q].pc \notin Naming)
    OBVIOUS
<1> HIDE DEF alone
<1>5. /\ Sound(new(n))
      /\ new(n).pc = "openRuntime" /\ new(n).mode = proc[p].mode /\ new(n).port = n
      /\ new(n).opts = proc[p].opts /\ new(n).quiet = proc[p].quiet /\ new(n).alone = alone
    BY <1>2, <1>4, SoundProcesses DEF Sound, Process
<1> HIDE DEF new
<1>6. \A q \in Processes \ {p} :
         /\ Sound([proc[q] EXCEPT !.alone = FALSE])
         /\ proc'[q].pc = proc[q].pc /\ proc'[q].mode = proc[q].mode
         /\ proc'[q].opts = proc[q].opts /\ proc'[q].port = proc[q].port
         /\ proc'[q].todo = proc[q].todo /\ proc'[q].reply = proc[q].reply
         /\ ~proc'[q].alone /\ proc'[q].quiet = proc[q].quiet
  <2> SUFFICES ASSUME NEW q \in Processes \ {p}
               PROVE  /\ Sound(proc'[q])
                      /\ proc'[q].pc = proc[q].pc /\ proc'[q].mode = proc[q].mode
                      /\ proc'[q].opts = proc[q].opts /\ proc'[q].port = proc[q].port
                      /\ proc'[q].todo = proc[q].todo /\ proc'[q].reply = proc[q].reply
                      /\ ~proc'[q].alone /\ proc'[q].quiet = proc[q].quiet
      BY <1>3
  <2>1. proc[q] \in Process /\ Sound(proc[q]) /\ proc'[q] = [proc[q] EXCEPT !.alone = FALSE]
      BY <1>3, SoundProcesses
  <2>2. /\ proc'[q] \in Process
        /\ proc'[q].pc = proc[q].pc /\ proc'[q].mode = proc[q].mode
        /\ proc'[q].opts = proc[q].opts /\ proc'[q].port = proc[q].port
        /\ proc'[q].todo = proc[q].todo /\ proc'[q].reply = proc[q].reply
        /\ ~proc'[q].alone /\ proc'[q].quiet = proc[q].quiet
      BY <2>1 DEF Process
  <2> QED BY <2>1, <2>2 DEF Sound
<1>7. Listened(p, n)
    BY <1>3, <1>4, <1>5, <1>6 DEF Listened
<1>8. \A q \in Processes : Sound(proc'[q])
    BY <1>3, <1>5, <1>6
<1>9. proc' \in [Processes -> Process]
    BY <1>1, <1>8 DEF Sound
<1> QED BY <1>7, <1>8, <1>9

(* The service is stopped, or that was not possible; who asked for it is   *)
(* quiet if no server is left.                                             *)
Disabled(p) ==
    /\ proc'[p].pc = "unlink" /\ proc'[p].mode = proc[p].mode /\ proc'[p].opts = proc[p].opts
    /\ proc'[p].alone = proc[p].alone /\ proc'[p].port = proc[p].port
    /\ proc'[p].quiet => /\ ~wanted'
                         /\ \A q \in Processes \ {p} : proc'[q].mode # "server"
    /\ \A q \in Processes \ {p} : proc'[q] = proc[q] \/ (q = Service /\ proc'[q] = NoProcess)

LEMMA DisableDisables ==
    ASSUME TypeOK, NEW p \in Processes, p # Service, Disable(p)
    PROVE  /\ Disabled(p)
           /\ proc' \in [Processes -> Process]
           /\ \A q \in Processes : Sound(proc'[q])
<1> DEFINE stopped == [proc EXCEPT ![Service] = NoProcess]
           none == \A q \in Processes : stopped[q].mode # "server"
           lives == ServerLives
<1>0. Service \in Processes /\ "unlink" \in Steps /\ Sound(NoProcess) /\ NoProcess.mode # "server"
    BY StepsAre, NoProcessTyped DEF Processes, Sound, NoProcess, Naming
<1>1. CASE /\ linked' = FALSE /\ wanted' = FALSE
           /\ proc' = [stopped EXCEPT ![p].pc = "unlink", ![p].quiet = none]
  <2>1. stopped[p] = proc[p] /\ stopped \in [Processes -> Process]
        /\ \A q \in Processes \ {p} :
              stopped[q] = proc[q] \/ (q = Service /\ stopped[q] = NoProcess)
    <3>1. proc \in [Processes -> Process] /\ NoProcess \in Process
        BY NoProcessTyped DEF TypeOK
    <3> QED BY <1>0, <3>1
  <2>2. none \in BOOLEAN /\ (none => \A q \in Processes : stopped[q].mode # "server")
      OBVIOUS
  <2> HIDE DEF stopped, none
  <2>3. /\ proc'[p] = [proc[p] EXCEPT !.pc = "unlink", !.quiet = none]
        /\ \A q \in Processes \ {p} : proc'[q] = stopped[q]
        /\ DOMAIN proc' = Processes /\ proc' = [q \in Processes |-> proc'[q]]
      BY <1>1, <2>1
  <2>4. Sound(proc'[p])
    <3>1. proc[p] \in Process
        BY SoundProcesses
    <3>2. [proc[p] EXCEPT !.pc = "unlink"] \in Process
        BY <1>0, <3>1 DEF Process
    <3>3. proc'[p] \in Process /\ proc'[p].pc = "unlink"
        BY <2>2, <2>3, <3>2 DEF Process
    <3> QED BY <3>3 DEF Sound, Naming
  <2>5. /\ proc'[p].pc = "unlink" /\ proc'[p].mode = proc[p].mode
        /\ proc'[p].opts = proc[p].opts /\ proc'[p].alone = proc[p].alone
        /\ proc'[p].port = proc[p].port /\ proc'[p].quiet = none
      BY <2>2, <2>3, SoundProcesses DEF Process
  <2>6. \A q \in Processes : Sound(proc'[q])
      BY <1>0, <2>1, <2>3, <2>4, SoundProcesses
  <2>7. proc' \in [Processes -> Process]
      BY <2>3, <2>6 DEF Sound
  <2> QED BY <1>1, <2>1, <2>2, <2>3, <2>5, <2>6, <2>7 DEF Disabled
<1>2. CASE /\ proc' = [proc EXCEPT ![p].pc = "unlink", ![p].quiet = ~lives]
           /\ UNCHANGED systemd
  <2>1. /\ lives \in BOOLEAN
        /\ ~lives => ~wanted /\ \A q \in Processes : proc[q].mode # "server"
      BY DEF ServerLives, TypeOK
  <2> HIDE DEF lives
  <2>2. /\ proc'[p] = [proc[p] EXCEPT !.pc = "unlink", !.quiet = ~lives]
        /\ \A q \in Processes \ {p} : proc'[q] = proc[q]
        /\ DOMAIN proc' = Processes /\ proc' = [q \in Processes |-> proc'[q]]
      BY <1>2 DEF TypeOK
  <2>3. Sound(proc'[p])
      BY <1>0, <2>1, <2>2, SoundProcesses, ZenonT(40) DEF Sound, Process, Naming
  <2>4. /\ proc'[p].pc = "unlink" /\ proc'[p].mode = proc[p].mode
        /\ proc'[p].opts = proc[p].opts /\ proc'[p].alone = proc[p].alone
        /\ proc'[p].port = proc[p].port /\ proc'[p].quiet = ~lives
      BY <2>1, <2>2, SoundProcesses DEF Process
  <2>5. \A q \in Processes : Sound(proc'[q])
      BY <2>2, <2>3, SoundProcesses
  <2>6. proc' \in [Processes -> Process]
      BY <2>2, <2>5 DEF Sound
  <2> QED BY <1>2, <2>1, <2>2, <2>4, <2>5, <2>6 DEF Disabled, systemd
<1>3. none = \A q \in Processes : ~(stopped[q].mode = "server")
    OBVIOUS
<1>4. \/ /\ linked' = FALSE /\ wanted' = FALSE
         /\ proc' = [stopped EXCEPT ![p].pc = "unlink", ![p].quiet = none]
      \/ /\ proc' = [proc EXCEPT ![p].pc = "unlink", ![p].quiet = ~lives]
         /\ UNCHANGED systemd
    BY DEF Disable
<1> QED BY <1>1, <1>2, <1>4

-----------------------------------------------------------------------------
(* Where a process goes from where it is, when it does not end.            *)
Goes(p) ==
    LET pc == proc'[p].pc IN
    \/ At(p, "stat") /\ pc \in {"openConfig", "statMarker"}
    \/ At(p, "openConfig") /\ pc = "fillConfig"
    \/ At(p, "fillConfig") /\ pc = "statMarker"
    \/ At(p, "statMarker") /\ pc \in {"openMarker", AfterMarker(p)}
    \/ At(p, "openMarker") /\ pc = "fillMarker"
    \/ At(p, "fillMarker") /\ pc = AfterMarker(p)
    \/ At(p, "openEnv") /\ pc = "fillEnv"
    \/ At(p, "fillEnv") /\ pc = "openBin"
    \/ At(p, "openBin") /\ pc \in {"fillBin", "openUnit"}
    \/ At(p, "fillBin") /\ pc = "removeBin"
    \/ At(p, "removeBin") /\ pc = "renameBin"
    \/ At(p, "renameBin") /\ pc = "openUnit"
    \/ At(p, "openUnit") /\ pc = "fillUnit"
    \/ At(p, "fillUnit") /\ pc = "link"
    \/ At(p, "link") /\ pc = "enable"
    \/ At(p, "listen") /\ pc \in {"listen", "openRuntime"}
    \/ At(p, "openRuntime") /\ pc = "fillRuntime"
    \/ At(p, "fillRuntime") /\ pc = "renameRuntime"
    \/ At(p, "renameRuntime") /\ pc \in {"serving", "removeRuntime"}
    \/ At(p, "removeRuntime") /\ pc = "renameAgain"
    \/ At(p, "renameAgain") /\ pc = "serving"
    \/ At(p, "disable") /\ pc = "unlink"
    \/ At(p, "unlink") /\ pc \in {"list", "check"}
    \/ At(p, "list") /\ pc \in {"remove", "check"}
    \/ At(p, "remove") /\ pc \in {"remove", "snapshots", "check"}
    \/ At(p, "snapshots") /\ pc = "check"
    \/ At(p, "check") /\ pc = "removeFiles"
    \/ At(p, "removeFiles") /\ pc = "removeFiles"

(* What it keeps on the way, and what the others keep.                     *)
Keeps(p) ==
    /\ proc'[p].mode = proc[p].mode /\ proc'[p].opts = proc[p].opts
    /\ ~At(p, "listen") => proc'[p].alone = proc[p].alone /\ proc'[p].port = proc[p].port
    /\ ~At(p, "disable") => proc'[p].quiet = proc[p].quiet

SameBut(q) ==
    /\ proc'[q].pc = proc[q].pc /\ proc'[q].mode = proc[q].mode /\ proc'[q].opts = proc[q].opts
    /\ proc'[q].port = proc[q].port /\ proc'[q].todo = proc[q].todo
    /\ proc'[q].reply = proc[q].reply /\ proc'[q].quiet = proc[q].quiet

OthersKeep(p) ==
    \A q \in Processes \ {p} :
       \/ proc'[q] = proc[q]
       \/ At(p, "listen") /\ SameBut(q) /\ ~proc'[q].alone
       \/ At(p, "disable") /\ q = Service /\ proc'[q] = NoProcess

(* What a step of a process does to the processes.                         *)
Stepped(p) ==
    /\ \/ Goes(p) /\ Keeps(p)
       \/ \E reply \in {"ok", "error"} : Ended(p, reply)
    /\ OthersKeep(p)
    /\ At(p, "listen") /\ proc'[p].pc = "openRuntime" => \E n \in 1..MaxPort : Listened(p, n)
    /\ At(p, "disable") /\ proc'[p].pc = "unlink" => Disabled(p)

TypedNext ==
    /\ proc' \in [Processes -> Process]
    /\ \A q \in Processes : Sound(proc'[q])

LEMMA MoveSteps ==
    ASSUME TypeOK, NEW p \in Processes, NEW pc \in Steps, Goto(p, pc),
           pc \in Naming \cup {"serving"} => proc[p].port # 0,
           ~At(p, "listen"), ~At(p, "disable"), Moved(p, pc) => Goes(p)
    PROVE  Stepped(p) /\ TypedNext
<1>1. Moved(p, pc) /\ OthersStay(p) /\ TypedNext
    BY Going DEF TypedNext
<1>2. Goes(p) /\ Keeps(p) /\ OthersKeep(p)
    BY <1>1 DEF Moved, Keeps, OthersStay, OthersKeep
<1> QED BY <1>1, <1>2 DEF Stepped

LEMMA EndSteps ==
    ASSUME TypeOK, NEW p \in Processes, NEW reply \in {"ok", "error"}, End(p, reply)
    PROVE  Stepped(p) /\ TypedNext
<1>1. Ended(p, reply) /\ OthersStay(p) /\ TypedNext
    BY Ending DEF TypedNext
<1>2. OthersKeep(p) /\ proc'[p].pc = "idle"
    BY <1>1 DEF Ended, OthersStay, OthersKeep
<1> QED BY <1>1, <1>2 DEF Stepped

LEMMA ContinueSteps ==
    ASSUME TypeOK, NEW p \in Processes, NEW pc \in Steps \cup {"done"}, Continue(p, pc),
           pc \notin Naming \cup {"serving"},
           ~At(p, "listen"), ~At(p, "disable"), Moved(p, pc) => Goes(p)
    PROVE  Stepped(p) /\ TypedNext
BY MoveSteps, EndSteps DEF Continue

(* The port that is tried next is a port.                                  *)
LEMMA TryNextSteps ==
    ASSUME TypeOK, NEW p \in Processes, At(p, "listen"), TryNext(p)
    PROVE  Stepped(p) /\ TypedNext
<1>1. CASE End(p, "error")
    BY <1>1, EndSteps
<1>2. CASE ~End(p, "error")
  <2> DEFINE next == proc[p].port + 1
  <2>1. next \in 0..MaxPort /\ proc' = [proc EXCEPT ![p].port = next]
      BY <1>2, DeploymentAssumption DEF TryNext, TypeOK, Process
  <2> HIDE DEF next
  <2>2. /\ proc'[p] = [proc[p] EXCEPT !.port = next] /\ OthersStay(p)
        /\ proc' = [q \in Processes |-> proc'[q]]
      BY <2>1 DEF TypeOK, OthersStay
  <2>3. /\ Sound(proc'[p]) /\ proc'[p].pc = "listen"
        /\ proc'[p].mode = proc[p].mode /\ proc'[p].opts = proc[p].opts
        /\ proc'[p].quiet = proc[p].quiet
      BY <2>1, <2>2, SoundProcesses DEF Sound, Process, At, Naming
  <2>4. \A q \in Processes : Sound(proc'[q])
      BY <2>2, <2>3, SoundProcesses DEF OthersStay
  <2>5. TypedNext
      BY <2>2, <2>4 DEF TypedNext, Sound
  <2>6. Goes(p) /\ Keeps(p) /\ OthersKeep(p)
      BY <2>2, <2>3 DEF Goes, Keeps, OthersKeep, OthersStay, At
  <2> QED BY <2>3, <2>5, <2>6 DEF Stepped, At
<1> QED BY <1>1, <1>2

(* A step that changes the list of sandboxes, and perhaps pc.              *)
LEMMA TodoSteps ==
    ASSUME TypeOK, NEW p \in Processes, NEW todo \in SUBSET Sandboxes, NEW pc \in {"remove"},
           At(p, "list") \/ At(p, "remove"),
           proc' = [proc EXCEPT ![p] = [proc[p] EXCEPT !.pc = pc, !.todo = todo]]
    PROVE  Stepped(p) /\ TypedNext /\ proc'[p].todo = todo
<1>1. /\ proc'[p] = [proc[p] EXCEPT !.pc = pc, !.todo = todo] /\ OthersStay(p)
      /\ proc' = [q \in Processes |-> proc'[q]]
    BY DEF TypeOK, OthersStay
<1>2. /\ Sound(proc'[p]) /\ proc'[p].pc = "remove" /\ proc'[p].todo = todo
      /\ proc'[p].mode = proc[p].mode /\ proc'[p].opts = proc[p].opts
      /\ proc'[p].quiet = proc[p].quiet /\ proc'[p].alone = proc[p].alone
      /\ proc'[p].port = proc[p].port
  <2>1. proc[p] \in Process /\ pc \in Steps
      BY SoundProcesses, StepsAre
  <2>2. [proc[p] EXCEPT !.pc = pc] \in Process
      BY <2>1 DEF Process
  <2>3. proc'[p] \in Process
      BY <1>1, <2>2 DEF Process
  <2>4. /\ proc'[p].pc = "remove" /\ proc'[p].todo = todo
        /\ proc'[p].mode = proc[p].mode /\ proc'[p].opts = proc[p].opts
        /\ proc'[p].quiet = proc[p].quiet /\ proc'[p].alone = proc[p].alone
        /\ proc'[p].port = proc[p].port
      BY <1>1, <2>1 DEF Process
  <2> QED BY <2>3, <2>4 DEF Sound, Naming
<1>3. \A q \in Processes : Sound(proc'[q])
    BY <1>1, <1>2, SoundProcesses DEF OthersStay
<1>4. TypedNext
    BY <1>1, <1>3 DEF TypedNext, Sound
<1>5. Goes(p) /\ Keeps(p) /\ OthersKeep(p)
    BY <1>1, <1>2 DEF Goes, Keeps, OthersKeep, OthersStay, At
<1> QED BY <1>2, <1>4, <1>5 DEF Stepped, At

LEMMA StepProcesses ==
    ASSUME TypeOK, NEW p \in Processes, At(p, "disable") => p # Service, Step(p)
    PROVE  Stepped(p) /\ TypedNext
<1> USE DEF At, Naming
<1>0. proc[p].pc \in Naming \cup {"serving"} => proc[p].port # 0
    BY DEF TypeOK
<1>1. CASE Stat(p)
  <2> DEFINE pc == IF ~Has(p, "env-file") /\ file.config = Absent THEN "openConfig"
                   ELSE "statMarker"
  <2>1. pc \in {"openConfig", "statMarker"} /\ Goto(p, pc)
      BY <1>1 DEF Stat
  <2> QED BY <1>1, <2>1, MoveSteps, StepsAre DEF Stat, Moved, Goes
<1>2. CASE StatMarker(p)
  <2> DEFINE pc == IF file.marker = Absent THEN "openMarker" ELSE AfterMarker(p)
  <2>1. Continue(p, pc) /\ pc \in {"openMarker", AfterMarker(p)} /\ At(p, "statMarker")
      BY <1>2 DEF StatMarker
  <2>2. pc \in Steps \cup {"done"} /\ pc \notin Naming \cup {"serving"}
      BY <2>1, MarkerNext, StepsAre
  <2> HIDE DEF pc
  <2>3. Moved(p, pc) => Goes(p)
      BY <2>1 DEF Moved, Goes
  <2> QED BY <2>1, <2>2, <2>3, ContinueSteps
<1>3. CASE Open(p)
  <2> DEFINE pc == Fills[proc[p].pc]
  <2>1. /\ Goto(p, pc) /\ pc \in Steps
        /\ pc \in Naming => pc = "fillRuntime" /\ At(p, "openRuntime")
        /\ pc # "serving" /\ ~At(p, "listen") /\ ~At(p, "disable")
        /\ Moved(p, pc) => Goes(p)
      BY <1>3, OpensAre, StepsAre DEF Open, Fills, Moved, Goes
  <2> HIDE DEF pc
  <2> QED BY <1>0, <2>1, MoveSteps
<1>4. CASE Fill(p)
  <2>1. PICK opens \in DOMAIN Opens \ {"openRuntime"} :
           /\ At(p, Fills[opens])
           /\ Continue(p, CASE opens = "openConfig" -> "statMarker"
                           [] opens = "openMarker" -> AfterMarker(p)
                           [] opens = "openEnv" -> "openBin"
                           [] opens = "openBin" -> "removeBin"
                           [] opens = "openUnit" -> "link")
      BY <1>4 DEF Fill
  <2>2. PICK pc \in Steps \cup {"done"} :
           /\ Continue(p, pc) /\ pc \notin Naming \cup {"serving"}
           /\ \/ At(p, "fillConfig") /\ pc = "statMarker"
              \/ At(p, "fillMarker") /\ pc = AfterMarker(p)
              \/ At(p, "fillEnv") /\ pc = "openBin"
              \/ At(p, "fillBin") /\ pc = "removeBin"
              \/ At(p, "fillUnit") /\ pc = "link"
    <3>1. CASE opens = "openConfig"
        BY <2>1, <3>1, StepsAre DEF Fills
    <3>2. CASE opens = "openMarker"
        BY <2>1, <3>2, StepsAre, MarkerNext DEF Fills
    <3>3. CASE opens = "openEnv"
        BY <2>1, <3>3, StepsAre DEF Fills
    <3>4. CASE opens = "openBin"
        BY <2>1, <3>4, StepsAre DEF Fills
    <3>5. CASE opens = "openUnit"
        BY <2>1, <3>5, StepsAre DEF Fills
    <3> QED BY <2>1, <3>1, <3>2, <3>3, <3>4, <3>5, OpensAre
  <2>3. Moved(p, pc) => Goes(p)
      BY <2>2 DEF Moved, Goes
  <2> QED BY <2>2, <2>3, ContinueSteps
<1>5. CASE Listen(p)
  <2>1. TypedNext /\ \E n \in 1..MaxPort : Listened(p, n)
      BY <1>5, ListenListens DEF TypedNext
  <2>2. At(p, "listen")
      BY <1>5 DEF Listen
  <2>3. Goes(p) /\ Keeps(p) /\ OthersKeep(p)
      BY <2>1, <2>2 DEF Listened, Goes, Keeps, OthersKeep, SameBut
  <2> QED BY <2>1, <2>2, <2>3 DEF Stepped
<1>6. CASE PortTaken(p)
    BY <1>6, TryNextSteps DEF PortTaken
<1>7. CASE FillRuntime(p)
  <2>1. At(p, "fillRuntime") /\ Goto(p, "renameRuntime")
      BY <1>7 DEF FillRuntime
  <2> QED BY <1>0, <2>1, MoveSteps, StepsAre DEF Moved, Goes
<1>8. CASE RenameRuntime(p)
  <2>1. (At(p, "renameRuntime") \/ At(p, "renameAgain")) /\ Goto(p, "serving")
      BY <1>8 DEF RenameRuntime
  <2> QED BY <1>0, <2>1, MoveSteps, StepsAre DEF Moved, Goes
<1>9. CASE RenameFails(p)
  <2>1. CASE At(p, "renameRuntime") /\ Goto(p, "removeRuntime")
      BY <1>0, <2>1, MoveSteps, StepsAre DEF Moved, Goes
  <2>2. CASE End(p, "error")
      BY <2>2, EndSteps
  <2> QED BY <1>9, <2>1, <2>2 DEF RenameFails
<1>10. CASE RemoveRuntime(p)
  <2>1. At(p, "removeRuntime") /\ Goto(p, "renameAgain")
      BY <1>10 DEF RemoveRuntime
  <2> QED BY <1>0, <2>1, MoveSteps, StepsAre DEF Moved, Goes
<1>11. CASE CopyNothing(p)
    BY <1>11, MoveSteps, StepsAre DEF CopyNothing, Moved, Goes
<1>12. CASE RemoveBin(p)
    BY <1>12, MoveSteps, StepsAre DEF RemoveBin, Moved, Goes
<1>13. CASE RenameBin(p)
    BY <1>13, MoveSteps, StepsAre DEF RenameBin, Moved, Goes
<1>14. CASE Link(p)
  <2>1. At(p, "link")
      BY <1>14 DEF Link
  <2>2. PICK pc \in {"done", "enable"} : Continue(p, pc)
      BY <1>14 DEF Link
  <2>3. pc \in Steps \cup {"done"} /\ (Moved(p, pc) => Goes(p) \/ pc = "done")
      BY <2>1, StepsAre DEF Moved, Goes
  <2>4. CASE pc = "done"
      BY <2>2, <2>4, EndSteps DEF Continue
  <2> QED BY <2>1, <2>2, <2>3, <2>4, ContinueSteps
<1>15. CASE Enable(p)
    BY <1>15, EndSteps DEF Enable
<1>16. CASE Disable(p)
  <2>1. At(p, "disable") /\ p # Service
      BY <1>16 DEF Disable
  <2>2. TypedNext /\ Disabled(p)
      BY <1>16, <2>1, DisableDisables DEF TypedNext
  <2>3. Goes(p) /\ Keeps(p) /\ OthersKeep(p)
      BY <2>1, <2>2 DEF Disabled, Goes, Keeps, OthersKeep
  <2> QED BY <2>1, <2>2, <2>3 DEF Stepped
<1>17. CASE Unlink(p)
    BY <1>17, MoveSteps, StepsAre DEF Unlink, Moved, Goes
<1>18. CASE List(p)
  <2>1. At(p, "list") /\ sandboxes \in SUBSET Sandboxes
        /\ proc' = [proc EXCEPT ![p] = [proc[p] EXCEPT !.pc = "remove", !.todo = sandboxes]]
      BY <1>18 DEF List, TypeOK
  <2> QED BY <2>1, TodoSteps
<1>19. CASE Remove(p)
  <2>1. CASE Goto(p, "snapshots")
      BY <1>19, <2>1, MoveSteps, StepsAre DEF Remove, Moved, Goes
  <2>2. ASSUME NEW b \in proc[p].todo, proc' = [proc EXCEPT ![p].todo = @ \ {b}]
        PROVE  Stepped(p) /\ TypedNext
    <3> DEFINE todo == proc[p].todo \ {b}
    <3>1. todo \in SUBSET Sandboxes /\ proc[p] \in Process /\ At(p, "remove")
        BY <1>19 DEF TypeOK, Process, Remove
    <3>2. proc' = [proc EXCEPT ![p] = [proc[p] EXCEPT !.todo = todo]]
        BY <2>2
    <3> HIDE DEF todo
    <3>3. [proc[p] EXCEPT !.todo = todo] = [proc[p] EXCEPT !.pc = "remove", !.todo = todo]
        BY <3>1 DEF Process
    <3> QED BY <3>1, <3>2, <3>3, TodoSteps
  <2> QED BY <1>19, <2>1, <2>2 DEF Remove
<1>20. CASE RemoveSnapshots(p)
    BY <1>20, MoveSteps, StepsAre DEF RemoveSnapshots, Moved, Goes
<1>21. CASE CleaningFails(p)
  <2>1. CASE Goto(p, "check")
      BY <1>21, <2>1, MoveSteps, StepsAre DEF CleaningFails, Moved, Goes
  <2>2. CASE End(p, "error")
      BY <2>2, EndSteps
  <2> QED BY <1>21, <2>1, <2>2 DEF CleaningFails
<1>22. CASE Check(p)
  <2>1. CASE Goto(p, "removeFiles")
      BY <1>22, <2>1, MoveSteps, StepsAre DEF Check, Moved, Goes
  <2>2. CASE End(p, "error") \/ End(p, "ok")
      BY <2>2, EndSteps
  <2> QED BY <1>22, <2>1, <2>2 DEF Check
<1>23. CASE RemoveFile(p)
  <2>1. Goes(p) /\ Keeps(p) /\ OthersKeep(p)
      BY <1>23 DEF RemoveFile, Goes, Keeps, OthersKeep
  <2>2. TypedNext
      BY <1>23, SoundProcesses DEF RemoveFile, TypedNext, TypeOK
  <2> QED BY <1>23, <2>1, <2>2 DEF Stepped, RemoveFile
<1>24. CASE FilesRemoved(p)
    BY <1>24, EndSteps DEF FilesRemoved
<1> QED BY <1>1, <1>2, <1>3, <1>4, <1>5, <1>6, <1>7, <1>8, <1>9, <1>10, <1>11, <1>12, <1>13,
           <1>14, <1>15, <1>16, <1>17, <1>18, <1>19, <1>20, <1>21, <1>22, <1>23, <1>24 DEF Step

-----------------------------------------------------------------------------
(* Types.                                                                  *)
Mode(p) == proc[p].mode
FileTyped ==
    /\ file' \in [Names -> {Absent, Empty, Whole} \cup Info]
    /\ \A name \in Names : file'[name] \in Info => name \in {"runtime", "runtimeTmp"}

LEMMA StepFiles == ASSUME TypeOK, NEW p \in Processes, Step(p) PROVE FileTyped
<1> USE DEF FileTyped
<1>0. Opens \in [DOMAIN Opens -> Names \ {"bin", "runtime"}]
    BY OpensAre DEF Opens, Names
<1>1. CASE Open(p)
    BY <1>0, <1>1, Setting DEF Open
<1>2. CASE Fill(p)
    BY <1>0, <1>2, Setting DEF Fill, TypeOK
<1>3. CASE FillRuntime(p)
  <2>1. [by |-> p, port |-> proc[p].port] \in Info
      BY <1>3, DeploymentAssumption DEF FillRuntime, TypeOK, Process, Info, Naming, At
  <2>2. PICK name \in {"runtime", "runtimeTmp"} :
           UNCHANGED file \/ Set(name, [by |-> p, port |-> proc[p].port])
      BY <1>3 DEF FillRuntime
  <2>3. name \in Names
      BY DEF Names
  <2> QED BY <2>1, <2>2, <2>3, Setting DEF TypeOK
<1>4. CASE RenameRuntime(p)
    BY <1>4, Contents DEF RenameRuntime, TypeOK, Names
<1>5. CASE RenameBin(p)
    BY <1>5, Contents DEF RenameBin, TypeOK, Names
<1>6. CASE RemoveRuntime(p)
    BY <1>6, Setting DEF RemoveRuntime, Names
<1>7. CASE RemoveBin(p)
    BY <1>7, Setting DEF RemoveBin, Names, TypeOK
<1>8. CASE RemoveFile(p)
    BY <1>8, Setting DEF RemoveFile
<1>9. CASE UNCHANGED file
    BY <1>9 DEF TypeOK
<1> QED BY <1>1, <1>2, <1>3, <1>4, <1>5, <1>6, <1>7, <1>8, <1>9
        DEF Step, Stat, StatMarker, Listen, PortTaken, RenameFails, CopyNothing, Link, Enable,
            Disable, Unlink, List, Remove, RemoveSnapshots, CleaningFails, Check, FilesRemoved

(* Nothing but faults is counted, and only as far as MaxFaults.            *)
LEMMA StepRest ==
    ASSUME TypeOK, NEW p \in Processes, Step(p)
    PROVE  /\ linked' \in BOOLEAN /\ wanted' \in BOOLEAN
           /\ snapshot' \in BOOLEAN /\ spoilt' \in BOOLEAN
           /\ torn' \in BOOLEAN /\ stuck' \in BOOLEAN
           /\ sandboxes' \subseteq Sandboxes
           /\ faults' \in 0..MaxFaults
<1>1. linked' \in BOOLEAN /\ wanted' \in BOOLEAN
    BY DEF TypeOK, Step, systemd, Stat, StatMarker, Open, Fill, Listen, PortTaken, FillRuntime,
           RenameRuntime, RenameFails, RemoveRuntime, CopyNothing, RemoveBin, RenameBin, Link,
           Enable, Disable, Unlink, List, Remove, RemoveSnapshots, CleaningFails, Check,
           RemoveFile, FilesRemoved
<1>2. snapshot' \in BOOLEAN /\ sandboxes' \subseteq Sandboxes
    BY DEF TypeOK, Step, docker, Stat, StatMarker, Open, Fill, Listen, PortTaken, FillRuntime,
           RenameRuntime, RenameFails, RemoveRuntime, CopyNothing, RemoveBin, RenameBin, Link,
           Enable, Disable, Unlink, List, Remove, RemoveSnapshots, CleaningFails, Check,
           RemoveFile, FilesRemoved
<1>3. spoilt' \in BOOLEAN
  <2>1. spoilt' = spoilt \/ spoilt' = (spoilt \/ ServerLives)
      BY DEF history, Step, Stat, StatMarker, Open, Fill, Listen, PortTaken, FillRuntime,
             RenameRuntime, RenameFails, RemoveRuntime, CopyNothing, RemoveBin, RenameBin, Link,
             Enable, Disable, Unlink, List, Remove, RemoveSnapshots, CleaningFails, Check,
             RemoveFile, FilesRemoved
  <2> QED BY <2>1 DEF TypeOK
<1>4. faults' \in 0..MaxFaults
  <2>1. faults' = faults \/ (faults < MaxFaults /\ faults' = faults + 1)
      BY DEF Step, Stat, StatMarker, Open, Fill, Listen, PortTaken, FillRuntime,
             RenameRuntime, RenameFails, RemoveRuntime, CopyNothing, RemoveBin, RenameBin, Link,
             Enable, Disable, Unlink, List, Remove, RemoveSnapshots, CleaningFails, Check,
             RemoveFile, FilesRemoved
  <2> QED BY <2>1, DeploymentAssumption DEF TypeOK
<1>5. torn' \in BOOLEAN
  <2>1. \/ torn' = torn \/ torn' = (torn /\ ~At(p, "fillMarker"))
        \/ torn' = (torn \/ Unmarked(Service))
      BY DEF history, Step, Stat, StatMarker, Open, Fill, Listen, PortTaken, FillRuntime,
             RenameRuntime, RenameFails, RemoveRuntime, CopyNothing, RemoveBin, RenameBin, Link,
             Enable, Disable, Unlink, List, Remove, RemoveSnapshots, CleaningFails, Check,
             RemoveFile, FilesRemoved
  <2> QED BY <2>1 DEF TypeOK
<1>6. stuck' \in BOOLEAN
  <2>1. stuck' = stuck \/ stuck' \in {FALSE, linked}
      BY DEF history, Step, Stat, StatMarker, Open, Fill, Listen, PortTaken, FillRuntime,
             RenameRuntime, RenameFails, RemoveRuntime, CopyNothing, RemoveBin, RenameBin, Link,
             Enable, Disable, Unlink, List, Remove, RemoveSnapshots, CleaningFails, Check,
             RemoveFile, FilesRemoved
  <2> QED BY <2>1 DEF TypeOK
<1> QED BY <1>1, <1>2, <1>3, <1>4, <1>5, <1>6

-----------------------------------------------------------------------------
(* Which steps the commands have, that the service is a server, and that   *)
(* of the other commands there is one at a time.                           *)
Preparing == {"stat", "statMarker", "openConfig", "fillConfig", "openMarker", "fillMarker"}
Installing == {"openEnv", "fillEnv", "openBin", "fillBin", "removeBin", "renameBin", "openUnit",
               "fillUnit", "link", "enable"}
Uninstalling == {"disable", "unlink", "list", "remove", "snapshots", "check", "removeFiles"}

OnCourse(mode, pc) ==
    \/ mode = "none" /\ pc = "idle"
    \/ mode = "server" /\ pc \in Preparing \cup {"listen", "serving"} \cup Naming
    \/ mode = "config" /\ pc \in Preparing
    \/ mode = "install" /\ pc \in Preparing \cup Installing
    \/ mode = "uninstall" /\ pc \in Uninstalling

Operator(mode) == mode \in {"install", "config", "uninstall"}

CourseInv ==
    /\ \A p \in Processes : OnCourse(Mode(p), proc[p].pc)
    /\ ~Operator(Mode(Service))
    /\ \A p, q \in Processes : Operator(Mode(p)) /\ Operator(Mode(q)) => p = q

LEMMA MarkerOnCourse ==
    ASSUME NEW p \in Processes, OnCourse(Mode(p), proc[p].pc),
           At(p, "statMarker") \/ At(p, "fillMarker"), AfterMarker(p) # "done"
    PROVE  OnCourse(Mode(p), AfterMarker(p))
BY DEF OnCourse, Mode, AfterMarker, At, Preparing, Installing, Uninstalling, Naming

LEMMA SteppedCourse ==
    ASSUME TypeOK, CourseInv, TypedNext, NEW p \in Processes, Stepped(p)
    PROVE  CourseInv'
<1> USE DEF Mode
<1>1. OnCourse(proc'[p].mode, proc'[p].pc) /\ proc'[p].mode \in {proc[p].mode, "none"}
  <2>1. CASE \E reply \in {"ok", "error"} : Ended(p, reply)
      BY <2>1 DEF Ended, OnCourse
  <2>2. CASE Goes(p) /\ Keeps(p)
    <3>1. OnCourse(proc[p].mode, proc[p].pc) /\ proc'[p].mode = proc[p].mode
        BY <2>2 DEF CourseInv, Keeps
    <3>2. CASE proc'[p].pc = AfterMarker(p) /\ (At(p, "statMarker") \/ At(p, "fillMarker"))
      <4>1. AfterMarker(p) # "done"
        <5>1. proc'[p].pc \in Steps \cup {"idle"}
            BY DEF TypedNext, Sound, Process
        <5> QED BY <3>2, <5>1, StepsAre
      <4> QED BY <3>1, <3>2, <4>1, MarkerOnCourse
    <3>3. CASE ~(proc'[p].pc = AfterMarker(p) /\ (At(p, "statMarker") \/ At(p, "fillMarker")))
        BY <2>2, <3>1, <3>3 DEF Goes, OnCourse, At, Preparing, Installing, Uninstalling, Naming
    <3> QED BY <3>1, <3>2, <3>3
  <2> QED BY <2>1, <2>2 DEF Stepped
<1>2. \A q \in Processes \ {p} :
         \/ proc'[q].mode = proc[q].mode /\ proc'[q].pc = proc[q].pc
         \/ proc'[q].mode = "none" /\ proc'[q].pc = "idle"
    BY DEF Stepped, OthersKeep, SameBut, NoProcess
<1>3. \A q \in Processes : OnCourse(proc'[q].mode, proc'[q].pc)
    BY <1>1, <1>2 DEF CourseInv, OnCourse
<1>4. \A q \in Processes : proc'[q].mode \in {proc[q].mode, "none"} /\ Service \in Processes
    BY <1>1, <1>2 DEF Processes
<1>5. \A q \in Processes : Operator(proc'[q].mode) => Operator(proc[q].mode)
    BY <1>4 DEF Operator
<1> QED BY <1>3, <1>4, <1>5 DEF CourseInv

LEMMA BeginningCourse ==
    ASSUME TypeOK, CourseInv, NEW p \in Processes, NEW mode \in Modes, NEW opts,
           Beginning(p, mode, opts), Mode(p) = "none",
           Operator(mode) => p # Service /\ \A q \in Processes : ~Operator(Mode(q))
    PROVE  CourseInv'
<1> USE DEF Mode
<1>1. OnCourse(proc'[p].mode, proc'[p].pc) /\ proc'[p].mode = mode
    BY ModesAre DEF Beginning, OnCourse, Preparing, Uninstalling
<1>2. \A q \in Processes \ {p} : proc'[q].mode = proc[q].mode /\ proc'[q].pc = proc[q].pc
    BY DEF Beginning
<1>3. \A q \in Processes : OnCourse(proc'[q].mode, proc'[q].pc)
    BY <1>1, <1>2 DEF CourseInv
<1>4. Service \in Processes
    BY DEF Processes
<1> QED BY <1>1, <1>2, <1>3, <1>4 DEF CourseInv

(* The three ways in which a process changes its state.                    *)
Inv == TypeOK /\ CourseInv

LEMMA NotService == ASSUME Inv, NEW p \in Processes, At(p, "disable") PROVE p # Service
BY DEF Inv, CourseInv, OnCourse, At, Preparing, Installing, Naming, Operator, Mode

LEMMA Kinds ==
    ASSUME Inv, [Next]_vars
    PROVE  \/ \E p \in Processes : Step(p) /\ Stepped(p) /\ TypedNext
           \/ \E p \in Processes :
                 /\ (Kill(p) /\ Ended(p, "error")) \/ (Interrupt(p) /\ Ended(p, "ok"))
                 /\ OthersStay(p) /\ Stepped(p) /\ TypedNext
                 /\ UNCHANGED <<file, systemd, docker>>
           \/ \E p \in Processes, mode \in Modes : \E opts \in SUBSET Options[mode] :
                 /\ Beginning(p, mode, opts) /\ TypedNext /\ At(p, "idle")
                 /\ Operator(mode) => p # Service /\ \A q \in Processes : ~Operator(Mode(q))
                 /\ UNCHANGED <<file, systemd, docker, faults, history>>
           \/ UNCHANGED proc /\ \E p \in Processes : Serve(p)
           \/ UNCHANGED vars
<1> SUFFICES ASSUME ~UNCHANGED vars, ~ \E p \in Processes : Serve(p)
             PROVE  \/ \E p \in Processes : Step(p) /\ Stepped(p) /\ TypedNext
                    \/ \E p \in Processes :
                          /\ (Kill(p) /\ Ended(p, "error")) \/ (Interrupt(p) /\ Ended(p, "ok"))
                          /\ OthersStay(p) /\ Stepped(p) /\ TypedNext
                          /\ UNCHANGED <<file, systemd, docker>>
                    \/ \E p \in Processes, mode \in Modes : \E opts \in SUBSET Options[mode] :
                          /\ Beginning(p, mode, opts) /\ TypedNext /\ At(p, "idle")
                          /\ Operator(mode) =>
                                p # Service /\ \A q \in Processes : ~Operator(Mode(q))
                          /\ UNCHANGED <<file, systemd, docker, faults, history>>
    BY DEF Serve
<1>1. CASE \E p \in Processes : Step(p)
    BY <1>1, NotService, StepProcesses DEF Inv
<1>2. ASSUME NEW p \in Processes, Kill(p)
      PROVE  Ended(p, "error") /\ OthersStay(p) /\ Stepped(p) /\ TypedNext
                /\ UNCHANGED <<file, systemd, docker>>
    BY <1>2, Ending, EndSteps DEF Kill, Inv
<1>3. ASSUME NEW c \in Commands, Interrupt(c)
      PROVE  /\ Ended(c, "ok") /\ OthersStay(c) /\ Stepped(c) /\ TypedNext /\ c \in Processes
             /\ UNCHANGED <<file, systemd, docker>>
    BY <1>3, Ending, EndSteps DEF Interrupt, Inv, Processes
<1>4. ASSUME NEW c \in Commands, Begin(c)
      PROVE  \E p \in Processes, mode \in Modes : \E opts \in SUBSET Options[mode] :
                 /\ Beginning(p, mode, opts) /\ TypedNext /\ At(p, "idle")
                 /\ Operator(mode) => p # Service /\ \A q \in Processes : ~Operator(Mode(q))
                 /\ UNCHANGED <<file, systemd, docker, faults, history>>
  <2>1. PICK mode \in Modes : \E opts \in SUBSET Options[mode] :
          /\ mode # "server" => \A q \in Commands : proc[q].mode \in {"none", "server"}
          /\ proc' = Began(c, mode, opts)
      BY <1>4 DEF Begin
  <2>2. PICK opts \in SUBSET Options[mode] : proc' = Began(c, mode, opts)
      BY <2>1
  <2>3. c \in Processes /\ c # Service
      BY DeploymentAssumption DEF Processes
  <2>4. Beginning(c, mode, opts) /\ TypedNext
      BY <2>2, <2>3, BeganBegins DEF TypedNext, Inv
  <2>5. Operator(mode) => \A q \in Processes : ~Operator(Mode(q))
      BY <2>1 DEF Operator, Processes, Inv, CourseInv, Mode
  <2> QED BY <1>4, <2>3, <2>4, <2>5 DEF Begin
<1>5. CASE StartService
  <2>1. Service \in Processes /\ "server" \in Modes /\ {} \in SUBSET Options["server"]
      BY ModesAre DEF Processes
  <2>2. Beginning(Service, "server", {}) /\ TypedNext
      BY <1>5, <2>1, BeganBegins DEF TypedNext, StartService, Inv
  <2>3. ~Operator("server")
      BY DEF Operator
  <2> QED BY <1>5, <2>1, <2>2, <2>3 DEF StartService
<1> QED BY <1>1, <1>2, <1>3, <1>4, <1>5 DEF Next

LEMMA NextInv == Inv /\ [Next]_vars => Inv'
<1> SUFFICES ASSUME Inv, [Next]_vars PROVE Inv'
    OBVIOUS
<1> USE DEF Inv
<1>1. CASE \E p \in Processes : Step(p) /\ Stepped(p) /\ TypedNext
  <2>1. TypeOK'
      BY <1>1, StepFiles, StepRest DEF TypeOK, TypedNext, Sound, FileTyped
  <2> QED BY <1>1, <2>1, SteppedCourse
<1>2. CASE \E p \in Processes :
              /\ Kill(p) \/ Interrupt(p)
              /\ Stepped(p) /\ TypedNext /\ UNCHANGED <<file, systemd, docker>>
  <2>1. PICK p \in Processes :
           \/ /\ faults < MaxFaults /\ faults' = faults + 1 /\ stuck' = stuck
              /\ spoilt' = (spoilt \/ At(p, "removeFiles"))
              /\ torn' = (torn \/ Unmarked(p))
           \/ faults' = faults /\ spoilt' = spoilt /\ torn' = torn /\ stuck' = stuck
      BY <1>2 DEF Kill, Interrupt, history
  <2>2. faults' \in 0..MaxFaults
      BY <2>1, DeploymentAssumption DEF TypeOK
  <2>3. spoilt' \in BOOLEAN /\ torn' \in BOOLEAN /\ stuck' \in BOOLEAN
      BY <2>1 DEF TypeOK
  <2>4. TypeOK'
      BY <1>2, <2>2, <2>3 DEF TypeOK, TypedNext, Sound, systemd, docker
  <2> QED BY <1>2, <2>4, SteppedCourse
<1>3. ASSUME NEW p \in Processes, NEW mode \in Modes, NEW opts \in SUBSET Options[mode],
             Beginning(p, mode, opts), TypedNext, At(p, "idle"),
             Operator(mode) => p # Service /\ \A q \in Processes : ~Operator(Mode(q)),
             UNCHANGED <<file, systemd, docker, faults, history>>
      PROVE  Inv'
  <2>1. TypeOK'
      BY <1>3 DEF TypeOK, TypedNext, Sound, systemd, docker, history
  <2>2. Mode(p) = "none"
      BY <1>3 DEF CourseInv, OnCourse, At, Preparing, Installing, Uninstalling, Naming
  <2> QED BY <1>3, <2>1, <2>2, BeginningCourse
<1>4. CASE UNCHANGED proc /\ \E p \in Processes : Serve(p)
    BY <1>4 DEF Serve, TypeOK, CourseInv, Mode, systemd, history
<1>5. CASE UNCHANGED vars
    BY <1>5 DEF vars, systemd, docker, history, TypeOK, CourseInv, Mode
<1> QED BY <1>1, <1>2, <1>3, <1>4, <1>5, Kinds

LEMMA InitInv == Init => Inv
<1> SUFFICES ASSUME Init PROVE Inv
    OBVIOUS
<1>1. NoProcess.pc = "idle" /\ NoProcess.mode = "none"
    BY DEF NoProcess
<1>2. TypeOK
  <2>1. /\ file \in [Names -> {Absent, Empty, Whole} \cup Info]
        /\ \A name \in Names : file[name] \in Info => name \in {"runtime", "runtimeTmp"}
      BY Contents DEF Init
  <2>2. /\ proc \in [Processes -> Process]
        /\ \A p \in Processes : proc[p].pc \in Naming \cup {"serving"} => proc[p].port # 0
      BY <1>1, NoProcessTyped DEF Init, Naming
  <2>3. faults \in 0..MaxFaults
      BY DeploymentAssumption DEF Init
  <2> QED BY <2>1, <2>2, <2>3 DEF Init, TypeOK
<1>3. CourseInv
    BY <1>1 DEF Init, CourseInv, Mode, OnCourse, Operator, Processes
<1> QED BY <1>2, <1>3 DEF Inv

(* The files and processes of a deployment root keep their types; a server *)
(* that names itself has a port; each command makes the steps of its own   *)
(* mode only, the service is no operator's command, and of these there is  *)
(* never more than one (what Begin asks for, for the whole of its run).    *)
THEOREM DeploymentTypeCorrect == Spec => [](TypeOK /\ CourseInv)
<1>1. Init => Inv
    BY InitInv
<1>2. Inv /\ [Next]_vars => Inv'
    BY NextInv
<1>3. Inv => TypeOK /\ CourseInv
    BY DEF Inv
<1> QED BY <1>1, <1>2, <1>3, PTL DEF Spec

-----------------------------------------------------------------------------
(* What the steps do to the files.                                         *)
Changes(name, content) ==
    file'[name] = content /\ \A other \in Names \ {name} : file'[other] = file[other]

InfoOf(p) == [by |-> p, port |-> proc[p].port]

Writes(p) ==
    \/ At(p, "openConfig") /\ Changes("config", Empty)
    \/ At(p, "openMarker") /\ Changes("marker", Empty)
    \/ At(p, "openEnv") /\ Changes("config", Empty)
    \/ At(p, "openBin") /\ Changes("binTmp", Empty)
    \/ At(p, "openUnit") /\ Changes("unit", Empty)
    \/ At(p, "openRuntime") /\ Changes("runtimeTmp", Empty)
    \/ At(p, "fillConfig") /\ Changes("config", Whole)
    \/ At(p, "fillMarker") /\ Changes("marker", Whole)
    \/ At(p, "fillEnv") /\ Changes("config", Whole)
    \/ At(p, "fillBin") /\ Changes("binTmp", Whole)
    \/ At(p, "fillUnit") /\ Changes("unit", Whole)
    \/ /\ At(p, "fillRuntime")
       /\ \E name \in {"runtimeTmp", "runtime"} :
             /\ proc[p].alone => name = "runtimeTmp"
             /\ Changes(name, InfoOf(p))
    \/ /\ At(p, "renameRuntime") \/ At(p, "renameAgain")
       /\ file'["runtime"] = file["runtimeTmp"] /\ file'["runtimeTmp"] = Absent
       /\ \A other \in Names \ {"runtime", "runtimeTmp"} : file'[other] = file[other]
    \/ At(p, "removeRuntime") /\ Changes("runtime", Absent)
    \/ At(p, "removeBin") /\ Changes("bin", Absent)
    \/ /\ At(p, "renameBin")
       /\ file'["bin"] = file["binTmp"] /\ file'["binTmp"] = Absent
       /\ \A other \in Names \ {"bin", "binTmp"} : file'[other] = file[other]
    \/ /\ At(p, "removeFiles")
       /\ (\E name \in Names : Changes(name, Absent)) /\ (ServerLives => spoilt')

LEMMA SetChanges ==
    ASSUME TypeOK, NEW name \in Names, NEW content, Set(name, content)
    PROVE  Changes(name, content)
BY DEF TypeOK, Set, Changes

LEMMA StepWrites ==
    ASSUME TypeOK, NEW p \in Processes, Step(p)
    PROVE  /\ UNCHANGED file \/ Writes(p)
           /\ spoilt => spoilt'
<1>a. spoilt' = spoilt \/ RemoveFile(p)
    BY DEF history, Step, Stat, StatMarker, Open, Fill, Listen, PortTaken, FillRuntime,
           RenameRuntime, RenameFails, RemoveRuntime, CopyNothing, RemoveBin, RenameBin, Link,
           Enable, Disable, Unlink, List, Remove, RemoveSnapshots, CleaningFails, Check,
           RemoveFile, FilesRemoved
<1>b. spoilt => spoilt'
    BY <1>a DEF RemoveFile
<1> SUFFICES UNCHANGED file \/ Writes(p)
    BY <1>b
<1>0. {"config", "marker", "bin", "binTmp", "unit", "runtime", "runtimeTmp"} = Names
    BY DEF Names
<1>1. CASE Open(p)
  <2>1. Set(Opens[proc[p].pc], Empty) /\ proc[p].pc \in DOMAIN Opens
      BY <1>1 DEF Open
  <2> QED BY <1>0, <1>1, <2>1, SetChanges, OpensAre DEF Open, Opens, Writes, At
<1>2. CASE Fill(p)
  <2>1. PICK pc \in DOMAIN Opens \ {"openRuntime"} :
           At(p, Fills[pc]) /\ (UNCHANGED file \/ Set(Opens[pc], Whole))
      BY <1>2 DEF Fill
  <2>2. CASE Set(Opens[pc], Whole)
      BY <1>0, <1>2, <2>1, <2>2, SetChanges, OpensAre DEF Fill, Opens, Fills, Writes, At
  <2> QED BY <1>2, <2>1, <2>2 DEF Fill
<1>3. CASE FillRuntime(p)
  <2>1. PICK name \in {"runtimeTmp", "runtime"} :
           /\ proc[p].alone => name = "runtimeTmp"
           /\ UNCHANGED file \/ Set(name, InfoOf(p))
      BY <1>3 DEF FillRuntime, InfoOf
  <2>2. CASE Set(name, InfoOf(p))
    <3>1. Changes(name, InfoOf(p))
        BY <1>0, <2>2, SetChanges
    <3> QED BY <1>3, <2>1, <3>1 DEF Writes, FillRuntime
  <2> QED BY <1>3, <2>1, <2>2 DEF FillRuntime
<1>4. CASE RenameRuntime(p)
    BY <1>0, <1>4 DEF RenameRuntime, TypeOK, Writes, At
<1>5. CASE RenameBin(p)
    BY <1>0, <1>5 DEF RenameBin, TypeOK, Writes, At
<1>6. CASE RemoveRuntime(p)
    BY <1>0, <1>6, SetChanges DEF RemoveRuntime, Writes
<1>7. CASE RemoveBin(p)
    BY <1>0, <1>7, SetChanges DEF RemoveBin, Writes
<1>8. CASE RemoveFile(p)
    BY <1>0, <1>8, SetChanges DEF RemoveFile, Writes
<1>9. CASE UNCHANGED file
    BY <1>9
<1> QED BY <1>1, <1>2, <1>3, <1>4, <1>5, <1>6, <1>7, <1>8, <1>9
        DEF Step, Stat, StatMarker, Listen, PortTaken, RenameFails, CopyNothing, Link, Enable,
            Disable, Unlink, List, Remove, RemoveSnapshots, CleaningFails, Check, FilesRemoved

(* Two steps that the same operator's command has are of one process.      *)
LEMMA OneOperator ==
    ASSUME Inv, NEW p \in Processes, NEW q \in Processes,
           proc[p].pc \in Installing \cup Uninstalling, proc[q].pc \in Installing \cup Uninstalling
    PROVE  p = q
<1>1. \A r \in Processes : proc[r].pc \in Installing \cup Uninstalling => Operator(Mode(r))
    BY DEF Inv, CourseInv, OnCourse, Operator, Preparing, Installing, Uninstalling, Naming
<1> QED BY <1>1 DEF Inv, CourseInv

(* Where another process is after a step of p, it was, or it was stopped.  *)
LEMMA OthersWhere ==
    ASSUME NEW p \in Processes, OthersKeep(p), NEW q \in Processes \ {p}
    PROVE  proc'[q].pc = proc[q].pc \/ proc'[q].pc = "idle"
BY DEF OthersKeep, SameBut, NoProcess

-----------------------------------------------------------------------------
(* The binary.  What is renamed to it was written by the same install, and *)
(* no other one runs.                                                      *)
BinInv ==
    /\ file["bin"] # Empty
    /\ \A p \in Processes : At(p, "removeBin") \/ At(p, "renameBin") => file["binTmp"] # Empty

LEMMA StepBin ==
    ASSUME Inv, BinInv, NEW p \in Processes, Step(p), Stepped(p) PROVE BinInv'
<1> USE DEF At
<1>0. "bin" \in Names /\ "binTmp" \in Names
    BY DEF Names
<1>1. UNCHANGED file \/ Writes(p)
    BY StepWrites DEF Inv
<1>2. file'["bin"] # Empty
    BY <1>0, <1>1, Contents DEF BinInv, Writes, Changes
<1>3. ASSUME NEW q \in Processes, proc'[q].pc \in {"removeBin", "renameBin"}
      PROVE  file'["binTmp"] # Empty
  <2>1. CASE q = p
    <3>1. \/ At(p, "fillBin")
          \/ At(p, "removeBin")
        BY <1>3, <2>1 DEF Stepped, Goes, Ended, AfterMarker
    <3>2. CASE At(p, "removeBin")
        BY <1>0, <1>1, <3>2, Contents DEF BinInv, Writes, Changes
    <3>3. CASE At(p, "fillBin")
      <4>1. Fill(p)
          BY <3>3, OpensAre DEF Step, Stat, StatMarker, Open, Listen, PortTaken, FillRuntime,
             RenameRuntime, RenameFails, RemoveRuntime, CopyNothing, RemoveBin, RenameBin, Link,
             Enable, Disable, Unlink, List, Remove, RemoveSnapshots, CleaningFails, Check,
             RemoveFile, FilesRemoved
      <4>2. file["binTmp"] = Absent \/ Set("binTmp", Whole)
          BY <3>3, <4>1, OpensAre DEF Fill, Fills, Opens
      <4> QED BY <1>0, <1>1, <3>3, <4>1, <4>2, Contents, SetChanges DEF Inv, Changes, Writes
    <3> QED BY <3>1, <3>2, <3>3
  <2>2. CASE q # p
    <3>1. proc[q].pc \in {"removeBin", "renameBin"} /\ file["binTmp"] # Empty
        BY <1>3, <2>2, OthersWhere DEF Stepped, BinInv
    <3>2. proc[p].pc \notin Installing \cup Uninstalling
        BY <2>2, <3>1, OneOperator DEF Installing
    <3> QED BY <1>0, <1>1, <3>1, <3>2, Contents DEF Writes, Changes, Installing, Uninstalling
  <2> QED BY <2>1, <2>2
<1> QED BY <1>2, <1>3 DEF BinInv

LEMMA NextBin == Inv /\ BinInv /\ [Next]_vars => BinInv'
<1> SUFFICES ASSUME Inv, BinInv, [Next]_vars PROVE BinInv'
    OBVIOUS
<1>1. CASE \E p \in Processes : Step(p) /\ Stepped(p) /\ TypedNext
    BY <1>1, StepBin
<1>2. ASSUME NEW p \in Processes, Ended(p, "ok") \/ Ended(p, "error"), OthersStay(p),
             UNCHANGED <<file, systemd, docker>>
      PROVE  BinInv'
    BY <1>2 DEF BinInv, Ended, OthersStay, At
<1>3. ASSUME NEW p \in Processes, NEW mode \in Modes, NEW opts, Beginning(p, mode, opts),
             UNCHANGED <<file, systemd, docker, faults, history>>
      PROVE  BinInv'
    BY <1>3 DEF BinInv, Beginning, At
<1>4. CASE UNCHANGED proc /\ \E p \in Processes : Serve(p)
    BY <1>4 DEF Serve, BinInv, At
<1>5. CASE UNCHANGED vars
    BY <1>5 DEF vars, BinInv, At
<1> QED BY <1>1, <1>2, <1>3, <1>4, <1>5, Kinds

(* copyExecutable writes beside the binary and renames: at no time, and    *)
(* after no kill or failure, is there half a binary that systemd executes. *)
THEOREM BinaryIsWhole == Spec => []BinaryWhole
<1>1. Init => Inv /\ BinInv
  <2> SUFFICES ASSUME Init PROVE BinInv
      BY InitInv
  <2>1. file["bin"] = Absent /\ \A p \in Processes : proc[p].pc = "idle"
      BY DEF Init, Names, NoProcess
  <2> QED BY <2>1, Contents DEF BinInv, At
<1>2. Inv /\ BinInv /\ [Next]_vars => (Inv /\ BinInv)'
    BY NextInv, NextBin
<1>3. BinInv => BinaryWhole
    BY DEF BinInv, BinaryWhole
<1> QED BY <1>1, <1>2, <1>3, PTL DEF Spec

-----------------------------------------------------------------------------
(* The marker.  Who has passed it counts on it, and makes everything else. *)
Marked == {"fillMarker", "listen", "serving"} \cup Naming \cup Installing

Nobody(pc) == \A p \in Processes : ~At(p, pc)
Holding == \E name \in Names \ {"config", "marker"} : file[name] # Absent

(* A configuration without a marker, and a marker that is empty, are on    *)
(* the way of a process, unless one was stopped there.                     *)
MarkerIsMade ==
    /\ file["marker"] = Empty => \E p \in Processes : At(p, "fillMarker")
    /\ Nobody("removeFiles") /\ file["config"] # Absent /\ file["marker"] = Absent
          => \E p \in Processes : Marking(p)

OwnedInv ==
    ~spoilt => /\ \A p \in Processes : proc[p].pc \in Marked => file["marker"] # Absent
               /\ Nobody("removeFiles") /\ Holding => file["marker"] # Absent
               /\ ~torn => MarkerIsMade

(* prepare goes on without making the marker only if it has seen it.       *)
LEMMA PassesMarker ==
    ASSUME NEW p \in Processes, Step(p), At(p, "statMarker"), TypeOK
    PROVE  UNCHANGED file /\ (file["marker"] = Absent => proc'[p].pc = "openMarker")
<1>1. StatMarker(p)
    BY OpensAre DEF At, Step, Stat, Open, Fill, Fills, Listen, PortTaken, FillRuntime,
       RenameRuntime, RenameFails, RemoveRuntime, CopyNothing, RemoveBin, RenameBin, Link,
       Enable, Disable, Unlink, List, Remove, RemoveSnapshots, CleaningFails, Check,
       RemoveFile, FilesRemoved
<1> QED BY <1>1 DEF StatMarker, Continue, Goto, TypeOK, Process

(* From the configuration to the marker.                                   *)
LEMMA PrepareSteps ==
    ASSUME NEW p \in Processes, Step(p), TypeOK
    PROVE  /\ At(p, "openConfig") => proc'[p].pc = "fillConfig"
           /\ At(p, "fillConfig") => proc'[p].pc = "statMarker"
           /\ At(p, "openMarker") => proc'[p].pc = "fillMarker" /\ file'["marker"] = Empty
           /\ At(p, "fillMarker") /\ file["marker"] # Absent => file'["marker"] = Whole
<1>0. "marker" \in Names
    BY DEF Names
<1>1. ASSUME At(p, "openConfig") \/ At(p, "openMarker")
      PROVE  /\ Set(Opens[proc[p].pc], Empty) /\ proc'[p].pc = Fills[proc[p].pc]
  <2>0. ~Fill(p)
      BY <1>1, OpensAre DEF At, Fill, Fills
  <2>1. Open(p)
      BY <1>1, <2>0 DEF At, Step, Stat, StatMarker, Listen, PortTaken, FillRuntime,
             RenameRuntime, RenameFails, RemoveRuntime, CopyNothing, RemoveBin, RenameBin, Link,
             Enable, Disable, Unlink, List, Remove, RemoveSnapshots, CleaningFails, Check,
             RemoveFile, FilesRemoved
  <2>2. Set(Opens[proc[p].pc], Empty) /\ Goto(p, Fills[proc[p].pc])
      BY <2>1 DEF Open
  <2> QED BY <2>2 DEF Goto, TypeOK, Process
<1>2. ASSUME At(p, "fillConfig") \/ At(p, "fillMarker")
      PROVE  /\ At(p, "fillConfig") => Continue(p, "statMarker")
             /\ At(p, "fillMarker") => file["marker"] = Absent \/ Set("marker", Whole)
  <2>1. Fill(p)
      BY <1>2, OpensAre DEF At, Step, Stat, StatMarker, Open, Listen, PortTaken, FillRuntime,
             RenameRuntime, RenameFails, RemoveRuntime, CopyNothing, RemoveBin, RenameBin, Link,
             Enable, Disable, Unlink, List, Remove, RemoveSnapshots, CleaningFails, Check,
             RemoveFile, FilesRemoved
  <2> QED BY <1>2, <2>1, OpensAre DEF Fill, Fills, Opens, At
<1>3. At(p, "fillConfig") => proc'[p].pc = "statMarker"
    BY <1>2 DEF Continue, Goto, TypeOK, Process
<1> QED BY <1>0, <1>1, <1>2, <1>3, SetChanges DEF At, Opens, Fills, Changes

(* Who stops a process on this way leaves torn.                            *)
LEMMA TornSteps ==
    ASSUME Inv, NEW p \in Processes, Step(p), Stepped(p), ~torn', file["marker"] # Whole
    PROVE  /\ ~At(p, "fillMarker") => ~torn
           /\ \A q \in Processes \ {p} : Marking(q) => proc'[q].pc = proc[q].pc
<1>1. CASE Disable(p)
  <2>1. \/ torn' = (torn \/ Unmarked(Service))
        \/ /\ torn' = torn
           /\ proc' = [proc EXCEPT ![p].pc = "unlink", ![p].quiet = ~ServerLives]
      BY <1>1 DEF Disable
  <2>2. ASSUME NEW q \in Processes \ {p}, Marking(q) PROVE proc'[q].pc = proc[q].pc
    <3>1. CASE torn' = (torn \/ Unmarked(Service))
      <4>1. q # Service
          BY <2>2, <3>1 DEF Unmarked
      <4> QED BY <2>2, <4>1 DEF Stepped, OthersKeep, SameBut
    <3>2. CASE proc' = [proc EXCEPT ![p].pc = "unlink", ![p].quiet = ~ServerLives]
        BY <2>2, <3>2 DEF Inv, TypeOK
    <3> QED BY <2>1, <3>1, <3>2
  <2>3. ~torn
      BY <2>1
  <2> QED BY <2>2, <2>3
<1>2. CASE ~Disable(p)
  <2>1. ~At(p, "disable")
    <3>1. At(p, "disable") => ~Fill(p) /\ ~Open(p)
        BY OpensAre DEF Open, Fill, Fills, At
    <3> QED BY <1>2, <3>1 DEF At, Step, Stat, StatMarker, Listen, PortTaken, FillRuntime,
             RenameRuntime, RenameFails, RemoveRuntime, CopyNothing, RemoveBin, RenameBin, Link,
             Enable, Unlink, List, Remove, RemoveSnapshots, CleaningFails, Check,
             RemoveFile, FilesRemoved
  <2>2. torn' = torn \/ (torn' = (torn /\ ~At(p, "fillMarker")))
      BY <1>2 DEF history, Step, Stat, StatMarker, Open, Fill, Listen, PortTaken, FillRuntime,
             RenameRuntime, RenameFails, RemoveRuntime, CopyNothing, RemoveBin, RenameBin, Link,
             Enable, Disable, Unlink, List, Remove, RemoveSnapshots, CleaningFails, Check,
             RemoveFile, FilesRemoved
  <2>3. ~At(p, "fillMarker") => ~torn
      BY <2>2
  <2>4. \A q \in Processes \ {p} : proc'[q].pc = proc[q].pc
      BY <2>1 DEF Stepped, OthersKeep, SameBut
  <2> QED BY <2>3, <2>4
<1> QED BY <1>1, <1>2

(* RemoveAll ends by itself only when nothing is left.                     *)
LEMMA RemovesAll ==
    ASSUME NEW p \in Processes, Step(p), At(p, "removeFiles"), proc'[p].pc # "removeFiles"
    PROVE  \A name \in Names : file'[name] = Absent
<1>1. RemoveFile(p) \/ FilesRemoved(p)
    BY OpensAre DEF At, Step, Stat, StatMarker, Open, Fill, Fills, Listen, PortTaken, FillRuntime,
       RenameRuntime, RenameFails, RemoveRuntime, CopyNothing, RemoveBin, RenameBin, Link,
       Enable, Disable, Unlink, List, Remove, RemoveSnapshots, CleaningFails, Check
<1> QED BY <1>1 DEF RemoveFile, FilesRemoved, At

(* Beside an uninstall only servers are past the marker.                   *)
LEMMA MarkedLives ==
    ASSUME Inv, NEW p \in Processes, NEW q \in Processes,
           proc[p].pc \in Uninstalling, proc[q].pc \in Marked
    PROVE  ServerLives
<1>1. Operator(Mode(p)) /\ p # q
    BY DEF Inv, CourseInv, OnCourse, Operator, Preparing, Installing, Uninstalling, Naming, Marked
<1>2. ~Operator(Mode(q))
    BY <1>1 DEF Inv, CourseInv
<1>3. Mode(q) = "server"
    BY <1>2 DEF Inv, CourseInv, OnCourse, Operator, Marked, Preparing, Installing, Naming
<1> QED BY <1>3 DEF ServerLives, Mode

LEMMA StepOwned ==
    ASSUME Inv, OwnedInv, NEW p \in Processes, Step(p), Stepped(p) PROVE OwnedInv'
<1> USE DEF At
<1> SUFFICES ASSUME ~spoilt'
             PROVE  /\ \A q \in Processes : proc'[q].pc \in Marked => file'["marker"] # Absent
                    /\ Nobody("removeFiles")' /\ Holding' => file'["marker"] # Absent
                    /\ ~torn' => MarkerIsMade'
    BY DEF OwnedInv
<1>0. {"config", "marker", "bin", "binTmp", "unit", "runtime", "runtimeTmp"} = Names
    BY DEF Names
<1>1. (UNCHANGED file \/ Writes(p)) /\ ~spoilt
    BY StepWrites DEF Inv
<1>2. ASSUME file["marker"] # Absent, ~At(p, "removeFiles") PROVE file'["marker"] # Absent
    BY <1>0, <1>1, <1>2, Contents DEF Writes, Changes
<1>3. ASSUME NEW q \in Processes, proc[q].pc \in Marked, At(p, "removeFiles")
      PROVE  UNCHANGED file
  <2>1. ServerLives
      BY <1>3, MarkedLives DEF Inv, Uninstalling
  <2> QED BY <1>1, <1>3, <2>1 DEF Writes
<1>4. ASSUME NEW q \in Processes, proc[q].pc \in Marked PROVE file'["marker"] # Absent
    BY <1>1, <1>2, <1>3, <1>4 DEF OwnedInv
<1>5. ASSUME NEW q \in Processes, proc'[q].pc \in Marked PROVE file'["marker"] # Absent
  <2>1. CASE q # p
      BY <1>4, <1>5, <2>1, OthersWhere DEF Stepped, Marked, Installing, Naming
  <2>2. CASE q = p
    <3>1. proc[p].pc \in Marked \/ At(p, "statMarker") \/ At(p, "openMarker")
        BY <1>5, <2>2 DEF Stepped, Goes, Ended, Marked, Installing, Naming
    <3>2. CASE At(p, "statMarker")
        BY <1>5, <2>2, <3>2, PassesMarker DEF Inv, Marked, Installing, Naming
    <3>3. CASE At(p, "openMarker")
      <4>1. Open(p)
          BY <3>3 DEF Step, Stat, StatMarker, Fill, Fills, Listen, PortTaken, FillRuntime,
             RenameRuntime, RenameFails, RemoveRuntime, CopyNothing, RemoveBin, RenameBin, Link,
             Enable, Disable, Unlink, List, Remove, RemoveSnapshots, CleaningFails, Check,
             RemoveFile, FilesRemoved, Opens
      <4> QED BY <1>0, <3>3, <4>1, SetChanges, Contents DEF Open, Opens, Inv, Changes
    <3> QED BY <1>4, <3>1, <3>2, <3>3
  <2> QED BY <2>1, <2>2
<1>6. ASSUME Nobody("removeFiles")' PROVE Nobody("removeFiles") \/ At(p, "removeFiles")
  <2>1. proc[Service].pc # "removeFiles"
      BY DEF Inv, CourseInv, OnCourse, Operator, Mode, Processes, Preparing, Installing, Naming
  <2> QED BY <1>6, <2>1 DEF Nobody, Stepped, OthersKeep, SameBut
<1>7. ASSUME Nobody("removeFiles")', At(p, "removeFiles")
      PROVE  \A name \in Names : file'[name] = Absent
    BY <1>7, RemovesAll DEF Nobody
<1>8. ASSUME Nobody("removeFiles")', Holding' PROVE file'["marker"] # Absent
  <2>1. ~At(p, "removeFiles") /\ Nobody("removeFiles")
      BY <1>6, <1>7, <1>8 DEF Holding
  <2>2. CASE Holding
      BY <1>1, <1>2, <2>1, <2>2 DEF OwnedInv
  <2>3. CASE ~Holding
    <3>1. PICK name \in Names \ {"config", "marker"} : file'[name] # Absent
        BY <1>8 DEF Holding
    <3>2. file[name] = Absent /\ file["binTmp"] = Absent /\ file["runtimeTmp"] = Absent
        BY <1>0, <2>3 DEF Holding
    <3>3. proc[p].pc \in Marked
        BY <1>0, <1>1, <2>1, <3>1, <3>2, Contents
        DEF Writes, Changes, Marked, Installing, Naming
    <3> QED BY <1>4, <3>3
  <2> QED BY <2>2, <2>3
<1>9. ASSUME ~torn', file'["marker"] = Empty PROVE \E q \in Processes : proc'[q].pc = "fillMarker"
  <2>1. CASE At(p, "openMarker")
      BY <2>1, PrepareSteps DEF Inv
  <2>2. CASE At(p, "fillMarker")
    <3>1. file["marker"] # Absent
        BY <1>1, <2>2 DEF OwnedInv, Marked
    <3> QED BY <1>9, <2>2, <3>1, PrepareSteps, Contents DEF Inv
  <2>3. CASE ~At(p, "openMarker") /\ ~At(p, "fillMarker")
    <3>1. file["marker"] = Empty
        BY <1>0, <1>1, <1>9, <2>3, Contents DEF Writes, Changes
    <3>2. ~torn
        BY <1>9, <2>3, <3>1, TornSteps, Contents
    <3>3. PICK q \in Processes : At(q, "fillMarker")
        BY <1>1, <3>1, <3>2 DEF OwnedInv, MarkerIsMade
    <3>4. q # p /\ Marking(q)
        BY <2>3, <3>3 DEF Marking
    <3> QED BY <1>9, <3>1, <3>3, <3>4, TornSteps, Contents
  <2> QED BY <2>1, <2>2, <2>3
<1>10. ASSUME ~torn', Nobody("removeFiles")', file'["config"] # Absent, file'["marker"] = Absent
       PROVE  \E q \in Processes : Marking(q)'
  <2>1. ~At(p, "removeFiles") /\ Nobody("removeFiles")
      BY <1>0, <1>6, <1>7, <1>10
  <2>2. file["marker"] = Absent /\ proc[p].pc \notin Marked
      BY <1>1, <1>2, <1>4, <1>10, <2>1
  <2>3. ~At(p, "openMarker") /\ ~At(p, "fillMarker")
      BY <1>10, <2>2, PrepareSteps, Contents DEF Inv, Marked
  <2>4. ~torn
      BY <1>10, <2>2, <2>3, TornSteps, Contents
  <2>5. CASE file["config"] # Absent
    <3>1. PICK q \in Processes : Marking(q)
        BY <1>1, <2>1, <2>2, <2>4, <2>5 DEF OwnedInv, MarkerIsMade
    <3>2. CASE q # p
      <4>1. proc'[q].pc = proc[q].pc
          BY <1>10, <2>2, <3>1, <3>2, TornSteps, Contents
      <4> QED BY <3>1, <4>1 DEF Marking
    <3>3. CASE q = p
      <4>1. At(p, "fillConfig") \/ At(p, "statMarker")
          BY <2>3, <3>1, <3>3 DEF Marking
      <4>2. proc'[p].pc \in {"statMarker", "openMarker"}
          BY <2>2, <4>1, PrepareSteps, PassesMarker DEF Inv
      <4> QED BY <4>2 DEF Marking
    <3> QED BY <3>2, <3>3
  <2>6. CASE file["config"] = Absent
    <3>1. At(p, "openConfig") \/ At(p, "fillConfig")
        BY <1>0, <1>1, <1>10, <2>1, <2>2, <2>6 DEF Writes, Changes, Marked, Installing, Naming
    <3>2. proc'[p].pc \in {"fillConfig", "statMarker"}
        BY <3>1, PrepareSteps DEF Inv
    <3> QED BY <3>2 DEF Marking
  <2> QED BY <2>5, <2>6
<1> QED BY <1>5, <1>8, <1>9, <1>10 DEF MarkerIsMade

(* A process that is killed on the way to the marker leaves torn; a server *)
(* that is interrupted has passed it.                                      *)
LEMMA EndedOwned ==
    ASSUME Inv, OwnedInv, NEW p \in Processes,
           (Kill(p) /\ Ended(p, "error")) \/ (Interrupt(p) /\ Ended(p, "ok")),
           OthersStay(p), UNCHANGED <<file, systemd, docker>>
    PROVE  OwnedInv'
<1> USE DEF At, Nobody
<1>1. spoilt' = (spoilt \/ At(p, "removeFiles")) /\ torn' = (torn \/ Unmarked(p))
    BY DEF Kill, Interrupt, Serving, Unmarked, Marking, Inv, TypeOK, history
<1> SUFFICES ASSUME ~spoilt' PROVE OwnedInv'
    BY DEF OwnedInv
<1>2. /\ proc'[p].pc = "idle" /\ \A q \in Processes \ {p} : proc'[q].pc = proc[q].pc
      /\ UNCHANGED file /\ ~spoilt /\ ~At(p, "removeFiles")
    BY <1>1 DEF Ended, OthersStay
<1>3. "idle" \notin Marked
    BY DEF Marked, Installing, Naming
<1>4. \A q \in Processes : proc'[q].pc \in Marked => proc[q].pc \in Marked
    BY <1>2, <1>3
<1>5. Nobody("removeFiles")' => Nobody("removeFiles")
    BY <1>2
<1>6. ASSUME ~torn' PROVE MarkerIsMade'
  <2>1. ~torn /\ (Marking(p) => file["marker"] = Whole)
      BY <1>1, <1>6 DEF Unmarked
  <2>2. MarkerIsMade
      BY <1>2, <2>1 DEF OwnedInv
  <2>3. ASSUME file["marker"] # Whole, NEW q \in Processes, Marking(q)
        PROVE  proc'[q].pc = proc[q].pc
      BY <1>2, <2>1, <2>3
  <2>4. file["marker"] = Empty => \E q \in Processes : proc'[q].pc = "fillMarker"
    <3> SUFFICES ASSUME file["marker"] = Empty PROVE \E q \in Processes : proc'[q].pc = "fillMarker"
        OBVIOUS
    <3>1. PICK q \in Processes : proc[q].pc = "fillMarker"
        BY <2>2 DEF MarkerIsMade
    <3> QED BY <2>3, <3>1, Contents DEF Marking
  <2>5. Nobody("removeFiles") /\ file["config"] # Absent /\ file["marker"] = Absent
           => \E q \in Processes : Marking(q)'
    <3> SUFFICES ASSUME Nobody("removeFiles"), file["config"] # Absent, file["marker"] = Absent
                 PROVE  \E q \in Processes : Marking(q)'
        OBVIOUS
    <3>1. PICK q \in Processes : Marking(q)
        BY <2>2 DEF MarkerIsMade
    <3>2. proc'[q].pc = proc[q].pc
        BY <2>3, <3>1, Contents
    <3> QED BY <3>1, <3>2 DEF Marking
  <2> QED BY <1>2, <1>5, <2>4, <2>5 DEF MarkerIsMade
<1>7. Holding' = Holding
    BY <1>2 DEF Holding
<1> QED BY <1>2, <1>4, <1>5, <1>6, <1>7 DEF OwnedInv

LEMMA NextOwned == Inv /\ OwnedInv /\ [Next]_vars => OwnedInv'
<1> SUFFICES ASSUME Inv, OwnedInv, [Next]_vars PROVE OwnedInv'
    OBVIOUS
<1> USE DEF At, Nobody, Holding, MarkerIsMade, Marking
<1>1. CASE \E p \in Processes : Step(p) /\ Stepped(p) /\ TypedNext
    BY <1>1, StepOwned
<1>2. ASSUME NEW p \in Processes,
             (Kill(p) /\ Ended(p, "error")) \/ (Interrupt(p) /\ Ended(p, "ok")),
             OthersStay(p), UNCHANGED <<file, systemd, docker>>
      PROVE  OwnedInv'
    BY <1>2, EndedOwned
<1>3. ASSUME NEW p \in Processes, NEW mode \in Modes, NEW opts, Beginning(p, mode, opts),
             At(p, "idle"), UNCHANGED <<file, systemd, docker, faults, history>>
      PROVE  OwnedInv'
  <2>1. /\ proc[p].pc = "idle" /\ proc'[p].pc \in {"stat", "disable"}
        /\ \A q \in Processes \ {p} : proc'[q].pc = proc[q].pc
      BY <1>3 DEF Beginning
  <2>2. {"idle", "stat", "disable"} \cap Marked = {}
      BY DEF Marked, Installing, Naming
  <2>3. \A q \in Processes : proc'[q].pc \in Marked => proc[q].pc \in Marked
      BY <2>1, <2>2
  <2>4. Nobody("removeFiles")' => Nobody("removeFiles")
      BY <2>1
  <2>5. \A q \in Processes : Marking(q) => proc'[q].pc = proc[q].pc
      BY <2>1
  <2>6. UNCHANGED file /\ spoilt' = spoilt /\ torn' = torn
      BY <1>3 DEF history
  <2>7. MarkerIsMade => MarkerIsMade'
      BY <2>4, <2>5, <2>6
  <2> QED BY <2>3, <2>4, <2>6, <2>7 DEF OwnedInv
<1>4. CASE UNCHANGED proc /\ \E p \in Processes : Serve(p)
    BY <1>4 DEF Serve, history, OwnedInv
<1>5. CASE UNCHANGED vars
    BY <1>5 DEF vars, history, OwnedInv
<1> QED BY <1>1, <1>2, <1>3, <1>4, <1>5, Kinds

(* prepare makes the marker right after the configuration, before anything *)
(* else.  Whatever is killed or fails, and whoever prepares beside it,     *)
(* nothing else is ever there without the marker, and the configuration    *)
(* alone, or an empty marker, only while a process is about to write the   *)
(* marker or after one was stopped there; but for what uninstall removes   *)
(* itself.                                                                 *)
THEOREM FilesAreOwned == Spec => []Owned
<1>1. Init => Inv /\ OwnedInv
  <2> SUFFICES ASSUME Init PROVE OwnedInv
      BY InitInv
  <2>1. /\ \A name \in Names : file[name] = Absent
        /\ \A p \in Processes : proc[p].pc = "idle"
        /\ "config" \in Names /\ "marker" \in Names
      BY DEF Init, Names, NoProcess
  <2> QED BY <2>1, Contents DEF OwnedInv, MarkerIsMade, Holding, Marked, Installing, Naming
<1>2. Inv /\ OwnedInv /\ [Next]_vars => (Inv /\ OwnedInv)'
    BY NextInv, NextOwned
<1>3. Inv /\ OwnedInv => Owned
  <2> SUFFICES ASSUME Inv, OwnedInv, ~spoilt, \A c \in Commands : ~At(c, "removeFiles"),
                      NEW name \in Names, file[name] # Absent
               PROVE  /\ name # "config" => file["marker"] # Absent
                      /\ torn \/ file["marker"] = Whole \/ \E p \in Processes : Marking(p)
      BY DEF Owned
  <2>1. proc[Service].pc # "removeFiles"
      BY DEF Inv, CourseInv, OnCourse, Operator, Mode, Processes, Preparing, Installing, Naming
  <2>2. Nobody("removeFiles")
      BY <2>1 DEF Nobody, At, Processes
  <2>3. name # "config" => file["marker"] # Absent
      BY <2>2 DEF OwnedInv, Holding
  <2>4. ASSUME ~torn, file["marker"] # Whole PROVE \E p \in Processes : Marking(p)
    <3>1. MarkerIsMade
        BY <2>4 DEF OwnedInv
    <3>2. file["marker"] \in {Absent, Empty}
        BY <2>4 DEF Inv, TypeOK, Names
    <3>3. CASE file["marker"] = Empty
        BY <3>1, <3>3 DEF MarkerIsMade, Marking, At
    <3>4. CASE file["marker"] = Absent
        BY <2>2, <2>3, <3>1, <3>4 DEF MarkerIsMade
    <3> QED BY <3>2, <3>3, <3>4
  <2> QED BY <2>3, <2>4
<1> QED BY <1>1, <1>2, <1>3, PTL DEF Spec

-----------------------------------------------------------------------------
(* runtime.json.  A server that is alone among those that name themselves  *)
(* finds its own words in the file it renames.                             *)
Named(p) == proc[p].alone /\ proc[p].pc \in Naming \cup {"serving"}

NamesItself(p) ==
    /\ At(p, "fillRuntime") => file["runtimeTmp"] # Absent
    /\ proc[p].pc \in {"renameRuntime", "removeRuntime", "renameAgain"}
          => file["runtimeTmp"] = InfoOf(p)
    /\ Serving(p) => file["runtime"] = InfoOf(p)

NamingInv ==
    \A p \in Processes : Named(p) =>
       /\ \A q \in Processes \ {p} : proc[q].pc \notin Naming
       /\ ~spoilt => NamesItself(p)

(* What a server does to the files on the way.                             *)
LEMMA NamingSteps ==
    ASSUME TypeOK, NEW p \in Processes, Step(p), proc[p].pc \in Naming
    PROVE  \/ Open(p) /\ At(p, "openRuntime")
           \/ FillRuntime(p) \/ RenameRuntime(p) \/ RenameFails(p) \/ RemoveRuntime(p)
<1>1. ~Fill(p)
    BY OpensAre DEF Fill, Fills, At, Naming
<1> QED BY <1>1, OpensAre DEF Naming, At, Step, Stat, StatMarker, Open, Listen, PortTaken,
           CopyNothing, RemoveBin, RenameBin, Link, Enable, Disable, Unlink, List, Remove,
           RemoveSnapshots, CleaningFails, Check, RemoveFile, FilesRemoved

LEMMA ItselfStep ==
    ASSUME TypeOK, NEW p \in Processes, Step(p), Stepped(p), proc[p].pc \in Naming,
           proc[p].alone, NamesItself(p), proc'[p].pc \in Naming \cup {"serving"}
    PROVE  NamesItself(p)'
<1> USE DEF At, Serving
<1>0. {"config", "marker", "bin", "binTmp", "unit", "runtime", "runtimeTmp"} = Names
    BY DEF Names
<1>1. Goes(p) /\ Keeps(p) /\ InfoOf(p)' = InfoOf(p)
    BY DEF Stepped, Ended, Naming, Keeps, InfoOf
<1>2. CASE Open(p) /\ At(p, "openRuntime")
  <2>1. file'["runtimeTmp"] = Empty /\ proc'[p].pc = "fillRuntime"
      BY <1>0, <1>1, <1>2, SetChanges DEF Open, Opens, Changes, Goes
  <2> QED BY <2>1, Contents DEF NamesItself
<1>3. CASE FillRuntime(p)
  <2>1. file["runtimeTmp"] # Absent /\ At(p, "fillRuntime")
      BY <1>3 DEF NamesItself, FillRuntime
  <2>2. Set("runtimeTmp", InfoOf(p))
      BY <1>3, <2>1 DEF FillRuntime, InfoOf
  <2>3. file'["runtimeTmp"] = InfoOf(p) /\ proc'[p].pc = "renameRuntime"
      BY <1>0, <1>1, <2>1, <2>2, SetChanges DEF Changes, Goes
  <2> QED BY <1>1, <2>3 DEF NamesItself
<1>4. CASE RenameRuntime(p)
  <2>1. file["runtimeTmp"] = InfoOf(p) /\ proc'[p].pc = "serving"
      BY <1>4 DEF NamesItself, RenameRuntime, Goto, TypeOK, Process
  <2>2. file'["runtime"] = file["runtimeTmp"]
      BY <1>0, <1>4 DEF RenameRuntime, TypeOK
  <2> QED BY <1>1, <2>1, <2>2 DEF NamesItself
<1>5. CASE RenameFails(p)
  <2>1. /\ UNCHANGED file /\ (At(p, "renameRuntime") \/ At(p, "renameAgain"))
        /\ At(p, "renameAgain") => End(p, "error")
      BY <1>5 DEF RenameFails
  <2>2. ~At(p, "renameAgain")
      BY <2>1, Ending DEF Ended, Naming
  <2>3. proc'[p].pc = "removeRuntime"
      BY <1>5, <2>2 DEF RenameFails, Goto, TypeOK, Process
  <2> QED BY <1>1, <2>1, <2>3 DEF NamesItself
<1>6. CASE RemoveRuntime(p)
  <2>1. file'["runtimeTmp"] = file["runtimeTmp"] /\ proc'[p].pc = "renameAgain"
        /\ At(p, "removeRuntime")
      BY <1>0, <1>1, <1>6, SetChanges DEF RemoveRuntime, Changes, Goes
  <2> QED BY <1>1, <2>1 DEF NamesItself
<1> QED BY <1>2, <1>3, <1>4, <1>5, <1>6, NamingSteps

LEMMA StepNaming ==
    ASSUME Inv, NamingInv, NEW p \in Processes, Step(p), Stepped(p) PROVE NamingInv'
<1> USE DEF At, Serving
<1>0. {"config", "marker", "bin", "binTmp", "unit", "runtime", "runtimeTmp"} = Names
    BY DEF Names
<1>1. ASSUME Named(p)'
      PROVE  /\ \A q \in Processes \ {p} : proc'[q].pc \notin Naming
             /\ ~spoilt' => NamesItself(p)'
  <2>1. \A q \in Processes \ {p} : proc'[q].pc \in Naming => proc[q].pc \in Naming
      BY OthersWhere DEF Stepped, Naming
  <2>2. proc[p].pc \in Naming \cup {"listen"} /\ Goes(p) /\ Keeps(p)
      BY <1>1 DEF Named, Stepped, Goes, Ended, Naming, AfterMarker
  <2>3. CASE At(p, "listen")
    <3>1. proc'[p].pc = "openRuntime"
        BY <1>1, <2>2, <2>3 DEF Named, Goes, Naming
    <3>2. \A q \in Processes : proc[q].pc \notin Naming
        BY <1>1, <2>3, <3>1 DEF Named, Stepped, Listened
    <3> QED BY <2>1, <3>1, <3>2 DEF NamesItself
  <2>4. CASE proc[p].pc \in Naming
    <3>1. Named(p)
        BY <1>1, <2>2, <2>4 DEF Named, Keeps, Naming
    <3>2. ~spoilt' => ~spoilt
        BY StepWrites DEF Inv
    <3> QED BY <1>1, <2>1, <2>4, <3>1, <3>2, ItselfStep DEF NamingInv, Named, Inv
  <2> QED BY <2>2, <2>3, <2>4
<1>2. ASSUME NEW q \in Processes \ {p}, Named(q)'
      PROVE  /\ \A r \in Processes \ {q} : proc'[r].pc \notin Naming
             /\ ~spoilt' => NamesItself(q)'
  <2>1. proc'[q] = proc[q]
      BY <1>2 DEF Stepped, OthersKeep, Named, NoProcess, Naming
  <2>2. Named(q) /\ \A r \in Processes \ {q} : proc[r].pc \notin Naming
      BY <1>2, <2>1 DEF Named, NamingInv
  <2>3. proc'[p].pc \notin Naming
    <3> SUFFICES ASSUME proc'[p].pc \in Naming PROVE FALSE
        OBVIOUS
    <3>1. At(p, "listen") /\ proc'[p].pc = "openRuntime"
        BY <2>2 DEF Stepped, Goes, Ended, Naming, AfterMarker
    <3> QED BY <1>2, <3>1 DEF Stepped, Listened, Named
  <2>4. \A r \in Processes \ {q} : proc'[r].pc \notin Naming
      BY <2>2, <2>3, OthersWhere DEF Stepped, Naming
  <2>5. ASSUME ~spoilt' PROVE NamesItself(q)'
    <3>1. ~spoilt /\ (UNCHANGED file \/ Writes(p))
        BY <2>5, StepWrites DEF Inv
    <3>2. At(p, "removeFiles") => UNCHANGED file
      <4>1. proc[q].pc \in Marked
          BY <2>2 DEF Named, Marked
      <4>2. At(p, "removeFiles") => ServerLives
          BY <4>1, MarkedLives DEF Uninstalling
      <4> QED BY <2>5, <3>1, <4>2 DEF Writes
    <3>3. /\ file'["runtime"] = file["runtime"]
          /\ file'["runtimeTmp"] = file["runtimeTmp"]
      <4>1. proc[p].pc \notin Naming
          BY <2>2
      <4> QED BY <1>0, <3>1, <3>2, <4>1 DEF Writes, Changes, Naming
    <3>4. NamesItself(q) /\ InfoOf(q)' = InfoOf(q)
        BY <2>1, <2>2, <3>1 DEF NamingInv, InfoOf
    <3> QED BY <2>1, <3>3, <3>4 DEF NamesItself
  <2> QED BY <2>4, <2>5
<1> QED BY <1>1, <1>2 DEF NamingInv

LEMMA NextNaming == Inv /\ NamingInv /\ [Next]_vars => NamingInv'
<1> SUFFICES ASSUME Inv, NamingInv, [Next]_vars PROVE NamingInv'
    OBVIOUS
<1> USE DEF At, Serving, Named, NamesItself, InfoOf
<1>0. "idle" \notin Naming \cup {"serving"} /\ "disable" \notin Naming \cup {"serving"}
      /\ "stat" \notin Naming \cup {"serving"}
    BY DEF Naming
<1>1. CASE \E p \in Processes : Step(p) /\ Stepped(p) /\ TypedNext
    BY <1>1, StepNaming
<1>2. ASSUME NEW p \in Processes,
             (Kill(p) /\ Ended(p, "error")) \/ (Interrupt(p) /\ Ended(p, "ok")),
             OthersStay(p), UNCHANGED <<file, systemd, docker>>
      PROVE  NamingInv'
  <2>1. proc'[p].pc = "idle" /\ \A q \in Processes \ {p} : proc'[q] = proc[q]
      BY <1>2 DEF Ended, OthersStay
  <2>2. spoilt => spoilt'
      BY <1>2 DEF Kill, Interrupt, history
  <2>3. \A q \in Processes : Named(q)' => q # p /\ Named(q) /\ InfoOf(q)' = InfoOf(q)
      BY <1>0, <2>1
  <2>4. \A q \in Processes : proc'[q].pc \in Naming => proc[q].pc \in Naming
      BY <1>0, <2>1
  <2>5. \A q \in Processes : Named(q)' /\ NamesItself(q) => NamesItself(q)'
      BY <1>2, <2>1, <2>3
  <2> QED BY <2>2, <2>3, <2>4, <2>5, ZenonT(40) DEF NamingInv
<1>3. ASSUME NEW p \in Processes, NEW mode \in Modes, NEW opts, Beginning(p, mode, opts),
             At(p, "idle"), UNCHANGED <<file, systemd, docker, faults, history>>
      PROVE  NamingInv'
  <2>1. proc'[p].pc \notin Naming \cup {"serving"}
      BY <1>0, <1>3 DEF Beginning
  <2>2. \A q \in Processes \ {p} : /\ proc'[q].pc = proc[q].pc /\ proc'[q].port = proc[q].port
                                   /\ proc'[q].alone = proc[q].alone
      BY <1>3 DEF Beginning
  <2> QED BY <1>3, <2>1, <2>2 DEF history, NamingInv
<1>4. CASE UNCHANGED proc /\ \E p \in Processes : Serve(p)
    BY <1>4 DEF Serve, history, NamingInv
<1>5. CASE UNCHANGED vars
    BY <1>5 DEF vars, history, NamingInv
<1> QED BY <1>1, <1>2, <1>3, <1>4, <1>5, Kinds

(* WriteRuntimeFile: a server that serves is the one that runtime.json     *)
(* names, with its port, until another one begins to name itself, whatever *)
(* renames fail, whoever is killed, and whatever was left in the temporary *)
(* file.                                                                   *)
THEOREM RuntimeNamesServer == Spec => []RuntimeNames
<1>1. Init => Inv /\ NamingInv
  <2> SUFFICES ASSUME Init PROVE NamingInv
      BY InitInv
  <2>1. \A p \in Processes : proc[p].pc = "idle"
      BY DEF Init, NoProcess
  <2> QED BY <2>1 DEF NamingInv, Named, Naming
<1>2. Inv /\ NamingInv /\ [Next]_vars => (Inv /\ NamingInv)'
    BY NextInv, NextNaming
<1>3. NamingInv => RuntimeNames
    BY DEF NamingInv, RuntimeNames, Named, NamesItself, Serving, At, InfoOf
<1> QED BY <1>1, <1>2, <1>3, PTL DEF Spec

-----------------------------------------------------------------------------
(* What uninstall has done so far.  Once it is quiet, it is alone: nothing *)
(* runs that could undo it, and nothing begins, or it is quiet no more.    *)
Clean ==
    /\ sandboxes = {} /\ ~snapshot /\ (linked => stuck)
    /\ \A name \in Names : file[name] = Absent

Cleaned(p) ==
    /\ proc[p].opts = {} =>
          /\ proc[p].pc \in {"list", "remove", "snapshots", "check", "removeFiles"}
                => (linked => stuck)
          /\ At(p, "remove") => sandboxes \subseteq proc[p].todo
          /\ proc[p].pc \in {"snapshots", "check", "removeFiles"} => sandboxes = {}
          /\ proc[p].pc \in {"check", "removeFiles"} => ~snapshot
    /\ At(p, "idle") /\ proc[p].reply = "ok" => Clean

QuietInv ==
    \A p \in Processes : proc[p].quiet =>
       /\ ~wanted /\ proc[p].pc \in (Uninstalling \ {"disable"}) \cup {"idle"}
       /\ \A q \in Processes \ {p} : At(q, "idle")
       /\ Cleaned(p)

LEMMA BusySteps == ASSUME NEW p \in Processes, Step(p) PROVE ~At(p, "idle")
<1>1. At(p, "idle") => ~Fill(p) /\ ~Open(p)
    BY OpensAre DEF Open, Fill, Fills, At
<1> QED BY <1>1 DEF At, Step, Stat, StatMarker, Listen, PortTaken, FillRuntime,
           RenameRuntime, RenameFails, RemoveRuntime, CopyNothing, RemoveBin, RenameBin, Link,
           Enable, Disable, Unlink, List, Remove, RemoveSnapshots, CleaningFails, Check,
           RemoveFile, FilesRemoved

LEMMA UninstallSteps ==
    ASSUME NEW p \in Processes, Step(p), proc[p].pc \in Uninstalling
    PROVE  \/ Disable(p) /\ At(p, "disable")
           \/ Unlink(p) \/ List(p) \/ Remove(p) \/ RemoveSnapshots(p) \/ CleaningFails(p)
           \/ Check(p) \/ RemoveFile(p) \/ FilesRemoved(p)
<1>1. ~Fill(p) /\ ~Open(p)
    BY OpensAre DEF Open, Fill, Fills, At, Uninstalling
<1> QED BY <1>1 DEF Uninstalling, At, Step, Stat, StatMarker, Listen, PortTaken, FillRuntime,
           RenameRuntime, RenameFails, RemoveRuntime, CopyNothing, RemoveBin, RenameBin, Link,
           Enable, Disable

(* Each step of an uninstall without options leaves what it has done.      *)
LEMMA CleanedStep ==
    ASSUME TypeOK, NEW p \in Processes, Step(p), proc[p].pc \in Uninstalling, ~At(p, "disable"),
           ~wanted, Cleaned(p)
    PROVE  ~wanted' /\ (proc'[p].quiet => Cleaned(p)')
<1> USE DEF At
<1>0. proc[p] \in Process /\ proc[p].pc \in Uninstalling
    BY DEF TypeOK
<1>1. CASE Unlink(p)
  <2>1. ~wanted' /\ stuck' = linked' /\ proc'[p].opts = proc[p].opts
        /\ proc'[p].pc \in {"list", "check"} /\ (proc[p].opts = {} => proc'[p].pc = "list")
      BY <1>1 DEF Unlink, Goto, Has, TypeOK, Process
  <2> QED BY <2>1 DEF Cleaned
<1>2. CASE List(p)
  <2>1. /\ ~wanted' /\ linked' = linked /\ stuck' = stuck /\ sandboxes' = sandboxes
        /\ proc'[p].opts = proc[p].opts /\ proc'[p].pc = "remove" /\ proc'[p].todo = sandboxes
      BY <1>2 DEF List, TypeOK, Process, systemd, docker, history
  <2> QED BY <1>2, <2>1 DEF Cleaned, List
<1>3. CASE Remove(p)
  <2>1. ASSUME NEW b \in proc[p].todo, sandboxes' = sandboxes \ {b},
               proc' = [proc EXCEPT ![p].todo = @ \ {b}]
        PROVE  Cleaned(p)'
    <3>1. /\ proc'[p].opts = proc[p].opts /\ proc'[p].pc = "remove"
          /\ proc'[p].todo = proc[p].todo \ {b} /\ linked' = linked /\ stuck' = stuck
        BY <1>3, <2>1 DEF Remove, TypeOK, Process, systemd, history
    <3> QED BY <1>3, <2>1, <3>1 DEF Cleaned, Remove
  <2>2. ASSUME proc[p].todo = {}, Goto(p, "snapshots"), UNCHANGED sandboxes
        PROVE  Cleaned(p)'
    <3>1. proc'[p].opts = proc[p].opts /\ proc'[p].pc = "snapshots"
          /\ linked' = linked /\ stuck' = stuck
        BY <1>3, <2>2 DEF Remove, TypeOK, Process, systemd, history, Goto
    <3> QED BY <1>3, <2>2, <3>1 DEF Cleaned, Remove
  <2> QED BY <1>3, <2>1, <2>2 DEF Remove, systemd
<1>4. CASE RemoveSnapshots(p)
  <2>1. /\ proc'[p].opts = proc[p].opts /\ proc'[p].pc = "check"
        /\ linked' = linked /\ stuck' = stuck
        /\ snapshot' = FALSE /\ sandboxes' = sandboxes /\ ~wanted' /\ At(p, "snapshots")
      BY <1>4 DEF RemoveSnapshots, TypeOK, Process, systemd, history, Goto
  <2> QED BY <2>1 DEF Cleaned
<1>5. CASE CleaningFails(p)
  <2>1. ~wanted' /\ (End(p, "error") \/ ("force" \in proc[p].opts /\ Goto(p, "check")))
      BY <1>5 DEF CleaningFails, systemd, Has
  <2>2. CASE End(p, "error")
      BY <2>1, <2>2, Ending DEF Ended, Cleaned
  <2>3. CASE "force" \in proc[p].opts /\ Goto(p, "check")
    <3>1. proc'[p].opts = proc[p].opts /\ proc'[p].pc = "check"
        BY <2>3 DEF Goto, TypeOK, Process
    <3> QED BY <2>1, <2>3, <3>1 DEF Cleaned
  <2> QED BY <2>1, <2>2, <2>3
<1>6. CASE Check(p)
  <2>1. /\ ~wanted' /\ linked' = linked /\ stuck' = stuck
        /\ sandboxes' = sandboxes /\ snapshot' = snapshot
        /\ At(p, "check")
        /\ \/ "keep-files" \in proc[p].opts /\ End(p, "ok")
           \/ Goto(p, "removeFiles") \/ End(p, "error")
      BY <1>6 DEF Check, systemd, docker, history, Has
  <2>2. CASE "keep-files" \in proc[p].opts /\ End(p, "ok")
      BY <2>1, <2>2, Ending DEF Ended, Cleaned
  <2>3. CASE Goto(p, "removeFiles")
    <3>1. proc'[p].opts = proc[p].opts /\ proc'[p].pc = "removeFiles"
        BY <2>3 DEF Goto, TypeOK, Process
    <3> QED BY <2>1, <3>1 DEF Cleaned
  <2>4. CASE End(p, "error")
      BY <2>1, <2>4, Ending DEF Ended, Cleaned
  <2> QED BY <2>1, <2>2, <2>3, <2>4
<1>7. CASE RemoveFile(p)
    BY <1>7 DEF RemoveFile, Cleaned, systemd, docker, history
<1>8. CASE FilesRemoved(p)
  <2>1. /\ ~wanted' /\ linked' = linked /\ stuck' = stuck
        /\ sandboxes' = sandboxes /\ snapshot' = snapshot
        /\ (\A name \in Names : file'[name] = Absent) /\ At(p, "removeFiles")
        /\ Ended(p, "ok")
      BY <1>8, Ending DEF FilesRemoved, systemd, docker, history
  <2> QED BY <2>1 DEF Ended, Cleaned, Clean
<1> QED BY <1>1, <1>2, <1>3, <1>4, <1>5, <1>6, <1>7, <1>8, UninstallSteps

LEMMA StepQuiet ==
    ASSUME Inv, QuietInv, NEW p \in Processes, Step(p), Stepped(p), CourseInv'
    PROVE  QuietInv'
<1> USE DEF At
<1>1. ASSUME NEW q \in Processes \ {p}, proc'[q].quiet PROVE FALSE
  <2>1. proc[q].quiet
      BY <1>1 DEF Stepped, OthersKeep, SameBut, NoProcess
  <2> QED BY <2>1, BusySteps DEF QuietInv
<1>2. ASSUME proc'[p].quiet
      PROVE  /\ ~wanted' /\ proc'[p].pc \in (Uninstalling \ {"disable"}) \cup {"idle"}
             /\ \A q \in Processes \ {p} : proc'[q].pc = "idle"
             /\ Cleaned(p)'
  <2>1. CASE At(p, "disable")
    <3>1. proc'[p].pc = "unlink" /\ Disabled(p)
      <4>1. Disable(p)
          BY <2>1, UninstallSteps DEF Uninstalling, Unlink, List, Remove, RemoveSnapshots,
             CleaningFails, Check, RemoveFile, FilesRemoved
      <4>2. proc'[p].pc = "unlink"
          BY <2>1, <4>1, NotService, DisableDisables DEF Disabled, Inv
      <4> QED BY <2>1, <4>2 DEF Stepped
    <3>2. ASSUME NEW q \in Processes \ {p} PROVE proc'[q].pc = "idle"
      <4>1. proc'[q].mode # "server"
          BY <1>2, <3>1 DEF Disabled
      <4>2. Operator(Mode(p)') /\ OnCourse(Mode(q)', proc'[q].pc)
          BY <3>1 DEF CourseInv, OnCourse, Operator, Preparing, Installing, Naming, Mode
      <4>3. ~Operator(Mode(q)')
          BY <4>2 DEF CourseInv
      <4> QED BY <4>1, <4>2, <4>3 DEF OnCourse, Operator, Mode
    <3> QED BY <1>2, <3>1, <3>2 DEF Disabled, Cleaned, Uninstalling
  <2>2. CASE ~At(p, "disable")
    <3>1. proc[p].quiet /\ ~At(p, "idle")
        BY <1>2, <2>2, BusySteps DEF Stepped, Keeps, Ended
    <3>2. /\ ~wanted /\ proc[p].pc \in Uninstalling /\ Cleaned(p)
          /\ \A q \in Processes \ {p} : proc[q].pc = "idle"
        BY <3>1 DEF QuietInv
    <3>3. ~wanted' /\ Cleaned(p)'
        BY <1>2, <2>2, <3>2, CleanedStep DEF Inv
    <3>4. \A q \in Processes \ {p} : proc'[q].pc = "idle"
        BY <3>2, OthersWhere DEF Stepped
    <3>5. proc'[p].pc \in (Uninstalling \ {"disable"}) \cup {"idle"}
        BY <3>2 DEF Stepped, Goes, Ended, Uninstalling
    <3> QED BY <3>3, <3>4, <3>5
  <2> QED BY <2>1, <2>2
<1> QED BY <1>1, <1>2 DEF QuietInv

LEMMA NextQuiet == Inv /\ QuietInv /\ [Next]_vars => QuietInv'
<1> SUFFICES ASSUME Inv, QuietInv, [Next]_vars PROVE QuietInv'
    OBVIOUS
<1> USE DEF At
<1>1. CASE \E p \in Processes : Step(p) /\ Stepped(p) /\ TypedNext
  <2>1. CourseInv'
      BY NextInv DEF Inv
  <2> QED BY <1>1, <2>1, StepQuiet
<1>2. ASSUME NEW p \in Processes,
             (Kill(p) /\ Ended(p, "error")) \/ (Interrupt(p) /\ Ended(p, "ok")),
             OthersStay(p), UNCHANGED <<file, systemd, docker>>
      PROVE  QuietInv'
  <2>1. /\ proc[p].pc # "idle" /\ proc'[p].pc = "idle"
        /\ \A q \in Processes \ {p} : proc'[q] = proc[q]
      BY <1>2 DEF Kill, Interrupt, Serving, Ended, OthersStay
  <2>2. \A q \in Processes \ {p} : ~proc[q].quiet
      BY <2>1 DEF QuietInv
  <2>3. proc'[p].quiet => proc[p].quiet /\ proc'[p].reply = "error"
      BY <1>2 DEF Ended, Interrupt, Serving, QuietInv, Uninstalling
  <2>4. proc[p].quiet => ~wanted' /\ \A q \in Processes \ {p} : proc[q].pc = "idle"
      BY <1>2 DEF QuietInv, systemd
  <2>5. proc'[p].reply = "error" => Cleaned(p)'
      BY <2>1 DEF Cleaned
  <2> QED BY <2>1, <2>2, <2>3, <2>4, <2>5 DEF QuietInv
<1>3. ASSUME NEW p \in Processes, NEW mode \in Modes, NEW opts, Beginning(p, mode, opts),
             UNCHANGED <<file, systemd, docker, faults, history>>
      PROVE  QuietInv'
    BY <1>3 DEF QuietInv, Beginning
<1>4. CASE UNCHANGED proc /\ \E p \in Processes : Serve(p)
  <2>1. PICK p \in Processes : Serving(p)
      BY <1>4 DEF Serve
  <2>2. \A q \in Processes : ~proc[q].quiet
      BY <2>1 DEF QuietInv, Serving, Uninstalling
  <2> QED BY <1>4, <2>2 DEF QuietInv
<1>5. CASE UNCHANGED vars
    BY <1>5 DEF vars, systemd, docker, history, QuietInv, Cleaned, Clean
<1> QED BY <1>1, <1>2, <1>3, <1>4, <1>5, Kinds

(* README.md:262, uninstall: what it reports is so.  When it answers,      *)
(* without options, that it is done, and no server ran on after the        *)
(* attempt to stop it, there is no sandbox, no snapshot, no service that   *)
(* systemd is to run, and no file, whatever failed before; and no link to  *)
(* the unit, unless this uninstall could not remove it, which it ignores.  *)
THEOREM UninstallIsClean == Spec => []UninstallCleans
<1>1. Init => Inv /\ QuietInv
  <2> SUFFICES ASSUME Init PROVE QuietInv
      BY InitInv
  <2>1. \A p \in Processes : ~proc[p].quiet
      BY DEF Init, NoProcess
  <2> QED BY <2>1 DEF QuietInv
<1>2. Inv /\ QuietInv /\ [Next]_vars => (Inv /\ QuietInv)'
    BY NextInv, NextQuiet
<1>3. Inv /\ QuietInv => UninstallCleans
  <2> SUFFICES ASSUME Inv, QuietInv, NEW c \in Commands, At(c, "idle"), proc[c].reply = "ok",
                      proc[c].quiet
               PROVE  Clean /\ ~wanted
      BY DEF UninstallCleans, Clean
  <2>1. c \in Processes
      BY DEF Processes
  <2> QED BY <2>1 DEF QuietInv, Cleaned
<1> QED BY <1>1, <1>2, <1>3, PTL DEF Spec
=============================================================================
