----------------------------- MODULE Deployment -----------------------------
(***************************************************************************)
(* The commands server, install, uninstall and config of one deployment    *)
(* root (internal/command/command.go), and the service that systemd runs   *)
(* from it.  They share the files of .docker-control without any lock: an  *)
(* operator's command works on them while the service restarts.            *)
(*                                                                         *)
(* A step is one system call on a file, one call of systemctl or Docker.   *)
(* os.WriteFile is two: it opens, which empties the file, and then writes. *)
(* A process may be killed between any two steps.                          *)
(***************************************************************************)
EXTENDS Naturals

CONSTANTS
    Commands,   \* the operator's commands at a time (bound: reused)
    Service,    \* the process that systemd runs
    Base,       \* the configured port
    Fallbacks,  \* Config.PortFallbacks
    MaxPort,    \* 65535
    Sandboxes,  \* managed sandboxes (bound: reused when deleted)
    MaxFaults   \* calls that fail and processes that are killed (bound)

ASSUME DeploymentAssumption ==
    /\ Service \notin Commands
    /\ MaxPort \in Nat \ {0} /\ Base \in 1..MaxPort
    /\ Fallbacks \in Nat /\ MaxFaults \in Nat

VARIABLES
    file,      \* the files of the deployment
    linked,    \* systemd has the link to the unit
    wanted,    \* systemd runs the service, and restarts it when it fails
    sandboxes, \* the managed sandboxes
    snapshot,  \* there are snapshots
    proc,      \* the processes
    faults,    \* how many there were
    spoilt,    \* history: files were removed under a server, or in part
    torn,      \* history: a process was stopped before the marker was whole
    stuck      \* history: the last uninstall could not remove the link

docker == <<sandboxes, snapshot>>
systemd == <<linked, wanted>>
history == <<spoilt, torn, stuck>>
vars == <<file, systemd, docker, proc, faults, history>>

Processes == Commands \cup {Service}

(* What runtime.json says: which process serves, and where.                *)
Info == [by : Processes, port : 1..MaxPort]

(* What is in a file: nothing of it is written yet, or all is.             *)
Absent == [is |-> "absent"]
Empty == [is |-> "empty"]
Whole == [is |-> "whole"]

Names == {"config", "marker", "bin", "binTmp", "unit", "runtime", "runtimeTmp"}

Options == [server |-> {"env-file", "port-0"}, install |-> {"env-file", "no-start"},
            config |-> {"env-file"}, uninstall |-> {"keep-containers", "keep-files", "force"}]
Modes == DOMAIN Options

(* WriteFile and copyExecutable: what each pc opens, and what it fills.    *)
(* Variant, faulty on purpose and used by no action, like those below: the *)
(* binary is written in place.                                             *)
OpensInPlace == [openConfig |-> "config", openMarker |-> "marker", openEnv |-> "config",
                 openBin |-> "bin", openUnit |-> "unit", openRuntime |-> "runtimeTmp"]

Opens == [openConfig |-> "config", openMarker |-> "marker", openEnv |-> "config",
          openBin |-> "binTmp", openUnit |-> "unit", openRuntime |-> "runtimeTmp"]
Fills == [openConfig |-> "fillConfig", openMarker |-> "fillMarker", openEnv |-> "fillEnv",
          openBin |-> "fillBin", openUnit |-> "fillUnit", openRuntime |-> "fillRuntime"]

Naming == {"openRuntime", "fillRuntime", "renameRuntime", "removeRuntime", "renameAgain"}
Steps == {"stat", "statMarker", "listen", "serving", "removeBin", "renameBin", "link", "enable",
          "disable", "unlink", "list", "remove", "snapshots", "check", "removeFiles"}
         \cup Naming \cup DOMAIN Opens \cup {Fills[pc] : pc \in DOMAIN Fills}

(* todo: the sandboxes that uninstall has listed.  History: alone, no      *)
(* other server has begun to name itself since this one did; quiet, no     *)
(* server ran when uninstall had stopped the service, and nothing began    *)
(* since; after its end, that it also had no option.                       *)
Process == [mode : Modes \cup {"none"}, pc : Steps \cup {"idle"},
            opts : SUBSET UNION {Options[mode] : mode \in Modes}, port : 0..MaxPort,
            todo : SUBSET Sandboxes, alone : BOOLEAN, quiet : BOOLEAN,
            reply : {"none", "ok", "error"}]

TypeOK ==
    /\ file \in [Names -> {Absent, Empty, Whole} \cup Info]
    /\ \A name \in Names : file[name] \in Info => name \in {"runtime", "runtimeTmp"}
    /\ linked \in BOOLEAN /\ wanted \in BOOLEAN /\ snapshot \in BOOLEAN
    /\ spoilt \in BOOLEAN /\ torn \in BOOLEAN /\ stuck \in BOOLEAN
    /\ sandboxes \subseteq Sandboxes
    /\ proc \in [Processes -> Process]
    /\ faults \in 0..MaxFaults
    /\ \A p \in Processes : proc[p].pc \in Naming \cup {"serving"} => proc[p].port # 0

NoProcess == [mode |-> "none", pc |-> "idle", opts |-> {}, port |-> 0, todo |-> {},
              alone |-> FALSE, quiet |-> FALSE, reply |-> "none"]

Init ==
    /\ file = [name \in Names |-> Absent]
    /\ linked = FALSE /\ wanted = FALSE /\ sandboxes = {} /\ snapshot = FALSE
    /\ proc = [p \in Processes |-> NoProcess]
    /\ faults = 0 /\ spoilt = FALSE /\ torn = FALSE /\ stuck = FALSE

At(p, pc) == proc[p].pc = pc
Has(p, option) == option \in proc[p].opts
Serving(p) == At(p, "serving")

(* On the way from a configuration to a whole marker.                      *)
Marking(p) == proc[p].pc \in {"fillConfig", "statMarker", "openMarker", "fillMarker"}
Unmarked(p) == Marking(p) /\ file.marker # Whole

ServerLives == wanted \/ \E p \in Processes : proc[p].mode = "server"
Listening == {proc[p].port : p \in {q \in Processes : proc[q].pc \in Naming \cup {"serving"}}}

Goto(p, pc) == proc' = [proc EXCEPT ![p].pc = pc]

(* What is remembered of a process is what UninstallCleans asks for.       *)
End(p, reply) ==
    proc' = [proc EXCEPT ![p] =
        [NoProcess EXCEPT !.reply = reply, !.quiet = proc[p].quiet /\ proc[p].opts = {}]]
Set(name, content) == file' = [file EXCEPT ![name] = content]

-----------------------------------------------------------------------------
(* A process begins.                                                       *)

(* A new command is a new actor for an uninstall that was done.            *)
Began(p, mode, opts) ==
    [q \in Processes |->
        IF q = p
        THEN [NoProcess EXCEPT !.mode = mode, !.opts = opts, !.port = Base,
                               !.pc = IF mode = "uninstall" THEN "disable" ELSE "stat"]
        ELSE [proc[q] EXCEPT !.quiet = FALSE]]

(* Foreground servers run beside anything; of the other commands the       *)
(* operator runs one at a time.                                            *)
Begin(c) ==
    /\ At(c, "idle")
    /\ \E mode \in Modes : \E opts \in SUBSET Options[mode] :
          /\ mode # "server" => \A q \in Commands : proc[q].mode \in {"none", "server"}
          /\ proc' = Began(c, mode, opts)
    /\ UNCHANGED <<file, systemd, docker, faults, history>>

(* Variant: Restart=no.                                                    *)
StartOnce ==
    /\ wanted /\ At(Service, "idle") /\ proc[Service].reply = "none"
    /\ file.bin = Whole /\ file.config # Absent
    /\ proc' = Began(Service, "server", {})
    /\ UNCHANGED <<file, systemd, docker, faults, history>>

(* systemdUnit: Restart=on-failure, EnvironmentFile is required.  A unit   *)
(* that is loaded may be known also without its link.                      *)
StartService ==
    /\ wanted /\ At(Service, "idle")
    /\ file.bin = Whole /\ file.config # Absent
    /\ proc' = Began(Service, "server", {})
    /\ UNCHANGED <<file, systemd, docker, faults, history>>

-----------------------------------------------------------------------------
(* prepare, of server, install and config.                                 *)

AfterMarker(p) ==
    IF proc[p].mode = "server" THEN "listen"
    ELSE IF proc[p].mode = "config" THEN "done"
    ELSE IF Has(p, "env-file") THEN "openEnv" ELSE "openBin"

Continue(p, pc) == IF pc = "done" THEN End(p, "ok") ELSE Goto(p, pc)

(* Variant: the marker is made together with the configuration only.       *)
StatOnce(p) ==
    /\ At(p, "stat")
    /\ Continue(p, IF Has(p, "env-file") THEN "statMarker"
                   ELSE IF file.config = Absent THEN "openConfig" ELSE AfterMarker(p))
    /\ UNCHANGED <<file, systemd, docker, faults, history>>

Stat(p) ==
    /\ At(p, "stat")
    /\ Goto(p, IF ~Has(p, "env-file") /\ file.config = Absent THEN "openConfig"
               ELSE "statMarker")
    /\ UNCHANGED <<file, systemd, docker, faults, history>>

StatMarker(p) ==
    /\ At(p, "statMarker")
    /\ Continue(p, IF file.marker = Absent THEN "openMarker" ELSE AfterMarker(p))
    /\ UNCHANGED <<file, systemd, docker, faults, history>>

Open(p) ==
    /\ proc[p].pc \in DOMAIN Opens
    /\ Set(Opens[proc[p].pc], Empty)
    /\ Goto(p, Fills[proc[p].pc])
    /\ UNCHANGED <<systemd, docker, faults, history>>

(* The file may be gone, by an uninstall under a living server.            *)
Fill(p) ==
    /\ \E pc \in DOMAIN Opens \ {"openRuntime"} :
          /\ At(p, Fills[pc])
          /\ IF file[Opens[pc]] = Absent THEN UNCHANGED file ELSE Set(Opens[pc], Whole)
          /\ Continue(p, CASE pc = "openConfig" -> "statMarker"
                           [] pc = "openMarker" -> AfterMarker(p)
                           [] pc = "openEnv" -> "openBin"
                           [] pc = "openBin" -> "removeBin"
                           [] pc = "openUnit" -> "link")
    /\ torn' = (torn /\ ~At(p, "fillMarker"))
    /\ UNCHANGED <<systemd, docker, faults, spoilt, stuck>>

-----------------------------------------------------------------------------
(* server: ListenWithFallback and WriteRuntimeFile.                        *)

Listen(p) ==
    /\ At(p, "listen")
    /\ \E n \in (1..MaxPort) \ Listening :
          /\ Has(p, "port-0") \/ n = proc[p].port
          /\ proc' = [q \in Processes |->
                IF q = p
                THEN [proc[p] EXCEPT !.pc = "openRuntime", !.port = n,
                         !.alone = \A other \in Processes : proc[other].pc \notin Naming]
                ELSE [proc[q] EXCEPT !.alone = FALSE]]
    /\ UNCHANGED <<file, systemd, docker, faults, history>>

(* Variant: no bound but the number of fallbacks.                          *)
TryNextBeyond(p) ==
    LET port == proc[p].port IN
    IF port < Base + Fallbacks
    THEN proc' = [proc EXCEPT ![p].port = port + 1]
    ELSE End(p, "error")

TryNext(p) ==
    LET port == proc[p].port IN
    IF port < Base + Fallbacks /\ port < MaxPort
    THEN proc' = [proc EXCEPT ![p].port = port + 1]
    ELSE End(p, "error")

PortTaken(p) ==
    /\ At(p, "listen") /\ ~Has(p, "port-0")
    /\ \/ proc[p].port \in Listening /\ UNCHANGED faults
       \/ faults < MaxFaults /\ faults' = faults + 1
    /\ TryNext(p)
    /\ UNCHANGED <<file, systemd, docker, history>>

(* What a server writes into a file that another one has opened too lands  *)
(* in it, or in the runtime file if it was renamed, or nowhere.            *)
FillRuntime(p) ==
    LET info == [by |-> p, port |-> proc[p].port] IN
    /\ At(p, "fillRuntime")
    /\ \E name \in IF proc[p].alone THEN {"runtimeTmp"} ELSE {"runtimeTmp", "runtime"} :
          IF file[name] = Absent THEN UNCHANGED file ELSE Set(name, info)
    /\ Goto(p, "renameRuntime")
    /\ UNCHANGED <<systemd, docker, faults, history>>

RenameRuntime(p) ==
    /\ proc[p].pc \in {"renameRuntime", "renameAgain"}
    /\ file.runtimeTmp # Absent
    /\ file' = [file EXCEPT !.runtime = file.runtimeTmp, !.runtimeTmp = Absent]
    /\ Goto(p, "serving")
    /\ UNCHANGED <<systemd, docker, faults, history>>

RenameFails(p) ==
    /\ \/ file.runtimeTmp = Absent /\ UNCHANGED faults
       \/ file.runtimeTmp # Absent /\ faults < MaxFaults /\ faults' = faults + 1
    /\ \/ At(p, "renameRuntime") /\ Goto(p, "removeRuntime")
       \/ At(p, "renameAgain") /\ End(p, "error")
    /\ UNCHANGED <<file, systemd, docker, history>>

(* Variant: no second rename.                                              *)
RemoveRuntimeOnly(p) ==
    /\ At(p, "removeRuntime")
    /\ Set("runtime", Absent)
    /\ Goto(p, "serving")
    /\ UNCHANGED <<systemd, docker, faults, history>>

RemoveRuntime(p) ==
    /\ At(p, "removeRuntime")
    /\ Set("runtime", Absent)
    /\ Goto(p, "renameAgain")
    /\ UNCHANGED <<systemd, docker, faults, history>>

(* Requests make sandboxes and snapshots, and delete them.                 *)
Serve(p) ==
    /\ Serving(p)
    /\ \/ \E b \in Sandboxes : sandboxes' \in {sandboxes \cup {b}, sandboxes \ {b}}
             /\ UNCHANGED snapshot
       \/ (sandboxes # {} \/ snapshot) /\ snapshot' = ~snapshot /\ UNCHANGED sandboxes
    /\ UNCHANGED <<file, systemd, proc, faults, history>>

(* A signal ends a foreground server without an error.                     *)
Interrupt(c) ==
    /\ Serving(c)
    /\ End(c, "ok")
    /\ UNCHANGED <<file, systemd, docker, faults, history>>

-----------------------------------------------------------------------------
(* install: copyExecutable, the unit, systemctl.                           *)

(* The installed binary installs itself; it is made executable only.       *)
CopyNothing(p) ==
    /\ At(p, "openBin")
    /\ file.bin = Whole
    /\ Goto(p, "openUnit")
    /\ UNCHANGED <<file, systemd, docker, faults, history>>

(* The outcome of the Remove is ignored.                                   *)
RemoveBin(p) ==
    /\ At(p, "removeBin")
    /\ \/ Set("bin", Absent) /\ UNCHANGED faults
       \/ faults < MaxFaults /\ faults' = faults + 1 /\ UNCHANGED file
    /\ Goto(p, "renameBin")
    /\ UNCHANGED <<systemd, docker, history>>

RenameBin(p) ==
    /\ At(p, "renameBin")
    /\ file.binTmp # Absent
    /\ file' = [file EXCEPT !.bin = file.binTmp, !.binTmp = Absent]
    /\ Goto(p, "openUnit")
    /\ UNCHANGED <<systemd, docker, faults, history>>

(* systemctl link --force and daemon-reload.                               *)
Link(p) ==
    /\ At(p, "link")
    /\ linked' = TRUE
    /\ Continue(p, IF Has(p, "no-start") THEN "done" ELSE "enable")
    /\ UNCHANGED <<file, wanted, docker, faults, history>>

(* systemctl enable --now; a service that runs is not restarted.           *)
Enable(p) ==
    /\ At(p, "enable")
    /\ wanted' = TRUE
    /\ End(p, "ok")
    /\ UNCHANGED <<file, linked, docker, faults, history>>

-----------------------------------------------------------------------------
(* uninstall.                                                              *)

(* systemctl disable --now knows the unit by its link, which it removes.   *)
(* Its failure is ignored.                                                 *)
Disable(p) ==
    LET stopped == [proc EXCEPT ![Service] = NoProcess]
        Lives(q) == stopped[q].mode = "server"
    IN
    /\ At(p, "disable")
    /\ \/ /\ linked
          /\ linked' = FALSE /\ wanted' = FALSE
          /\ proc' = [stopped EXCEPT ![p].pc = "unlink",
                                     ![p].quiet = \A q \in Processes : ~Lives(q)]
          /\ torn' = (torn \/ Unmarked(Service))
          /\ UNCHANGED faults
       \/ /\ \/ ~linked /\ UNCHANGED faults
             \/ linked /\ faults < MaxFaults /\ faults' = faults + 1
          /\ proc' = [proc EXCEPT ![p].pc = "unlink", ![p].quiet = ~ServerLives]
          /\ UNCHANGED <<systemd, torn>>
    /\ UNCHANGED <<file, docker, spoilt, stuck>>

(* removeOwnedUnitLink and daemon-reload.  Their outcome is ignored: a     *)
(* link that cannot be read or removed stays (this is not counted among    *)
(* the faults).                                                            *)
Unlink(p) ==
    /\ At(p, "unlink")
    /\ linked' \in {FALSE, linked}
    /\ stuck' = linked'
    /\ Goto(p, IF Has(p, "keep-containers") THEN "check" ELSE "list")
    /\ UNCHANGED <<file, wanted, docker, faults, spoilt, torn>>

(* cleanManagedSandboxes.                                                  *)
List(p) ==
    /\ At(p, "list")
    /\ proc' = [proc EXCEPT ![p].pc = "remove", ![p].todo = sandboxes]
    /\ UNCHANGED <<file, systemd, docker, faults, history>>

Remove(p) ==
    /\ At(p, "remove")
    /\ \/ \E b \in proc[p].todo :
             /\ sandboxes' = sandboxes \ {b}
             /\ proc' = [proc EXCEPT ![p].todo = @ \ {b}]
       \/ proc[p].todo = {} /\ Goto(p, "snapshots") /\ UNCHANGED sandboxes
    /\ UNCHANGED <<file, systemd, snapshot, faults, history>>

RemoveSnapshots(p) ==
    /\ At(p, "snapshots")
    /\ snapshot' = FALSE
    /\ Goto(p, "check")
    /\ UNCHANGED <<file, systemd, sandboxes, faults, history>>

(* Variant: a failed cleanup is never an error.                            *)
CleaningFailsSilently(p) ==
    /\ proc[p].pc \in {"list", "remove", "snapshots"}
    /\ faults < MaxFaults /\ faults' = faults + 1
    /\ Goto(p, "check")
    /\ UNCHANGED <<file, systemd, docker, history>>

CleaningFails(p) ==
    /\ proc[p].pc \in {"list", "remove", "snapshots"}
    /\ faults < MaxFaults /\ faults' = faults + 1
    /\ IF Has(p, "force") THEN Goto(p, "check") ELSE End(p, "error")
    /\ UNCHANGED <<file, systemd, docker, history>>

(* safeRemoveState: the marker must be there, and whole.                   *)
Check(p) ==
    /\ At(p, "check")
    /\ IF Has(p, "keep-files") THEN End(p, "ok")
       ELSE IF file.marker = Whole THEN Goto(p, "removeFiles") ELSE End(p, "error")
    /\ UNCHANGED <<file, systemd, docker, faults, history>>

(* os.RemoveAll goes through the directory in any order.  The files of a   *)
(* server that lives are spoilt.                                           *)
RemoveFile(p) ==
    /\ At(p, "removeFiles")
    /\ \E name \in Names : file[name] # Absent /\ Set(name, Absent)
    /\ spoilt' = (spoilt \/ ServerLives)
    /\ UNCHANGED <<systemd, docker, proc, faults, torn, stuck>>

FilesRemoved(p) ==
    /\ At(p, "removeFiles")
    /\ \A name \in Names : file[name] = Absent
    /\ End(p, "ok")
    /\ UNCHANGED <<file, systemd, docker, faults, history>>

-----------------------------------------------------------------------------
(* A process is killed; or a system call or systemctl fails, and it ends   *)
(* with the error.  A RemoveAll that ends like this, perhaps because new   *)
(* files appear in a directory it has gone through, leaves some of the     *)
(* files, perhaps without the marker.                                      *)
Kill(p) ==
    /\ ~At(p, "idle")
    /\ faults < MaxFaults /\ faults' = faults + 1
    /\ End(p, "error")
    /\ spoilt' = (spoilt \/ At(p, "removeFiles"))
    /\ torn' = (torn \/ Unmarked(p))
    /\ UNCHANGED <<file, systemd, docker, stuck>>

Step(p) ==
    \/ Stat(p) \/ StatMarker(p) \/ Open(p) \/ Fill(p)
    \/ Listen(p) \/ PortTaken(p) \/ FillRuntime(p) \/ RenameRuntime(p) \/ RenameFails(p)
    \/ RemoveRuntime(p)
    \/ CopyNothing(p) \/ RemoveBin(p) \/ RenameBin(p) \/ Link(p) \/ Enable(p)
    \/ Disable(p) \/ Unlink(p) \/ List(p) \/ Remove(p) \/ RemoveSnapshots(p) \/ CleaningFails(p)
    \/ Check(p) \/ RemoveFile(p) \/ FilesRemoved(p)

Next ==
    \/ \E p \in Processes : Step(p) \/ Serve(p) \/ Kill(p)
    \/ \E c \in Commands : Begin(c) \/ Interrupt(c)
    \/ StartService

Spec == Init /\ [][Next]_vars

(* The service's process runs on, and systemd restarts it after three      *)
(* seconds.  The operator need not do anything.                            *)
FairSpec == Spec /\ WF_vars(Step(Service)) /\ WF_vars(StartService)

-----------------------------------------------------------------------------
(* copyExecutable: whatever is killed or fails, what systemd is to execute *)
(* is a whole binary, or there is none.                                    *)
BinaryWhole == file.bin # Empty

(* ensureMarker, for safeRemoveState, which refuses files without a whole  *)
(* marker.  All that the commands put there but the configuration has a    *)
(* marker, also after commands that were killed on the way to it.  And     *)
(* whenever there is any file, the marker is whole or on its way, unless a *)
(* process was stopped on this way and no later one has written the marker *)
(* (none does when it was left empty).                                     *)
Owned ==
    ~spoilt /\ (\A c \in Commands : ~At(c, "removeFiles")) =>
       /\ \A name \in Names \ {"config"} : file[name] # Absent => file.marker # Absent
       /\ \A name \in Names : file[name] # Absent =>
             torn \/ file.marker = Whole \/ \E p \in Processes : Marking(p)

(* Once a server serves, runtime.json says where, until another one names  *)
(* itself.                                                                 *)
RuntimeNames ==
    \A p \in Processes :
       Serving(p) /\ proc[p].alone /\ ~spoilt
          => file.runtime = [by |-> p, port |-> proc[p].port]

(* README.md:262: after an uninstall that reports success there is nothing *)
(* left, if no server ran on after the attempt to stop it; but for the     *)
(* link, if this very uninstall could not remove it, which it ignores.     *)
UninstallCleans ==
    \A c \in Commands :
       At(c, "idle") /\ proc[c].reply = "ok" /\ proc[c].quiet
          => /\ sandboxes = {} /\ ~snapshot /\ ~wanted /\ (linked => stuck)
             /\ \A name \in Names : file[name] = Absent

(* An installed service serves again and again, whatever commands run,     *)
(* unless one of them was killed while there was no binary, other servers  *)
(* never stop naming themselves, or an uninstall that could not stop the   *)
(* service never stops removing its files.                                 *)
Startable ==
    /\ wanted /\ linked /\ file.bin = Whole /\ file.config # Absent
    /\ \A c \in Commands : proc[c].pc \notin Naming \cup {"removeFiles"}

ServiceReturns == <>[]Startable => []<>Serving(Service)
=============================================================================
