---------------------------- MODULE TerminalHub ----------------------------
(***************************************************************************)
(* TerminalHub.Serve (internal/controller/terminal.go) over the WebSocket  *)
(* of websocket.go, one goroutine per terminal window: it takes a slot of  *)
(* the hub, upgrades the connection, then reads commands under an idle     *)
(* deadline, streams each command's output, and gives the slot back.       *)
(*                                                                         *)
(* A step is one atomic operation on the counter, one frame read or        *)
(* written, or one answer of Docker.  Reads have a deadline; writes have   *)
(* none, and wait for a client that does not read.                         *)
(***************************************************************************)
EXTENDS Naturals, FiniteSets

CONSTANTS
    Windows,    \* connections a client may open (bound: reused when closed)
    MaxWindows, \* Config.MaxTerminalWindows
    MaxOutput,  \* Config.MaxOutputBytes
    MaxProduced \* bytes of output of one command (bound)

ASSUME HubAssumption ==
    /\ IsFiniteSet(Windows)
    /\ MaxWindows \in Nat \ {0}
    /\ MaxOutput \in Nat
    /\ MaxProduced \in Nat

VARIABLES
    open,  \* TerminalHub.open
    window \* the goroutine of each connection, and its client

hubVars == <<open, window>>

Out == INSTANCE OutputStream WITH Limit <- MaxOutput

(* Where the goroutine is.  Before the slot: "load" and "swap" of acquire. *)
(* With it: the write of an event, or one of the others.                   *)
Outside == {"closed", "load", "swap"}
Events == {"ready", "started", "output", "exit", "error", "refused", "pong", "control",
           "reclaimed"}
Holding == Events \cup {"upgrade", "read", "exec", "close", "release"}
Clients == {"reads", "stalled", "gone"}

(* seen: the counter that acquire loaded.  last: the last event written,   *)
(* other than answers to pings.  expired: the idle deadline has passed.    *)
(* stream: the output of the running command as readDockerStream has it.   *)
(* produced: the bytes it has written.                                     *)
Window == [pc : Outside \cup Holding, seen : Nat,
           last : {"none", "ready", "started", "output", "exit", "error", "reclaimed"},
           client : Clients, expired : BOOLEAN, stream : Out!Stream, produced : 0..MaxProduced]

TypeOK == open \in Nat /\ window \in [Windows -> Window]

NoWindow == [pc |-> "closed", seen |-> 0, last |-> "none", client |-> "reads",
             expired |-> FALSE, stream |-> Out!Empty, produced |-> 0]

Init == open = 0 /\ window = [w \in Windows |-> NoWindow]

At(w, pc) == window[w].pc = pc
Goto(w, pc) == window' = [window EXCEPT ![w].pc = pc]
Become(w, new) == window' = [window EXCEPT ![w] = new]

Holders == {w \in Windows : window[w].pc \in Holding}

-----------------------------------------------------------------------------
(* acquire and the deferred release.                                       *)

Connect(w) ==
    /\ At(w, "closed")
    /\ Goto(w, "load")
    /\ UNCHANGED open

(* Variants, faulty on purpose; no action uses them.  Mutations replace    *)
(* the definition below by one of them, to see which property notices.     *)
(* Here: release deferred before acquire is checked; one window too many.  *)
LoadDeferred(w) ==
    /\ At(w, "load")
    /\ Become(w, [window[w] EXCEPT !.pc = IF open >= MaxWindows THEN "release" ELSE "swap",
                                   !.seen = open])
    /\ UNCHANGED open

LoadOneMore(w) ==
    /\ At(w, "load")
    /\ Become(w, IF open > MaxWindows THEN NoWindow
                 ELSE [window[w] EXCEPT !.pc = "swap", !.seen = open])
    /\ UNCHANGED open

(* Load; a full hub answers 503.                                           *)
Load(w) ==
    /\ At(w, "load")
    /\ IF open >= MaxWindows
       THEN Become(w, NoWindow)
       ELSE Become(w, [window[w] EXCEPT !.pc = "swap", !.seen = open])
    /\ UNCHANGED open

(* Variant: a store that does not compare.                                 *)
SwapBlindly(w) ==
    /\ At(w, "swap")
    /\ open' = window[w].seen + 1
    /\ Goto(w, "upgrade")

(* CompareAndSwap; when another window was faster, load again.             *)
Swap(w) ==
    /\ At(w, "swap")
    /\ IF open = window[w].seen
       THEN open' = open + 1 /\ Goto(w, "upgrade")
       ELSE UNCHANGED open /\ Goto(w, "load")

(* The close frame and the connection's end, deferred last and run first.  *)
Close(w) ==
    /\ At(w, "close")
    /\ window[w].client # "stalled"
    /\ Goto(w, "release")
    /\ UNCHANGED open

Release(w) ==
    /\ At(w, "release")
    /\ open' = open - 1
    /\ Become(w, NoWindow)

(* Hijacking and the 101 answer; an error is answered with 400.            *)
Upgrade(w) ==
    /\ At(w, "upgrade")
    /\ \E next \in {"ready", "release"} : Goto(w, next)
    /\ UNCHANGED open

-----------------------------------------------------------------------------
(* Writing an event.  The write may fail once the client is gone, and does *)
(* not return while the client is stalled.                                 *)

(* "refused" is the error event for a frame that is no good command,       *)
(* "error" the one for a failed ExecStream.  A pong and a refusal are sent *)
(* without looking at the outcome; a failed "output" fails ExecStream,     *)
(* which Serve then tries to report; other failures end the window.        *)
AfterWrite(event) ==
    IF event \in {"started", "output"} THEN "exec"
    ELSE IF event = "reclaimed" THEN "close"
    ELSE "read"

AfterFailure(event) ==
    IF event = "output" THEN "error"
    ELSE IF event \in {"pong", "refused"} THEN "read"
    ELSE "close"

Kind(event) == IF event = "refused" THEN "error" ELSE event

Write(w) ==
    LET event == window[w].pc IN
    /\ event \in Events
    /\ window[w].client # "stalled"
    /\ \/ Become(w, [window[w] EXCEPT
             !.pc = AfterWrite(event),
             !.last = IF event \in {"pong", "control"} THEN @ ELSE Kind(event),
             !.stream = IF event = "started" THEN Out!Empty ELSE @,
             !.produced = IF event = "started" THEN 0 ELSE @])
       \/ /\ window[w].client = "gone"
          /\ Goto(w, AfterFailure(event))
    /\ UNCHANGED open

-----------------------------------------------------------------------------
(* Reading.                                                                *)

Reading(w) == At(w, "read") /\ ~window[w].expired

(* A text frame: a command, a bad one, "ping" or "close".                  *)
ReadText(w) ==
    /\ Reading(w)
    /\ window[w].client # "gone"
    /\ \E next \in {"started", "refused", "pong", "close"} : Goto(w, next)
    /\ UNCHANGED open

(* A WebSocket ping is answered, inside readText, under the same deadline; *)
(* a pong is skipped.                                                      *)
ReadControl(w) ==
    /\ Reading(w)
    /\ window[w].client # "gone"
    /\ Goto(w, "control")
    /\ UNCHANGED open

(* The end of the stream, or a frame that readText rejects.                *)
ReadFails(w) ==
    /\ Reading(w)
    /\ Goto(w, "close")
    /\ UNCHANGED open

(* The deadline fails the read, even of a client that left meanwhile.      *)
ReadExpires(w) ==
    /\ At(w, "read")
    /\ window[w].expired
    /\ Goto(w, "reclaimed")
    /\ UNCHANGED open

(* Variant: every frame is read under a fresh deadline.                    *)
ExpireInRead(w) ==
    /\ At(w, "read")
    /\ ~window[w].expired
    /\ window' = [window EXCEPT ![w].expired = TRUE]
    /\ UNCHANGED open

(* The idle time is over.  It is not while a command runs (the deadline is *)
(* cleared before "started").                                              *)
Expire(w) ==
    /\ window[w].pc \in {"read", "control"}
    /\ ~window[w].expired
    /\ window' = [window EXCEPT ![w].expired = TRUE]
    /\ UNCHANGED open

-----------------------------------------------------------------------------
(* ExecStream in the sandbox.                                              *)

(* readDockerStream takes a frame of n bytes, and hands on what is within  *)
(* the limit.                                                              *)
Output(w) ==
    /\ At(w, "exec")
    /\ \E n \in 1..(MaxProduced - window[w].produced) :
          Become(w, [window[w] EXCEPT
             !.pc = IF Out!Chunk(window[w].stream, n) > 0 THEN "output" ELSE "exec",
             !.stream = Out!Accept(@, n),
             !.produced = @ + n])
    /\ UNCHANGED open

(* Variants: the end of a command is not told; a command without a timeout *)
(* ends by the size of its output only.                                    *)
ExecEndsUntold(w) ==
    /\ At(w, "exec")
    /\ \E next \in {"read", "error", "close"} : Goto(w, next)
    /\ UNCHANGED open

ExecEndsUntimed(w) ==
    /\ At(w, "exec")
    /\ window[w].produced = MaxProduced
    /\ Goto(w, "exit")
    /\ UNCHANGED open

(* The command ends, by itself or by its timeout; or ExecStream fails: the *)
(* sandbox is not ready, Docker errs or does not answer in time.  An EOF   *)
(* of Docker's is taken for the client's end.                              *)
ExecEnds(w) ==
    /\ At(w, "exec")
    /\ \E next \in {"exit", "error", "close"} : Goto(w, next)
    /\ UNCHANGED open

(* Clients come and go as they please.                                     *)
ClientMoves(w) ==
    /\ window[w].pc \in Holding \ {"upgrade", "release"}
    /\ window[w].client # "gone"
    /\ \E client \in Clients :
          window' = [window EXCEPT ![w].client = client]
    /\ UNCHANGED open

-----------------------------------------------------------------------------
Serve(w) ==
    \/ Load(w) \/ Swap(w) \/ Upgrade(w) \/ Write(w) \/ ReadExpires(w)
    \/ ExecEnds(w) \/ Close(w) \/ Release(w)

Next == \E w \in Windows :
    \/ Connect(w) \/ Serve(w) \/ Expire(w) \/ Output(w) \/ ClientMoves(w)
    \/ ReadText(w) \/ ReadControl(w) \/ ReadFails(w)

Spec == Init /\ [][Next]_hubVars

(* Goroutines run on, deadlines pass, and ExecStream ends by the timeout   *)
(* of the command and of its context.  Nothing makes a client send, leave  *)
(* or read.                                                                *)
FairSpec ==
    /\ Spec
    /\ \A w \in Windows : WF_hubVars(Serve(w)) /\ WF_hubVars(Expire(w))

-----------------------------------------------------------------------------
(* The counter is the number of windows that hold a slot, whichever way    *)
(* they end and whatever acquires race: no slot is lost or given twice.    *)
SlotsCounted == open = Cardinality(Holders)

Slots == INSTANCE WindowSlots WITH holders <- Holders

(* Acquire and release together behave as one atomic step each, and never  *)
(* let more than MaxWindows windows in.                                    *)
SlotsImplemented == Slots!Spec

(* Events come in the documented order (README.md:142): ready first, once; *)
(* output and exit only of a command that started; nothing after           *)
(* reclaimed, and reclaimed never between started and the command's end.   *)
Follows == [none |-> {"ready"},
            ready |-> {"started", "error", "reclaimed"},
            started |-> {"output", "exit", "error"},
            output |-> {"output", "exit", "error"},
            exit |-> {"started", "error", "reclaimed"},
            error |-> {"started", "error", "reclaimed"},
            reclaimed |-> {}]

EventOrder ==
    \A w \in Windows :
       LET event == window[w].pc IN
       event \in Events \ {"pong", "control"} => Kind(event) \in Follows[window[w].last]

(* What a command printed is accounted for exactly, however it is cut into *)
(* frames: the client was sent the first MaxOutput bytes, "exit" says      *)
(* truncated if and only if there were more, and it follows an "output"    *)
(* if and only if something was sent.                                      *)
OutputAccounted ==
    \A w \in Windows :
       /\ window[w].pc \in {"exec", "output", "exit"}
             => Out!Accounts(window[w].stream, window[w].produced)
       /\ window[w].pc \in {"exec", "exit"}
             => (window[w].last = "output" <=> window[w].stream.out > 0)

(* Writes have no deadline: nothing ends while a client keeps its          *)
(* connection and does not read.                                           *)
Stalls(w) == window[w].client = "stalled"

(* A window whose client says nothing, or only sends WebSocket pings, does *)
(* not stay open: it leaves the wait for commands again and again.         *)
IdleIsLeft ==
    \A w \in Windows :
       window[w].pc \in {"read", "control"}
          ~> window[w].pc \notin {"read", "control"} \/ Stalls(w)

(* "A running command is limited only by the execution timeout"            *)
(* (README.md:146) and by a client that stalls: a command that was started *)
(* is over at some time.                                                   *)
CommandEnds ==
    \A w \in Windows :
       window[w].pc \in {"exec", "output"}
          ~> window[w].pc \notin {"exec", "output"} \/ Stalls(w)
=============================================================================
