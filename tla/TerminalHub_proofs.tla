------------------------- MODULE TerminalHub_proofs -------------------------
(***************************************************************************)
(* The slots of the terminal hub, for any number of connections and any    *)
(* limit.                                                                  *)
(***************************************************************************)
EXTENDS TerminalHub, FiniteSetTheorems, TLAPS

(* A frame more or less never leaves the limit.                            *)
LEMMA StreamType ==
    /\ Out!Empty \in Out!Stream
    /\ \A s \in Out!Stream, n \in Nat : Out!Accept(s, n) \in Out!Stream
BY HubAssumption DEF Out!Stream, Out!Empty, Out!Accept, Out!Chunk

LEMMA InitTypeOK == Init => TypeOK
BY HubAssumption, StreamType DEF Init, TypeOK, Window, NoWindow, Outside, Clients

(* The counter loaded by a window that is about to swap was below the      *)
(* limit; the swap succeeds only if the counter still is that value.       *)
SeenBelow == \A w \in Windows : At(w, "swap") => window[w].seen < MaxWindows

(* Only Swap and Release touch the counter; SlotsCounted is what keeps it  *)
(* from going below zero, so it is part of the induction with the types.   *)
HubInv == TypeOK /\ SlotsCounted /\ SeenBelow

LEMMA HoldersFinite == IsFiniteSet(Holders) /\ Cardinality(Holders) \in Nat
<1>1. IsFiniteSet(Holders)
    BY HubAssumption, FS_Subset DEF Holders
<1> QED BY <1>1, FS_CardinalityType

(* A step of window w that takes it neither in nor out.                    *)
LEMMA SameHolders ==
    ASSUME NEW w \in Windows, NEW new \in Window, TypeOK,
           window' = [window EXCEPT ![w] = new],
           w \in Holders <=> new.pc \in Holding
    PROVE  Holders' = Holders
BY DEF Holders, TypeOK

LEMMA HolderAdded ==
    ASSUME NEW w \in Windows, NEW new \in Window, TypeOK,
           window' = [window EXCEPT ![w] = new],
           w \notin Holders, new.pc \in Holding
    PROVE  /\ Holders' = Holders \cup {w}
           /\ Cardinality(Holders') = Cardinality(Holders) + 1
<1>1. Holders' = Holders \cup {w}
    BY DEF Holders, TypeOK
<1> QED BY <1>1, HoldersFinite, FS_AddElement

LEMMA HolderRemoved ==
    ASSUME NEW w \in Windows, NEW new \in Window, TypeOK,
           window' = [window EXCEPT ![w] = new],
           w \in Holders, new.pc \notin Holding
    PROVE  /\ Holders' = Holders \ {w}
           /\ Cardinality(Holders') = Cardinality(Holders) - 1
<1>1. Holders' = Holders \ {w}
    BY DEF Holders, TypeOK
<1> QED BY <1>1, HoldersFinite, FS_RemoveElement

-----------------------------------------------------------------------------
(* Every step of a window is one of these three.                           *)
Quiet(w) ==
    \E new \in Window :
       /\ window' = [window EXCEPT ![w] = new]
       /\ w \in Holders <=> new.pc \in Holding
       /\ new.pc = "swap" => new.seen < MaxWindows
       /\ open' = open

Enters(w) ==
    \E new \in Window :
       /\ window' = [window EXCEPT ![w] = new]
       /\ w \notin Holders /\ new.pc \in Holding
       /\ open < MaxWindows /\ open' = open + 1

Leaves(w) ==
    \E new \in Window :
       /\ window' = [window EXCEPT ![w] = new]
       /\ w \in Holders /\ new.pc \notin Holding /\ new.pc # "swap"
       /\ open' = open - 1

(* A window that holds a slot and goes on holding it.                      *)
LEMMA Staying ==
    ASSUME TypeOK, NEW w \in Windows, window[w].pc \in Holding,
           NEW pc \in Holding, Goto(w, pc), UNCHANGED open
    PROVE  Quiet(w)
<1> DEFINE new == [window[w] EXCEPT !.pc = pc]
<1>1. new \in Window /\ new.pc = pc
    BY DEF TypeOK, Window
<1>2. window' = [window EXCEPT ![w] = new]
    BY DEF Goto
<1>3. w \in Holders /\ pc # "swap"
    BY DEF Holders, Holding, Events
<1> HIDE DEF new
<1> QED BY <1>1, <1>2, <1>3 DEF Quiet

LEMMA Steps ==
    ASSUME HubInv, NEW w \in Windows,
           \/ Connect(w) \/ Serve(w) \/ Expire(w) \/ Output(w) \/ ClientMoves(w)
           \/ ReadText(w) \/ ReadControl(w) \/ ReadFails(w)
    PROVE  Quiet(w) \/ Enters(w) \/ Leaves(w)
<1> USE DEF HubInv
<1>0. window[w] \in Window /\ NoWindow \in Window /\ NoWindow.pc = "closed"
    BY HubAssumption, StreamType DEF TypeOK, Window, NoWindow, Outside, Clients
<1>1. CASE Connect(w)
  <2> DEFINE new == [window[w] EXCEPT !.pc = "load"]
  <2>1. new \in Window /\ new.pc = "load"
      BY <1>0 DEF Window, Outside
  <2>2. window' = [window EXCEPT ![w] = new] /\ w \notin Holders /\ open' = open
      BY <1>1 DEF Connect, Goto, At, Holders, Holding, Events
  <2> HIDE DEF new
  <2> QED BY <2>1, <2>2 DEF Quiet, Holding, Events
<1>2. CASE Load(w)
  <2>1. w \notin Holders /\ open' = open
      BY <1>2 DEF Load, At, Holders, Holding, Events
  <2>2. CASE open >= MaxWindows
      BY <1>0, <1>2, <2>1, <2>2 DEF Load, Become, Quiet, Holding, Events
  <2>3. CASE ~ (open >= MaxWindows)
    <3> DEFINE new == [window[w] EXCEPT !.pc = "swap", !.seen = open]
    <3>1. new \in Window /\ new.pc = "swap" /\ new.seen = open
        BY <1>0 DEF Window, Outside, TypeOK
    <3>2. window' = [window EXCEPT ![w] = new]
        BY <1>2, <2>3 DEF Load, Become
    <3>3. open < MaxWindows
        BY <2>3, HubAssumption DEF TypeOK
    <3> HIDE DEF new
    <3> QED BY <2>1, <3>1, <3>2, <3>3 DEF Quiet, Holding, Events
  <2> QED BY <2>2, <2>3
<1>3. CASE Swap(w)
  <2>1. w \notin Holders /\ At(w, "swap")
      BY <1>3 DEF Swap, At, Holders, Holding, Events
  <2>2. CASE open = window[w].seen
    <3> DEFINE new == [window[w] EXCEPT !.pc = "upgrade"]
    <3>1. new \in Window /\ new.pc \in Holding
        BY <1>0 DEF Window, Holding
    <3>2. window' = [window EXCEPT ![w] = new] /\ open' = open + 1
        BY <1>3, <2>2 DEF Swap, Goto
    <3>3. open < MaxWindows
        BY <2>1, <2>2 DEF SeenBelow
    <3> HIDE DEF new
    <3> QED BY <2>1, <3>1, <3>2, <3>3 DEF Enters
  <2>3. CASE open # window[w].seen
    <3> DEFINE new == [window[w] EXCEPT !.pc = "load"]
    <3>1. new \in Window /\ new.pc = "load"
        BY <1>0 DEF Window, Outside
    <3>2. window' = [window EXCEPT ![w] = new] /\ open' = open
        BY <1>3, <2>3 DEF Swap, Goto
    <3> HIDE DEF new
    <3> QED BY <2>1, <3>1, <3>2 DEF Quiet, Holding, Events
  <2> QED BY <2>2, <2>3
<1>4. CASE Release(w)
    BY <1>0, <1>4 DEF Release, Become, Leaves, At, Holders, Holding, Events
<1>5. CASE Upgrade(w) \/ ReadExpires(w) \/ ExecEnds(w) \/ Close(w) \/ ReadText(w)
           \/ ReadControl(w) \/ ReadFails(w)
    BY <1>5, Staying
       DEF Upgrade, ReadExpires, ExecEnds, Close, ReadText, ReadControl, ReadFails, Reading, At,
           Holding, Events
<1>6. CASE Write(w)
  <2> DEFINE event == window[w].pc
             last == IF event \in {"pong", "control"} THEN window[w].last ELSE Kind(event)
             stream == IF event = "started" THEN Out!Empty ELSE window[w].stream
             produced == IF event = "started" THEN 0 ELSE window[w].produced
             new == [window[w] EXCEPT
                        !.pc = AfterWrite(event), !.last = last, !.stream = stream,
                        !.produced = produced]
  <2>1. event \in Events /\ open' = open
      BY <1>6 DEF Write
  <2>2. AfterFailure(event) \in Holding
      BY DEF AfterFailure, Holding, Events
  <2>3. CASE Goto(w, AfterFailure(event))
      BY <2>1, <2>2, <2>3, Staying DEF Holding
  <2>4. CASE Become(w, new)
    <3>1. AfterWrite(event) \in Holding /\ AfterWrite(event) # "swap"
        BY DEF AfterWrite, Holding, Events
    <3>2. last \in {"none", "ready", "started", "output", "exit", "error", "reclaimed"}
        BY <1>0, <2>1 DEF Kind, Events, Window
    <3>3. stream \in Out!Stream /\ produced \in 0..MaxProduced
        BY <1>0, HubAssumption, StreamType DEF Window
    <3>4. w \in Holders
        BY <2>1 DEF Holders, Holding
    <3> HIDE DEF last, stream, produced
    <3>5. new \in Window /\ new.pc = AfterWrite(event)
        BY <1>0, <3>1, <3>2, <3>3 DEF Window
    <3> HIDE DEF new
    <3> QED BY <2>1, <2>4, <3>1, <3>4, <3>5 DEF Become, Quiet
  <2> QED BY <1>6, <2>3, <2>4 DEF Write
<1>7. CASE Output(w)
  <2>0. PICK n \in 1..(MaxProduced - window[w].produced) :
           Become(w, [window[w] EXCEPT
              !.pc = IF Out!Chunk(window[w].stream, n) > 0 THEN "output" ELSE "exec",
              !.stream = Out!Accept(window[w].stream, n),
              !.produced = window[w].produced + n])
      BY <1>7 DEF Output
  <2> DEFINE pc == IF Out!Chunk(window[w].stream, n) > 0 THEN "output" ELSE "exec"
             stream == Out!Accept(window[w].stream, n)
             produced == window[w].produced + n
             new == [window[w] EXCEPT !.pc = pc, !.stream = stream, !.produced = produced]
  <2>1. pc \in Holding /\ pc # "swap"
      BY DEF Holding, Events
  <2>2. stream \in Out!Stream /\ produced \in 0..MaxProduced
    <3>1. /\ window[w].stream \in Out!Stream /\ window[w].produced \in 0..MaxProduced
          /\ MaxProduced \in Nat /\ n \in 1..(MaxProduced - window[w].produced)
        BY <1>0, HubAssumption DEF Window
    <3>2. n \in Nat /\ produced \in 0..MaxProduced
        BY <3>1
    <3> QED BY <3>1, <3>2, StreamType
  <2>3. window' = [window EXCEPT ![w] = new] /\ open' = open /\ w \in Holders
      BY <1>7, <2>0 DEF Output, Become, At, Holders, Holding
  <2> HIDE DEF pc, stream, produced
  <2>4. new \in Window /\ new.pc = pc
      BY <1>0, <2>1, <2>2 DEF Window
  <2> HIDE DEF new
  <2> QED BY <2>1, <2>3, <2>4 DEF Quiet
<1>8. CASE Expire(w)
  <2> DEFINE new == [window[w] EXCEPT !.expired = TRUE]
  <2>1. new \in Window /\ new.pc = window[w].pc
      BY <1>0 DEF Window
  <2>2. window' = [window EXCEPT ![w] = new] /\ open' = open
      BY <1>8 DEF Expire
  <2>3. window[w].pc \in Holding /\ window[w].pc # "swap"
      BY <1>8 DEF Expire, Holding, Events
  <2> HIDE DEF new
  <2> QED BY <2>1, <2>2, <2>3 DEF Quiet, Holders
<1>9. CASE ClientMoves(w)
  <2>1. PICK client \in Clients : window' = [window EXCEPT ![w].client = client]
      BY <1>9 DEF ClientMoves, Clients
  <2> DEFINE new == [window[w] EXCEPT !.client = client]
  <2>2. new \in Window /\ new.pc = window[w].pc
      BY <1>0 DEF Window
  <2>3. window' = [window EXCEPT ![w] = new] /\ open' = open
      BY <1>9, <2>1 DEF ClientMoves
  <2>4. window[w].pc \in Holding /\ window[w].pc # "swap"
      BY <1>9 DEF ClientMoves, Holding, Events
  <2> HIDE DEF new
  <2> QED BY <2>2, <2>3, <2>4 DEF Quiet, Holders
<1> QED BY <1>1, <1>2, <1>3, <1>4, <1>5, <1>6, <1>7, <1>8, <1>9 DEF Serve
-----------------------------------------------------------------------------
LEMMA InitInv == Init => HubInv /\ Slots!Init
<1> SUFFICES ASSUME Init PROVE HubInv /\ Slots!Init
    OBVIOUS
<1>1. Holders = {}
    BY DEF Init, Holders, NoWindow, Holding, Events
<1>2. SlotsCounted
    BY <1>1, FS_EmptySet DEF Init, SlotsCounted
<1>3. SeenBelow
    BY DEF Init, SeenBelow, At, NoWindow
<1> QED BY <1>1, <1>2, <1>3, InitTypeOK DEF HubInv, Slots!Init

(* One step: the invariant, and the step of WindowSlots that it makes.     *)
LEMMA NextInv ==
    HubInv /\ [Next]_hubVars => HubInv' /\ (Slots!Next \/ UNCHANGED Holders)
<1> SUFFICES ASSUME HubInv, [Next]_hubVars
             PROVE HubInv' /\ (Slots!Next \/ UNCHANGED Holders)
    OBVIOUS
<1> USE DEF HubInv
<1>1. CASE UNCHANGED hubVars
    BY <1>1 DEF hubVars, TypeOK, SlotsCounted, SeenBelow, At, Holders
<1>2. ASSUME NEW w \in Windows, Quiet(w) PROVE HubInv' /\ UNCHANGED Holders
  <2>1. PICK new \in Window :
           /\ window' = [window EXCEPT ![w] = new]
           /\ w \in Holders <=> new.pc \in Holding
           /\ new.pc = "swap" => new.seen < MaxWindows
           /\ open' = open
      BY <1>2 DEF Quiet
  <2>2. Holders' = Holders
      BY <2>1, SameHolders
  <2>3. TypeOK' /\ SeenBelow'
      BY <2>1 DEF TypeOK, SeenBelow, At
  <2> QED BY <2>1, <2>2, <2>3 DEF SlotsCounted
<1>3. ASSUME NEW w \in Windows, Enters(w) PROVE HubInv' /\ Slots!Next
  <2>1. PICK new \in Window :
           /\ window' = [window EXCEPT ![w] = new]
           /\ w \notin Holders /\ new.pc \in Holding
           /\ open < MaxWindows /\ open' = open + 1
      BY <1>3 DEF Enters
  <2>2. Holders' = Holders \cup {w} /\ Cardinality(Holders') = Cardinality(Holders) + 1
      BY <2>1, HolderAdded
  <2>3. TypeOK' /\ SeenBelow'
      BY <2>1 DEF TypeOK, SeenBelow, At, Holding, Events
  <2>4. Slots!Open(w)
      BY <2>1, <2>2 DEF Slots!Open, SlotsCounted, Slots!Cardinality, Cardinality
  <2> QED BY <2>1, <2>2, <2>3, <2>4 DEF SlotsCounted, Slots!Next
<1>4. ASSUME NEW w \in Windows, Leaves(w) PROVE HubInv' /\ Slots!Next
  <2>1. PICK new \in Window :
           /\ window' = [window EXCEPT ![w] = new]
           /\ w \in Holders /\ new.pc \notin Holding /\ new.pc # "swap"
           /\ open' = open - 1
      BY <1>4 DEF Leaves
  <2>2. Holders' = Holders \ {w} /\ Cardinality(Holders') = Cardinality(Holders) - 1
      BY <2>1, HolderRemoved
  <2>3. Cardinality(Holders') \in Nat
    <3>1. IsFiniteSet(Holders')
        BY <2>2, HoldersFinite, FS_RemoveElement
    <3> QED BY <3>1, FS_CardinalityType
  <2>4. TypeOK' /\ SeenBelow'
      BY <2>1, <2>2, <2>3 DEF TypeOK, SeenBelow, At, SlotsCounted
  <2>5. Slots!Close(w)
      BY <2>1, <2>2 DEF Slots!Close
  <2> QED BY <2>1, <2>2, <2>4, <2>5 DEF SlotsCounted, Slots!Next
<1>5. ASSUME Next PROVE \E w \in Windows : Quiet(w) \/ Enters(w) \/ Leaves(w)
    BY <1>5, Steps DEF Next
<1> QED BY <1>1, <1>2, <1>3, <1>4, <1>5

(* The counter and the windows' goroutines keep their types.               *)
THEOREM HubTypeCorrect == Spec => []TypeOK
<1>1. HubInv => TypeOK
    BY DEF HubInv
<1> QED BY <1>1, InitInv, NextInv, PTL DEF Spec

(* However the acquires race and the windows end, the counter of the hub   *)
(* is the number of windows that hold a slot.                              *)
THEOREM SlotsAreCounted == Spec => []SlotsCounted
<1>1. HubInv => SlotsCounted
    BY DEF HubInv
<1> QED BY <1>1, InitInv, NextInv, PTL DEF Spec

(* TerminalHub implements WindowSlots: load and swap are together one      *)
(* atomic opening that respects the limit.                                 *)
THEOREM HubImplementsSlots == Spec => SlotsImplemented
<1>1. HubInv /\ [Next]_hubVars => [Slots!Next]_Holders
    BY NextInv
<1> QED BY <1>1, InitInv, NextInv, PTL DEF Spec, SlotsImplemented, Slots!Spec
-----------------------------------------------------------------------------
(* What the last event was, by where the window is: between commands it is *)
(* never one of a command under way, and from "started" to the command's   *)
(* end it always is.                                                       *)
Arriving == {"closed", "load", "swap", "upgrade", "ready"}
Between == {"read", "started", "refused", "pong", "control", "reclaimed"}
Underway == {"exec", "output", "exit", "error"}

Story(x) ==
    /\ x.pc \in Arriving => x.last = "none"
    /\ x.pc \in Between => x.last \in {"ready", "exit", "error"}
    /\ x.pc \in Underway => x.last \in {"started", "output"}

Stories == \A w \in Windows : Story(window[w])

LEMMA StoryGivesOrder == Stories => EventOrder
BY DEF Stories, Story, EventOrder, Events, Kind, Follows, Arriving, Between, Underway

(* A step of one window leaves its story right.                            *)
LEMMA StorySteps ==
    ASSUME TypeOK, NEW w \in Windows, Story(window[w]),
           \/ Connect(w) \/ Serve(w) \/ Expire(w) \/ Output(w) \/ ClientMoves(w)
           \/ ReadText(w) \/ ReadControl(w) \/ ReadFails(w)
    PROVE  \E new : window' = [window EXCEPT ![w] = new] /\ Story(new)
<1> USE DEF Story, Arriving, Between, Underway
<1>0. window[w] \in Window
    BY DEF TypeOK
<1>closed. Story(NoWindow)
    BY DEF NoWindow
<1>1. ASSUME NEW pc, Story([window[w] EXCEPT !.pc = pc]), Goto(w, pc)
      PROVE  \E new : window' = [window EXCEPT ![w] = new] /\ Story(new)
    BY <1>1 DEF Goto
<1>2. CASE Write(w)
  <2> DEFINE event == window[w].pc
             new == [window[w] EXCEPT
                       !.pc = AfterWrite(event),
                       !.last = IF event \in {"pong", "control"} THEN @ ELSE Kind(event),
                       !.stream = IF event = "started" THEN Out!Empty ELSE @,
                       !.produced = IF event = "started" THEN 0 ELSE @]
  <2>1. CASE Become(w, new)
    <3>1. new.pc = AfterWrite(event)
        BY <1>0 DEF Window
    <3>2. new.last = IF event \in {"pong", "control"} THEN window[w].last ELSE Kind(event)
        BY <1>0 DEF Window
    <3>3. event \in Events
        BY <1>2 DEF Write
    <3>4. Story(new)
        BY <3>1, <3>2, <3>3 DEF AfterWrite, Kind, Events
    <3> HIDE DEF new
    <3> QED BY <2>1, <3>4 DEF Become
  <2>2. CASE Goto(w, AfterFailure(event))
    <3>1. Story([window[w] EXCEPT !.pc = AfterFailure(event)])
        BY <1>0, <1>2 DEF Window, Write, AfterFailure, Events
    <3> QED BY <1>1, <2>2, <3>1
  <2> QED BY <1>2, <2>1, <2>2 DEF Write
<1>3. CASE Load(w) \/ Swap(w)
  <2>1. CASE Become(w, NoWindow)
    <3> HIDE DEF Story
    <3> QED BY <1>closed, <2>1 DEF Become
  <2>2. CASE Load(w) /\ Become(w, [window[w] EXCEPT !.pc = "swap", !.seen = open])
    <3>1. Story([window[w] EXCEPT !.pc = "swap", !.seen = open])
        BY <1>0, <2>2 DEF Window, Load, At
    <3> QED BY <2>2, <3>1 DEF Become
  <2>3. CASE Swap(w)
      BY <1>0, <1>1, <2>3 DEF Swap, At, Window
  <2> QED BY <1>3, <2>1, <2>2, <2>3 DEF Load
<1>4. CASE Connect(w) \/ Upgrade(w) \/ ReadExpires(w) \/ ExecEnds(w) \/ Close(w)
    BY <1>0, <1>1, <1>4 DEF Connect, Upgrade, ReadExpires, ExecEnds, Close, At, Window
<1>5. CASE Release(w)
  <2> HIDE DEF Story
  <2> QED BY <1>5, <1>closed DEF Release, Become
<1>6. CASE ReadText(w) \/ ReadControl(w) \/ ReadFails(w)
    BY <1>0, <1>1, <1>6 DEF ReadText, ReadControl, ReadFails, Reading, At, Window
<1>7. CASE Output(w)
  <2>1. ASSUME NEW pc \in {"output", "exec"}, NEW stream, NEW produced
        PROVE  Story([window[w] EXCEPT !.pc = pc, !.stream = stream, !.produced = produced])
      BY <1>0, <1>7 DEF Output, At, Window
  <2>2. PICK n \in 1..(MaxProduced - window[w].produced) :
           Become(w, [window[w] EXCEPT
              !.pc = IF Out!Chunk(window[w].stream, n) > 0 THEN "output" ELSE "exec",
              !.stream = Out!Accept(window[w].stream, n),
              !.produced = window[w].produced + n])
      BY <1>7 DEF Output
  <2> HIDE DEF Story
  <2> QED BY <2>1, <2>2 DEF Become
<1>8. CASE Expire(w)
  <2>1. Story([window[w] EXCEPT !.expired = TRUE])
      BY <1>0 DEF Window
  <2> QED BY <1>8, <2>1 DEF Expire
<1>9. CASE ClientMoves(w)
  <2>1. ASSUME NEW client PROVE Story([window[w] EXCEPT !.client = client])
      BY <1>0 DEF Window
  <2> QED BY <1>9, <2>1 DEF ClientMoves
<1> QED BY <1>2, <1>3, <1>4, <1>5, <1>6, <1>7, <1>8, <1>9 DEF Serve

LEMMA NextStories == TypeOK /\ Stories /\ [Next]_hubVars => Stories'
<1> SUFFICES ASSUME TypeOK, Stories, [Next]_hubVars PROVE Stories'
    OBVIOUS
<1>1. CASE Next
  <2>1. PICK w \in Windows : \E new : window' = [window EXCEPT ![w] = new] /\ Story(new)
      BY <1>1, StorySteps DEF Next, Stories
  <2> QED BY <2>1 DEF Stories, TypeOK
<1>2. CASE UNCHANGED hubVars
    BY <1>2 DEF hubVars, Stories
<1> QED BY <1>1, <1>2

(* Whatever clients send, stop reading or leave, and however deadlines     *)
(* pass, the events of a window come in the documented order.              *)
THEOREM EventsInOrder == Spec => []EventOrder
<1>1. Init => Stories
    BY DEF Init, Stories, Story, NoWindow, Arriving, Between, Underway
<1> QED BY <1>1, NextStories, StoryGivesOrder, HubTypeCorrect, PTL DEF Spec
-----------------------------------------------------------------------------
(* The frame that crosses the limit, and those before and after it: what   *)
(* holds of the bytes so far holds with n more.                            *)
LEMMA AcceptAccounts ==
    ASSUME NEW s \in Out!Stream, NEW total \in Nat, NEW n \in Nat, Out!Accounts(s, total)
    PROVE  Out!Accounts(Out!Accept(s, n), total + n)
<1> DEFINE new == Out!Accept(s, n)
<1>1. new.out = s.out + Out!Chunk(s, n)
    BY DEF Out!Accept
<1>2. new.truncated <=> s.truncated \/ n > MaxOutput - s.out
    BY DEF Out!Accept
<1>3. s.out \in 0..MaxOutput
    BY DEF Out!Stream
<1>4. new.out = IF total + n <= MaxOutput THEN total + n ELSE MaxOutput
    BY <1>1, <1>3, HubAssumption DEF Out!Accounts, Out!Chunk
<1>5. new.truncated <=> total + n > MaxOutput
    BY <1>2, <1>3, HubAssumption DEF Out!Accounts
<1> QED BY <1>4, <1>5 DEF Out!Accounts

(* While a command runs its stream accounts for what it produced; once     *)
(* something was handed on, the last event is an output, or about to be.   *)
Account(x) ==
    /\ x.pc \in {"exec", "output", "exit"} => Out!Accounts(x.stream, x.produced)
    /\ x.pc \in {"exec", "exit"} => (x.last = "output" <=> x.stream.out > 0)
    /\ x.pc = "output" => x.stream.out > 0

Accounted == \A w \in Windows : Account(window[w])

(* A window that leaves the command, or that ends it, keeps its account.   *)
LEMMA AccountMoves ==
    ASSUME NEW x \in Window, Account(x),
           NEW pc, pc \notin {"exec", "output", "exit"} \/ (x.pc = "exec" /\ pc = "exit")
    PROVE  Account([x EXCEPT !.pc = pc])
BY DEF Account, Window

LEMMA AccountWrite ==
    ASSUME NEW x \in Window, Account(x), x.pc \in Events
    PROVE  Account([x EXCEPT
              !.pc = AfterWrite(x.pc),
              !.last = IF x.pc \in {"pong", "control"} THEN @ ELSE Kind(x.pc),
              !.stream = IF x.pc = "started" THEN Out!Empty ELSE @,
              !.produced = IF x.pc = "started" THEN 0 ELSE @])
<1> DEFINE last == IF x.pc \in {"pong", "control"} THEN x.last ELSE Kind(x.pc)
           stream == IF x.pc = "started" THEN Out!Empty ELSE x.stream
           produced == IF x.pc = "started" THEN 0 ELSE x.produced
           new == [x EXCEPT !.pc = AfterWrite(x.pc), !.last = last, !.stream = stream,
                            !.produced = produced]
<1>1. /\ new.pc = AfterWrite(x.pc) /\ new.last = last
      /\ new.stream = stream /\ new.produced = produced
    BY DEF Window
<1> HIDE DEF new
<1>2. CASE x.pc = "started"
  <2>1. Out!Accounts(Out!Empty, 0) /\ Out!Empty.out = 0
      BY HubAssumption DEF Out!Accounts, Out!Empty
  <2> QED BY <1>1, <1>2, <2>1 DEF Account, AfterWrite, Kind
<1>3. CASE x.pc = "output"
    BY <1>1, <1>3 DEF Account, AfterWrite, Kind
<1>4. CASE x.pc \notin {"started", "output"}
    BY <1>1, <1>4 DEF Account, AfterWrite
<1> QED BY <1>2, <1>3, <1>4 DEF new

LEMMA AccountOutput ==
    ASSUME NEW x \in Window, Account(x), x.pc = "exec", NEW n \in Nat \ {0}
    PROVE  Account([x EXCEPT
              !.pc = IF Out!Chunk(x.stream, n) > 0 THEN "output" ELSE "exec",
              !.stream = Out!Accept(x.stream, n),
              !.produced = x.produced + n])
<1> DEFINE pc == IF Out!Chunk(x.stream, n) > 0 THEN "output" ELSE "exec"
           stream == Out!Accept(x.stream, n)
           produced == x.produced + n
           new == [x EXCEPT !.pc = pc, !.stream = stream, !.produced = produced]
<1>1. new.pc = pc /\ new.last = x.last /\ new.stream = stream /\ new.produced = produced
    BY DEF Window
<1>2. x.stream \in Out!Stream /\ x.produced \in Nat
    BY HubAssumption DEF Window
<1>3. Out!Accounts(stream, produced)
    BY <1>2, AcceptAccounts DEF Account
<1>4. stream.out = x.stream.out + Out!Chunk(x.stream, n)
    BY DEF Out!Accept
<1>5. x.stream.out \in Nat /\ Out!Chunk(x.stream, n) \in Nat
    BY <1>2, HubAssumption DEF Out!Stream, Out!Chunk
<1> HIDE DEF new, stream, produced
<1> QED BY <1>1, <1>3, <1>4, <1>5 DEF Account, new, stream, produced

LEMMA AccountSteps ==
    ASSUME TypeOK, NEW w \in Windows, Account(window[w]),
           \/ Connect(w) \/ Serve(w) \/ Expire(w) \/ Output(w) \/ ClientMoves(w)
           \/ ReadText(w) \/ ReadControl(w) \/ ReadFails(w)
    PROVE  \E new : window' = [window EXCEPT ![w] = new] /\ Account(new)
<1>0. window[w] \in Window
    BY DEF TypeOK
<1>closed. Account(NoWindow)
    BY DEF Account, NoWindow
<1>1. ASSUME NEW pc, Goto(w, pc),
             pc \notin {"exec", "output", "exit"} \/ (window[w].pc = "exec" /\ pc = "exit")
      PROVE  \E new : window' = [window EXCEPT ![w] = new] /\ Account(new)
  <2>1. Account([window[w] EXCEPT !.pc = pc])
      BY <1>0, <1>1, AccountMoves
  <2> QED BY <1>1, <2>1 DEF Goto
<1>2. CASE Write(w)
  <2>1. window[w].pc \in Events
      BY <1>2 DEF Write
  <2>2. CASE Goto(w, AfterFailure(window[w].pc))
    <3>1. AfterFailure(window[w].pc) \notin {"exec", "output", "exit"}
        BY DEF AfterFailure
    <3> QED BY <1>1, <2>2, <3>1
  <2>3. CASE ~ Goto(w, AfterFailure(window[w].pc))
      BY <1>0, <1>2, <2>1, <2>3, AccountWrite DEF Write, Become
  <2> QED BY <2>2, <2>3
<1>3. CASE Output(w)
  <2>1. PICK n \in 1..(MaxProduced - window[w].produced) :
           Become(w, [window[w] EXCEPT
              !.pc = IF Out!Chunk(window[w].stream, n) > 0 THEN "output" ELSE "exec",
              !.stream = Out!Accept(window[w].stream, n),
              !.produced = window[w].produced + n])
      BY <1>3 DEF Output
  <2>2. n \in Nat \ {0} /\ window[w].pc = "exec"
    <3>1. window[w].produced \in Nat /\ MaxProduced \in Nat
        BY <1>0, HubAssumption DEF Window
    <3>2. n \in Nat \ {0}
        BY <3>1
    <3> QED BY <1>3, <3>2 DEF Output, At
  <2> QED BY <1>0, <2>1, <2>2, AccountOutput DEF Become
<1>4. CASE Load(w)
  <2>1. CASE Become(w, NoWindow)
      BY <1>closed, <2>1 DEF Become
  <2>2. CASE Become(w, [window[w] EXCEPT !.pc = "swap", !.seen = open])
    <3>1. Account([window[w] EXCEPT !.pc = "swap", !.seen = open])
        BY <1>0 DEF Account, Window
    <3> QED BY <2>2, <3>1 DEF Become
  <2> QED BY <1>4, <2>1, <2>2 DEF Load
<1>5. CASE Release(w)
    BY <1>5, <1>closed DEF Release, Become
<1>6. CASE Connect(w) \/ Swap(w) \/ Upgrade(w) \/ ReadExpires(w) \/ ExecEnds(w) \/ Close(w)
           \/ ReadText(w) \/ ReadControl(w) \/ ReadFails(w)
  <2>1. \E pc : /\ Goto(w, pc)
                /\ pc \notin {"exec", "output", "exit"} \/ (window[w].pc = "exec" /\ pc = "exit")
      BY <1>6 DEF Connect, Swap, Upgrade, ReadExpires, ExecEnds, Close, ReadText, ReadControl,
                  ReadFails, At
  <2> QED BY <1>1, <2>1
<1>7. CASE Expire(w)
  <2>1. Account([window[w] EXCEPT !.expired = TRUE])
      BY <1>0 DEF Account, Window
  <2> QED BY <1>7, <2>1 DEF Expire
<1>8. CASE ClientMoves(w)
  <2>1. ASSUME NEW client PROVE Account([window[w] EXCEPT !.client = client])
      BY <1>0 DEF Account, Window
  <2> QED BY <1>8, <2>1 DEF ClientMoves
<1> QED BY <1>2, <1>3, <1>4, <1>5, <1>6, <1>7, <1>8 DEF Serve

LEMMA NextAccounted == TypeOK /\ Accounted /\ [Next]_hubVars => Accounted'
<1> SUFFICES ASSUME TypeOK, Accounted, [Next]_hubVars PROVE Accounted'
    OBVIOUS
<1>1. CASE Next
  <2>1. PICK w \in Windows : \E new : window' = [window EXCEPT ![w] = new] /\ Account(new)
      BY <1>1, AccountSteps DEF Next, Accounted
  <2> QED BY <2>1 DEF Accounted, TypeOK
<1>2. CASE UNCHANGED hubVars
    BY <1>2 DEF hubVars, Accounted
<1> QED BY <1>1, <1>2

(* However Docker cuts the output of a command into frames, the client is  *)
(* sent the first MaxOutput bytes of it and told whether there were more.  *)
THEOREM OutputIsAccounted == Spec => []OutputAccounted
<1>1. Init => Accounted
    BY DEF Init, Accounted, Account, NoWindow
<1>2. TypeOK /\ Accounted => OutputAccounted
  <2> SUFFICES ASSUME TypeOK, Accounted, NEW w \in Windows
               PROVE  /\ window[w].pc \in {"exec", "output", "exit"}
                            => Out!Accounts(window[w].stream, window[w].produced)
                      /\ window[w].pc \in {"exec", "exit"}
                            => (window[w].last = "output" <=> window[w].stream.out > 0)
      BY DEF OutputAccounted
  <2> QED BY DEF Accounted, Account
<1> QED BY <1>1, <1>2, NextAccounted, HubTypeCorrect, PTL DEF Spec
=============================================================================
