-------------------------- MODULE WorkspaceProofs ---------------------------
(***************************************************************************)
(* Proofs about Workspace, for any texts and any number of versions.  The  *)
(* argument is one inductive invariant, IInv: as long as nothing has       *)
(* happened that no answer tells, whatever in the tab differs from the     *)
(* server is what an answer or an event still on its way will bring.       *)
(***************************************************************************)
EXTENDS Workspace, TLAPS

Ends == {"refused", "closed", "broken"}

Event ==
  {[is |-> is] : is \in Ends \cup {"live", "error"}} \cup
  {[is |-> "done", version |-> version, app |-> app] :
      version \in 0..MaxVersion, app \in {"live", "error"}}

Idea == [version : 0..MaxVersion, app : App, auto : BOOLEAN, text : Texts \cup {NoText}]

Tab ==
  [run : {"none", "building", "improving"}, version : 0..MaxVersion, link : BOOLEAN,
   err : BOOLEAN, auto : BOOLEAN, text : Texts \cup {NoText}, editing : BOOLEAN,
   busy : SUBSET Kinds]

Pass ==
  [stage : {"none", "asked", "working", "starting", "over"},
   kind : {"none", "building", "improving"}, told : BOOLEAN, events : Seq(Event)]

Call == [status : {"none", "sent", "ok", "failed"}, arg : Texts \cup {NoText}]

Typed ==
  /\ server \in Idea /\ tab \in Tab /\ pass \in Pass
  /\ calls \in [Kinds -> Call]
  /\ doubt \in BOOLEAN

\* The page shows as running what is under way; a stream carries nothing but
\* "live" until the pass is over, and ends with one event that ends it.
InStep ==
  /\ tab.run = pass.kind /\ (pass.stage = "none" <=> pass.kind = "none")
  /\ \A c \in Kinds : c \in tab.busy <=> calls[c].status # "none"
  /\ pass.stage \in {"none", "asked"} => ~pass.told
  /\ pass.stage = "starting" => pass.told
  /\ pass.stage # "over" =>
        /\ \A i \in 1..Len(pass.events) : pass.events[i].is = "live"
        /\ ~pass.told => pass.events = <<>>
  /\ pass.stage = "over" =>
        /\ pass.events # <<>> /\ pass.events[Len(pass.events)].is \in Ends
        /\ \A i \in 1..(Len(pass.events) - 1) : pass.events[i].is \notin Ends

\* What is to come of a pass that is over.
NothingAhead == \A i \in 1..Len(pass.events) : pass.events[i].is \notin {"live", "done"}

NewVersion == tab.run = "building" \/ server.version > tab.version

DoneAhead ==
  LET n == Len(pass.events) IN
  /\ n >= 2 /\ NewVersion
  /\ pass.events[n - 1] = [is |-> "done", version |-> server.version, app |-> server.app]
  /\ \A i \in 1..(n - 2) : pass.events[i].is = "live"

VersionAgrees == tab.version = server.version
AppAgrees == tab.link = (server.app = "live") /\ tab.err = (server.app = "error")

CallsAgree ==
  /\ tab.auto = IF calls["toggle"].status = "ok" THEN ~server.auto ELSE server.auto
  /\ server.text = IF calls["save"].status = "ok" THEN calls["save"].arg ELSE tab.text
  /\ "start" \in tab.busy => ~tab.link
  /\ calls["start"].status = "ok" => server.app = "live"
  /\ calls["start"].status = "failed" => server.app = "error"

PassAgrees ==
  /\ pass.stage # "none" => {"start", "toggle"} \cap tab.busy = {}
  /\ tab.run = "improving" => ~server.auto
  /\ pass.stage \in {"none", "asked", "working"} => VersionAgrees
  /\ pass.stage \in {"none", "asked", "working"} /\ ~pass.told
        /\ calls["start"].status \in {"none", "sent"} => AppAgrees
  /\ pass.stage = "starting" => NewVersion
  /\ pass.stage = "over" => DoneAhead \/ (NothingAhead /\ VersionAgrees /\ AppAgrees)

Agrees == ~(tab.link /\ tab.err) /\ CallsAgree /\ PassAgrees

IInv == Typed /\ InStep /\ (~doubt => Agrees)
-----------------------------------------------------------------------------
(* Loading *)

LEMMA LoadedFields ==
  ASSUME NEW idea \in Idea, NEW reached \in BOOLEAN
  PROVE  LET view == Loaded(idea, reached) IN
         /\ view \in Tab
         /\ view.run = "none" /\ view.version = idea.version
         /\ view.link = (idea.app = "live") /\ view.err = (idea.app = "error")
         /\ view.auto = (idea.auto /\ reached) /\ view.text = idea.text /\ view.busy = {}
BY DEF Loaded, Idea, Tab

LEMMA NoPassFields ==
  /\ NoPass \in Pass /\ NoPass.stage = "none" /\ NoPass.kind = "none"
  /\ NoPass.told = FALSE /\ NoPass.events = <<>>
BY DEF NoPass, Pass

QuietCalls == [c \in Kinds |-> Quiet]

LEMMA QuietFields ==
  /\ QuietCalls \in [Kinds -> Call]
  /\ \A c \in Kinds : QuietCalls[c].status = "none"
BY DEF QuietCalls, Quiet, Call

LEMMA InitIInv == Init => IInv
<1> SUFFICES ASSUME Init PROVE IInv
  OBVIOUS
<1>1. PICK text \in Texts \cup {NoText} :
         server = [version |-> 0, app |-> "unknown", auto |-> FALSE, text |-> text]
  BY DEF Init
<1>2. /\ server \in Idea /\ server.app = "unknown" /\ server.version = 0 /\ server.auto = FALSE
      /\ server.text = text
  BY <1>1, WorkspaceAssumption DEF Idea, App
<1>3. /\ tab \in Tab /\ tab.run = "none" /\ tab.version = 0 /\ tab.link = FALSE /\ tab.err = FALSE
      /\ tab.auto = FALSE /\ tab.text = text /\ tab.busy = {}
  BY <1>2, LoadedFields DEF Init
<1>4. pass = NoPass /\ calls = QuietCalls /\ doubt = FALSE
  BY DEF Init, QuietCalls
<1>5. Typed
  BY <1>2, <1>3, <1>4, NoPassFields, QuietFields DEF Typed
<1>6. InStep
  BY <1>3, <1>4, NoPassFields, QuietFields DEF InStep
<1>7. Agrees
  <2>1. {"start", "toggle", "save"} \subseteq Kinds
    BY DEF Kinds
  <2>2. CallsAgree
    BY <1>2, <1>3, <1>4, <2>1, QuietFields DEF CallsAgree
  <2>3. PassAgrees
    BY <1>2, <1>3, <1>4, <2>1, NoPassFields DEF PassAgrees, VersionAgrees, AppAgrees
  <2> QED BY <1>3, <2>2, <2>3 DEF Agrees
<1> QED BY <1>5, <1>6, <1>7 DEF IInv

LEMMA ReloadIInv == ASSUME IInv, Reload PROVE IInv'
<1>1. PICK reached \in BOOLEAN :
         /\ tab' = Loaded(server, reached) /\ pass' = NoPass /\ calls' = QuietCalls
         /\ doubt' = (server.auto /\ ~reached) /\ UNCHANGED server
  BY DEF Reload, QuietCalls
<1>2. server \in Idea /\ server.auto \in BOOLEAN /\ server.app \in App
  BY DEF IInv, Typed, Idea
<1>3. /\ tab' \in Tab /\ tab'.run = "none" /\ tab'.version = server.version
      /\ tab'.link = (server.app = "live") /\ tab'.err = (server.app = "error")
      /\ tab'.auto = (server.auto /\ reached) /\ tab'.text = server.text /\ tab'.busy = {}
  BY <1>1, <1>2, LoadedFields
<1>4. Typed'
  BY <1>1, <1>2, <1>3, NoPassFields, QuietFields DEF Typed
<1>5. InStep'
  BY <1>1, <1>3, NoPassFields, QuietFields DEF InStep
<1>6. ASSUME ~doubt' PROVE Agrees'
  <2>1. {"start", "toggle", "save"} \subseteq Kinds
    BY DEF Kinds
  <2>2. tab'.auto = server.auto
    <3>1. ~(server.auto /\ ~reached)
      BY <1>1, <1>6
    <3>2. CASE server.auto
      BY <1>3, <3>1, <3>2
    <3>3. CASE ~server.auto
      BY <1>2, <1>3, <3>3
    <3> QED BY <3>2, <3>3
  <2>3. CallsAgree'
    BY <1>1, <1>3, <2>1, <2>2, QuietFields DEF CallsAgree
  <2>4. PassAgrees'
    BY <1>1, <1>3, <2>1, NoPassFields DEF PassAgrees, VersionAgrees, AppAgrees
  <2>5. ~(tab'.link /\ tab'.err)
    BY <1>3
  <2> QED BY <2>3, <2>4, <2>5 DEF Agrees
<1> QED BY <1>4, <1>5, <1>6 DEF IInv

LEMMA OthersIInv == ASSUME IInv, Others PROVE IInv'
<1>1. /\ UNCHANGED <<tab, pass, calls>> /\ doubt' = TRUE /\ server \in Idea
      /\ \/ \E version \in 1..MaxVersion, app \in {"live", "error"} :
               server' = [server EXCEPT !.version = version, !.app = app]
         \/ server' = [server EXCEPT !.auto = ~@]
         \/ \E text \in Texts : server' = [server EXCEPT !.text = text]
  BY DEF Others, IInv, Typed
<1>2. server' \in Idea
  <2>1. ASSUME NEW version \in 1..MaxVersion, NEW app \in {"live", "error"},
               server' = [server EXCEPT !.version = version, !.app = app]
        PROVE  server' \in Idea
    <3>1. version \in 0..MaxVersion /\ app \in App
      BY WorkspaceAssumption DEF App
    <3> QED BY <1>1, <2>1, <3>1 DEF Idea
  <2>2. CASE server' = [server EXCEPT !.auto = ~@]
    BY <1>1, <2>2 DEF Idea
  <2>3. ASSUME NEW text \in Texts, server' = [server EXCEPT !.text = text] PROVE server' \in Idea
    BY <1>1, <2>3 DEF Idea
  <2> QED BY <1>1, <2>1, <2>2, <2>3
<1> QED BY <1>1, <1>2 DEF IInv, Typed, InStep
-----------------------------------------------------------------------------
(* The pass, on the server's side *)

LEMMA RunIInv ==
  ASSUME IInv, NEW kind \in {"building", "improving"}, RunStreamedPass(kind)
  PROVE  IInv'
<1>1. /\ tab \in Tab /\ tab.run = "none" /\ pass \in Pass /\ pass.stage = "none"
      /\ tab.version > 0 => ~tab.auto
      /\ kind = "improving" => tab.version \in 1..(MaxVersion - 1)
      /\ tab' = [tab EXCEPT !.run = kind]
      /\ pass' = [NoPass EXCEPT !.stage = "asked", !.kind = kind]
      /\ doubt' = (doubt \/ {"start", "toggle"} \cap tab.busy # {})
      /\ UNCHANGED <<server, calls>>
  BY DEF RunStreamedPass, PassIsOffered, CanAct, IInv, Typed, InStep
<1>2. /\ tab' \in Tab /\ tab'.run = kind /\ tab'.version = tab.version /\ tab'.link = tab.link
      /\ tab'.err = tab.err /\ tab'.auto = tab.auto /\ tab'.text = tab.text /\ tab'.busy = tab.busy
  BY <1>1 DEF Tab
<1>3. /\ pass' \in Pass /\ pass'.stage = "asked" /\ pass'.kind = kind /\ pass'.told = FALSE
      /\ pass'.events = <<>>
  BY <1>1, NoPassFields DEF Pass
<1>4. Typed'
  BY <1>1, <1>2, <1>3 DEF IInv, Typed
<1>5. InStep'
  BY <1>1, <1>2, <1>3 DEF IInv, InStep
<1>6. ASSUME ~doubt' PROVE Agrees'
  <2>1. /\ ~doubt /\ {"start", "toggle"} \cap tab.busy = {} /\ Agrees
        /\ calls["toggle"].status = "none" /\ calls["start"].status = "none"
    BY <1>1, <1>6 DEF IInv, InStep, Kinds, Typed
  <2>2. CallsAgree'
    BY <1>1, <1>2, <2>1 DEF Agrees, CallsAgree
  <2>3. VersionAgrees /\ AppAgrees
    BY <1>1, <2>1 DEF Agrees, PassAgrees, IInv, InStep
  <2>4. kind = "improving" => ~server.auto
    <3>1. kind = "improving" => ~tab.auto
      BY <1>1, WorkspaceAssumption
    <3> QED BY <2>1, <3>1 DEF Agrees, CallsAgree
  <2>5. PassAgrees'
    BY <1>1, <1>2, <1>3, <2>1, <2>3, <2>4 DEF PassAgrees, VersionAgrees, AppAgrees
  <2> QED BY <1>2, <2>1, <2>2, <2>5 DEF Agrees
<1> QED BY <1>4, <1>5, <1>6 DEF IInv

\* The events there are.
LEMMA EventFields ==
  /\ \A is \in Ends \cup {"live", "error"} : [is |-> is] \in Event /\ [is |-> is].is = is
  /\ \A version \in 0..MaxVersion, app \in {"live", "error"} :
        LET e == [is |-> "done", version |-> version, app |-> app] IN
        e \in Event /\ e.is = "done" /\ e.version = version /\ e.app = app
<1>1. ASSUME NEW is \in Ends \cup {"live", "error"}
      PROVE  [is |-> is] \in Event /\ [is |-> is].is = is
  <2>1. [is |-> is] \in {[is |-> i] : i \in Ends \cup {"live", "error"}}
    OBVIOUS
  <2> QED BY <2>1 DEF Event
<1>2. ASSUME NEW version \in 0..MaxVersion, NEW app \in {"live", "error"}
      PROVE  [is |-> "done", version |-> version, app |-> app] \in Event
  <2>1. [is |-> "done", version |-> version, app |-> app] \in
           {[is |-> "done", version |-> v, app |-> a] : v \in 0..MaxVersion, a \in {"live", "error"}}
    OBVIOUS
  <2> QED BY <2>1 DEF Event
<1> QED BY <1>1, <1>2

LEMMA EventCases ==
  ASSUME NEW e \in Event
  PROVE  \/ e.is \in Ends \cup {"live", "error"}
         \/ e.is = "done" /\ e.version \in 0..MaxVersion /\ e.app \in {"live", "error"}
<1>1. CASE e \in {[is |-> i] : i \in Ends \cup {"live", "error"}}
  BY <1>1
<1>2. ASSUME NEW v \in 0..MaxVersion, NEW a \in {"live", "error"},
             e = [is |-> "done", version |-> v, app |-> a]
      PROVE  e.is = "done" /\ e.version \in 0..MaxVersion /\ e.app \in {"live", "error"}
  BY <1>2
<1> QED BY <1>1, <1>2 DEF Event

LEMMA AppendFields ==
  ASSUME NEW T, NEW q \in Seq(T), NEW e \in T
  PROVE  /\ Append(q, e) \in Seq(T) /\ Len(Append(q, e)) = Len(q) + 1 /\ Append(q, e) # <<>>
         /\ \A i \in 1..Len(q) : Append(q, e)[i] = q[i]
         /\ Append(q, e)[Len(q) + 1] = e
OBVIOUS

LEMMA RefuseIInv == ASSUME IInv, RefusePass PROVE IInv'
<1> DEFINE e == [is |-> "refused"]
<1>1. /\ pass \in Pass /\ pass.stage = "asked" /\ pass.events = <<>> /\ pass.events \in Seq(Event)
      /\ pass' = [pass EXCEPT !.stage = "over", !.events = Append(pass.events, e)]
      /\ UNCHANGED <<server, tab, calls, doubt>>
  BY DEF RefusePass, Send, IInv, Typed, InStep, Pass
<1>2. e \in Event /\ e.is = "refused"
  BY EventFields DEF Ends
<1> HIDE DEF e
<1>3. /\ pass' \in Pass /\ pass'.stage = "over" /\ pass'.kind = pass.kind
      /\ pass'.events = Append(pass.events, e)
  BY <1>1, <1>2, AppendFields DEF Pass
<1>4. /\ pass'.events # <<>> /\ Len(pass'.events) = 1 /\ pass'.events[1] = e
  BY <1>1, <1>2, <1>3, AppendFields
<1>5. Typed'
  BY <1>1, <1>3 DEF IInv, Typed
<1>6. InStep'
  BY <1>1, <1>2, <1>3, <1>4 DEF IInv, InStep, Ends
<1>7. ASSUME ~doubt PROVE Agrees'
  <2>1. Agrees /\ NothingAhead'
    BY <1>2, <1>4, <1>7 DEF IInv, NothingAhead
  <2>2. VersionAgrees /\ AppAgrees
    <3>1. calls["start"].status = "none" /\ ~pass.told
      BY <1>1, <2>1 DEF IInv, InStep, Agrees, PassAgrees, Kinds
    <3> QED BY <1>1, <2>1, <3>1 DEF Agrees, PassAgrees
  <2> QED BY <1>1, <1>3, <2>1, <2>2
       DEF Agrees, CallsAgree, PassAgrees, VersionAgrees, AppAgrees
<1> QED BY <1>1, <1>5, <1>6, <1>7 DEF IInv

LEMMA AcceptIInv == ASSUME IInv, AcceptPass PROVE IInv'
<1>1. /\ pass \in Pass /\ pass.stage = "asked" /\ pass' = [pass EXCEPT !.stage = "working"]
      /\ UNCHANGED <<server, tab, calls, doubt>>
  BY DEF AcceptPass, IInv, Typed
<1>2. /\ pass' \in Pass /\ pass'.stage = "working" /\ pass'.kind = pass.kind
      /\ pass'.told = pass.told /\ pass'.events = pass.events
  BY <1>1 DEF Pass
<1>3. Typed' /\ InStep'
  BY <1>1, <1>2 DEF IInv, Typed, InStep
<1>4. Agrees => Agrees'
  BY <1>1, <1>2 DEF Agrees, CallsAgree, PassAgrees, VersionAgrees, AppAgrees
<1> QED BY <1>1, <1>3, <1>4 DEF IInv

LEMMA RelayIInv == ASSUME IInv, RelayLive PROVE IInv'
<1> DEFINE e == [is |-> "live"]
<1>1. /\ pass \in Pass /\ pass.stage = "working" /\ pass.events = <<>> /\ pass.events \in Seq(Event)
      /\ pass' = [pass EXCEPT !.told = TRUE, !.events = Append(pass.events, e)]
      /\ UNCHANGED <<server, tab, calls, doubt>>
  BY DEF RelayLive, Send, IInv, Typed, InStep, Pass
<1>2. e \in Event /\ e.is = "live"
  BY EventFields
<1> HIDE DEF e
<1>3. /\ pass' \in Pass /\ pass'.stage = "working" /\ pass'.kind = pass.kind /\ pass'.told = TRUE
      /\ pass'.events = Append(pass.events, e)
  BY <1>1, <1>2, AppendFields DEF Pass
<1>4. Len(pass'.events) = 1 /\ pass'.events[1] = e
  BY <1>1, <1>2, <1>3, AppendFields
<1>5. Typed' /\ InStep'
  BY <1>1, <1>2, <1>3, <1>4 DEF IInv, Typed, InStep
<1>6. Agrees => Agrees'
  BY <1>1, <1>3 DEF Agrees, CallsAgree, PassAgrees, VersionAgrees, AppAgrees
<1> QED BY <1>1, <1>5, <1>6 DEF IInv

LEMMA ShipIInv == ASSUME IInv, Ship PROVE IInv'
<1> DEFINE version == IF pass.kind = "building" THEN 1 ELSE server.version + 1
<1>1. /\ pass \in Pass /\ pass.stage = "working" /\ server \in Idea /\ tab.run = pass.kind
      /\ pass.kind = "improving" => server.version < MaxVersion
      /\ server' = [server EXCEPT !.version = version]
      /\ pass' = [pass EXCEPT !.stage = "starting", !.told = TRUE]
      /\ UNCHANGED <<tab, calls, doubt>>
  BY DEF Ship, IInv, Typed, InStep
<1>2. pass.kind \in {"building", "improving"} /\ server.version \in 0..MaxVersion
  BY <1>1 DEF IInv, InStep, Pass, Idea
<1>3. version \in 0..MaxVersion /\ (version = 1 \/ pass.kind = "improving")
  BY <1>1, <1>2, WorkspaceAssumption
<1>4. /\ server' \in Idea /\ server'.version = version /\ server'.app = server.app
      /\ server'.auto = server.auto /\ server'.text = server.text
  <2> HIDE DEF version
  <2> QED BY <1>1, <1>3 DEF Idea
<1>5. /\ pass' \in Pass /\ pass'.stage = "starting" /\ pass'.kind = pass.kind /\ pass'.told = TRUE
      /\ pass'.events = pass.events
  BY <1>1 DEF Pass
<1>6. Typed' /\ InStep'
  BY <1>1, <1>4, <1>5 DEF IInv, Typed, InStep
<1>7. ASSUME Agrees PROVE Agrees'
  <2>1. VersionAgrees
    BY <1>1, <1>7 DEF Agrees, PassAgrees
  <2>2. NewVersion'
    BY <1>1, <1>2, <1>4, <2>1 DEF NewVersion, VersionAgrees
  <2> QED BY <1>1, <1>4, <1>5, <1>7, <2>2 DEF Agrees, CallsAgree, PassAgrees
<1> QED BY <1>1, <1>6, <1>7 DEF IInv
\* Two sequences of events, one after the other.
LEMMA ConcatFields ==
  ASSUME NEW T, NEW q \in Seq(T), NEW t \in Seq(T)
  PROVE  /\ q \o t \in Seq(T) /\ Len(q \o t) = Len(q) + Len(t)
         /\ \A i \in 1..Len(q) : (q \o t)[i] = q[i]
         /\ \A i \in 1..Len(t) : (q \o t)[Len(q) + i] = t[i]
OBVIOUS

LEMMA FinishIInv == ASSUME IInv, FinishPass PROVE IInv'
<1>1. PICK app \in {"live", "error"} :
         /\ server' = [server EXCEPT !.app = app]
         /\ pass' = [pass EXCEPT !.stage = "over", !.events = @ \o
               (IF app = "live" THEN <<[is |-> "live"]>> ELSE <<>>)
               \o <<[is |-> "done", version |-> server.version, app |-> app], [is |-> "closed"]>>]
  BY DEF FinishPass
<1>2. /\ pass \in Pass /\ pass.stage = "starting" /\ server \in Idea
      /\ server.version \in 0..MaxVersion /\ pass.events \in Seq(Event)
      /\ \A i \in 1..Len(pass.events) : pass.events[i].is = "live"
      /\ UNCHANGED <<tab, calls, doubt>>
  BY DEF FinishPass, IInv, Typed, InStep, Pass, Idea
<1> DEFINE live == [is |-> "live"]
           closed == [is |-> "closed"]
           done == [is |-> "done", version |-> server.version, app |-> app]
           more == IF app = "live" THEN <<live>> ELSE <<>>
           lives == pass.events \o more
           all == lives \o <<done, closed>>
<1>3. /\ live \in Event /\ live.is = "live" /\ closed \in Event /\ closed.is = "closed"
      /\ done \in Event /\ done.is = "done"
  BY <1>2, EventFields DEF Ends
<1>4. pass' = [pass EXCEPT !.stage = "over", !.events = all]
  BY <1>1
<1>5. server' \in Idea /\ server'.app = app /\ server'.version = server.version
      /\ server'.auto = server.auto /\ server'.text = server.text
  BY <1>1, <1>2 DEF Idea, App
<1>6. done = [is |-> "done", version |-> server'.version, app |-> server'.app]
  BY <1>5
<1> HIDE DEF live, closed, done
<1>7. /\ lives \in Seq(Event)
      /\ \A i \in 1..Len(lives) : lives[i].is = "live"
  <2>1. more \in Seq(Event) /\ (\A i \in 1..Len(more) : more[i].is = "live")
    BY <1>3
  <2> HIDE DEF more
  <2>2. /\ lives \in Seq(Event) /\ Len(lives) = Len(pass.events) + Len(more)
        /\ \A i \in 1..Len(pass.events) : lives[i] = pass.events[i]
        /\ \A i \in 1..Len(more) : lives[Len(pass.events) + i] = more[i]
    BY <1>2, <2>1, ConcatFields
  <2>3. ASSUME NEW i \in 1..Len(lives) PROVE lives[i].is = "live"
    <3>1. CASE i \in 1..Len(pass.events)
      BY <1>2, <2>2, <3>1
    <3>2. CASE i \notin 1..Len(pass.events)
      <4>1. i - Len(pass.events) \in 1..Len(more)
        BY <1>2, <2>1, <2>2, <2>3, <3>2
      <4>2. lives[Len(pass.events) + (i - Len(pass.events))].is = "live"
        BY <2>1, <2>2, <4>1
      <4>3. Len(pass.events) + (i - Len(pass.events)) = i
        BY <1>2, <2>3
      <4> QED BY <4>2, <4>3
    <3> QED BY <3>1, <3>2
  <2> QED BY <2>2, <2>3
<1> HIDE DEF lives
<1>8. /\ all \in Seq(Event) /\ Len(all) = Len(lives) + 2 /\ Len(lives) \in Nat
      /\ \A i \in 1..Len(lives) : all[i].is = "live"
      /\ all[Len(lives) + 1] = done /\ all[Len(lives) + 2] = closed
  <2>1. <<done, closed>> \in Seq(Event) /\ Len(<<done, closed>>) = 2
    BY <1>3
  <2>2. /\ all \in Seq(Event) /\ Len(all) = Len(lives) + 2 /\ Len(lives) \in Nat
        /\ \A i \in 1..Len(lives) : all[i] = lives[i]
        /\ \A i \in 1..2 : all[Len(lives) + i] = <<done, closed>>[i]
    BY <1>7, <2>1, ConcatFields
  <2> QED BY <1>7, <2>2
<1> HIDE DEF all
<1>9. /\ pass' \in Pass /\ pass'.stage = "over" /\ pass'.kind = pass.kind /\ pass'.events = all
  BY <1>2, <1>4, <1>8 DEF Pass
<1>10. Typed'
  BY <1>2, <1>5, <1>9 DEF IInv, Typed
<1>11. InStep'
  <2>1. all # <<>> /\ all[Len(all)].is = "closed"
    BY <1>3, <1>8
  <2>2. ASSUME NEW i \in 1..(Len(all) - 1) PROVE all[i].is \in {"live", "done"}
    <3>1. i \in 1..Len(lives) \/ i = Len(lives) + 1
      BY <1>8
    <3> QED BY <1>3, <1>8, <3>1
  <2>3. \A i \in 1..(Len(all) - 1) : all[i].is \notin Ends
    BY <2>2 DEF Ends
  <2> QED BY <1>2, <1>9, <2>1, <2>3 DEF IInv, InStep, Ends
<1>12. ASSUME ~doubt PROVE Agrees'
  <2>1. Agrees /\ "start" \notin tab.busy /\ calls["start"].status = "none"
    BY <1>2, <1>12 DEF IInv, InStep, Agrees, PassAgrees, Kinds
  <2>2. NewVersion'
    BY <1>2, <1>5, <2>1 DEF Agrees, PassAgrees, NewVersion
  <2>3. DoneAhead'
    <3>1. Len(all) - 1 = Len(lives) + 1 /\ Len(all) - 2 = Len(lives) /\ Len(all) >= 2
      BY <1>8
    <3> QED BY <1>6, <1>8, <1>9, <2>2, <3>1 DEF DoneAhead
  <2>4. CallsAgree'
    BY <1>2, <1>5, <2>1 DEF Agrees, CallsAgree
  <2>5. PassAgrees'
    BY <1>2, <1>5, <1>9, <2>1, <2>3 DEF Agrees, PassAgrees
  <2> QED BY <1>2, <2>1, <2>4, <2>5 DEF Agrees
<1> QED BY <1>2, <1>10, <1>11, <1>12 DEF IInv

\* What a pass that fails adds to its stream.
LEMMA LastWords ==
  ASSUME NEW q \in Seq(Event), \A i \in 1..Len(q) : q[i].is = "live",
         NEW t \in {<<[is |-> "error"], [is |-> "closed"]>>, <<[is |-> "broken"]>>}
  PROVE  /\ q \o t \in Seq(Event) /\ q \o t # <<>>
         /\ (q \o t)[Len(q \o t)].is \in Ends
         /\ \A i \in 1..(Len(q \o t) - 1) : (q \o t)[i].is \notin Ends
         /\ q = <<>> => \A i \in 1..Len(q \o t) : (q \o t)[i].is \notin {"live", "done"}
<1> DEFINE error == [is |-> "error"]
           closed == [is |-> "closed"]
           broken == [is |-> "broken"]
           n == Len(t)
<1>1. /\ error \in Event /\ error.is = "error" /\ closed \in Event /\ closed.is = "closed"
      /\ broken \in Event /\ broken.is = "broken"
  BY EventFields DEF Ends
<1>2. t = <<error, closed>> \/ t = <<broken>>
  OBVIOUS
<1> HIDE DEF error, closed, broken
<1>3. /\ t \in Seq(Event) /\ n \in 1..2 /\ t[n].is \in Ends
      /\ \A i \in 1..n : t[i].is \notin {"live", "done"}
      /\ \A i \in 1..(n - 1) : t[i].is \notin Ends
  <2>1. CASE t = <<error, closed>>
    BY <1>1, <2>1 DEF Ends
  <2>2. CASE t = <<broken>>
    BY <1>1, <2>2 DEF Ends
  <2> QED BY <1>2, <2>1, <2>2
<1> HIDE DEF n
<1> DEFINE all == q \o t
<1>4. /\ all \in Seq(Event) /\ Len(all) = Len(q) + n /\ Len(q) \in Nat
      /\ \A i \in 1..Len(q) : all[i] = q[i]
      /\ \A i \in 1..n : all[Len(q) + i] = t[i]
  BY <1>3, ConcatFields DEF n
<1> HIDE DEF all
<1>5. all[Len(all)].is \in Ends /\ all # <<>>
  BY <1>3, <1>4
<1>6. ASSUME NEW i \in 1..(Len(all) - 1) PROVE all[i].is \notin Ends
  <2>1. CASE i \in 1..Len(q)
    BY <1>4, <2>1 DEF Ends
  <2>2. CASE i \notin 1..Len(q)
    <3>1. i - Len(q) \in 1..(n - 1) /\ Len(q) + (i - Len(q)) = i
      BY <1>3, <1>4, <1>6, <2>2
    <3> QED BY <1>3, <1>4, <3>1
  <2> QED BY <2>1, <2>2
<1>7. ASSUME q = <<>>, NEW i \in 1..Len(all) PROVE all[i].is \notin {"live", "done"}
  <2>1. Len(q) = 0 /\ i \in 1..n
    BY <1>3, <1>4, <1>7
  <2>2. Len(q) + i = i
    BY <2>1
  <2> QED BY <1>3, <1>4, <2>1, <2>2
<1> QED BY <1>4, <1>5, <1>6, <1>7 DEF all

LEMMA FailIInv == ASSUME IInv, FailPass PROVE IInv'
<1>1. PICK t \in {<<[is |-> "error"], [is |-> "closed"]>>, <<[is |-> "broken"]>>} :
         pass' = [pass EXCEPT !.stage = "over", !.events = @ \o t]
  BY DEF FailPass
<1> DEFINE all == pass.events \o t
<1>2. /\ pass \in Pass /\ pass.stage \in {"asked", "working", "starting"} /\ pass.events \in Seq(Event)
      /\ \A i \in 1..Len(pass.events) : pass.events[i].is = "live"
      /\ pass.stage = "starting" => pass.told
      /\ ~pass.told => pass.events = <<>>
      /\ UNCHANGED <<server, tab, calls>> /\ doubt' = (doubt \/ pass.told)
      /\ doubt' \in BOOLEAN
  BY DEF FailPass, IInv, Typed, InStep, Pass
<1>3. /\ all \in Seq(Event) /\ all # <<>> /\ all[Len(all)].is \in Ends
      /\ \A i \in 1..(Len(all) - 1) : all[i].is \notin Ends
      /\ pass.events = <<>> => \A i \in 1..Len(all) : all[i].is \notin {"live", "done"}
  BY <1>2, LastWords
<1> HIDE DEF all
<1>4. /\ pass' \in Pass /\ pass'.stage = "over" /\ pass'.kind = pass.kind /\ pass'.events = all
  BY <1>1, <1>2, <1>3 DEF Pass, all
<1>5. Typed' /\ InStep'
  BY <1>2, <1>3, <1>4 DEF IInv, Typed, InStep
<1>6. ASSUME ~doubt' PROVE Agrees'
  <2>1. ~doubt /\ ~pass.told /\ pass.stage \in {"asked", "working"} /\ Agrees
    BY <1>2, <1>6 DEF IInv
  <2>2. VersionAgrees /\ AppAgrees
    <3>1. calls["start"].status = "none"
      BY <1>2, <2>1 DEF IInv, InStep, Agrees, PassAgrees, Kinds
    <3> QED BY <2>1, <3>1 DEF Agrees, PassAgrees
  <2>3. NothingAhead'
    BY <1>2, <1>3, <1>4, <2>1 DEF NothingAhead
  <2> QED BY <1>2, <1>4, <2>1, <2>2, <2>3
       DEF Agrees, CallsAgree, PassAgrees, VersionAgrees, AppAgrees
<1> QED BY <1>5, <1>6 DEF IInv

-----------------------------------------------------------------------------
(* Reading an event *)

\* What one event changes in the page.
LEMMA OnEventFields ==
  ASSUME tab \in Tab, NEW e \in Event
  PROVE  LET view == OnEvent(e) IN
         /\ view \in Tab
         /\ view.run = IF e.is \in Ends THEN "none" ELSE tab.run
         /\ view.auto = tab.auto /\ view.text = tab.text /\ view.busy = tab.busy
         /\ e.is = "live" => view.link = TRUE /\ view.err = FALSE /\ view.version = tab.version
         /\ e.is \in Ends \cup {"error"} =>
               view.link = tab.link /\ view.err = tab.err /\ view.version = tab.version
         /\ e.is = "done" =>
               /\ view.link = (e.app = "live") /\ view.err = (e.app = "error")
               /\ tab.run = "building" \/ e.version > tab.version => view.version = e.version
<1>1. CASE e.is = "live"
  <2>1. OnEvent(e) = [tab EXCEPT !.link = TRUE, !.err = FALSE]
    BY <1>1 DEF OnEvent, ShowLive
  <2> QED BY <1>1, <2>1 DEF Tab, Ends
<1>2. CASE e.is = "error"
  <2>1. OnEvent(e) = tab
    BY <1>2 DEF OnEvent
  <2> QED BY <1>2, <2>1 DEF Ends
<1>3. CASE e.is \in Ends
  <2>1. OnEvent(e) = [tab EXCEPT !.run = "none"]
    BY <1>3 DEF OnEvent, Ends
  <2> QED BY <1>3, <2>1 DEF Tab, Ends
<1>4. CASE e.is = "done"
  <2>1. e.version \in 0..MaxVersion /\ e.app \in {"live", "error"}
    BY <1>4, EventCases DEF Ends
  <2> DEFINE v == IF tab.run = "building" \/ e.version > tab.version THEN e.version ELSE tab.version
             shipped == [tab EXCEPT !.version = v]
  <2>2. OnEvent(e) = IF e.app = "live" THEN [shipped EXCEPT !.link = TRUE, !.err = FALSE]
                     ELSE [shipped EXCEPT !.link = FALSE, !.err = TRUE]
    BY <1>4 DEF OnEvent, ApplyDone, ShowLive
  <2>3. v \in 0..MaxVersion
    BY <2>1 DEF Tab
  <2> HIDE DEF v
  <2>4. /\ shipped \in Tab /\ shipped.version = v /\ shipped.run = tab.run
        /\ shipped.auto = tab.auto /\ shipped.text = tab.text /\ shipped.busy = tab.busy
    BY <2>3 DEF Tab
  <2> HIDE DEF shipped
  <2>5. CASE e.app = "live"
    BY <1>4, <2>2, <2>4, <2>5 DEF Tab, Ends, v
  <2>6. CASE e.app = "error"
    BY <1>4, <2>2, <2>4, <2>6 DEF Tab, Ends, v
  <2> QED BY <2>1, <2>5, <2>6
<1> QED BY <1>1, <1>2, <1>3, <1>4, EventCases

LEMMA HeadFields ==
  ASSUME NEW q \in Seq(Event), q # <<>>
  PROVE  /\ Head(q) = q[1] /\ Head(q) \in Event /\ Len(q) \in Nat \ {0}
         /\ Tail(q) \in Seq(Event) /\ Len(Tail(q)) = Len(q) - 1
         /\ \A i \in 1..(Len(q) - 1) : Tail(q)[i] = q[i + 1]
OBVIOUS

\* A sequence with something in it is not the empty one.
LEMMA NotEmpty == ASSUME NEW T, NEW s \in Seq(T), Len(s) # 0 PROVE s # <<>>
OBVIOUS

LEMMA ReadIInv == ASSUME IInv, ReadEvent PROVE IInv'
<1> DEFINE q == pass.events
           e == q[1]
           n == Len(q)
<1>1. /\ pass \in Pass /\ tab \in Tab /\ q \in Seq(Event) /\ q # <<>>
      /\ UNCHANGED <<server, calls, doubt>> /\ server \in Idea /\ InStep
  BY DEF ReadEvent, IInv, Typed, Pass
<1>2. /\ Head(q) = e /\ e \in Event /\ n \in Nat \ {0} /\ Tail(q) \in Seq(Event)
      /\ Len(Tail(q)) = n - 1
      /\ \A i \in 1..(n - 1) : Tail(q)[i] = q[i + 1]
  BY <1>1, HeadFields
<1>3. /\ tab' = OnEvent(e)
      /\ pass' = IF n = 1 /\ pass.stage = "over" THEN NoPass ELSE [pass EXCEPT !.events = Tail(q)]
  BY <1>2 DEF ReadEvent
<1>4. /\ tab' \in Tab /\ tab'.run = (IF e.is \in Ends THEN "none" ELSE tab.run)
      /\ tab'.auto = tab.auto /\ tab'.text = tab.text /\ tab'.busy = tab.busy
      /\ e.is = "live" => tab'.link = TRUE /\ tab'.err = FALSE /\ tab'.version = tab.version
      /\ e.is \in Ends \cup {"error"} =>
            tab'.link = tab.link /\ tab'.err = tab.err /\ tab'.version = tab.version
      /\ e.is = "done" =>
            /\ tab'.link = (e.app = "live") /\ tab'.err = (e.app = "error")
            /\ tab.run = "building" \/ e.version > tab.version => tab'.version = e.version
  <2> HIDE DEF e
  <2> QED BY <1>1, <1>2, <1>3, OnEventFields
<1> HIDE DEF n, e, q
<1>5. CASE pass.stage # "over"
  <2>1. /\ pass' \in Pass /\ pass'.stage = pass.stage /\ pass'.kind = pass.kind
        /\ pass'.told = pass.told /\ pass'.events = Tail(q)
    BY <1>1, <1>2, <1>3, <1>5 DEF Pass
  <2>2. pass.told /\ \A i \in 1..n : q[i].is = "live"
    BY <1>1, <1>5 DEF InStep, q, n
  <2>3. e.is = "live" /\ \A i \in 1..(n - 1) : Tail(q)[i].is = "live"
    <3>1. 1 \in 1..n /\ \A i \in 1..(n - 1) : i + 1 \in 1..n
      BY <1>2
    <3> QED BY <1>2, <2>2, <3>1 DEF e
  <2>4. Typed'
    BY <1>1, <1>4, <2>1 DEF IInv, Typed
  <2>5. pass.stage \notin {"none", "asked"}
    BY <1>1, <2>2 DEF InStep
  <2>6. InStep'
    BY <1>1, <1>2, <1>4, <1>5, <2>1, <2>2, <2>3, <2>5 DEF InStep, Ends
  <2>7. Agrees => Agrees'
    <3> SUFFICES ASSUME Agrees PROVE Agrees'
      OBVIOUS
    <3>1. "start" \notin tab.busy
      BY <2>5 DEF Agrees, PassAgrees
    <3>2. CallsAgree'
      BY <1>1, <1>4, <3>1 DEF Agrees, CallsAgree
    <3>3. PassAgrees'
      BY <1>1, <1>4, <1>5, <2>1, <2>2, <2>3 DEF Agrees, PassAgrees, VersionAgrees, NewVersion, Ends
    <3> QED BY <1>4, <2>3, <3>2, <3>3 DEF Agrees
  <2> QED BY <1>1, <2>4, <2>6, <2>7 DEF IInv
<1>6. CASE pass.stage = "over" /\ n = 1
  <2>1. e.is \in Ends
    BY <1>1, <1>6 DEF InStep, q, n, e
  <2>2. pass' = NoPass
    BY <1>3, <1>6
  <2>3. Typed'
    BY <1>1, <1>4, <2>2, NoPassFields DEF IInv, Typed
  <2>4. InStep'
    BY <1>1, <1>4, <2>1, <2>2, NoPassFields DEF InStep
  <2>5. Agrees => Agrees'
    <3> SUFFICES ASSUME Agrees PROVE Agrees'
      OBVIOUS
    <3>1. VersionAgrees /\ AppAgrees /\ "start" \notin tab.busy
      BY <1>6 DEF Agrees, PassAgrees, DoneAhead, n, q
    <3>2. CallsAgree'
      BY <1>1, <1>4, <3>1 DEF Agrees, CallsAgree
    <3>3. PassAgrees'
      BY <1>1, <1>4, <2>1, <2>2, <3>1, NoPassFields DEF PassAgrees, VersionAgrees, AppAgrees
    <3> QED BY <1>4, <2>1, <3>2, <3>3 DEF Agrees
  <2> QED BY <1>1, <2>3, <2>4, <2>5 DEF IInv
<1>7. CASE pass.stage = "over" /\ n # 1
  <2>1. /\ pass' \in Pass /\ pass'.stage = "over" /\ pass'.kind = pass.kind
        /\ pass'.told = pass.told /\ pass'.events = Tail(q)
    BY <1>1, <1>2, <1>3, <1>7 DEF Pass
  <2>2. /\ q[n].is \in Ends /\ e.is \notin Ends
        /\ \A i \in 1..(n - 1) : q[i].is \notin Ends
    <3>1. q[n].is \in Ends /\ \A i \in 1..(n - 1) : q[i].is \notin Ends
      BY <1>1, <1>7 DEF InStep, q, n
    <3>2. 1 \in 1..(n - 1)
      BY <1>2, <1>7
    <3> QED BY <3>1, <3>2 DEF e
  <2>3. /\ Tail(q) # <<>> /\ Tail(q)[n - 1].is \in Ends
        /\ \A i \in 1..(n - 2) : Tail(q)[i].is \notin Ends
    <3>1. /\ n - 1 \in 1..(n - 1) /\ (n - 1) + 1 = n
          /\ \A i \in 1..(n - 2) : i \in 1..(n - 1) /\ i + 1 \in 1..(n - 1)
      BY <1>2, <1>7
    <3>2. Tail(q) # <<>>
      <4>1. Tail(q) \in Seq(Event) /\ Len(Tail(q)) # 0
        BY <1>2, <1>7
      <4> QED BY <4>1, NotEmpty
    <3>3. Tail(q)[n - 1] = q[n]
      BY <1>2, <3>1
    <3>4. \A i \in 1..(n - 2) : Tail(q)[i] = q[i + 1] /\ q[i + 1].is \notin Ends
      BY <1>2, <2>2, <3>1
    <3> QED BY <2>2, <3>2, <3>3, <3>4
  <2>4. Typed'
    BY <1>1, <1>4, <2>1 DEF IInv, Typed
  <2>5. InStep'
    <3>1. Len(Tail(q)) - 1 = n - 2
      BY <1>2
    <3> QED BY <1>1, <1>2, <1>4, <1>7, <2>1, <2>2, <2>3, <3>1 DEF InStep
  <2>6. Agrees => Agrees'
    <3> SUFFICES ASSUME Agrees PROVE Agrees'
      OBVIOUS
    <3>1. "start" \notin tab.busy /\ (tab.run = "improving" => ~server.auto)
      BY <1>7 DEF Agrees, PassAgrees
    <3>2. CallsAgree'
      BY <1>1, <1>4, <3>1 DEF Agrees, CallsAgree
    <3>3. tab'.run = tab.run
      BY <1>4, <2>2
    <3>4. DoneAhead' \/ (NothingAhead' /\ VersionAgrees' /\ AppAgrees')
      <4>1. CASE NothingAhead /\ VersionAgrees /\ AppAgrees
        <5>1. \A i \in 1..n : q[i].is \notin {"live", "done"}
          BY <4>1 DEF NothingAhead, n, q
        <5>2. NothingAhead'
          <6>1. \A i \in 1..(n - 1) : i + 1 \in 1..n
            BY <1>2
          <6> QED BY <1>2, <2>1, <5>1, <6>1 DEF NothingAhead
        <5>3. e.is \in Ends \cup {"error"}
          BY <1>2, <5>1, EventCases DEF e
        <5> QED BY <1>1, <1>4, <4>1, <5>2, <5>3 DEF VersionAgrees, AppAgrees
      <4>2. CASE DoneAhead
        <5>1. /\ n >= 2 /\ NewVersion
              /\ q[n - 1] = [is |-> "done", version |-> server.version, app |-> server.app]
              /\ \A i \in 1..(n - 2) : q[i].is = "live"
          BY <4>2 DEF DoneAhead, n, q
        <5>2. CASE n = 2
          <6>1. e = [is |-> "done", version |-> server.version, app |-> server.app]
            BY <5>1, <5>2 DEF e
          <6>2. e.is = "done" /\ e.version = server.version /\ e.app = server.app
            BY <6>1
          <6>3. VersionAgrees' /\ AppAgrees'
            BY <1>1, <1>4, <5>1, <6>2 DEF VersionAgrees, AppAgrees, NewVersion
          <6>4. NothingAhead'
            <7>1. Len(Tail(q)) = 1 /\ Tail(q)[1].is \in Ends
              BY <1>2, <2>3, <5>2
            <7> QED BY <2>1, <7>1 DEF NothingAhead, Ends
          <6> QED BY <6>3, <6>4
        <5>3. CASE n > 2
          <6>1. e.is = "live" /\ NewVersion'
            BY <1>1, <1>2, <1>4, <3>3, <5>1, <5>3 DEF e, NewVersion
          <6>2. Tail(q)[n - 2] = q[n - 1] /\ \A i \in 1..(n - 3) : Tail(q)[i].is = "live"
            <7>1. /\ n - 2 \in 1..(n - 1) /\ (n - 2) + 1 = n - 1
                  /\ \A i \in 1..(n - 3) : i \in 1..(n - 1) /\ i + 1 \in 1..(n - 2)
              BY <1>2, <5>3
            <7> QED BY <1>2, <5>1, <7>1
          <6>3. Len(Tail(q)) >= 2 /\ Len(Tail(q)) - 1 = n - 2 /\ Len(Tail(q)) - 2 = n - 3
            BY <1>2, <5>3
          <6> QED BY <1>1, <2>1, <5>1, <6>1, <6>2, <6>3 DEF DoneAhead
        <5> QED BY <1>2, <5>1, <5>2, <5>3
      <4> QED BY <1>7, <4>1, <4>2 DEF Agrees, PassAgrees
    <3>5. PassAgrees'
      BY <1>1, <1>4, <1>7, <2>1, <3>1, <3>3, <3>4 DEF Agrees, PassAgrees
    <3>6. ~(tab'.link /\ tab'.err)
      <4>1. e.is \in {"live", "error", "done"}
        BY <1>2, <2>2, EventCases
      <4>2. CASE e.is = "done"
        BY <1>4, <4>2
      <4> QED BY <1>4, <4>1, <4>2 DEF Agrees
    <3> QED BY <3>2, <3>5, <3>6 DEF Agrees
  <2> QED BY <1>1, <2>4, <2>5, <2>6 DEF IInv
<1> QED BY <1>5, <1>6, <1>7

-----------------------------------------------------------------------------
(* The other requests *)

LEMMA EditIInv == ASSUME IInv, EditIdea \/ Cancel PROVE IInv'
<1>1. PICK editing \in BOOLEAN : tab' = [tab EXCEPT !.editing = editing]
  BY DEF EditIdea, Cancel
<1>2. UNCHANGED <<server, pass, calls, doubt>> /\ tab \in Tab
  BY DEF EditIdea, Cancel, IInv, Typed
<1>3. /\ tab' \in Tab /\ tab'.run = tab.run /\ tab'.version = tab.version /\ tab'.link = tab.link
      /\ tab'.err = tab.err /\ tab'.auto = tab.auto /\ tab'.text = tab.text /\ tab'.busy = tab.busy
  BY <1>1, <1>2 DEF Tab
<1>4. Typed' /\ InStep'
  BY <1>2, <1>3 DEF IInv, Typed, InStep
<1>5. Agrees => Agrees'
  BY <1>2, <1>3 DEF Agrees, CallsAgree, PassAgrees, VersionAgrees, AppAgrees, NewVersion,
    DoneAhead, NothingAhead
<1> QED BY <1>2, <1>4, <1>5 DEF IInv

\* One request's state is replaced; the others keep theirs.
LEMMA CallsExcept ==
  ASSUME calls \in [Kinds -> Call], NEW c \in Kinds, NEW r \in Call,
         calls' = [calls EXCEPT ![c] = r]
  PROVE  /\ calls' \in [Kinds -> Call] /\ calls'[c] = r
         /\ \A d \in Kinds : d # c => calls'[d] = calls[d]
OBVIOUS

LEMMA ClickIInv == ASSUME IInv, NEW c \in Kinds, Click(c) PROVE IInv'
<1>1. PICK arg \in Texts \cup {NoText} :
         calls' = [calls EXCEPT ![c] = [status |-> "sent", arg |-> arg]]
  BY DEF Click
<1> DEFINE r == [status |-> "sent", arg |-> arg]
<1>2. r \in Call /\ r.status = "sent"
  BY DEF Call
<1> HIDE DEF r
<1>3. /\ UNCHANGED <<server, pass, doubt>> /\ tab \in Tab /\ calls \in [Kinds -> Call]
      /\ tab' = [tab EXCEPT !.busy = @ \cup {c}] /\ c \notin tab.busy
      /\ c # "save" => tab.run = "none"
      /\ c = "start" => tab.err \/ ~tab.link
  BY DEF Click, StartIsOffered, ToggleIsOffered, IInv, Typed, Call, Kinds
<1>4. /\ calls' \in [Kinds -> Call] /\ calls'[c] = r
      /\ \A d \in Kinds : d # c => calls'[d] = calls[d]
  BY <1>1, <1>2, <1>3, CallsExcept DEF r
<1>5. /\ tab' \in Tab /\ tab'.run = tab.run /\ tab'.version = tab.version /\ tab'.link = tab.link
      /\ tab'.err = tab.err /\ tab'.auto = tab.auto /\ tab'.text = tab.text
      /\ tab'.busy = tab.busy \cup {c}
  BY <1>3 DEF Tab
<1>6. Typed'
  BY <1>3, <1>4, <1>5 DEF IInv, Typed, Call
<1>7. InStep'
  <2>1. \A d \in Kinds : d \in tab'.busy <=> calls'[d].status # "none"
    BY <1>2, <1>4, <1>5 DEF IInv, InStep
  <2> QED BY <1>3, <1>5, <2>1 DEF IInv, InStep
<1>8. ASSUME ~doubt PROVE Agrees'
  <2>1. /\ Agrees /\ calls[c].status = "none"
        /\ "start" \in Kinds /\ "toggle" \in Kinds /\ "save" \in Kinds
    BY <1>3, <1>8 DEF IInv, InStep, Kinds
  <2>2. CallsAgree'
    <3>1. tab'.auto = IF calls'["toggle"].status = "ok" THEN ~server.auto ELSE server.auto
      BY <1>2, <1>4, <1>5, <2>1 DEF Agrees, CallsAgree
    <3>2. server.text = IF calls'["save"].status = "ok" THEN calls'["save"].arg ELSE tab'.text
      BY <1>2, <1>4, <1>5, <2>1 DEF Agrees, CallsAgree
    <3>3. "start" \in tab'.busy => ~tab'.link
      BY <1>3, <1>5, <2>1 DEF Agrees, CallsAgree
    <3>4. /\ calls'["start"].status = "ok" => server.app = "live"
          /\ calls'["start"].status = "failed" => server.app = "error"
      BY <1>2, <1>4, <2>1 DEF Agrees, CallsAgree
    <3> QED BY <1>3, <3>1, <3>2, <3>3, <3>4 DEF CallsAgree
  <2>3. pass.stage # "none" => {"start", "toggle"} \cap tab'.busy = {}
    <3>1. pass.stage # "none" => c = "save"
      BY <1>3 DEF IInv, InStep
    <3> QED BY <1>5, <2>1, <3>1 DEF Agrees, PassAgrees
  <2>4. calls'["start"].status \in {"none", "sent"} => calls["start"].status \in {"none", "sent"}
    BY <1>4, <2>1
  <2>5. PassAgrees'
    BY <1>3, <1>5, <2>1, <2>3, <2>4 DEF Agrees, PassAgrees, VersionAgrees, AppAgrees, NewVersion,
      DoneAhead, NothingAhead
  <2> QED BY <1>5, <2>1, <2>2, <2>5 DEF Agrees
<1> QED BY <1>3, <1>6, <1>7, <1>8 DEF IInv

LEMMA ServeIInv == ASSUME IInv, NEW c \in Kinds, Serve(c) PROVE IInv'
<1>1. PICK status \in {"ok", "failed"} :
         /\ c = "start" /\ server'.app = "error" => status = "failed"
         /\ calls' = [calls EXCEPT ![c].status = status]
         /\ doubt' = (doubt \/ (status = "failed" /\ ~(c = "start" /\ server'.app = "error")))
  BY DEF Serve
<1>2. /\ server' \in Served(c) /\ UNCHANGED <<tab, pass>> /\ calls[c].status = "sent"
      /\ calls \in [Kinds -> Call] /\ server \in Idea /\ tab \in Tab /\ c \in tab.busy
  BY DEF Serve, IInv, Typed, InStep, Call
<1> DEFINE r == [calls[c] EXCEPT !.status = status]
<1>3. r \in Call /\ r.status = status /\ r.arg = calls[c].arg /\ calls[c].arg \in Texts \cup {NoText}
  BY <1>2 DEF Call
<1>4. calls' = [calls EXCEPT ![c] = r]
  BY <1>1
<1> HIDE DEF r
<1>5. /\ calls' \in [Kinds -> Call] /\ calls'[c] = r
      /\ \A d \in Kinds : d # c => calls'[d] = calls[d]
  BY <1>2, <1>3, <1>4, CallsExcept
<1>6. /\ server' \in Idea /\ server'.version = server.version
      /\ server'.app = server.app \/ (c = "start" /\ server'.app \in {"live", "error"})
      /\ server'.auto = IF c = "toggle" THEN ~tab.auto ELSE server.auto
      /\ server'.text = IF c = "save" THEN calls[c].arg ELSE server.text
  <2>1. CASE c = "start"
    <3>1. PICK app \in {"live", "error"} : server' = [server EXCEPT !.app = app]
      BY <1>2, <2>1 DEF Served
    <3> QED BY <1>2, <2>1, <3>1 DEF Idea, App
  <2>2. CASE c = "toggle"
    <3>1. server' = [server EXCEPT !.auto = ~tab.auto]
      BY <1>2, <2>2 DEF Served
    <3> QED BY <1>2, <2>2, <3>1 DEF Idea, Tab
  <2>3. CASE c = "save"
    <3>1. server' = [server EXCEPT !.text = calls[c].arg]
      BY <1>2, <2>3 DEF Served
    <3> QED BY <1>2, <1>3, <2>3, <3>1 DEF Idea
  <2> QED BY <2>1, <2>2, <2>3 DEF Kinds
<1>7. Typed'
  BY <1>1, <1>2, <1>5, <1>6 DEF IInv, Typed, Call
<1>8. InStep'
  <2>1. \A d \in Kinds : d \in tab'.busy <=> calls'[d].status # "none"
    BY <1>2, <1>3, <1>5 DEF IInv, InStep
  <2> QED BY <1>2, <2>1 DEF IInv, InStep
<1>9. ASSUME ~doubt' PROVE Agrees'
  <2>1. /\ Agrees /\ (status = "ok" \/ (c = "start" /\ server'.app = "error"))
        /\ "start" \in Kinds /\ "toggle" \in Kinds /\ "save" \in Kinds
    BY <1>1, <1>9 DEF IInv, Kinds
  <2>2. CallsAgree'
    <3>1. tab'.auto = IF calls'["toggle"].status = "ok" THEN ~server'.auto ELSE server'.auto
      <4>1. CASE c = "toggle"
        <5>1. calls'["toggle"].status = "ok" /\ server'.auto = ~tab.auto /\ tab.auto \in BOOLEAN
          BY <1>2, <1>3, <1>5, <1>6, <2>1, <4>1 DEF Tab
        <5>2. tab.auto = ~server'.auto
          BY <5>1
        <5> QED BY <1>2, <5>1, <5>2
      <4>2. CASE c # "toggle"
        BY <1>2, <1>5, <1>6, <2>1, <4>2 DEF Agrees, CallsAgree
      <4> QED BY <4>1, <4>2
    <3>2. server'.text = IF calls'["save"].status = "ok" THEN calls'["save"].arg ELSE tab'.text
      <4>1. CASE c = "save"
        BY <1>3, <1>5, <1>6, <2>1, <4>1
      <4>2. CASE c # "save"
        BY <1>2, <1>5, <1>6, <2>1, <4>2 DEF Agrees, CallsAgree
      <4> QED BY <4>1, <4>2
    <3>3. /\ calls'["start"].status = "ok" => server'.app = "live"
          /\ calls'["start"].status = "failed" => server'.app = "error"
      <4>1. CASE c = "start"
        <5>1. calls'["start"].status = status
          BY <1>3, <1>5, <4>1
        <5>2. server'.app \in {"live", "error"}
          <6>1. calls["start"].status = "sent" /\ server'.app \in {server.app, "live", "error"}
            BY <1>2, <1>6, <4>1
          <6>2. PICK app \in {"live", "error"} : server' = [server EXCEPT !.app = app]
            BY <1>2, <4>1 DEF Served
          <6> QED BY <1>2, <6>2 DEF Idea
        <5> QED BY <1>1, <2>1, <4>1, <5>1, <5>2
      <4>2. CASE c # "start"
        BY <1>5, <1>6, <2>1, <4>2 DEF Agrees, CallsAgree
      <4> QED BY <4>1, <4>2
    <3> QED BY <1>2, <2>1, <3>1, <3>2, <3>3 DEF Agrees, CallsAgree
  <2>3. CASE c = "save"
    <3>1. /\ server'.version = server.version /\ server'.app = server.app
          /\ server'.auto = server.auto /\ calls'["start"] = calls["start"]
      BY <1>5, <1>6, <2>1, <2>3
    <3>2. /\ AppAgrees' <=> AppAgrees
          /\ VersionAgrees' <=> VersionAgrees
          /\ NewVersion' <=> NewVersion
          /\ NothingAhead' <=> NothingAhead
      BY <1>2, <3>1 DEF AppAgrees, VersionAgrees, NewVersion, NothingAhead
    <3>3. DoneAhead' <=> DoneAhead
      BY <1>2, <3>1, <3>2 DEF DoneAhead
    <3>4. PassAgrees'
      BY <1>2, <2>1, <3>1, <3>2, <3>3 DEF Agrees, PassAgrees
    <3> QED BY <1>2, <2>1, <2>2, <3>4 DEF Agrees
  <2>4. CASE c # "save"
    <3>1. pass.stage = "none" /\ tab.run = "none"
      BY <1>2, <2>1, <2>4 DEF Agrees, PassAgrees, Kinds, IInv, InStep
    <3>2. calls'["start"].status \in {"none", "sent"} => AppAgrees'
      <4>1. CASE c = "start"
        BY <1>3, <1>5, <4>1
      <4>2. CASE c # "start"
        <5>1. ~pass.told
          BY <3>1 DEF IInv, InStep
        <5> QED BY <1>2, <1>5, <1>6, <2>1, <3>1, <4>2, <5>1 DEF Agrees, PassAgrees, AppAgrees
      <4> QED BY <4>1, <4>2
    <3>3. VersionAgrees'
      BY <1>2, <1>6, <2>1, <3>1 DEF Agrees, PassAgrees, VersionAgrees
    <3>4. PassAgrees'
      BY <1>2, <3>1, <3>2, <3>3 DEF PassAgrees
    <3> QED BY <1>2, <2>1, <2>2, <3>4 DEF Agrees
  <2> QED BY <1>2, <2>1, <2>2, <2>3, <2>4 DEF Agrees
<1> QED BY <1>7, <1>8, <1>9 DEF IInv

LEMMA RefuseCallIInv == ASSUME IInv, NEW c \in Kinds, RefuseCall(c) PROVE IInv'
<1> DEFINE r == [calls[c] EXCEPT !.status = "failed"]
<1>1. /\ UNCHANGED <<server, tab, pass>> /\ calls[c].status = "sent" /\ calls' = [calls EXCEPT ![c] = r]
      /\ doubt' = (doubt \/ c = "start") /\ calls \in [Kinds -> Call] /\ doubt' \in BOOLEAN
  BY DEF RefuseCall, IInv, Typed, Call
<1>2. r \in Call /\ r.status = "failed"
  BY <1>1 DEF Call
<1> HIDE DEF r
<1>3. /\ calls' \in [Kinds -> Call] /\ calls'[c] = r
      /\ \A d \in Kinds : d # c => calls'[d] = calls[d]
  BY <1>1, <1>2, CallsExcept
<1>4. Typed'
  BY <1>1, <1>3 DEF IInv, Typed, Call
<1>5. InStep'
  <2>1. \A d \in Kinds : d \in tab'.busy <=> calls'[d].status # "none"
    BY <1>1, <1>2, <1>3 DEF IInv, InStep
  <2> QED BY <1>1, <2>1 DEF IInv, InStep
<1>6. ASSUME ~doubt' PROVE Agrees'
  <2>1. /\ Agrees /\ c # "start" /\ "start" \in Kinds /\ "toggle" \in Kinds /\ "save" \in Kinds
    BY <1>1, <1>6 DEF IInv, Kinds
  <2>2. calls'["start"] = calls["start"]
    BY <1>3, <2>1
  <2>3. CallsAgree'
    BY <1>1, <1>2, <1>3, <2>1, <2>2 DEF Agrees, CallsAgree
  <2>4. PassAgrees'
    BY <1>1, <2>1, <2>2 DEF Agrees, PassAgrees, VersionAgrees, AppAgrees, NewVersion,
      DoneAhead, NothingAhead
  <2> QED BY <1>1, <2>1, <2>3, <2>4 DEF Agrees
<1> QED BY <1>4, <1>5, <1>6 DEF IInv

\* What an answer changes in the page.
LEMMA ShownFields ==
  ASSUME tab \in Tab, calls \in [Kinds -> Call], NEW c \in Kinds
  PROVE  LET view == Shown(c)
             ok == calls[c].status = "ok" IN
         /\ view \in Tab /\ view.run = tab.run /\ view.version = tab.version
         /\ view.busy = tab.busy \ {c}
         /\ view.link = (tab.link \/ (c = "start" /\ ok))
         /\ view.err = IF c = "start" THEN ~ok ELSE tab.err
         /\ view.auto = IF c = "toggle" /\ ok THEN ~tab.auto ELSE tab.auto
         /\ view.text = IF c = "save" /\ ok THEN calls[c].arg ELSE tab.text
<1> DEFINE free == [tab EXCEPT !.busy = @ \ {c}]
           ok == calls[c].status = "ok"
<1>1. /\ free \in Tab /\ free.run = tab.run /\ free.version = tab.version /\ free.link = tab.link
      /\ free.err = tab.err /\ free.auto = tab.auto /\ free.text = tab.text
      /\ free.busy = tab.busy \ {c}
  <2>1. tab.busy \ {c} \in SUBSET Kinds
    BY DEF Tab
  <2> QED BY <2>1 DEF Tab
<1>2. CASE c = "start"
  <2>1. Shown(c) = IF ok THEN [free EXCEPT !.link = TRUE, !.err = FALSE] ELSE [free EXCEPT !.err = TRUE]
    BY <1>2 DEF Shown, ShowLive
  <2> HIDE DEF free
  <2> DEFINE good == [free EXCEPT !.link = TRUE, !.err = FALSE]
             bad == [free EXCEPT !.err = TRUE]
  <2>2. /\ good \in Tab /\ good.run = free.run /\ good.version = free.version
        /\ good.busy = free.busy /\ good.link = TRUE /\ good.err = FALSE
        /\ good.auto = free.auto /\ good.text = free.text
    BY <1>1 DEF Tab
  <2>3. /\ bad \in Tab /\ bad.run = free.run /\ bad.version = free.version
        /\ bad.busy = free.busy /\ bad.link = free.link /\ bad.err = TRUE
        /\ bad.auto = free.auto /\ bad.text = free.text
    BY <1>1 DEF Tab
  <2>4. Shown(c) = IF ok THEN good ELSE bad
    BY <2>1
  <2> HIDE DEF good, bad, ok
  <2>5. tab.link \in BOOLEAN /\ ok \in BOOLEAN
    BY DEF Tab, ok
  <2> QED BY <1>1, <1>2, <2>2, <2>3, <2>4, <2>5 DEF ok
<1>3. CASE c = "toggle"
  <2>1. Shown(c) = IF ok THEN [free EXCEPT !.auto = ~@] ELSE free
    BY <1>3 DEF Shown
  <2> HIDE DEF free
  <2> DEFINE flipped == [free EXCEPT !.auto = ~@]
  <2>2. /\ flipped \in Tab /\ flipped.run = free.run /\ flipped.version = free.version
        /\ flipped.busy = free.busy /\ flipped.link = free.link /\ flipped.err = free.err
        /\ flipped.auto = ~free.auto /\ flipped.text = free.text
    BY <1>1 DEF Tab
  <2>3. Shown(c) = IF ok THEN flipped ELSE free
    BY <2>1
  <2> HIDE DEF flipped
  <2>4. tab.link \in BOOLEAN
    BY DEF Tab
  <2> QED BY <1>1, <1>3, <2>2, <2>3, <2>4
<1>4. CASE c = "save"
  <2>1. /\ Shown(c) = IF ok THEN [free EXCEPT !.text = calls[c].arg, !.editing = FALSE] ELSE free
        /\ calls[c].arg \in Texts \cup {NoText}
    BY <1>4 DEF Shown, Call
  <2> HIDE DEF free
  <2> DEFINE saved == [free EXCEPT !.text = calls[c].arg, !.editing = FALSE]
  <2>2. /\ saved \in Tab /\ saved.run = free.run /\ saved.version = free.version
        /\ saved.busy = free.busy /\ saved.link = free.link /\ saved.err = free.err
        /\ saved.auto = free.auto /\ saved.text = calls[c].arg
    BY <1>1, <2>1 DEF Tab
  <2>3. Shown(c) = IF ok THEN saved ELSE free
    BY <2>1
  <2> HIDE DEF saved
  <2>4. tab.link \in BOOLEAN
    BY DEF Tab
  <2> QED BY <1>1, <1>4, <2>2, <2>3, <2>4
<1> QED BY <1>2, <1>3, <1>4 DEF Kinds

LEMMA HearIInv == ASSUME IInv, NEW c \in Kinds, HearAnswer(c) PROVE IInv'
<1> DEFINE ok == calls[c].status = "ok"
<1>1. /\ UNCHANGED <<server, pass, doubt>> /\ calls[c].status \in {"ok", "failed"}
      /\ tab' = Shown(c) /\ calls' = [calls EXCEPT ![c] = Quiet]
      /\ calls \in [Kinds -> Call] /\ tab \in Tab /\ server \in Idea /\ c \in tab.busy
  BY DEF HearAnswer, IInv, Typed, InStep, Call
<1>2. Quiet \in Call /\ Quiet.status = "none"
  BY DEF Call, Quiet
<1>3. /\ calls' \in [Kinds -> Call] /\ calls'[c] = Quiet
      /\ \A d \in Kinds : d # c => calls'[d] = calls[d]
  BY <1>1, <1>2, CallsExcept
<1>4. /\ tab' \in Tab /\ tab'.run = tab.run /\ tab'.version = tab.version
      /\ tab'.busy = tab.busy \ {c}
      /\ tab'.link = (tab.link \/ (c = "start" /\ ok))
      /\ tab'.err = IF c = "start" THEN ~ok ELSE tab.err
      /\ tab'.auto = IF c = "toggle" /\ ok THEN ~tab.auto ELSE tab.auto
      /\ tab'.text = IF c = "save" /\ ok THEN calls[c].arg ELSE tab.text
  BY <1>1, ShownFields
<1>5. Typed'
  BY <1>1, <1>3, <1>4 DEF IInv, Typed, Call
<1>6. InStep'
  <2>1. \A d \in Kinds : d \in tab'.busy <=> calls'[d].status # "none"
    BY <1>2, <1>3, <1>4 DEF IInv, InStep
  <2> QED BY <1>1, <1>4, <2>1 DEF IInv, InStep
<1>7. ASSUME ~doubt PROVE Agrees'
  <2>1. /\ Agrees /\ "start" \in Kinds /\ "toggle" \in Kinds /\ "save" \in Kinds
        /\ tab.auto \in BOOLEAN /\ server.auto \in BOOLEAN /\ tab.link \in BOOLEAN
    BY <1>1, <1>7 DEF IInv, Kinds, Tab, Idea
  <2>2. c = "start" => ~tab.link /\ server.app = IF ok THEN "live" ELSE "error"
    BY <1>1, <2>1 DEF Agrees, CallsAgree
  <2>3. c = "start" => AppAgrees'
    BY <1>1, <1>4, <2>1, <2>2 DEF AppAgrees
  <2>4. c # "start" => /\ calls'["start"] = calls["start"]
                       /\ tab'.link = tab.link /\ tab'.err = tab.err
    BY <1>3, <1>4, <2>1
  <2>5. CallsAgree'
    <3>1. tab'.auto = IF calls'["toggle"].status = "ok" THEN ~server.auto ELSE server.auto
      <4>1. CASE c = "toggle"
        BY <1>2, <1>3, <1>4, <2>1, <4>1 DEF Agrees, CallsAgree
      <4>2. CASE c # "toggle"
        BY <1>3, <1>4, <2>1, <4>2 DEF Agrees, CallsAgree
      <4> QED BY <4>1, <4>2
    <3>2. server.text = IF calls'["save"].status = "ok" THEN calls'["save"].arg ELSE tab'.text
      <4>1. CASE c = "save"
        BY <1>2, <1>3, <1>4, <2>1, <4>1 DEF Agrees, CallsAgree
      <4>2. CASE c # "save"
        BY <1>3, <1>4, <2>1, <4>2 DEF Agrees, CallsAgree
      <4> QED BY <4>1, <4>2
    <3>3. "start" \in tab'.busy => ~tab'.link
      BY <1>4, <2>1 DEF Agrees, CallsAgree
    <3>4. /\ calls'["start"].status = "ok" => server.app = "live"
          /\ calls'["start"].status = "failed" => server.app = "error"
      <4>1. CASE c = "start"
        BY <1>2, <1>3, <4>1
      <4>2. CASE c # "start"
        BY <2>1, <2>4, <4>2 DEF Agrees, CallsAgree
      <4> QED BY <4>1, <4>2
    <3> QED BY <1>1, <3>1, <3>2, <3>3, <3>4 DEF CallsAgree
  <2>6. PassAgrees'
    <3>1. CASE c = "start"
      <4>1. pass.stage = "none" /\ tab.run = "none"
        BY <1>1, <2>1, <3>1 DEF Agrees, PassAgrees, IInv, InStep
      <4> QED BY <1>1, <1>4, <2>1, <2>3, <3>1, <4>1 DEF Agrees, PassAgrees, VersionAgrees
    <3>2. CASE c # "start"
      <4>1. /\ AppAgrees' <=> AppAgrees
            /\ VersionAgrees' <=> VersionAgrees
            /\ NewVersion' <=> NewVersion
        BY <1>1, <1>4, <2>4, <3>2 DEF AppAgrees, VersionAgrees, NewVersion
      <4>2. NothingAhead' <=> NothingAhead
        BY <1>1 DEF NothingAhead
      <4>3. DoneAhead => DoneAhead'
        BY <1>1, <4>1 DEF DoneAhead
      <4>4. {"start", "toggle"} \cap tab.busy = {} => {"start", "toggle"} \cap tab'.busy = {}
        BY <1>4
      <4> HIDE DEF ok
      <4> QED BY <1>1, <1>4, <2>1, <2>4, <3>2, <4>1, <4>2, <4>3, <4>4 DEF Agrees, PassAgrees
    <3> QED BY <3>1, <3>2
  <2>7. ~(tab'.link /\ tab'.err)
    BY <1>4, <2>1, <2>2 DEF Agrees
  <2> QED BY <2>5, <2>6, <2>7 DEF Agrees
<1> QED BY <1>1, <1>5, <1>6, <1>7 DEF IInv

-----------------------------------------------------------------------------
(* The results *)

LEMMA NextIInv == IInv /\ [Next]_vars => IInv'
<1> SUFFICES ASSUME IInv, [Next]_vars PROVE IInv'
  OBVIOUS
<1>1. CASE Next
  <2>1. CASE PassAnswers
    BY <2>1, RefuseIInv, AcceptIInv, RelayIInv, ShipIInv, FinishIInv, FailIInv DEF PassAnswers
  <2>2. CASE EditIdea \/ Cancel
    BY <2>2, EditIInv
  <2>3. ASSUME NEW c \in Kinds, Click(c) \/ Serve(c) \/ RefuseCall(c) \/ HearAnswer(c) PROVE IInv'
    BY <2>3, ClickIInv, ServeIInv, RefuseCallIInv, HearIInv
  <2> QED BY <1>1, <2>1, <2>2, <2>3, ReloadIInv, OthersIInv, RunIInv, ReadIInv DEF Next
<1>2. CASE UNCHANGED vars
  <2>1. Typed' /\ InStep'
    BY <1>2 DEF vars, IInv, Typed, InStep
  <2>2. Agrees => Agrees'
    BY <1>2 DEF vars, Agrees, CallsAgree, PassAgrees, VersionAgrees, AppAgrees, NewVersion,
      DoneAhead, NothingAhead
  <2> QED BY <1>2, <2>1, <2>2 DEF vars, IInv
<1> QED BY <1>1, <1>2

\* The tab, the stream it reads and the requests it waits for stay in step.
THEOREM Invariance == Spec => []IInv
<1>1. Init => IInv
  BY InitIInv
<1>2. IInv /\ [Next]_vars => IInv'
  BY NextIInv
<1> QED BY <1>1, <1>2, PTL DEF Spec

\* TypeOK holds in every behaviour: the page is well formed, and it never shows
\* a link together with a failed start unless a pass was begun during the start.
THEOREM TypeCorrect == Spec => []TypeOK
<1>1. IInv => TypeOK
  <2> SUFFICES ASSUME IInv PROVE TypeOK
    OBVIOUS
  <2>1. /\ server \in Idea /\ tab \in Tab /\ pass \in Pass /\ doubt \in BOOLEAN
        /\ calls \in [Kinds -> Call]
    BY DEF IInv, Typed
  <2>2. tab.link /\ tab.err => doubt
    BY DEF IInv, Agrees
  <2>3. /\ tab.run \in {"none", "building", "improving"} /\ tab.version \in 0..MaxVersion
        /\ tab.link \in BOOLEAN /\ tab.err \in BOOLEAN /\ tab.auto \in BOOLEAN
        /\ tab.text \in Texts \cup {NoText} /\ tab.editing \in BOOLEAN /\ tab.busy \subseteq Kinds
    BY <2>1 DEF Tab
  <2>4. pass.stage \in {"none", "asked", "working", "starting", "over"}
    BY <2>1 DEF Pass
  <2> QED BY <2>1, <2>2, <2>3, <2>4 DEF TypeOK, Idea, Call
<1> QED BY <1>1, Invariance, PTL

\* TabAgrees holds in every behaviour: a page at rest shows the idea as the server
\* has it, and auto-improve is off while an improvement streams, as long as
\* nothing happened that no answer tells.
THEOREM PageIsUpToDate == Spec => []TabAgrees
<1>1. IInv => TabAgrees
  <2> SUFFICES ASSUME IInv, ~doubt PROVE
        /\ tab.run = "none" /\ tab.busy = {} =>
              [tab EXCEPT !.editing = FALSE] = Loaded(server, TRUE)
        /\ tab.run = "improving" => ~server.auto
    BY DEF TabAgrees
  <2>1. server \in Idea /\ tab \in Tab /\ Agrees /\ InStep
    BY DEF IInv, Typed
  <2>2. tab.run = "improving" => ~server.auto
    BY <2>1 DEF Agrees, PassAgrees
  <2>3. ASSUME tab.run = "none", tab.busy = {}
        PROVE  [tab EXCEPT !.editing = FALSE] = Loaded(server, TRUE)
    <3>1. /\ pass.stage = "none" /\ ~pass.told
          /\ \A c \in {"start", "toggle", "save"} : calls[c].status = "none"
      BY <2>1, <2>3 DEF InStep, Kinds
    <3>2. VersionAgrees /\ AppAgrees
      BY <2>1, <3>1 DEF Agrees, PassAgrees
    <3>3. tab.auto = server.auto /\ tab.text = server.text
      BY <2>1, <3>1 DEF Agrees, CallsAgree
    <3>4. /\ tab.version = server.version /\ tab.link = (server.app = "live")
          /\ tab.err = (server.app = "error")
      BY <3>2 DEF VersionAgrees, AppAgrees
    <3> DEFINE view == [tab EXCEPT !.editing = FALSE]
    <3>5. /\ view \in Tab /\ view.editing = FALSE /\ view.run = tab.run /\ view.version = tab.version
          /\ view.link = tab.link /\ view.err = tab.err /\ view.auto = tab.auto
          /\ view.text = tab.text /\ view.busy = tab.busy
      BY <2>1 DEF Tab
    <3> HIDE DEF view
    <3>6. view = [run |-> view.run, version |-> view.version, link |-> view.link, err |-> view.err,
                  auto |-> view.auto, text |-> view.text, editing |-> view.editing,
                  busy |-> view.busy]
      BY <3>5 DEF Tab
    <3>7. server.auto = (server.auto /\ TRUE)
      BY <2>1 DEF Idea
    <3>8. view = Loaded(server, TRUE)
      BY <2>3, <3>3, <3>4, <3>5, <3>6, <3>7 DEF Loaded
    <3> QED BY <3>8 DEF view
  <2> QED BY <2>2, <2>3
<1> QED BY <1>1, Invariance, PTL
=============================================================================
