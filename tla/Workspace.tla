----------------------------- MODULE Workspace -----------------------------
(***************************************************************************)
(* The page of one idea in one browser tab                                 *)
(* (src/apps/web/src/components/IdeaWorkspace.tsx, client-api.ts) beside   *)
(* what the server keeps of the idea, as far as the page shows it.         *)
(*                                                                         *)
(* The tab copies the server's state once, when the page loads, and from   *)
(* then on changes its copy by what its own requests answer: the events of *)
(* the pass it streams, and the answers to starting the app, flipping      *)
(* auto-improve and saving the text.  Requests of different kinds may be   *)
(* under way at once.  The server's side is modelled by what its routes    *)
(* promise; the modules of the routes hold the detail.  The page of a      *)
(* deployment without a builder key offers no pass and is left out.        *)
(***************************************************************************)
EXTENDS Naturals, Sequences

CONSTANTS
  Texts,       \* what a founder may write
  NoText,      \* an idea created without text
  MaxVersion   \* bound: improvements offered stop here

ASSUME WorkspaceAssumption == NoText \notin Texts /\ MaxVersion \in Nat \ {0}

VARIABLES
  server,  \* the idea: version, text, its app, auto-improve
  tab,     \* the component's state
  pass,    \* the build or improve request of this tab and its stream
  calls,   \* its other requests
  doubt    \* history: something happened since the page loaded that no answer tells

vars == <<server, tab, pass, calls, doubt>>

App == {"unknown", "live", "error"}
Kinds == {"start", "toggle", "save"}
Quiet == [status |-> "none", arg |-> NoText]
NoPass == [stage |-> "none", kind |-> "none", told |-> FALSE, events |-> <<>>]

\* The props of the page.  A cell that cannot be read shows auto-improve off.
Loaded(idea, reached) ==
  [run |-> "none", version |-> idea.version, link |-> idea.app = "live", err |-> idea.app = "error",
   auto |-> idea.auto /\ reached, text |-> idea.text, editing |-> FALSE, busy |-> {}]

Init ==
  /\ \E text \in Texts \cup {NoText} :
        server = [version |-> 0, app |-> "unknown", auto |-> FALSE, text |-> text]
  /\ tab = Loaded(server, TRUE)
  /\ pass = NoPass /\ calls = [c \in Kinds |-> Quiet] /\ doubt = FALSE

Reload ==
  \E reached \in BOOLEAN :
     /\ tab' = Loaded(server, reached)
     /\ pass' = NoPass /\ calls' = [c \in Kinds |-> Quiet]
     /\ doubt' = (server.auto /\ ~reached)
     /\ UNCHANGED server

\* Another tab, a wake of the agent, or a request this tab no longer hears.
\* Bound: only while the page is not already out of step.
Others ==
  /\ ~doubt
  /\ \/ \E version \in 1..MaxVersion, app \in {"live", "error"} :
           server' = [server EXCEPT !.version = version, !.app = app]
     \/ server' = [server EXCEPT !.auto = ~@]
     \/ \E text \in Texts : server' = [server EXCEPT !.text = text]
  /\ doubt' = TRUE
  /\ UNCHANGED <<tab, pass, calls>>

-----------------------------------------------------------------------------
(* Passes *)

CanAct == tab.text # NoText /\ tab.run = "none"

\* The button Build v1, later Improve and the one that rebuilds.  None of
\* them looks at a start or a toggle under way.
PassIsOffered(kind) ==
  /\ CanAct
  /\ tab.version > 0 => ~tab.auto
  /\ kind = "improving" => tab.version \in 1..(MaxVersion - 1)

RunStreamedPass(kind) ==
  /\ PassIsOffered(kind)
  /\ tab' = [tab EXCEPT !.run = kind]
  /\ pass' = [NoPass EXCEPT !.stage = "asked", !.kind = kind]
  /\ doubt' = (doubt \/ {"start", "toggle"} \cap tab.busy # {})
  /\ UNCHANGED <<server, calls>>

Send(event) == Append(pass.events, event)

\* Refused, with an answer that is no stream.
RefusePass ==
  /\ pass.stage = "asked"
  /\ pass' = [pass EXCEPT !.stage = "over", !.events = Send([is |-> "refused"])]
  /\ UNCHANGED <<server, tab, calls, doubt>>

AcceptPass ==
  /\ pass.stage = "asked"
  /\ pass' = [pass EXCEPT !.stage = "working"]
  /\ UNCHANGED <<server, tab, calls, doubt>>

\* The agent says the app is live before its pass is settled.
RelayLive ==
  /\ pass.stage = "working" /\ ~pass.told
  /\ pass' = [pass EXCEPT !.told = TRUE, !.events = Send([is |-> "live"])]
  /\ UNCHANGED <<server, tab, calls, doubt>>

\* The iteration is recorded, then how the app came up.
Ship ==
  /\ pass.stage = "working"
  /\ pass.kind = "improving" => server.version < MaxVersion
  /\ server' = [server EXCEPT !.version = IF pass.kind = "building" THEN 1 ELSE @ + 1]
  /\ pass' = [pass EXCEPT !.stage = "starting", !.told = TRUE]
  /\ UNCHANGED <<tab, calls, doubt>>

FinishPass ==
  /\ pass.stage = "starting"
  /\ \E app \in {"live", "error"} :
        /\ server' = [server EXCEPT !.app = app]
        /\ pass' = [pass EXCEPT !.stage = "over", !.events = @ \o
              (IF app = "live" THEN <<[is |-> "live"]>> ELSE <<>>)
              \o <<[is |-> "done", version |-> server.version, app |-> app], [is |-> "closed"]>>]
  /\ UNCHANGED <<tab, calls, doubt>>

\* It fails, with an error event, or the connection breaks.
FailPass ==
  /\ pass.stage \in {"asked", "working", "starting"}
  /\ \E events \in {<<[is |-> "error"], [is |-> "closed"]>>, <<[is |-> "broken"]>>} :
        pass' = [pass EXCEPT !.stage = "over", !.events = @ \o events]
  /\ doubt' = (doubt \/ pass.told)
  /\ UNCHANGED <<server, tab, calls>>

\* What one event does to the page: done shows either a link or an error.
ShowLive(view) == [view EXCEPT !.link = TRUE, !.err = FALSE]

\* Mutant: a failed start leaves the link.
ApplyDoneKeepsLink(view, event) ==
  LET shipped == [view EXCEPT !.version =
                    IF view.run = "building" \/ event.version > @ THEN event.version ELSE @]
  IN IF event.app = "live" THEN ShowLive(shipped) ELSE [shipped EXCEPT !.err = TRUE]

ApplyDone(view, event) ==
  LET shipped == [view EXCEPT !.version =
                    IF view.run = "building" \/ event.version > @ THEN event.version ELSE @]
  IN IF event.app = "live" THEN ShowLive(shipped)
     ELSE [shipped EXCEPT !.link = FALSE, !.err = TRUE]

\* Mutant: a stream that breaks leaves the page running.
OnEventForgetsBroken(event) ==
  CASE event.is = "live" -> ShowLive(tab)
    [] event.is = "done" -> ApplyDone(tab, event)
    [] event.is \in {"error", "broken"} -> tab
    [] event.is \in {"refused", "closed"} -> [tab EXCEPT !.run = "none"]

OnEvent(event) ==
  CASE event.is = "live" -> ShowLive(tab)
    [] event.is = "done" -> ApplyDone(tab, event)
    [] event.is = "error" -> tab
    [] event.is \in {"refused", "closed", "broken"} -> [tab EXCEPT !.run = "none"]

ReadEvent ==
  /\ pass.events # <<>>
  /\ tab' = OnEvent(Head(pass.events))
  /\ pass' = IF Len(pass.events) = 1 /\ pass.stage = "over" THEN NoPass
             ELSE [pass EXCEPT !.events = Tail(@)]
  /\ UNCHANGED <<server, calls, doubt>>

-----------------------------------------------------------------------------
(* Starting the app, auto-improve, the text *)

\* The page offers to start the app under an error, and where it has neither
\* an error nor a link.
StartIsOffered ==
  /\ tab.run = "none" /\ "start" \notin tab.busy
  /\ tab.err \/ (~tab.link /\ tab.version > 0)

ToggleIsOffered ==
  tab.run = "none" /\ tab.version > 0 /\ tab.text # NoText /\ "toggle" \notin tab.busy

\* The text may be edited while nothing runs, and saved at any time after.
EditIdea ==
  /\ ~tab.editing /\ tab.run = "none"
  /\ tab' = [tab EXCEPT !.editing = TRUE]
  /\ UNCHANGED <<server, pass, calls, doubt>>

Cancel ==
  /\ tab.editing /\ "save" \notin tab.busy
  /\ tab' = [tab EXCEPT !.editing = FALSE]
  /\ UNCHANGED <<server, pass, calls, doubt>>

Click(c) ==
  /\ CASE c = "start" -> StartIsOffered
       [] c = "toggle" -> ToggleIsOffered
       [] c = "save" -> tab.editing /\ "save" \notin tab.busy
  /\ \E arg \in (IF c = "save" THEN Texts ELSE {NoText}) :
        calls' = [calls EXCEPT ![c] = [status |-> "sent", arg |-> arg]]
  /\ tab' = [tab EXCEPT !.busy = @ \cup {c}]
  /\ UNCHANGED <<server, pass, doubt>>

\* What the routes do; starting the app may fail, and says so.
Served(c) ==
  CASE c = "start" -> {[server EXCEPT !.app = app] : app \in {"live", "error"}}
    [] c = "toggle" -> {[server EXCEPT !.auto = ~tab.auto]}
    [] c = "save" -> {[server EXCEPT !.text = calls[c].arg]}

\* The answer may be an error although the work was done: a kick that failed
\* after the toggle was stored, a response that was lost.
Serve(c) ==
  /\ calls[c].status = "sent"
  /\ server' \in Served(c)
  /\ \E status \in {"ok", "failed"} :
        /\ c = "start" /\ server'.app = "error" => status = "failed"
        /\ calls' = [calls EXCEPT ![c].status = status]
        /\ doubt' = (doubt \/ (status = "failed" /\ ~(c = "start" /\ server'.app = "error")))
  /\ UNCHANGED <<tab, pass>>

\* Nothing is done.  The page shows an app that could not be started as failed.
RefuseCall(c) ==
  /\ calls[c].status = "sent"
  /\ calls' = [calls EXCEPT ![c].status = "failed"]
  /\ doubt' = (doubt \/ c = "start")
  /\ UNCHANGED <<server, tab, pass>>

\* Mutant: the toggle shows what was asked for, whatever the answer.
ShownOptimistic(c) ==
  LET free == [tab EXCEPT !.busy = @ \ {c}]
      ok == calls[c].status = "ok"
  IN CASE c = "start" -> IF ok THEN ShowLive(free) ELSE [free EXCEPT !.err = TRUE]
       [] c = "toggle" -> [free EXCEPT !.auto = ~@]
       [] c = "save" -> IF ok THEN [free EXCEPT !.text = calls[c].arg, !.editing = FALSE] ELSE free

\* handleStartApp, handleAutoToggle, handleSaveIdea after their answer.
Shown(c) ==
  LET free == [tab EXCEPT !.busy = @ \ {c}]
      ok == calls[c].status = "ok"
  IN CASE c = "start" -> IF ok THEN ShowLive(free) ELSE [free EXCEPT !.err = TRUE]
       [] c = "toggle" -> IF ok THEN [free EXCEPT !.auto = ~@] ELSE free
       [] c = "save" -> IF ok THEN [free EXCEPT !.text = calls[c].arg, !.editing = FALSE] ELSE free

HearAnswer(c) ==
  /\ calls[c].status \in {"ok", "failed"}
  /\ tab' = Shown(c)
  /\ calls' = [calls EXCEPT ![c] = Quiet]
  /\ UNCHANGED <<server, pass, doubt>>

-----------------------------------------------------------------------------
PassAnswers == RefusePass \/ AcceptPass \/ RelayLive \/ Ship \/ FinishPass \/ FailPass

Next ==
  \/ Reload \/ Others
  \/ \E kind \in {"building", "improving"} : RunStreamedPass(kind)
  \/ PassAnswers \/ ReadEvent
  \/ EditIdea \/ Cancel
  \/ \E c \in Kinds : Click(c) \/ Serve(c) \/ RefuseCall(c) \/ HearAnswer(c)

Spec == Init /\ [][Next]_vars

\* The routes answer and a tab reads what has arrived.
FairSpec ==
  /\ Spec
  /\ WF_vars(PassAnswers) /\ WF_vars(ReadEvent)
  /\ \A c \in Kinds : WF_vars(Serve(c) \/ RefuseCall(c)) /\ WF_vars(HearAnswer(c))

-----------------------------------------------------------------------------
(* Properties *)

\* Type invariant.  The page never shows a link together with a failed start,
\* unless a pass was begun while the app was being started.
TypeOK ==
  /\ server \in [version : 0..MaxVersion, app : App, auto : BOOLEAN, text : Texts \cup {NoText}]
  /\ tab.run \in {"none", "building", "improving"} /\ tab.version \in 0..MaxVersion
  /\ tab.link \in BOOLEAN /\ tab.err \in BOOLEAN /\ tab.auto \in BOOLEAN
  /\ tab.text \in Texts \cup {NoText} /\ tab.editing \in BOOLEAN /\ tab.busy \subseteq Kinds
  /\ pass.stage \in {"none", "asked", "working", "starting", "over"}
  /\ calls \in [Kinds -> [status : {"none", "sent", "ok", "failed"}, arg : Texts \cup {NoText}]]
  /\ doubt \in BOOLEAN
  /\ tab.link /\ tab.err => doubt

\* A page at rest shows the idea as the server has it, and while it streams an
\* improvement auto-improve is off, for as long as nobody else changed the idea, no
\* request was answered by an error after it had done something, and no pass
\* was begun during a start or a toggle.  The component never copies its props
\* again, so every answer has to bring the copy up to date by itself.
TabAgrees ==
  ~doubt =>
    /\ tab.run = "none" /\ tab.busy = {} =>
          [tab EXCEPT !.editing = FALSE] = Loaded(server, TRUE)
    /\ tab.run = "improving" => ~server.auto

\* No button stays disabled for good: every pass, start, toggle and save the
\* tab shows as running comes to an end, whatever fails.
BusyEnds ==
  /\ tab.run # "none" ~> tab.run = "none"
  /\ \A c \in Kinds : c \in tab.busy ~> c \notin tab.busy

=============================================================================
