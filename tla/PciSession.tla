----------------------------- MODULE PciSession -----------------------------
(***************************************************************************)
(* A portable custom interaction (PCI): the item session with the host of  *)
(* its module (PciHost) and the component that renders it.  The answer is  *)
(* kept in the declaration of the session, in the view last captured of    *)
(* it, in the host and in the module; loads of modules are asynchronous,   *)
(* and the host may be replaced, destroyed or asked to restore meanwhile.  *)
(*                                                                         *)
(* The renderer offers the view to a host as soon as it has created it, so *)
(* a host always holds a response.  Every load makes a module of its own.  *)
(* A module that is destroyed reports nothing more.  What runs between the *)
(* adoption of a loaded module and its initialization is one microtask and *)
(* is taken together with both.                                            *)
(***************************************************************************)
EXTENDS ItemLifecycle, FiniteSets

CONSTANTS
    NoModule,      \* stands for the module of a host that has none
    NoScore,       \* outcomes that no response processing has computed
    MaxMounts,     \* bound: hosts the page creates
    MaxPciAttempts \* bound: attempts

ASSUME PciAssumption ==
    /\ NoModule \notin Responses /\ NoScore \notin Responses
    /\ MaxMounts \in Nat \ {0} /\ MaxPciAttempts \in Nat

VARIABLES
    item,     \* the item
    session,  \* its session; response is the value of the declaration
    view,     \* the response in the view of the session last captured
    scored,   \* the response that the outcomes were computed from
    mounts,   \* how many hosts were created; the last is the player's
    host,     \* the PciHost created last
    page,     \* what the renderer shows
    loads,    \* module loads in flight
    alive,    \* modules instantiated and not destroyed
    due,      \* the answers that the session may give (see AnswerIsCurrent)
    disposed  \* whether the session was disposed of

pciVars == <<item, session, view, scored, mounts, host, page, loads, alive, due, disposed>>

-----------------------------------------------------------------------------
(* The host.                                                               *)

Fresh(response) ==
    [open    |-> TRUE,      \* not destroyed
     mod     |-> NoModule,  \* the answer its module has, or NoModule
     resp    |-> response,
     owns    |-> FALSE,     \* the module has reported a response
     pending |-> FALSE]     \* a restored response awaits the rebuilt module

HasModule(h) == h.mod # NoModule

\* What getResponses() makes of the declaration: PciHost.getResponse().
Pull(h, own) ==
    IF mounts = 0 THEN own
    ELSE IF HasModule(h) /\ ~h.pending THEN h.mod ELSE h.resp

\* Variant: the module is handed the value although it has reported one.
OfferAlways(h, v) ==
    [h EXCEPT !.resp = v, !.mod = IF HasModule(h) THEN v ELSE @]

\* offerResponse()
Offer(h, v) ==
    IF h.owns \/ mounts = 0 THEN h
    ELSE [h EXCEPT !.resp = v,
                   !.mod = IF HasModule(h) THEN v ELSE @,
                   !.pending = @ /\ ~HasModule(h)]

\* Variant: without a module there is nothing to restore.
RestoreMounted(h, v) ==
    IF HasModule(h)
    THEN [h EXCEPT !.resp = v, !.owns = FALSE, !.pending = TRUE, !.mod = NoModule]
    ELSE h

\* restore(), with what the listener of the renderer does at once: remount()
\* up to its await destroys the module.
Restore(h, v) ==
    IF mounts = 0 THEN h
    ELSE [h EXCEPT !.resp = v, !.owns = FALSE, !.pending = @ \/ HasModule(h), !.mod = NoModule]

\* Variant: a restored response is still taken to await a module.
AdoptPending(h) == [h EXCEPT !.mod = h.resp, !.owns = FALSE]

\* adoptResolvedModule() and initialize()
Adopt(h) == [h EXCEPT !.mod = h.resp, !.owns = FALSE, !.pending = FALSE]

\* destroy()
Destroyed(h) == [h EXCEPT !.open = FALSE, !.mod = NoModule]

Load(n, remount) == [host |-> n, path |-> "primary", remount |-> remount]

\* isCurrentLoad(); of a host at most one load is in flight, so that its
\* generation differs only after destroy().
IsCurrent(l) == l.host = mounts /\ host.open

-----------------------------------------------------------------------------
(* The session.                                                            *)

\* Variant: the variables are collected after the answer was taken over.
CapturedLate(s, h) ==
    /\ view' = Pull(h, s.response)
    /\ session' = [s EXCEPT !.response = Pull(h, s.response)]
    /\ host' = IF page # "idle" /\ view' # view THEN Offer(h, view') ELSE h

\* serializeItemSession() and captureView(): the view has the declaration, then
\* getResponses() takes over the answer of the host; the renderer offers the
\* host a view that has changed.
Captured(s, h) ==
    /\ view' = s.response
    /\ session' = [s EXCEPT !.response = Pull(h, s.response)]
    /\ host' = IF page # "idle" /\ view' # view THEN Offer(h, view') ELSE h

OutcomesFor == IF item \in Adaptive THEN {"incomplete", "completed"} ELSE {"unassigned"}

PciInit ==
    /\ item \in Items
    /\ session = NewSession(Unanswered)
    /\ view = Unanswered
    /\ scored = NoScore
    /\ mounts = 0
    /\ host = Fresh(Unanswered)
    /\ page = "idle"
    /\ loads = {}
    /\ alive = 0
    /\ due = {Unanswered}
    /\ disposed = FALSE

SetPciResponse(v) ==
    /\ ~disposed /\ IsWritable(session)
    /\ Captured(SetResponse(session, v), Offer(host, v))
    /\ due' = IF mounts > 0 /\ host.owns THEN due \cup {v} ELSE {v}
    /\ UNCHANGED <<item, scored, mounts, page, loads, alive, disposed>>

\* With validateResponses the answer is taken over before it is scored.
EndPciAttempt(outcome, validate) ==
    LET s == IF validate THEN SetResponse(session, Pull(host, session.response)) ELSE session
    IN  /\ ~disposed /\ CanEndAttempt(item, s)
        /\ session.attempts < MaxPciAttempts
        /\ Captured(EndAttempt(item, s, outcome), host)
        /\ scored' = s.response
        /\ UNCHANGED <<item, mounts, page, loads, alive, due, disposed>>

SubmitPciAttempt(outcome) ==
    /\ ~disposed /\ CanSubmitAttempt(session)
    /\ session.attempts < MaxPciAttempts
    /\ Captured(SubmitAttempt(item, session, outcome), host)
    /\ scored' = session.response
    /\ UNCHANGED <<item, mounts, page, loads, alive, due, disposed>>

ScorePciAttempt(outcome) ==
    /\ ~disposed
    /\ Captured(ScoreAttempt(item, session, outcome), host)
    /\ scored' = session.response
    /\ UNCHANGED <<item, mounts, page, loads, alive, due, disposed>>

SuspendPciAttempt ==
    /\ ~disposed /\ IsWritable(session)
    /\ Captured(SuspendAttempt(SetResponse(session, Pull(host, session.response))), host)
    /\ UNCHANGED <<item, scored, mounts, page, loads, alive, due, disposed>>

NewPciTemplate ==
    /\ ~disposed
    /\ Captured(NewTemplate, Restore(host, Unanswered))
    /\ scored' = NoScore
    /\ due' = {Unanswered}
    /\ IF HasModule(host)
       THEN /\ loads' = loads \cup {Load(mounts, TRUE)}
            /\ alive' = alive - 1
            /\ page' = "loading"
       ELSE UNCHANGED <<loads, alive, page>>
    /\ UNCHANGED <<item, mounts, disposed>>

\* ItemSession.serialize()
SerializePci ==
    /\ ~disposed
    /\ session' = SetResponse(session, Pull(host, session.response))
    /\ UNCHANGED <<item, view, scored, mounts, host, page, loads, alive, due, disposed>>

DisposePci ==
    /\ ~disposed
    /\ disposed' = TRUE
    /\ host' = Destroyed(host)
    /\ alive' = IF HasModule(host) THEN alive - 1 ELSE alive
    /\ UNCHANGED <<item, session, view, scored, mounts, page, loads, due>>

-----------------------------------------------------------------------------
(* The renderer.                                                           *)

\* The effect creates a host, starts its load, and the next one offers the view.
Mount ==
    /\ ~disposed /\ page = "idle" /\ mounts < MaxMounts
    /\ mounts' = mounts + 1
    /\ host' = Fresh(view)
    /\ page' = "loading"
    /\ loads' = loads \cup {Load(mounts + 1, FALSE)}
    /\ UNCHANGED <<item, session, view, scored, alive, due, disposed>>

Unmount ==
    /\ page # "idle"
    /\ page' = "idle"
    /\ host' = Destroyed(host)
    /\ alive' = IF HasModule(host) THEN alive - 1 ELSE alive
    /\ UNCHANGED <<item, session, view, scored, mounts, loads, due, disposed>>

\* Variant: a module loaded for a host that is gone is left alone.
ResolvesKept(l) ==
    /\ loads' = loads \ {l}
    /\ alive' = alive + 1
    /\ IF IsCurrent(l) THEN host' = Adopt(host) /\ page' = "ready"
                       ELSE UNCHANGED <<host, page>>
    /\ UNCHANGED <<item, session, view, scored, mounts, due, disposed>>

\* A load that ends too late reports an error if its renderer is still there,
\* which is so when the session was disposed of under it.
TooLate(l) ==
    /\ page' = IF l.host = mounts /\ page # "idle" THEN "error" ELSE page
    /\ UNCHANGED <<host, alive>>

\* A module arrives; one that comes too late is destroyed.
Resolves(l) ==
    /\ loads' = loads \ {l}
    /\ IF IsCurrent(l)
       THEN host' = Adopt(host) /\ alive' = alive + 1 /\ page' = "ready"
       ELSE TooLate(l)
    /\ UNCHANGED <<item, session, view, scored, mounts, due, disposed>>

\* The first load of a host that fails takes the host with it.
GivenUp(l, h) ==
    /\ host' = IF l.remount THEN h ELSE Destroyed(h)
    /\ page' = "error"
    /\ UNCHANGED alive

\* Variant: nobody is told that the fallback has failed too.
FailsSilently(l) ==
    /\ loads' = IF l.path = "primary" THEN (loads \ {l}) \cup {[l EXCEPT !.path = "fallback"]}
                                      ELSE loads \ {l}
    /\ UNCHANGED <<item, session, view, scored, mounts, host, page, alive, due, disposed>>

\* The resolver fails, or what it gives is no module: the fallback is tried.
Fails(l) ==
    /\ CASE IsCurrent(l) /\ l.path = "primary" ->
                /\ loads' = (loads \ {l}) \cup {[l EXCEPT !.path = "fallback"]}
                /\ UNCHANGED <<host, page, alive>>
         [] IsCurrent(l) /\ l.path = "fallback" ->
                loads' = loads \ {l} /\ GivenUp(l, host)
         [] OTHER ->
                loads' = loads \ {l} /\ TooLate(l)
    /\ UNCHANGED <<item, session, view, scored, mounts, due, disposed>>

\* The module arrives and its initialize() throws; it is destroyed.
FailsToInitialize(l) ==
    /\ IsCurrent(l)
    /\ loads' = loads \ {l}
    /\ GivenUp(l, [host EXCEPT !.owns = FALSE])
    /\ UNCHANGED <<item, session, view, scored, mounts, due, disposed>>

-----------------------------------------------------------------------------
(* The module.                                                             *)

\* The candidate changes the answer; the module need not report it.
Type(v) ==
    /\ HasModule(host) /\ host.mod # v
    /\ host' = [host EXCEPT !.mod = v]
    /\ due' = due \cup {v}
    /\ UNCHANGED <<item, session, view, scored, mounts, page, loads, alive, disposed>>

\* The module reports its answer, perhaps late, to the host and its listeners:
\* the player and the session, both of which look at the lifecycle.
Report ==
    LET h == [host EXCEPT !.resp = host.mod, !.owns = TRUE, !.pending = FALSE]
    IN  /\ HasModule(host)
        /\ IF IsWritable(session)
           THEN Captured(SetResponse(session, host.mod), h)
           ELSE host' = h /\ UNCHANGED <<session, view>>
        /\ due' = {host.mod}
        /\ UNCHANGED <<item, scored, mounts, page, loads, alive, disposed>>

LoadSettles == \E l \in loads : Resolves(l) \/ Fails(l) \/ FailsToInitialize(l)

PciNext ==
    \/ \E v \in Responses : SetPciResponse(v)
    \/ \E o \in OutcomesFor, validate \in BOOLEAN : EndPciAttempt(o, validate)
    \/ \E o \in OutcomesFor : SubmitPciAttempt(o)
    \/ \E o \in OutcomesFor : ScorePciAttempt(o)
    \/ SuspendPciAttempt
    \/ NewPciTemplate
    \/ SerializePci
    \/ DisposePci
    \/ Mount
    \/ Unmount
    \/ LoadSettles
    \/ \E v \in Responses : Type(v)
    \/ Report

PciSpec == PciInit /\ [][PciNext]_pciVars

\* The resolver of the page settles every load in the end.
PciFairness == WF_pciVars(LoadSettles)

-----------------------------------------------------------------------------
(* Properties.                                                             *)

PciTypeOK ==
    /\ item \in Items
    /\ session \in Session
    /\ view \in Responses
    /\ scored \in Responses \cup {NoScore}
    /\ mounts \in 0 .. MaxMounts
    /\ host \in [open : BOOLEAN, mod : Responses \cup {NoModule}, resp : Responses,
                 owns : BOOLEAN, pending : BOOLEAN]
    /\ host.pending => ~HasModule(host)
    /\ page \in {"idle", "loading", "ready", "error"}
    /\ loads \subseteq [host : 1 .. mounts, path : {"primary", "fallback"}, remount : BOOLEAN]
    /\ \A l, m \in loads : l.host = m.host => l = m
    /\ alive \in Nat
    /\ due \subseteq Responses
    /\ disposed \in BOOLEAN

\* However loads, unmounts, restores and disposal interleave, no module outlives
\* its host and no two exist at once: the only one alive is that of the host the
\* renderer shows as ready.
OneInstance ==
    /\ alive = IF HasModule(host) THEN 1 ELSE 0
    /\ HasModule(host) => host.open /\ page = "ready" /\ ~disposed
    /\ page = "ready" /\ ~disposed => HasModule(host)

\* While the candidate may answer, the answer that the session would take from
\* the host is one given since the last report, accepted offer or new template:
\* never one that a restore, a rebuilt module or another host had superseded.
AnswerIsCurrent ==
    IsWritable(session) /\ ~disposed => Pull(host, session.response) \in due

\* What is shown of a closed session is the response its outcomes were computed
\* from, although the answer of the module is taken over at every serialization.
ClosedViewScored == session.lifecycle = "closed" => view = scored

\* A module that has reported is never handed a value, not even its own: its
\* answer changes only by the candidate's doing, or with the instance.
NotEchoed ==
    [][HasModule(host) /\ HasModule(host') /\ host.owns /\ host'.mod # host.mod
          => \E v \in Responses : Type(v)]_pciVars

\* The renderer does not show "loading" for ever, whatever is lost on the way.
PciSettles == page = "loading" ~> page # "loading"
=============================================================================
