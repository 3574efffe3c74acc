--------------------------- MODULE AssessmentAwaited ---------------------------
(***************************************************************************)
(* What a host gets from AssessmentPlayer that awaits each operation       *)
(* before it starts the next, for every test, whatever the candidate types *)
(* meanwhile and whatever requests fail: failed submissions leave nothing  *)
(* behind, what is persisted as closed has been accepted, and the two      *)
(* copies of a response agree, of the items that are not adaptive.         *)
(*                                                                         *)
(* The invariant tells a session at rest from one with a submission under  *)
(* way.  At rest, the live session, the persisted ones, the responses and  *)
(* the backend agree.  Under way, they agree but for the item in flight,   *)
(* and the call holds what its failure has to bring back.  For the sake of *)
(* navigation, what is persisted for the items not shown ("parked") has to *)
(* agree with their responses, and for the sake of a reload, what the      *)
(* backend has stored.                                                     *)
(*                                                                         *)
(* A lost answer leaves an item scored that the client submits again, and  *)
(* without the sessions in the requests a new page opens accepted items    *)
(* afresh: what needs neither is stated of Strict hosts.                   *)
(***************************************************************************)
EXTENDS AssessmentSafety

Strict == ~Lossy /\ SendItemSession

Plain == Items \ Adaptive

Closed(s) == s.lifecycle = "closed"

InFlight(call) == call.stage \in {"request", "answer"}

Accepted(call) == call.stage = "answer" /\ call.ok

\* The attempts of a call that the backend need not have counted.
Owed(call) == IF Accepted(call) THEN 0 ELSE 1

\* What is persisted for an item has the response the player has.
InStep(p, i) == p.sessions[i] # NoSession => p.sessions[i].response = p.responses[i]

\* What the backend has stored is fit to resume from.
Backed(s) ==
    /\ \A i \in Items : Closed(s.sessions[i]) => i \in s.scores
    /\ \A i \in Items : s.sessions[i].attempts <= s.attempts[i]
    /\ \A i \in Items \ s.scores : s.attempts[i] = 0
    /\ ~SendItemSession => \A i \in Items : s.sessions[i] = NoSession
    /\ \A i \in Plain : s.sessions[i] # NoSession =>
          Closed(s.sessions[i]) /\ s.sessions[i].response = s.responses[i]
    /\ Strict => \A i \in s.scores \ Adaptive : Closed(s.sessions[i]) /\ s.attempts[i] = 1

\* What is persisted has been accepted where it is closed.
Counted(p, s) ==
    /\ p.results \subseteq s.scores
    /\ \A i \in Items : Closed(p.sessions[i]) => i \in p.results
    /\ \A i \in Items : p.sessions[i].attempts <= s.attempts[i]

\* An item that is not shown is persisted as it was left.
Parked(p, i) == ~IsWritable(p.sessions[i]) /\ InStep(p, i)

\* An accepted answer is the one the backend has scored.
Agreed(p, s, i) ==
    Closed(p.sessions[i]) /\ InStep(p, i) /\ p.responses[i] = s.responses[i]

Kept(p, s) ==
    /\ Counted(p, s)
    /\ \A i \in Plain \ {p.current} : Parked(p, i)
    /\ Strict => \A i \in p.results \ Adaptive : Agreed(p, s, i)

\* Every item can be opened from what is persisted.
Ready(p, s) ==
    /\ Counted(p, s)
    /\ \A i \in Plain : Parked(p, i)
    /\ Strict => s.scores = p.results /\ \A i \in p.results \ Adaptive : Agreed(p, s, i)

\* The live session of a plain item has the response the player has.
Mirrored(p) ==
    p.current \in Plain =>
        /\ IsWritable(p.live) => p.responses[p.current] = p.live.response
        /\ Closed(p.live) => p.sessions[p.current] = p.live /\ InStep(p, p.current)

\* No submission is under way.
Rest(p, s) ==
    /\ Kept(p, s)
    /\ p.current \in p.results \/ IsWritable(p.live)
    /\ p.live.attempts <= s.attempts[p.current]
    /\ Mirrored(p)
    /\ Strict => s.scores = p.results /\ (p.current \in p.results \ Adaptive => Closed(p.live))

\* A submission is under way: its item is ended provisionally.
Flight(p, call, s) ==
    /\ Kept(p, s)
    /\ call.ended.attempts <= s.attempts[call.item] + Owed(call)
    /\ call.item \in Plain => Closed(call.ended) /\ call.value = call.ended.response
    /\ Accepted(call) => /\ call.item \in s.scores
                         /\ call.full => call.state.scores = s.scores
                         /\ call.branch \in Branches[call.item]
    /\ Strict /\ ~Accepted(call) =>
         s.scores = p.results /\ (call.item \in Adaptive \/ call.item \notin p.results)
    /\ Strict /\ Accepted(call) =>
         s.scores = p.results \cup {call.item} /\ s.responses[call.item] = call.value

\* ... by submitCurrentItem(), which can go back to the session it captured.
FlightOne(p, call, s) ==
    /\ p.current = call.item
    /\ call.holds
    /\ IsWritable(call.pre)
    /\ call.pre.attempts <= s.attempts[call.item]
    /\ p.live.attempts = call.ended.attempts
    /\ call.item \in Plain =>
          /\ p.live = call.ended
          /\ p.responses[call.item] = call.pre.response
          /\ call.ended.response = call.pre.response

\* What the loop of submit() keeps from turn to turn: the item shown waits,
\* suspended or accepted, and the items before the loop's have been accepted.
Looping(p, call, s) ==
    /\ p.current = call.first
    /\ call.first \in p.results \/ IsWritable(call.pre)
    /\ call.pre.attempts <= s.attempts[call.first]
    /\ ~IsWritable(p.live)
    /\ p.live.lifecycle = "suspended" \/ call.first \in p.results
    /\ \A i \in Plain : Parked(p, i)
    /\ \A i \in Plain : call.sessions[i] # NoSession =>
            call.sessions[i].response = call.responses[i]
    /\ Strict => \A i \in p.results \ Adaptive : call.responses[i] = s.responses[i]

\* ... by that loop, whose sessions differ from those persisted in one item.
FlightAll(p, call, s) ==
    /\ Looping(p, call, s)
    /\ call.item \notin p.results
    /\ call.sessions = [p.sessions EXCEPT ![call.item] = call.ended]
    /\ \A j \in Items : j < call.item => j \in p.results

Underway(p, call, s) ==
    /\ Flight(p, call, s)
    /\ call.op = "all" => FlightAll(p, call, s)
    /\ call.op # "all" => FlightOne(p, call, s)

\* One operation runs at a time.
Alone ==
    \A c, d \in Calls : calls[c].stage # "idle" /\ calls[d].stage # "idle" => c = d

Awaited ==
    /\ Alone
    /\ Backed(server)
    /\ (\A c \in Calls : ~InFlight(calls[c])) => Rest(player, server)
    /\ \A c \in Calls : InFlight(calls[c]) => Underway(player, calls[c], server)

-----------------------------------------------------------------------------
(* Sessions.                                                               *)

\* What the lifecycle commands do to the attempts and the response.
LEMMA SessionFacts ==
    ASSUME NEW s \in Session
    PROVE  /\ s.attempts \in Nat /\ s # NoSession
           /\ SuspendAttempt(s).lifecycle = "suspended"
           /\ SuspendAttempt(s).attempts = s.attempts
           /\ SuspendAttempt(s).response = s.response
           /\ ActivateAttempt(s).attempts = s.attempts
           /\ ActivateAttempt(s).response = s.response
           /\ IsWritable(s) => ~Closed(s)
           /\ Closed(ActivateAttempt(s)) => ActivateAttempt(s) = s
           /\ IsWritable(ActivateAttempt(s)) \/ Closed(s)
           /\ IsWritable(s) \/ Closed(s) \/ s.lifecycle = "suspended"
<1>1. s.attempts \in Nat /\ s.lifecycle \in Lifecycles
  BY DEF Session
<1>2. s # NoSession
  BY <1>1 DEF NoSession, Lifecycles
<1>3. /\ SuspendAttempt(s).lifecycle = "suspended"
      /\ SuspendAttempt(s).attempts = s.attempts
      /\ SuspendAttempt(s).response = s.response
  BY DEF SuspendAttempt, Session
<1>4. /\ ActivateAttempt(s).attempts = s.attempts
      /\ ActivateAttempt(s).response = s.response
      /\ s.lifecycle = "suspended" => ActivateAttempt(s).lifecycle = "interacting"
      /\ s.lifecycle # "suspended" => ActivateAttempt(s) = s
  BY DEF ActivateAttempt, Session
<1>5. QED
  BY <1>1, <1>2, <1>3, <1>4 DEF IsWritable, Closed, Lifecycles

\* The absence of a session is neither open nor closed.
LEMMA NoSessionFacts ==
    /\ ~IsWritable(NoSession) /\ ~Closed(NoSession) /\ NoSession.attempts = 0
    /\ \A r : /\ IsWritable(NewSession(r)) /\ ~Closed(NewSession(r))
              /\ NewSession(r).attempts = 0 /\ NewSession(r).response = r
BY DEF NoSession, NewSession, IsWritable, Closed

\* An attempt that ends is counted and keeps its response; a plain item closes.
LEMMA EndedFacts ==
    ASSUME NEW s \in Session, NEW i \in Items, NEW outcome
    PROVE  /\ EndAttempt(i, s, outcome).attempts = s.attempts + 1
           /\ EndAttempt(i, s, outcome).response = s.response
           /\ i \in Plain => Closed(EndAttempt(i, s, outcome))
<1>. DEFINE completion == IF i \in Adaptive THEN AdaptiveCompletion(s, outcome)
                                            ELSE "completed"
            lifecycle  == IF completion = "completed" THEN "closed" ELSE "interacting"
            ended == [s EXCEPT !.attempts = @ + 1, !.completion = completion,
                               !.lifecycle = lifecycle]
<1>1. EndAttempt(i, s, outcome) = ended
  BY DEF EndAttempt
<1>2. i \in Plain => lifecycle = "closed"
  BY DEF Plain
<1>. HIDE DEF lifecycle, completion
<1>3. ended.attempts = s.attempts + 1 /\ ended.response = s.response
      /\ ended.lifecycle = lifecycle
  BY DEF Session
<1>. QED  BY <1>1, <1>2, <1>3 DEF Closed

-----------------------------------------------------------------------------
(* The fields of player records that matter here.                          *)

SameView(p, q) ==
    /\ q.current = p.current /\ q.live = p.live /\ q.responses = p.responses
    /\ q.sessions = p.sessions /\ q.results = p.results

\* What a player record is made of.
LEMMA PlayerFields ==
    ASSUME NEW p \in Player
    PROVE  /\ p.current \in Items /\ p.live \in Session /\ p.results \subseteq Items
           /\ p.responses \in [Items -> Responses]
           /\ p.sessions \in [Items -> SessionOrNone]
           /\ \A i \in Items : p.sessions[i].attempts \in Nat
<1>1. /\ p.current \in Items /\ p.live \in Session /\ p.results \subseteq Items
      /\ p.responses \in [Items -> Responses]
      /\ p.sessions \in [Items -> SessionOrNone]
  BY DEF Player
<1>2. \A s \in SessionOrNone : s.attempts \in Nat
  BY DEF SessionOrNone, Session, NoSession
<1>. QED  BY <1>1, <1>2

\* What a state of the backend is made of.
LEMMA ServerFields ==
    ASSUME NEW s \in Server
    PROVE  /\ s.scores \subseteq Items /\ s.attempts \in [Items -> Nat]
           /\ s.responses \in [Items -> Responses]
           /\ s.sessions \in [Items -> SessionOrNone]
           /\ \A i \in Items : s.attempts[i] \in Nat
BY DEF Server

\* Marks and attempt counts change nothing that matters here.
LEMMA MarkView ==
    ASSUME NEW p \in Player, NEW i, NEW response
    PROVE  SameView(p, MarkAnswered(p, i, response)) /\ SameView(p, RecordAttempt(p, i))
BY DEF SameView, MarkAnswered, RecordAttempt, Player

\* Records with the same view are at rest, or under way, together.
LEMMA SameRest ==
    ASSUME NEW p, NEW q, NEW s, SameView(p, q), Rest(p, s)
    PROVE  Rest(q, s)
BY DEF SameView, Rest, Kept, Counted, Parked, InStep, Agreed, Mirrored

LEMMA DispatchedFields ==
    ASSUME NEW p \in Player, NEW s \in Session
    PROVE  LET q == Dispatched(p, s)
           IN  /\ q.live = s /\ q.current = p.current /\ q.results = p.results
               /\ q.sessions = p.sessions
               /\ q.responses = [p.responses EXCEPT ![p.current] = s.response]
<1>1. /\ p.current \in Items /\ p.responses \in [Items -> Responses]
  BY PlayerFields
<1>2. CASE p.responses[p.current] = s.response
  <2>1. [p.responses EXCEPT ![p.current] = s.response] = p.responses
    BY <1>1, <1>2
  <2>. QED  BY <1>2, <2>1 DEF Dispatched, Player
<1>3. CASE p.responses[p.current] # s.response
  <2>. DEFINE q == [p EXCEPT !.live = s, !.responses[p.current] = s.response]
  <2>1. /\ q.live = s /\ q.current = p.current /\ q.results = p.results
        /\ q.sessions = p.sessions
        /\ q.responses = [p.responses EXCEPT ![p.current] = s.response]
    BY DEF Player
  <2>2. Dispatched(p, s) = MarkAnswered(q, p.current, s.response)
    BY <1>3 DEF Dispatched
  <2>3. q \in Player
    <3>1. s.response \in Responses
      BY DEF Session
    <3>. QED  BY <3>1 DEF Player
  <2>. HIDE DEF q
  <2>. QED  BY <2>1, <2>2, <2>3, MarkView DEF SameView
<1>. QED  BY <1>2, <1>3

LEMMA SavedFields ==
    ASSUME NEW p \in Player, NEW i \in Items, NEW s \in Session
    PROVE  LET q == SaveItemSession(p, i, s)
           IN  /\ q.live = p.live /\ q.current = p.current /\ q.results = p.results
               /\ q.sessions = [p.sessions EXCEPT ![i] = s]
               /\ q.responses = [p.responses EXCEPT ![i] = s.response]
<1>. DEFINE q == [p EXCEPT !.sessions[i] = s, !.responses[i] = s.response]
<1>1. /\ q.live = p.live /\ q.current = p.current /\ q.results = p.results
      /\ q.sessions = [p.sessions EXCEPT ![i] = s]
      /\ q.responses = [p.responses EXCEPT ![i] = s.response]
  BY DEF Player
<1>2. SaveItemSession(p, i, s) = MarkAnswered(q, i, s.response)
  BY DEF SaveItemSession
<1>3. q \in Player
  <2>1. s.response \in Responses
    BY DEF Session
  <2>. QED  BY <2>1 DEF Player, SessionOrNone
<1>. HIDE DEF q
<1>. QED  BY <1>1, <1>2, <1>3, MarkView DEF SameView

\* A writable live session is persisted suspended, another as it is.
LEMMA SaveCurrentFields ==
    ASSUME NEW p \in Player
    PROVE  LET q == SaveCurrentItemSession(p)
           IN  /\ q \in Player
               /\ q.current = p.current /\ q.results = p.results
               /\ q.live \in Session /\ ~IsWritable(q.live)
               /\ q.live.response = p.live.response /\ q.live.attempts = p.live.attempts
               /\ IsWritable(p.live) => q.live.lifecycle = "suspended"
               /\ ~IsWritable(p.live) => q.live = p.live
               /\ q.sessions = [p.sessions EXCEPT ![p.current] = q.live]
               /\ q.responses = [p.responses EXCEPT ![p.current] = p.live.response]
<1>. DEFINE saved == IF IsWritable(p.live) THEN SuspendAttempt(p.live) ELSE p.live
            r == [p EXCEPT !.live = saved]
<1>1. p.live \in Session /\ p.current \in Items
  BY PlayerFields
<1>2. /\ saved \in Session /\ ~IsWritable(saved)
      /\ saved.response = p.live.response /\ saved.attempts = p.live.attempts
      /\ IsWritable(p.live) => saved.lifecycle = "suspended"
      /\ ~IsWritable(p.live) => saved = p.live
  BY <1>1, SessionFacts, SuspendType DEF IsWritable
<1>3. SaveCurrentItemSession(p) = SaveItemSession(r, p.current, saved)
  BY DEF SaveCurrentItemSession
<1>. HIDE DEF saved
<1>4. r \in Player /\ r.live = saved /\ r.current = p.current /\ r.results = p.results
      /\ r.sessions = p.sessions /\ r.responses = p.responses
  BY <1>2 DEF Player
<1>. HIDE DEF r
<1>. DEFINE q == SaveItemSession(r, p.current, saved)
<1>5. /\ q.live = r.live /\ q.current = r.current /\ q.results = r.results
      /\ q.sessions = [r.sessions EXCEPT ![p.current] = saved]
      /\ q.responses = [r.responses EXCEPT ![p.current] = saved.response]
  BY <1>1, <1>2, <1>4, SavedFields
<1>6. q \in Player /\ SaveCurrentItemSession(p) = q
  BY <1>3, SaveCurrentType
<1>. HIDE DEF q
<1>7. /\ q.live = saved /\ q.current = p.current /\ q.results = p.results
      /\ q.sessions = [p.sessions EXCEPT ![p.current] = saved]
      /\ q.responses = [p.responses EXCEPT ![p.current] = p.live.response]
  BY <1>2, <1>4, <1>5
<1>. QED  BY <1>2, <1>6, <1>7

LEMMA OpenFields ==
    ASSUME NEW p \in Player, NEW i \in Items
    PROVE  LET q == OpenItem(p, i)
           IN  /\ q \in Player
               /\ q.current = i /\ q.results = p.results
               /\ q.sessions = p.sessions /\ q.responses = p.responses
               /\ q.live = IF p.sessions[i] = NoSession THEN NewSession(p.responses[i])
                           ELSE ActivateAttempt(p.sessions[i])
<1>1. OpenItem(p, i) \in Player
  BY OpenItemType
<1>. QED  BY <1>1 DEF OpenItem, Player

-----------------------------------------------------------------------------
(* A session at rest.                                                      *)

\* A session at rest keeps what it has persisted as it should.
LEMMA RestKept ==
    ASSUME NEW p \in Player, NEW s \in Server, Rest(p, s)
    PROVE  Kept(p, s) /\ Counted(p, s)
BY DEF Rest, Kept

\* What is persisted does not depend on the session shown.
LEMMA ReadyKept ==
    ASSUME NEW p, NEW s, NEW live, Ready(p, s), NEW q,
           q.results = p.results, q.sessions = p.sessions, q.responses = p.responses
    PROVE  Kept(q, s) /\ Ready(q, s)
BY DEF Ready, Kept, Counted, Parked, InStep, Agreed

\* Opening any item of a session that is ready for it gives one at rest.
LEMMA OpenRests ==
    ASSUME NEW p \in Player, NEW s \in Server, NEW i \in Items, Ready(p, s)
    PROVE  Rest(OpenItem(p, i), s)
<1>. DEFINE q == OpenItem(p, i)
<1>. SUFFICES Rest(q, s)
  OBVIOUS
<1>1. /\ q.current = i /\ q.results = p.results
      /\ q.sessions = p.sessions /\ q.responses = p.responses
      /\ q.live = IF p.sessions[i] = NoSession THEN NewSession(p.responses[i])
                  ELSE ActivateAttempt(p.sessions[i])
  BY OpenFields
<1>. HIDE DEF q
<1>2. Kept(q, s) /\ Ready(q, s)
  BY <1>1, ReadyKept
<1>3. /\ Closed(p.sessions[i]) => i \in p.results
      /\ p.sessions[i].attempts <= s.attempts[i]
      /\ i \in Plain => Parked(p, i)
      /\ Strict => s.scores = p.results /\ (i \in p.results \ Adaptive => Agreed(p, s, i))
  BY DEF Ready, Counted
<1>4. CASE p.sessions[i] = NoSession
  <2>1. /\ IsWritable(q.live) /\ ~Closed(q.live) /\ q.live.response = p.responses[i]
        /\ q.live.attempts = 0
    BY <1>1, <1>4, NoSessionFacts
  <2>2. s.attempts[i] \in Nat
    BY ServerFields
  <2>3. q.live.attempts <= s.attempts[i]
    BY <2>1, <2>2
  <2>4. ~(Strict /\ i \in p.results \ Adaptive)
    BY <1>3, <1>4, NoSessionFacts DEF Agreed
  <2>. QED  BY <1>1, <1>2, <1>3, <2>1, <2>3, <2>4 DEF Rest, Mirrored
<1>5. CASE p.sessions[i] # NoSession
  <2>1. p.sessions[i] \in Session
    BY <1>5, PlayerFields, SavedType
  <2>2. q.live = ActivateAttempt(p.sessions[i])
    BY <1>1, <1>5
  <2>3. /\ q.live.attempts = p.sessions[i].attempts
        /\ q.live.response = p.sessions[i].response
        /\ Closed(q.live) => q.live = p.sessions[i]
        /\ IsWritable(q.live) \/ Closed(p.sessions[i])
    BY <2>1, <2>2, SessionFacts
  <2>4. Closed(p.sessions[i]) => Closed(q.live)
    BY <2>2 DEF Closed, ActivateAttempt
  <2>5. i \in Plain => p.sessions[i].response = p.responses[i]
    BY <1>3, <1>5 DEF Parked, InStep
  <2>6. q.live.attempts <= s.attempts[i]
    BY <1>3, <2>3
  <2>7. i \in p.results \/ IsWritable(q.live)
    BY <1>3, <2>3
  <2>8. Strict /\ i \in p.results \ Adaptive => Closed(q.live)
    BY <1>3, <2>4 DEF Agreed
  <2>9. Mirrored(q)
    BY <1>1, <2>3, <2>5 DEF Mirrored, InStep
  <2>. QED  BY <1>1, <1>2, <1>3, <2>6, <2>7, <2>8, <2>9 DEF Rest
<1>. QED  BY <1>4, <1>5

\* A page that starts from what the backend has stored starts at rest.
LEMMA BootRests ==
    ASSUME NEW s \in Server, Backed(s)
    PROVE  Rest(Boot(s), s)
<1>. DEFINE p == [current   |-> 1,
                  currentId |-> 1,
                  live      |-> NewSession(Unanswered),
                  responses |-> s.responses,
                  sessions  |-> s.sessions,
                  results   |-> s.scores,
                  attempts  |-> s.attempts,
                  answered  |-> {i \in Items : s.responses[i] # Unanswered},
                  submitted |-> s.scores,
                  settings  |-> InitialSettings,
                  done      |-> FALSE]
<1>1. NewSession(Unanswered) \in Session
  BY NewSessionType, LifecycleAssumption
<1>2. p \in Player
  BY <1>1, FirstItem, InitialSettingsType DEF Player, Server
<1>3. p.responses = s.responses /\ p.sessions = s.sessions /\ p.results = s.scores
  OBVIOUS
<1>4. Boot(s) = OpenItem(p, 1)
  BY DEF Boot
<1>. HIDE DEF p
<1>5. Counted(p, s)
  BY <1>3 DEF Counted, Backed
<1>6. \A i \in Plain : Parked(p, i)
  BY <1>3, NoSessionFacts DEF Parked, InStep, Backed, Closed, IsWritable, Plain
<1>7. Strict => s.scores = p.results /\ \A i \in p.results \ Adaptive : Agreed(p, s, i)
  <2>. SUFFICES ASSUME Strict, NEW i \in s.scores \ Adaptive
                PROVE  Agreed(p, s, i)
    BY <1>3
  <2>1. i \in Plain
    BY ServerFields DEF Plain
  <2>. QED  BY <1>3, <2>1 DEF Agreed, InStep, Backed
<1>. QED  BY <1>2, <1>4, <1>5, <1>6, <1>7, FirstItem, OpenRests DEF Ready

\* Persisting the item shown makes a session at rest ready to open another; one
\* whose item is closed is ready as it is.
LEMMA LeaveReady ==
    ASSUME NEW p \in Player, NEW s \in Server, Rest(p, s)
    PROVE  /\ Ready(SaveCurrentItemSession(p), s)
           /\ Closed(p.live) => Ready(p, s)
<1>. DEFINE q == SaveCurrentItemSession(p)
<1>1. /\ p.current \in Items /\ p.live \in Session
      /\ p.sessions \in [Items -> SessionOrNone] /\ p.responses \in [Items -> Responses]
      /\ p.results \subseteq Items
  BY PlayerFields
<1>2. /\ q.results = p.results
      /\ ~IsWritable(q.live)
      /\ q.live.response = p.live.response /\ q.live.attempts = p.live.attempts
      /\ IsWritable(p.live) => q.live.lifecycle = "suspended"
      /\ ~IsWritable(p.live) => q.live = p.live
      /\ q.sessions = [p.sessions EXCEPT ![p.current] = q.live]
      /\ q.responses = [p.responses EXCEPT ![p.current] = p.live.response]
  BY SaveCurrentFields
<1>. HIDE DEF q
<1>3. \A i \in Items \ {p.current} :
         q.sessions[i] = p.sessions[i] /\ q.responses[i] = p.responses[i]
  BY <1>1, <1>2
<1>4. q.sessions[p.current] = q.live /\ q.responses[p.current] = p.live.response
  BY <1>1, <1>2
<1>5. Kept(p, s) /\ Counted(p, s)
  BY RestKept
<1>6. Closed(q.live) => Closed(p.live)
  BY <1>2 DEF Closed
<1>7. Closed(p.live) => p.current \in p.results /\ q.live = p.live
  BY <1>1, <1>2, SessionFacts DEF Rest
<1>8. Counted(q, s)
  <2>1. q.results \subseteq s.scores
    BY <1>2, <1>5 DEF Counted
  <2>2. ASSUME NEW i \in Items
        PROVE  /\ Closed(q.sessions[i]) => i \in q.results
               /\ q.sessions[i].attempts <= s.attempts[i]
    <3>1. CASE i = p.current
      BY <1>2, <1>4, <1>6, <1>7, <3>1 DEF Rest
    <3>2. CASE i # p.current
      BY <1>2, <1>3, <1>5, <3>2 DEF Counted
    <3>. QED  BY <3>1, <3>2
  <2>. QED  BY <2>1, <2>2 DEF Counted
<1>9. ASSUME NEW i \in Plain
      PROVE  Parked(q, i)
  <2>1. i \in Items
    BY DEF Plain
  <2>2. CASE i = p.current
    BY <1>2, <1>4, <2>2 DEF Parked, InStep
  <2>3. CASE i # p.current
    BY <1>3, <1>5, <2>1, <2>3 DEF Kept, Parked, InStep
  <2>. QED  BY <2>2, <2>3
<1>10. Strict => s.scores = q.results /\ \A i \in q.results \ Adaptive : Agreed(q, s, i)
  <2>. SUFFICES ASSUME Strict, NEW i \in p.results \ Adaptive
                PROVE  Agreed(q, s, i)
    BY <1>2 DEF Rest
  <2>1. Agreed(p, s, i) /\ i \in Items
    BY <1>1, <1>5 DEF Kept
  <2>2. CASE i # p.current
    BY <1>3, <2>1, <2>2 DEF Agreed, InStep
  <2>3. CASE i = p.current
    <3>1. Closed(p.live) /\ p.current \in Plain
      BY <1>1, <2>3 DEF Rest, Plain
    <3>2. p.sessions[i] = p.live
      BY <2>3, <3>1 DEF Rest, Mirrored
    <3>3. p.live # NoSession
      BY <1>1, SessionFacts
    <3>4. p.live.response = p.responses[i]
      BY <2>1, <3>2, <3>3 DEF Agreed, InStep
    <3>5. q.sessions[i] = p.sessions[i] /\ q.responses[i] = p.responses[i]
      BY <1>4, <1>7, <2>3, <3>1, <3>2, <3>4
    <3>. QED  BY <2>1, <3>5 DEF Agreed, InStep
  <2>. QED  BY <2>2, <2>3
<1>11. Ready(q, s)
  BY <1>8, <1>9, <1>10 DEF Ready
<1>12. ASSUME Closed(p.live)
       PROVE  Ready(p, s)
  <2>1. ASSUME NEW i \in Plain
        PROVE  Parked(p, i)
    <3>1. CASE i = p.current
      <4>1. p.sessions[i] = p.live /\ InStep(p, i)
        BY <1>12, <3>1 DEF Rest, Mirrored
      <4>2. ~IsWritable(p.live)
        BY <1>12 DEF Closed, IsWritable
      <4>. QED  BY <4>1, <4>2 DEF Parked
    <3>2. CASE i # p.current
      BY <1>5, <3>2 DEF Kept
    <3>. QED  BY <3>1, <3>2
  <2>. QED  BY <1>5, <2>1 DEF Ready, Kept, Rest
<1>. QED  BY <1>11, <1>12 DEF q

\* Navigation keeps a session at rest.
LEMMA NavigateRests ==
    ASSUME NEW p \in Player, NEW s \in Server, NEW i \in Items, Rest(p, s)
    PROVE  Rest(NavigateTo(p, i), s)
<1>1. CASE i = p.current
  BY <1>1 DEF NavigateTo
<1>2. CASE i # p.current /\ Closed(p.live)
  BY <1>2, LeaveReady, OpenRests DEF NavigateTo, Closed
<1>3. CASE i # p.current /\ ~Closed(p.live)
  BY <1>3, LeaveReady, OpenRests, SaveCurrentType DEF NavigateTo, Closed
<1>. QED  BY <1>1, <1>2, <1>3

-----------------------------------------------------------------------------
(* The candidate types.                                                    *)

\* A new response of the item shown spoils nothing persisted, unless the item
\* has been accepted.
LEMMA DispatchKept ==
    ASSUME NEW p \in Player, NEW s, NEW session \in Session, Kept(p, s),
           Strict => p.current \notin p.results \ Adaptive
    PROVE  Kept(Dispatched(p, session), s)
<1>. DEFINE q == Dispatched(p, session)
<1>. SUFFICES Kept(q, s)
  OBVIOUS
<1>1. p.current \in Items /\ p.responses \in [Items -> Responses]
  BY PlayerFields
<1>2. /\ q.current = p.current /\ q.results = p.results /\ q.sessions = p.sessions
      /\ q.responses = [p.responses EXCEPT ![p.current] = session.response]
  BY DispatchedFields
<1>. HIDE DEF q
<1>3. \A i \in Items \ {p.current} : q.responses[i] = p.responses[i]
  BY <1>1, <1>2
<1>4. Counted(q, s)
  BY <1>2 DEF Kept, Counted
<1>5. \A i \in Plain \ {q.current} : Parked(q, i)
  BY <1>2, <1>3 DEF Kept, Parked, InStep, Plain
<1>6. ASSUME Strict, NEW i \in q.results \ Adaptive
      PROVE  Agreed(q, s, i)
  <2>1. i \in Items \ {p.current} /\ Agreed(p, s, i)
    BY <1>2, <1>6, PlayerFields DEF Kept
  <2>. QED  BY <1>2, <1>3, <2>1 DEF Agreed, InStep
<1>. QED  BY <1>4, <1>5, <1>6 DEF Kept

\* A session at rest stays so when its writable live session gets a response.
LEMMA DispatchRests ==
    ASSUME NEW p \in Player, NEW s, NEW session \in Session, Rest(p, s),
           IsWritable(p.live), IsWritable(session), session.attempts = p.live.attempts
    PROVE  Rest(Dispatched(p, session), s)
<1>. DEFINE q == Dispatched(p, session)
<1>. SUFFICES Rest(q, s)
  OBVIOUS
<1>1. p.current \in Items /\ p.responses \in [Items -> Responses]
  BY PlayerFields
<1>2. /\ q.current = p.current /\ q.results = p.results /\ q.sessions = p.sessions
      /\ q.live = session
      /\ q.responses = [p.responses EXCEPT ![p.current] = session.response]
  BY DispatchedFields
<1>3. ~Closed(p.live) /\ ~Closed(session)
  BY DEF IsWritable, Closed
<1>4. Kept(q, s)
  BY <1>3, DispatchKept DEF Rest
<1>. HIDE DEF q
<1>5. q.responses[q.current] = q.live.response
  BY <1>1, <1>2
<1>6. Mirrored(q)
  BY <1>2, <1>3, <1>5 DEF Mirrored
<1>. QED  BY <1>2, <1>3, <1>4, <1>6 DEF Rest

\* The candidate may type while a submission is under way only when an adaptive
\* item is the one submitted.
LEMMA RespondUnderway ==
    ASSUME NEW p \in Player, NEW call \in PendingCall, NEW s, NEW v \in Responses,
           Underway(p, call, s), IsWritable(p.live)
    PROVE  Underway(Dispatched(p, SetResponse(p.live, v)), call, s)
<1>. DEFINE session == SetResponse(p.live, v)
            q == Dispatched(p, session)
<1>. SUFFICES Underway(q, call, s)
  OBVIOUS
<1>1. p.live \in Session /\ p.current \in Items
  BY PlayerFields
<1>2. session \in Session /\ session.attempts = p.live.attempts
  BY <1>1, SetResponseType DEF SetResponse, Session
<1>3. call.op # "all" /\ FlightOne(p, call, s) /\ Flight(p, call, s)
  BY DEF Underway, FlightAll, Looping
<1>. HIDE DEF session
<1>4. call.item \in Adaptive
  <2>1. call.item \in Plain => IsWritable(call.ended) /\ Closed(call.ended)
    BY <1>3 DEF FlightOne, Flight
  <2>. QED  BY <1>1, <1>3, <2>1 DEF FlightOne, Plain, IsWritable, Closed
<1>5. Kept(q, s)
  BY <1>2, <1>3, <1>4, DispatchKept DEF Flight, FlightOne
<1>6. /\ q.current = p.current /\ q.results = p.results /\ q.live = session
  BY <1>2, DispatchedFields
<1>. HIDE DEF q
<1>7. Flight(q, call, s)
  BY <1>3, <1>5, <1>6 DEF Flight
<1>8. FlightOne(q, call, s)
  BY <1>2, <1>3, <1>4, <1>6 DEF FlightOne, Plain
<1>. QED  BY <1>3, <1>7, <1>8 DEF Underway

\* What updateResponseForItem() does to an item that is not shown.
Elsewhere(p, i, v) == MarkAnswered([p EXCEPT !.responses[i] = v], i, v)

LEMMA ElsewhereFields ==
    ASSUME NEW p \in Player, NEW i \in Items, NEW v \in Responses
    PROVE  LET q == Elsewhere(p, i, v)
           IN  /\ q.current = p.current /\ q.results = p.results /\ q.sessions = p.sessions
               /\ q.live = p.live
               /\ \A j \in Items \ {i} : q.responses[j] = p.responses[j]
<1>. DEFINE r == [p EXCEPT !.responses[i] = v]
<1>1. /\ r \in Player
      /\ r.current = p.current /\ r.results = p.results /\ r.sessions = p.sessions
      /\ r.live = p.live
      /\ \A j \in Items \ {i} : r.responses[j] = p.responses[j]
  BY DEF Player
<1>. HIDE DEF r
<1>2. SameView(r, MarkAnswered(r, i, v))
  BY <1>1, MarkView
<1>. QED  BY <1>1, <1>2 DEF SameView, Elsewhere, r

\* The response of an item not shown, with nothing persisted or a writable
\* session, may change at any time.
LEMMA ElsewhereKept ==
    ASSUME NEW p \in Player, NEW s, NEW i \in Items, NEW v \in Responses,
           i # p.current, p.sessions[i] = NoSession \/ IsWritable(p.sessions[i])
    PROVE  LET q == Elsewhere(p, i, v)
           IN  /\ Kept(p, s) => Kept(q, s)
               /\ Mirrored(p) => Mirrored(q)
               /\ Kept(p, s) /\ (\A j \in Plain : Parked(p, j)) => \A j \in Plain : Parked(q, j)
<1>. DEFINE q == Elsewhere(p, i, v)
<1>1. /\ q.current = p.current /\ q.results = p.results /\ q.sessions = p.sessions
      /\ q.live = p.live
      /\ \A j \in Items \ {i} : q.responses[j] = p.responses[j]
  BY ElsewhereFields
<1>. HIDE DEF q
<1>2. p.current \in Items /\ p.results \subseteq Items
  BY PlayerFields
<1>3. ~Closed(p.sessions[i])
  BY NoSessionFacts DEF Closed, IsWritable
<1>4. \A j \in Plain : Parked(p, j) => Parked(q, j)
  BY <1>1 DEF Parked, InStep, Plain
<1>5. ASSUME Kept(p, s)
      PROVE  Kept(q, s)
  <2>1. Counted(q, s)
    BY <1>1, <1>5 DEF Kept, Counted
  <2>2. \A j \in Plain \ {q.current} : Parked(q, j)
    BY <1>1, <1>4, <1>5 DEF Kept
  <2>3. ASSUME Strict, NEW j \in q.results \ Adaptive
        PROVE  Agreed(q, s, j)
    <3>1. Agreed(p, s, j) /\ j \in Items
      BY <1>1, <1>2, <1>5, <2>3 DEF Kept
    <3>2. j # i
      BY <1>3, <3>1 DEF Agreed
    <3>. QED  BY <1>1, <3>1, <3>2 DEF Agreed, InStep
  <2>. QED  BY <2>1, <2>2, <2>3 DEF Kept
<1>6. Mirrored(p) => Mirrored(q)
  BY <1>1, <1>2 DEF Mirrored, InStep, Plain
<1>. QED  BY <1>4, <1>5, <1>6 DEF q

\* ... whether the session is at rest or a submission is under way.
LEMMA ElsewhereRests ==
    ASSUME NEW p \in Player, NEW s, NEW i \in Items, NEW v \in Responses,
           i # p.current, p.sessions[i] = NoSession \/ IsWritable(p.sessions[i])
    PROVE  /\ Rest(p, s) => Rest(Elsewhere(p, i, v), s)
           /\ \A call \in PendingCall : Underway(p, call, s)
                  => Underway(Elsewhere(p, i, v), call, s)
<1>. DEFINE q == Elsewhere(p, i, v)
<1>1. /\ q.current = p.current /\ q.results = p.results /\ q.sessions = p.sessions
      /\ q.live = p.live
      /\ \A j \in Items \ {i} : q.responses[j] = p.responses[j]
  BY ElsewhereFields
<1>2. /\ Kept(p, s) => Kept(q, s)
      /\ Mirrored(p) => Mirrored(q)
      /\ Kept(p, s) /\ (\A j \in Plain : Parked(p, j)) => \A j \in Plain : Parked(q, j)
  BY ElsewhereKept
<1>. HIDE DEF q
<1>3. Rest(p, s) => Rest(q, s)
  BY <1>1, <1>2 DEF Rest
<1>4. ASSUME NEW call \in PendingCall, Underway(p, call, s)
      PROVE  Underway(q, call, s)
  <2>1. Flight(q, call, s)
    BY <1>1, <1>2, <1>4 DEF Underway, Flight
  <2>2. call.op # "all" => FlightOne(q, call, s)
    <3>1. call.item \in Items
      BY DEF PendingCall
    <3>. QED  BY <1>1, <1>4, <3>1 DEF Underway, FlightOne
  <2>3. call.op = "all" => FlightAll(q, call, s)
    BY <1>1, <1>2, <1>4 DEF Underway, FlightAll, Looping, Flight
  <2>. QED  BY <2>1, <2>2, <2>3 DEF Underway
<1>. QED  BY <1>3, <1>4 DEF q

-----------------------------------------------------------------------------
(* One operation at a time.                                                *)

\* The operations but the one under way are idle, and stay so.
LEMMA OthersIdle ==
    ASSUME TypeOK, Alone, NEW c \in Calls, Quiet \/ calls[c].stage # "idle"
    PROVE  /\ \A d \in Calls \ {c} : calls[d].stage = "idle"
           /\ \A d \in Calls \ {c} : Detached(calls)[d].stage = "idle"
<1>1. \A d \in Calls \ {c} : calls[d].stage = "idle"
  BY DEF Alone, Quiet
<1>2. calls \in [Calls -> OperationCall] /\ Detached(calls) \in [Calls -> OperationCall]
  BY DetachedType DEF TypeOK
<1>3. \A d \in Calls : Detached(calls)[d].stage = calls[d].stage
  BY <1>2 DEF Detached, OperationCall, Call
<1>. QED  BY <1>1, <1>3

\* A step of the operation under way, or of one that begins, changes that one.
LEMMA OnlyCall ==
    ASSUME TypeOK, Awaited, NEW c \in Calls, Quiet \/ calls[c].stage # "idle", NEW next,
           \/ calls' = [calls EXCEPT ![c] = next]
           \/ calls' = [Detached(calls) EXCEPT ![c] = next]
    PROVE  calls'[c] = next /\ \A d \in Calls \ {c} : calls'[d].stage = "idle"
<1>1. calls \in [Calls -> OperationCall] /\ Detached(calls) \in [Calls -> OperationCall]
  BY DetachedType DEF TypeOK
<1>2. \A d \in Calls \ {c} :
         calls[d].stage = "idle" /\ Detached(calls)[d].stage = "idle"
  BY OthersIdle DEF Awaited
<1>. QED  BY <1>1, <1>2

\* The invariant after a step, from what it says of the one call that matters.
LEMMA Concludes ==
    ASSUME NEW c \in Calls, \A d \in Calls \ {c} : calls'[d].stage = "idle",
           Backed(server'),
           ~InFlight(calls'[c]) => Rest(player', server'),
           InFlight(calls'[c]) => Underway(player', calls'[c], server')
    PROVE  Awaited'
BY DEF Awaited, Alone, InFlight

\* The invariant after a step that leaves no call in flight.
LEMMA ConcludesQuiet ==
    ASSUME Backed(server'), Rest(player', server'), \A c \in Calls : calls'[c].stage = "idle"
    PROVE  Awaited'
BY DEF Awaited, Alone, InFlight

\* The invariant after a step that leaves the calls and the backend alone.
LEMMA ConcludesLocal ==
    ASSUME TypeOK, Awaited, UNCHANGED <<calls, server, finalized>>,
           Rest(player, server) => Rest(player', server),
           \A call \in PendingCall : Underway(player, call, server)
                => Underway(player', call, server)
    PROVE  Awaited'
<1>1. \A c \in Calls : InFlight(calls[c]) => calls[c] \in PendingCall
  BY DEF TypeOK, OperationCall, InFlight
<1>. QED  BY <1>1 DEF Awaited, Alone

\* Without overlapping operations, a quiet session is at rest.
LEMMA QuietRests ==
    ASSUME Awaited, Quiet
    PROVE  Rest(player, server)
BY DEF Awaited, Quiet, InFlight

-----------------------------------------------------------------------------
(* submitCurrentItem().                                                    *)

\* A session at rest whose writable live session ends its attempt is under way,
\* and keeps what takes it back.
LEMMA SubmitUnderway ==
    ASSUME NEW p \in Player, NEW s \in Server, Rest(p, s), IsWritable(p.live),
           NEW outcome \in Outcomes, NEW op \in {"item", "next", "submit"}
    PROVE  LET ended == EndAttempt(p.current, p.live, outcome)
               call == [NoCall EXCEPT !.stage = "request", !.op = op,
                                      !.item = p.current,  !.holds = TRUE,
                                      !.pre = p.live,      !.ended = ended,
                                      !.value = ended.response]
           IN  Underway(Dispatched(p, ended), call, s)
<1>. DEFINE ended == EndAttempt(p.current, p.live, outcome)
            call == [NoCall EXCEPT !.stage = "request", !.op = op,
                                   !.item = p.current,  !.holds = TRUE,
                                   !.pre = p.live,      !.ended = ended,
                                   !.value = ended.response]
            q == Dispatched(p, ended)
<1>. SUFFICES Underway(q, call, s)
  OBVIOUS
<1>1. /\ p.live \in Session /\ p.current \in Items /\ p.live.attempts \in Nat
      /\ p.responses \in [Items -> Responses] /\ s.attempts[p.current] \in Nat
  BY PlayerFields, ServerFields, SessionFacts
<1>2. /\ ended \in Session
      /\ ended.attempts = p.live.attempts + 1 /\ ended.response = p.live.response
      /\ p.current \in Plain => Closed(ended)
  BY <1>1, EndAttemptType, EndedFacts
<1>. HIDE DEF ended
<1>3. /\ call.stage = "request" /\ call.op = op /\ call.item = p.current /\ call.holds
      /\ call.pre = p.live /\ call.ended = ended /\ call.value = ended.response
  BY DEF NoCall
<1>. HIDE DEF call
<1>4. /\ q.current = p.current /\ q.results = p.results /\ q.live = ended
      /\ q.responses = [p.responses EXCEPT ![p.current] = ended.response]
  BY <1>1, <1>2, DispatchedFields
<1>5. Strict => p.current \notin p.results \ Adaptive /\ s.scores = p.results
  BY DEF Rest, IsWritable, Closed
<1>6. Kept(q, s)
  BY <1>2, <1>5, DispatchKept DEF Rest
<1>. HIDE DEF q
<1>7. ~Accepted(call) /\ Owed(call) = 1
  BY <1>3 DEF Accepted, Owed
<1>8. p.live.attempts <= s.attempts[p.current]
  BY DEF Rest
<1>9. ended.attempts <= s.attempts[p.current] + 1
  BY <1>1, <1>2, <1>8
<1>10. Flight(q, call, s)
  BY <1>1, <1>2, <1>3, <1>4, <1>5, <1>6, <1>7, <1>9 DEF Flight
<1>11. q.responses[p.current] = p.live.response
  BY <1>1, <1>2, <1>4
<1>12. FlightOne(q, call, s)
  BY <1>2, <1>3, <1>4, <1>8, <1>11 DEF FlightOne
<1>. QED  BY <1>3, <1>10, <1>12 DEF Underway

\* Starting submitCurrentItem() from rest, or failing to.
LEMMA SubmitCurrentItemAwaited ==
    ASSUME TypeOK, Awaited, Quiet, NEW c \in Calls, NEW op \in {"item", "next", "submit"},
           NEW p \in Player, Rest(p, server),
           SubmitCurrentItem(c, op, p), UNCHANGED <<server, finalized>>
    PROVE  Awaited'
<1>1. p.live \in Session /\ p.current \in Items /\ server \in Server
  BY PlayerFields DEF TypeOK
<1>2. Backed(server')
  BY DEF Awaited
<1>3. ASSUME IsWritable(p.live), NEW outcome \in Outcomes,
             LET ended == EndAttempt(p.current, p.live, outcome)
             IN  /\ player' = Dispatched(p, ended)
                 /\ calls' = [calls EXCEPT ![c] =
                        [NoCall EXCEPT !.stage = "request", !.op = op,
                                       !.item = p.current,  !.holds = TRUE,
                                       !.pre = p.live,      !.ended = ended,
                                       !.value = ended.response]]
      PROVE  Awaited'
  <2>. DEFINE ended == EndAttempt(p.current, p.live, outcome)
              call == [NoCall EXCEPT !.stage = "request", !.op = op,
                                     !.item = p.current,  !.holds = TRUE,
                                     !.pre = p.live,      !.ended = ended,
                                     !.value = ended.response]
  <2>1. Underway(Dispatched(p, ended), call, server)
    BY <1>1, <1>3, SubmitUnderway
  <2>2. player' = Dispatched(p, ended) /\ calls' = [calls EXCEPT ![c] = call]
    BY <1>3
  <2>3. call.stage = "request"
    BY DEF NoCall
  <2>. HIDE DEF call, ended
  <2>4. calls'[c] = call /\ \A d \in Calls \ {c} : calls'[d].stage = "idle"
    BY <2>2, OnlyCall
  <2>. QED  BY <1>2, <2>1, <2>2, <2>3, <2>4, Concludes DEF InFlight
<1>4. CASE /\ player' = IF IsWritable(p.live) /\ Rejected(p) THEN Dispatched(p, p.live) ELSE p
           /\ calls' = Detached(calls)
  <2>1. Rest(player', server')
    BY <1>1, <1>4, DispatchRests
  <2>2. \A d \in Calls : calls'[d].stage = "idle"
    <3>1. \A d \in Calls \ {c} : Detached(calls)[d].stage = "idle"
      BY OthersIdle DEF Awaited
    <3>2. Detached(calls)[c].stage = "idle"
      BY DEF Quiet, Detached, TypeOK, OperationCall, Call
    <3>. QED  BY <1>4, <3>1, <3>2
  <2>. QED  BY <1>2, <2>1, <2>2, ConcludesQuiet
<1>5. CanEndAttempt(p.current, p.live) => IsWritable(p.live)
  BY DEF CanEndAttempt
<1>6. OutcomesOf(p.current) \subseteq Outcomes
  BY <1>1, OutcomesType
<1>. QED  BY <1>3, <1>4, <1>5, <1>6 DEF SubmitCurrentItem

-----------------------------------------------------------------------------
(* The loop of submit().                                                   *)

\* An accepted item can be shown with the session that is persisted for it.
LEMMA ShowRests ==
    ASSUME NEW p \in Player, NEW s \in Server, Ready(p, s), p.current \in p.results
    PROVE  Rest([p EXCEPT !.live = p.sessions[p.current]], s)
<1>. DEFINE q == [p EXCEPT !.live = p.sessions[p.current]]
<1>. SUFFICES Rest(q, s)
  OBVIOUS
<1>1. /\ q.current = p.current /\ q.results = p.results /\ q.live = p.sessions[p.current]
      /\ q.sessions = p.sessions /\ q.responses = p.responses /\ p.current \in Items
  BY DEF Player
<1>. HIDE DEF q
<1>2. Kept(q, s) /\ Ready(q, s)
  BY <1>1, ReadyKept
<1>3. Mirrored(q)
  BY <1>1, <1>2 DEF Mirrored, Ready, Parked
<1>4. q.live.attempts <= s.attempts[q.current]
  BY <1>1, <1>2 DEF Ready, Counted
<1>5. Strict => s.scores = q.results /\ (q.current \in q.results \ Adaptive => Closed(q.live))
  BY <1>1, <1>2 DEF Ready, Agreed
<1>. QED  BY <1>1, <1>2, <1>3, <1>4, <1>5 DEF Rest

\* An error in the loop leaves a session at rest: the item shown keeps the
\* session that was accepted, or gets back the one it had.
LEMMA RestoredRests ==
    ASSUME NEW p \in Player, NEW s \in Server, NEW call \in Call, call.pre \in Session,
           Ready(p, s), Looping(p, call, s),
           call.first \in p.results => call.sessions[call.first] = p.sessions[call.first]
    PROVE  Rest(Restored(p, call), s)
<1>1. p.current = call.first /\ call.first \in Items
  BY DEF Looping, Call
<1>2. CASE call.first \in p.results
  BY <1>1, <1>2, ShowRests DEF Restored
<1>3. CASE call.first \notin p.results
  <2>. DEFINE i == call.first
              r == SaveItemSession(p, i, call.pre)
              q == [r EXCEPT !.live = call.pre]
  <2>1. Restored(p, call) = q
    BY <1>3 DEF Restored
  <2>2. /\ r \in Player /\ r.current = p.current /\ r.results = p.results
        /\ r.sessions = [p.sessions EXCEPT ![i] = call.pre]
        /\ r.responses = [p.responses EXCEPT ![i] = call.pre.response]
    BY <1>1, SaveItemSessionType, SavedFields
  <2>. HIDE DEF r
  <2>3. /\ q.current = p.current /\ q.results = p.results /\ q.live = call.pre
        /\ q.sessions = r.sessions /\ q.responses = r.responses
    BY <2>2 DEF Player
  <2>. HIDE DEF q
  <2>4. \A j \in Items \ {i} :
           q.sessions[j] = p.sessions[j] /\ q.responses[j] = p.responses[j]
    BY <1>1, <2>2, <2>3, PlayerFields
  <2>5. q.sessions[i] = call.pre /\ q.responses[i] = call.pre.response
    BY <1>1, <2>2, <2>3, PlayerFields
  <2>6. /\ IsWritable(call.pre) /\ ~Closed(call.pre)
        /\ call.pre.attempts <= s.attempts[i]
    BY <1>3, SessionFacts DEF Looping
  <2>7. Counted(q, s)
    <3>1. q.results \subseteq s.scores
      BY <2>3 DEF Ready, Counted
    <3>2. ASSUME NEW j \in Items
          PROVE  /\ Closed(q.sessions[j]) => j \in q.results
                 /\ q.sessions[j].attempts <= s.attempts[j]
      <4>1. CASE j = i
        BY <2>5, <2>6, <4>1
      <4>2. CASE j # i
        BY <2>3, <2>4, <4>2 DEF Ready, Counted
      <4>. QED  BY <4>1, <4>2
    <3>. QED  BY <3>1, <3>2 DEF Counted
  <2>8. \A j \in Plain \ {q.current} : Parked(q, j)
    BY <1>1, <2>3, <2>4 DEF Ready, Parked, InStep, Plain
  <2>9. ASSUME Strict, NEW j \in q.results \ Adaptive
        PROVE  Agreed(q, s, j)
    <3>1. j \in Items \ {i} /\ Agreed(p, s, j)
      BY <1>3, <2>3, <2>9, PlayerFields DEF Ready
    <3>. QED  BY <2>4, <3>1 DEF Agreed, InStep
  <2>10. Kept(q, s)
    BY <2>7, <2>8, <2>9 DEF Kept
  <2>11. Mirrored(q)
    BY <1>1, <2>3, <2>5, <2>6 DEF Mirrored
  <2>12. Strict => s.scores = q.results
    BY <2>3 DEF Ready
  <2>13. q.current \notin q.results
    BY <1>1, <1>3, <2>3
  <2>14. Rest(q, s)
    BY <1>1, <2>3, <2>6, <2>10, <2>11, <2>12, <2>13 DEF Rest
  <2>. QED  BY <2>1, <2>14
<1>. QED  BY <1>2, <1>3

\* ... as a step.
LEMMA AbortSubmitAwaited ==
    ASSUME TypeOK, Awaited, NEW c \in Calls, Quiet \/ calls[c].stage # "idle",
           NEW p \in Player, NEW call \in Call, call.pre \in Session,
           Ready(p, server), Looping(p, call, server),
           call.first \in p.results => call.sessions[call.first] = p.sessions[call.first],
           AbortSubmit(c, p, call), UNCHANGED <<server, finalized>>
    PROVE  Awaited'
<1>1. p.current = call.first
  BY DEF Looping
<1>2. player' = Restored(p, call) /\ calls' = [Detached(calls) EXCEPT ![c] = NoCall]
  BY <1>1 DEF AbortSubmit
<1>3. Rest(Restored(p, call), server) /\ Backed(server)
  BY RestoredRests DEF TypeOK, Awaited
<1>4. calls'[c] = NoCall /\ \A d \in Calls \ {c} : calls'[d].stage = "idle"
  BY <1>2, OnlyCall
<1>5. \A d \in Calls : calls'[d].stage = "idle"
  BY <1>4 DEF NoCall
<1>. QED  BY <1>2, <1>3, <1>5, ConcludesQuiet

\* The loop takes an item not yet accepted from what it has, never from the live
\* session, and ends its attempt.
LEMMA TurnUnderway ==
    ASSUME NEW p \in Player, NEW s \in Server, NEW call \in Call, call.op = "all",
           Ready(p, s), Looping(p, call, s), call.sessions = p.sessions,
           NEW i \in Items, i \notin p.results,
           \A j \in Items : j < i => j \in p.results,
           NEW outcome \in Outcomes
    PROVE  LET ended == EndAttempt(i, SessionToEnd(p, call, i), outcome)
           IN  /\ ~UsesLive(p, i)
               /\ Underway(p, [call EXCEPT !.stage = "request",
                                           !.item = i,
                                           !.ended = ended,
                                           !.value = call.responses[i],
                                           !.sessions[i] = ended], s)
<1>. DEFINE session == SessionToEnd(p, call, i)
            ended == EndAttempt(i, session, outcome)
            next == [call EXCEPT !.stage = "request",
                                 !.item = i,
                                 !.ended = ended,
                                 !.value = call.responses[i],
                                 !.sessions[i] = ended]
<1>. SUFFICES ~UsesLive(p, i) /\ Underway(p, next, s)
  OBVIOUS
<1>1. ~UsesLive(p, i)
  BY DEF UsesLive, Looping
<1>2. /\ call.responses \in [Items -> Responses]
      /\ call.sessions \in [Items -> SessionOrNone]
      /\ s.attempts[i] \in Nat
  BY ServerFields DEF Call
<1>3. /\ session \in Session
      /\ session.attempts <= s.attempts[i]
      /\ i \in Plain => session.response = call.responses[i]
  <2>1. session \in Session
    BY SessionToEndType
  <2>2. CASE call.sessions[i] = NoSession
    <3>1. session = NewSession(call.responses[i])
      BY <1>1, <2>2 DEF SessionToEnd
    <3>2. session.attempts = 0 /\ session.response = call.responses[i]
      BY <3>1, NoSessionFacts
    <3>. QED  BY <1>2, <2>1, <3>2
  <2>3. CASE call.sessions[i] # NoSession
    <3>1. call.sessions[i] \in Session /\ session = ActivateAttempt(call.sessions[i])
      BY <1>1, <1>2, <2>3, SavedType DEF SessionToEnd
    <3>2. /\ session.attempts = p.sessions[i].attempts
          /\ session.response = call.sessions[i].response
      BY <3>1, SessionFacts
    <3>3. session.attempts <= s.attempts[i]
      BY <3>2 DEF Ready, Counted
    <3>4. i \in Plain => session.response = call.responses[i]
      BY <2>3, <3>2 DEF Looping
    <3>. QED  BY <2>1, <3>3, <3>4
  <2>. QED  BY <2>2, <2>3
<1>. HIDE DEF session
<1>4. /\ ended \in Session /\ ended.attempts = session.attempts + 1
      /\ ended.response = session.response
      /\ i \in Plain => Closed(ended)
  BY <1>3, EndAttemptType, EndedFacts
<1>. HIDE DEF ended
<1>5. /\ next.stage = "request" /\ next.op = "all" /\ next.item = i /\ next.ended = ended
      /\ next.value = call.responses[i] /\ next.pre = call.pre /\ next.first = call.first
      /\ next.responses = call.responses
      /\ next.sessions = [p.sessions EXCEPT ![i] = ended]
  BY DEF Call
<1>. HIDE DEF next
<1>6. ~Accepted(next) /\ Owed(next) = 1
  BY <1>5 DEF Accepted, Owed
<1>7. ended.attempts <= s.attempts[i] + 1
  <2>1. session.attempts \in Nat
    BY <1>3, SessionFacts
  <2>. QED  BY <1>2, <1>3, <1>4, <2>1
<1>8. Kept(p, s)
  BY ReadyKept
<1>9. Strict => s.scores = p.results
  BY DEF Ready
<1>10. Flight(p, next, s)
  BY <1>3, <1>4, <1>5, <1>6, <1>7, <1>8, <1>9 DEF Flight
<1>11. \A j \in Plain : next.sessions[j] # NoSession
          => next.sessions[j].response = next.responses[j]
  <2>. SUFFICES ASSUME NEW j \in Plain, next.sessions[j] # NoSession
                PROVE  next.sessions[j].response = next.responses[j]
    OBVIOUS
  <2>1. CASE j = i
    BY <1>2, <1>3, <1>4, <1>5, <2>1
  <2>2. CASE j # i
    <3>1. next.sessions[j] = call.sessions[j]
      BY <1>2, <1>5, <2>2
    <3>. QED  BY <1>5, <3>1 DEF Looping
  <2>. QED  BY <2>1, <2>2
<1>12. Looping(p, next, s)
  BY <1>5, <1>11 DEF Looping
<1>13. FlightAll(p, next, s)
  BY <1>5, <1>12 DEF FlightAll
<1>. QED  BY <1>1, <1>5, <1>10, <1>13 DEF Underway

\* One turn of the loop, from a state in which what it has agrees with what is
\* persisted: it goes on with the next item, ends, or gives up.
LEMMA ContinueSubmitAwaited ==
    ASSUME TypeOK, Awaited, NEW c \in Calls, Quiet \/ calls[c].stage # "idle",
           NEW p \in Player, NEW call \in Call, call.op = "all", call.pre \in Session,
           Ready(p, server), Looping(p, call, server), call.sessions = p.sessions,
           \A j \in Items : j <= call.item => j \in p.results,
           ContinueSubmit(c, p, call), UNCHANGED <<server, finalized>>
    PROVE  Awaited'
<1>. DEFINE pending == Pending(p, call)
            i       == Min(pending)
            session == SessionToEnd(p, call, i)
            final   == [NoCall EXCEPT !.stage = "finalize", !.op = "all"]
<1>1. /\ p.current = call.first /\ p.current \in Items
      /\ server \in Server /\ Backed(server')
  BY PlayerFields DEF Looping, TypeOK, Awaited
<1>2. \A j \in Items : j \in pending \/ j \in p.results
  BY ItemsOrdered DEF Pending
<1>3. CASE pending = {}
  <2>1. /\ player' = [p EXCEPT !.live = p.sessions[p.current]]
        /\ calls' = [Detached(calls) EXCEPT ![c] = final]
    BY <1>1, <1>3 DEF ContinueSubmit
  <2>2. p.current \in p.results
    BY <1>1, <1>2, <1>3
  <2>3. Rest(player', server')
    BY <1>1, <2>1, <2>2, ShowRests
  <2>4. final.stage = "finalize"
    BY DEF NoCall
  <2>. HIDE DEF final
  <2>5. calls'[c] = final /\ \A d \in Calls \ {c} : calls'[d].stage = "idle"
    BY <2>1, OnlyCall
  <2>. QED  BY <1>1, <2>3, <2>4, <2>5, Concludes DEF InFlight
<1>4. CASE pending # {} /\ ~CanEndAttempt(i, session)
  <2>1. AbortSubmit(c, p, call)
    BY <1>4 DEF ContinueSubmit
  <2>. QED  BY <2>1, AbortSubmitAwaited
<1>5. CASE pending # {} /\ CanEndAttempt(i, session)
  <2>1. pending \subseteq Items /\ \A j \in pending : j \notin p.results
    BY DEF Pending
  <2>2. i \in pending /\ \A j \in pending : i <= j
    BY <1>5, <2>1, FirstItem, MinProperties
  <2>3. PICK outcome \in OutcomesOf(i) :
            LET ended == EndAttempt(i, session, outcome)
            IN  /\ player' = IF UsesLive(p, i) THEN Dispatched(p, ended) ELSE p
                /\ calls' = [calls EXCEPT ![c] =
                      [call EXCEPT !.stage = "request",
                                   !.item = i,
                                   !.ended = ended,
                                   !.value = call.responses[i],
                                   !.sessions[i] = ended]]
    BY <1>5 DEF ContinueSubmit
  <2>. DEFINE ended == EndAttempt(i, SessionToEnd(p, call, i), outcome)
              next  == [call EXCEPT !.stage = "request",
                                    !.item = i,
                                    !.ended = ended,
                                    !.value = call.responses[i],
                                    !.sessions[i] = ended]
  <2>4. /\ player' = IF UsesLive(p, i) THEN Dispatched(p, ended) ELSE p
        /\ calls' = [calls EXCEPT ![c] = next]
    BY <2>3
  <2>. HIDE DEF i, session, pending
  <2>5. i \in Items /\ i \notin p.results
    BY <2>1, <2>2
  <2>6. \A j \in Items : j < i => j \in p.results
    <3>. SUFFICES ASSUME NEW j \in Items, j < i, j \notin p.results
                  PROVE  FALSE
      OBVIOUS
    <3>1. i <= j
      BY <1>2, <2>2
    <3>2. i \in Nat /\ j \in Nat
      BY <2>5, FirstItem
    <3>. QED  BY <3>1, <3>2
  <2>7. ~UsesLive(p, i) /\ Underway(p, next, server)
    BY <1>1, <2>5, <2>6, OutcomesType, TurnUnderway
  <2>8. next.stage = "request"
    BY DEF Call
  <2>. HIDE DEF next, ended
  <2>9. calls'[c] = next /\ \A d \in Calls \ {c} : calls'[d].stage = "idle"
    BY <2>4, OnlyCall
  <2>10. player' = p
    BY <2>4, <2>7
  <2>. QED  BY <1>1, <2>7, <2>8, <2>9, <2>10, Concludes DEF InFlight
<1>. QED  BY <1>3, <1>4, <1>5

-----------------------------------------------------------------------------
(* Adopting an answer.                                                     *)

\* The fields of a player that has adopted an accepted item, in
\* submitCurrentItem() and in the loop of submit().
LEMMA AdoptedFields ==
    ASSUME NEW p \in Player, NEW call \in PendingCall, NEW s \in Server,
           call.full => call.state.scores = s.scores
    PROVE  LET i == call.item
               results == (IF call.full THEN s.scores ELSE p.results) \cup {i}
               q == ItemAccepted(p, call)
               r == LoopAccepted(p, call)
           IN  /\ q.current = p.current /\ q.live = p.live /\ q.results = results
               /\ q.responses = [p.responses EXCEPT ![i] = call.value]
               /\ q.sessions = [p.sessions EXCEPT ![i] = call.ended]
               /\ r.current = p.current /\ r.live = p.live /\ r.results = results
               /\ r.responses = IF call.full THEN call.responses
                                ELSE [p.responses EXCEPT ![i] = call.value]
               /\ r.sessions = IF call.full THEN call.sessions
                               ELSE [p.sessions EXCEPT ![i] = call.ended]
<1>. DEFINE i         == call.item
            responses == [p.responses EXCEPT ![i] = call.value]
            sessions  == [p.sessions EXCEPT ![i] = call.ended]
            results   == (IF call.full THEN s.scores ELSE p.results) \cup {i}
<1>1. \A rs, ss : LET a == ReplaceState(p, call.state, rs, ss)
                  IN  /\ a.current = p.current /\ a.live = p.live
                      /\ a.results = call.state.scores /\ a.responses = rs /\ a.sessions = ss
  BY DEF ReplaceState, Player
<1>. DEFINE adopted == IF call.full THEN ReplaceState(p, call.state, responses, sessions)
                       ELSE [p EXCEPT !.responses = responses, !.sessions = sessions]
            known   == [adopted EXCEPT !.results = @ \cup {i}]
            looped  == IF call.full
                       THEN ReplaceState(p, call.state, call.responses, call.sessions)
                       ELSE RecordAttempt([p EXCEPT !.responses[i] = call.value,
                                                    !.sessions[i] = call.ended], i)
<1>2. /\ call.item \in Items /\ call.ended \in Session
      /\ call.value \in Responses /\ call.state \in Server
      /\ call.responses \in [Items -> Responses]
      /\ call.sessions \in [Items -> SessionOrNone]
  BY DEF PendingCall, Call
<1>3. adopted \in Player
  <2>1. responses \in [Items -> Responses] /\ sessions \in [Items -> SessionOrNone]
    BY <1>2 DEF Player, SessionOrNone
  <2>2. [p EXCEPT !.responses = responses, !.sessions = sessions] \in Player
    BY <2>1 DEF Player
  <2>. QED  BY <1>2, <2>1, <2>2, ReplaceStateType
<1>4. /\ adopted.current = p.current /\ adopted.live = p.live
      /\ adopted.responses = responses /\ adopted.sessions = sessions
      /\ adopted.results = IF call.full THEN s.scores ELSE p.results
  <2>1. LET a == [p EXCEPT !.responses = responses, !.sessions = sessions]
        IN  /\ a.current = p.current /\ a.live = p.live /\ a.results = p.results
            /\ a.responses = responses /\ a.sessions = sessions
    BY DEF Player
  <2>. HIDE DEF responses, sessions
  <2>. QED  BY <1>1, <2>1
<1>. HIDE DEF responses, sessions, adopted
<1>5. /\ known \in Player /\ known.current = p.current /\ known.live = p.live
      /\ known.responses = responses /\ known.sessions = sessions /\ known.results = results
  BY <1>2, <1>3, <1>4 DEF Player
<1>6. ItemAccepted(p, call) = MarkAnswered(RecordAttempt(known, i), i, call.value)
  BY DEF ItemAccepted, adopted, responses, sessions
<1>. HIDE DEF known
<1>7. SameView(known, RecordAttempt(known, i)) /\ RecordAttempt(known, i) \in Player
  BY <1>2, <1>5, MarkView, RecordAttemptType
<1>8. SameView(RecordAttempt(known, i), ItemAccepted(p, call))
  BY <1>6, <1>7, MarkView
<1>9. LET q == ItemAccepted(p, call)
      IN  /\ q.current = p.current /\ q.live = p.live /\ q.results = results
          /\ q.responses = responses /\ q.sessions = sessions
  BY <1>5, <1>7, <1>8 DEF SameView
<1>10. /\ looped \in Player /\ looped.current = p.current /\ looped.live = p.live
       /\ looped.results = IF call.full THEN s.scores ELSE p.results
       /\ looped.responses = IF call.full THEN call.responses ELSE responses
       /\ looped.sessions = IF call.full THEN call.sessions ELSE sessions
  <2>1. CASE call.full
    BY <1>1, <1>2, <2>1, ReplaceStateType
  <2>2. CASE ~call.full
    <3>. DEFINE a == [p EXCEPT !.responses[i] = call.value, !.sessions[i] = call.ended]
    <3>1. /\ a \in Player /\ a.current = p.current /\ a.live = p.live /\ a.results = p.results
          /\ a.responses = responses /\ a.sessions = sessions
      BY <1>2 DEF Player, SessionOrNone, responses, sessions
    <3>. HIDE DEF a
    <3>2. SameView(a, RecordAttempt(a, i)) /\ RecordAttempt(a, i) \in Player
      BY <1>2, <3>1, MarkView, RecordAttemptType
    <3>3. looped = RecordAttempt(a, i)
      BY <2>2 DEF a
    <3>. QED  BY <2>2, <3>1, <3>2, <3>3 DEF SameView
  <2>. QED  BY <2>1, <2>2
<1>11. LoopAccepted(p, call) = [looped EXCEPT !.results = @ \cup {i}]
  BY DEF LoopAccepted
<1>. HIDE DEF looped
<1>12. LET r == LoopAccepted(p, call)
       IN  /\ r.current = p.current /\ r.live = p.live /\ r.results = results
           /\ r.responses = IF call.full THEN call.responses ELSE responses
           /\ r.sessions = IF call.full THEN call.sessions ELSE sessions
  BY <1>10, <1>11 DEF Player
<1>. QED  BY <1>9, <1>12 DEF responses, sessions

\* What is persisted after an answer has been adopted has been accepted.
LEMMA AdoptedCounted ==
    ASSUME NEW p \in Player, NEW call \in PendingCall, NEW s \in Server,
           Flight(p, call, s), Accepted(call), NEW q,
           q.results = (IF call.full THEN s.scores ELSE p.results) \cup {call.item},
           q.sessions = [p.sessions EXCEPT ![call.item] = call.ended]
    PROVE  /\ Counted(q, s)
           /\ p.results \subseteq q.results
           /\ call.item \in q.results
           /\ Strict => s.scores = q.results /\ q.results = p.results \cup {call.item}
<1>1. /\ p.results \subseteq s.scores /\ call.item \in s.scores
      /\ call.ended.attempts <= s.attempts[call.item]
  <2>1. s.attempts[call.item] \in Nat
    BY ServerFields DEF PendingCall
  <2>2. call.ended.attempts \in Nat
    BY SessionFacts DEF PendingCall
  <2>. QED  BY <2>1, <2>2 DEF Flight, Kept, Counted, Owed
<1>2. call.item \in q.results /\ p.results \subseteq q.results /\ q.results \subseteq s.scores
  BY <1>1
<1>3. ASSUME NEW j \in Items
      PROVE  /\ Closed(q.sessions[j]) => j \in q.results
             /\ q.sessions[j].attempts <= s.attempts[j]
  <2>1. CASE j = call.item
    BY <1>1, <1>2, <2>1, PlayerFields
  <2>2. CASE j # call.item
    <3>1. q.sessions[j] = p.sessions[j]
      BY <2>2, PlayerFields
    <3>. QED  BY <1>2, <3>1 DEF Flight, Kept, Counted
  <2>. QED  BY <2>1, <2>2
<1>4. Strict => s.scores = q.results /\ q.results = p.results \cup {call.item}
  BY <1>2 DEF Flight
<1>. QED  BY <1>2, <1>3, <1>4 DEF Counted

\* submitCurrentItem() has an accepted item shown as it is persisted.
LEMMA ItemAcceptedRests ==
    ASSUME NEW p \in Player, NEW call \in PendingCall, NEW s \in Server,
           Underway(p, call, s), call.op # "all", Accepted(call)
    PROVE  /\ Rest(ItemAccepted(p, call), s) /\ Ready(ItemAccepted(p, call), s)
           /\ ItemAccepted(p, call).current = p.current
           /\ p.results \subseteq ItemAccepted(p, call).results
<1>. DEFINE q == ItemAccepted(p, call)
            i == call.item
<1>. SUFFICES Rest(q, s) /\ Ready(q, s) /\ q.current = p.current /\ p.results \subseteq q.results
  OBVIOUS
<1>1. Flight(p, call, s) /\ FlightOne(p, call, s)
  BY DEF Underway
<1>2. /\ q.current = p.current /\ q.live = p.live
      /\ q.results = (IF call.full THEN s.scores ELSE p.results) \cup {call.item}
      /\ q.responses = [p.responses EXCEPT ![i] = call.value]
      /\ q.sessions = [p.sessions EXCEPT ![i] = call.ended]
  BY <1>1, AdoptedFields DEF Flight
<1>. HIDE DEF q
<1>3. /\ Counted(q, s)
      /\ p.results \subseteq q.results
      /\ i \in q.results
      /\ Strict => s.scores = q.results /\ q.results = p.results \cup {i}
  BY <1>1, <1>2, AdoptedCounted
<1>4. i \in Items /\ i = p.current /\ p.results \subseteq Items
  BY PlayerFields DEF PendingCall, FlightOne, Underway
<1>5. q.sessions[i] = call.ended /\ q.responses[i] = call.value
  BY <1>2, <1>4, PlayerFields
<1>6. \A j \in Items \ {i} :
         q.sessions[j] = p.sessions[j] /\ q.responses[j] = p.responses[j]
  BY <1>2, <1>4, PlayerFields
<1>7. i \in Plain => Closed(call.ended) /\ call.value = call.ended.response /\ p.live = call.ended
  BY <1>1 DEF Flight, FlightOne
<1>8. ASSUME NEW j \in Plain
      PROVE  Parked(q, j)
  <2>1. j \in Items
    BY DEF Plain
  <2>2. CASE j = i
    BY <1>5, <1>7, <2>2 DEF Parked, InStep, IsWritable, Closed
  <2>3. CASE j # i
    BY <1>1, <1>4, <1>6, <2>1, <2>3 DEF Flight, Kept, Parked, InStep
  <2>. QED  BY <2>2, <2>3
<1>9. ASSUME Strict, NEW j \in q.results \ Adaptive
      PROVE  Agreed(q, s, j)
  <2>1. j \in p.results \cup {i} /\ j \in Plain /\ j \in Items
    BY <1>3, <1>4, <1>9 DEF Plain
  <2>2. CASE j = i
    <3>1. s.responses[i] = call.value
      BY <1>1, <1>9 DEF Flight, Underway
    <3>. QED  BY <1>5, <1>7, <2>1, <2>2, <3>1 DEF Agreed, InStep
  <2>3. CASE j # i
    <3>1. Agreed(p, s, j)
      BY <1>1, <1>9, <2>1, <2>3 DEF Flight, Kept
    <3>. QED  BY <1>6, <2>1, <2>3, <3>1 DEF Agreed, InStep
  <2>. QED  BY <2>2, <2>3
<1>10. Ready(q, s) /\ Kept(q, s)
  BY <1>3, <1>8, <1>9 DEF Ready, Kept
<1>11. p.live.attempts <= s.attempts[i]
  BY <1>1, <1>3, <1>4, <1>5 DEF FlightOne, Counted
<1>12. Mirrored(q)
  BY <1>2, <1>4, <1>5, <1>7, <1>8 DEF Mirrored, Parked, IsWritable, Closed
<1>13. i \in q.results \ Adaptive => Closed(q.live)
  BY <1>2, <1>4, <1>7 DEF Plain
<1>. QED  BY <1>2, <1>3, <1>4, <1>10, <1>11, <1>12, <1>13 DEF Rest

\* The loop of submit() has what it works on persisted once an answer has been
\* adopted, with the backend's state or without it.
LEMMA LoopAcceptedReady ==
    ASSUME NEW p \in Player, NEW call \in PendingCall, NEW s \in Server,
           Underway(p, call, s), call.op = "all", Accepted(call)
    PROVE  LET q == LoopAccepted(p, call)
           IN  /\ Ready(q, s) /\ Looping(q, call, s) /\ call.sessions = q.sessions
               /\ \A j \in Items : j <= call.item => j \in q.results
               /\ p.results \subseteq q.results
<1>. DEFINE q == LoopAccepted(p, call)
            i == call.item
<1>. SUFFICES /\ Ready(q, s) /\ Looping(q, call, s) /\ call.sessions = q.sessions
              /\ \A j \in Items : j <= call.item => j \in q.results
              /\ p.results \subseteq q.results
  OBVIOUS
<1>1. Flight(p, call, s) /\ FlightAll(p, call, s) /\ Looping(p, call, s)
  BY DEF Underway, FlightAll
<1>2. /\ q.current = p.current /\ q.live = p.live
      /\ q.results = (IF call.full THEN s.scores ELSE p.results) \cup {call.item}
      /\ q.responses = IF call.full THEN call.responses
                       ELSE [p.responses EXCEPT ![i] = call.value]
      /\ q.sessions = [p.sessions EXCEPT ![i] = call.ended]
      /\ call.sessions = q.sessions
  BY <1>1, AdoptedFields DEF Flight, FlightAll
<1>. HIDE DEF q
<1>3. /\ Counted(q, s)
      /\ p.results \subseteq q.results
      /\ i \in q.results
      /\ Strict => s.scores = q.results /\ q.results = p.results \cup {i}
  BY <1>1, <1>2, AdoptedCounted
<1>4. i \in Items /\ p.results \subseteq Items /\ call.ended \in Session
  BY PlayerFields DEF PendingCall
<1>5. q.sessions[i] = call.ended /\ call.ended # NoSession
  BY <1>2, <1>4, PlayerFields, SessionFacts
<1>6. \A j \in Items \ {i} : q.sessions[j] = p.sessions[j]
  BY <1>2, <1>4, PlayerFields
<1>7. i \in Plain => /\ Closed(call.ended)
                     /\ call.value = call.ended.response
                     /\ call.value = call.responses[i]
  <2>1. i \in Plain => call.sessions[i].response = call.responses[i]
    BY <1>1, <1>2, <1>5 DEF Looping
  <2>. QED  BY <1>1, <1>2, <1>5, <2>1 DEF Flight
<1>8. \A j \in Items : q.responses[j] = IF call.full THEN call.responses[j]
                                        ELSE IF j = i THEN call.value
                                        ELSE p.responses[j]
  BY <1>2, <1>4, PlayerFields
<1>9. ASSUME NEW j \in Plain
      PROVE  Parked(q, j)
  <2>1. j \in Items
    BY DEF Plain
  <2>2. CASE j = i
    <3>1. q.responses[i] = call.ended.response
      BY <1>4, <1>7, <1>8, <2>2
    <3>. QED  BY <1>5, <1>7, <2>2, <3>1 DEF Parked, InStep, IsWritable, Closed
  <2>3. CASE j # i
    <3>1. Parked(p, j) /\ q.sessions[j] = p.sessions[j]
      BY <1>1, <1>6, <2>1, <2>3 DEF Looping
    <3>2. q.sessions[j] # NoSession => q.sessions[j].response = call.responses[j]
      BY <1>1, <1>2 DEF Looping
    <3>3. q.sessions[j] # NoSession => q.sessions[j].response = p.responses[j]
      BY <3>1 DEF Parked, InStep
    <3>. QED  BY <1>8, <2>1, <2>3, <3>1, <3>2, <3>3 DEF Parked, InStep
  <2>. QED  BY <2>2, <2>3
<1>10. ASSUME Strict, NEW j \in q.results \ Adaptive
       PROVE  Agreed(q, s, j) /\ call.responses[j] = s.responses[j]
  <2>1. j \in p.results \cup {i} /\ j \in Plain /\ j \in Items
    BY <1>3, <1>4, <1>10 DEF Plain
  <2>2. InStep(q, j)
    BY <1>9, <2>1 DEF Parked
  <2>3. CASE j = i
    <3>1. s.responses[i] = call.value
      BY <1>1, <1>10 DEF Flight
    <3>. QED  BY <1>5, <1>7, <1>8, <2>1, <2>2, <2>3, <3>1 DEF Agreed
  <2>4. CASE j # i
    <3>1. Agreed(p, s, j) /\ call.responses[j] = s.responses[j]
      BY <1>1, <1>10, <2>1, <2>4 DEF Flight, Kept, Looping
    <3>. QED  BY <1>6, <1>8, <2>1, <2>2, <2>4, <3>1 DEF Agreed
  <2>. QED  BY <2>3, <2>4
<1>11. Ready(q, s)
  BY <1>3, <1>9, <1>10 DEF Ready
<1>12. Looping(q, call, s)
  BY <1>1, <1>2, <1>3, <1>9, <1>10 DEF Looping
<1>13. \A j \in Items : j <= i => j \in q.results
  <2>1. \A k, j \in Items : j <= k => j = k \/ j < k
    BY SessionAssumption
  <2>. QED  BY <1>1, <1>3, <1>4, <2>1 DEF FlightAll
<1>. QED  BY <1>2, <1>3, <1>11, <1>12, <1>13

\* A failed submitCurrentItem() takes back the session it captured.
LEMMA FailedRests ==
    ASSUME NEW p \in Player, NEW call \in PendingCall, NEW s \in Server,
           Underway(p, call, s), call.op # "all", ~Accepted(call)
    PROVE  Rest([p EXCEPT !.live = call.pre], s)
<1>. DEFINE q == [p EXCEPT !.live = call.pre]
<1>. SUFFICES Rest(q, s)
  OBVIOUS
<1>1. Flight(p, call, s) /\ FlightOne(p, call, s)
  BY DEF Underway
<1>2. /\ q.current = p.current /\ q.live = call.pre /\ q.results = p.results
      /\ q.sessions = p.sessions /\ q.responses = p.responses
      /\ p.current \in Items
  BY DEF Player
<1>. HIDE DEF q
<1>3. Kept(q, s)
  BY <1>1, <1>2 DEF Flight, Kept, Counted, Parked, InStep, Agreed
<1>4. IsWritable(q.live) /\ ~Closed(q.live)
  BY <1>1, <1>2 DEF FlightOne, IsWritable, Closed
<1>5. Mirrored(q)
  BY <1>1, <1>2, <1>4 DEF FlightOne, Mirrored
<1>6. Strict => s.scores = q.results /\ q.current \notin q.results \ Adaptive
  BY <1>1, <1>2 DEF Flight, FlightOne
<1>7. q.live.attempts <= s.attempts[q.current]
  BY <1>1, <1>2 DEF FlightOne
<1>. QED  BY <1>3, <1>4, <1>5, <1>6, <1>7 DEF Rest

\* A failed turn of the loop leaves what is persisted as it was.
LEMMA FailedReady ==
    ASSUME NEW p \in Player, NEW call \in PendingCall, NEW s \in Server,
           Underway(p, call, s), call.op = "all", ~Accepted(call)
    PROVE  /\ Ready(p, s) /\ Looping(p, call, s)
           /\ call.first \in p.results => call.sessions[call.first] = p.sessions[call.first]
<1>1. Flight(p, call, s) /\ FlightAll(p, call, s) /\ Looping(p, call, s)
  BY DEF Underway, FlightAll
<1>2. Ready(p, s)
  BY <1>1 DEF Flight, Kept, Looping, Ready
<1>3. call.first \in p.results => call.sessions[call.first] = p.sessions[call.first]
  <2>1. call.first \in Items
    BY DEF PendingCall, Call
  <2>. QED  BY <1>1, <2>1, PlayerFields DEF FlightAll
<1>. QED  BY <1>1, <1>2, <1>3

-----------------------------------------------------------------------------
(* The backend.                                                            *)

\* A submission that is scored leaves the backend fit to resume from.
LEMMA ScoredBacked ==
    ASSUME TypeOK, NEW call \in PendingCall, Backed(server), Flight(player, call, server),
           ~Accepted(call)
    PROVE  Backed(Scored(call))
<1>. DEFINE s == Scored(call)
            i == call.item
<1>. SUFFICES Backed(s)
  OBVIOUS
<1>1. /\ i \in Items /\ call.ended \in Session /\ call.ended.attempts \in Nat
      /\ server \in Server /\ server.attempts[i] \in Nat
  BY ServerFields, SessionFacts DEF PendingCall, TypeOK
<1>2. /\ s.scores = server.scores \cup {i}
      /\ s.responses[i] = call.value /\ s.attempts[i] = server.attempts[i] + 1
      /\ SendItemSession => s.sessions[i] = call.ended
      /\ ~SendItemSession => s.sessions = server.sessions
      /\ \A j \in Items \ {i} : /\ s.responses[j] = server.responses[j]
                                /\ s.sessions[j] = server.sessions[j]
                                /\ s.attempts[j] = server.attempts[j]
  BY <1>1, ServerFields DEF Scored
<1>. HIDE DEF s
<1>3. call.ended.attempts <= server.attempts[i] + 1
  BY DEF Flight, Owed
<1>4. i \in Plain => Closed(call.ended) /\ call.value = call.ended.response
  BY DEF Flight
<1>5. ~SendItemSession => \A j \in Items : server.sessions[j] = NoSession
  BY DEF Backed
<1>6. ASSUME NEW j \in Items
      PROVE  /\ Closed(s.sessions[j]) => j \in s.scores
             /\ s.sessions[j].attempts <= s.attempts[j]
             /\ j \notin s.scores => s.attempts[j] = 0
             /\ ~SendItemSession => s.sessions[j] = NoSession
             /\ j \in Plain /\ s.sessions[j] # NoSession =>
                   Closed(s.sessions[j]) /\ s.sessions[j].response = s.responses[j]
  <2>1. CASE j # i
    <3>1. /\ s.responses[j] = server.responses[j]
          /\ s.sessions[j] = server.sessions[j]
          /\ s.attempts[j] = server.attempts[j]
          /\ j \in s.scores <=> j \in server.scores
      BY <1>2, <2>1
    <3>. QED  BY <3>1 DEF Backed
  <2>2. CASE j = i /\ SendItemSession
    BY <1>2, <1>3, <1>4, <2>2
  <2>3. CASE j = i /\ ~SendItemSession
    <3>1. s.sessions[j] = NoSession
      BY <1>2, <1>5, <2>3
    <3>2. s.sessions[j].attempts <= s.attempts[j]
      BY <1>1, <1>2, <2>3, <3>1, NoSessionFacts
    <3>. QED  BY <1>2, <2>3, <3>1, <3>2
  <2>. QED  BY <2>1, <2>2, <2>3
<1>7. ASSUME Strict, NEW j \in s.scores \ Adaptive
      PROVE  Closed(s.sessions[j]) /\ s.attempts[j] = 1
  <2>1. j \in Items /\ j \in Plain
    BY <1>1, <1>2, <1>7, ServerFields DEF Plain
  <2>2. CASE j # i
    BY <1>2, <1>7, <2>1, <2>2 DEF Backed
  <2>3. CASE j = i
    <3>1. i \notin server.scores
      BY <1>7, <2>1, <2>3 DEF Flight, Plain
    <3>2. server.attempts[i] = 0
      BY <1>1, <3>1 DEF Backed
    <3>. QED  BY <1>2, <1>4, <1>7, <2>1, <2>3, <3>2 DEF Strict
  <2>. QED  BY <2>2, <2>3
<1>. QED  BY <1>6, <1>7 DEF Backed, Plain

\* What of a call does not depend on its answer.
SameRequest(call, next) ==
    /\ next.op = call.op /\ next.item = call.item /\ next.holds = call.holds
    /\ next.pre = call.pre /\ next.ended = call.ended /\ next.value = call.value
    /\ next.first = call.first /\ next.responses = call.responses
    /\ next.sessions = call.sessions

\* Scoring a submission under way keeps it so, when the answer arrives and, if
\* nothing is asked of Strict hosts, when it is lost.
LEMMA ScoredUnderway ==
    ASSUME TypeOK, NEW call \in PendingCall, Underway(player, call, server), ~Accepted(call),
           NEW next, SameRequest(call, next),
           IF Accepted(next)
           THEN /\ next.full => next.state = Scored(call)
                /\ next.branch \in Branches[call.item]
           ELSE Lossy
    PROVE  Underway(player, next, Scored(call))
<1>. DEFINE s == Scored(call)
            i == call.item
<1>. SUFFICES Underway(player, next, s)
  OBVIOUS
<1>1. /\ i \in Items /\ call.ended \in Session /\ call.ended.attempts \in Nat
      /\ server \in Server /\ server.attempts[i] \in Nat /\ player \in Player
      /\ call.pre \in Session /\ call.pre.attempts \in Nat /\ call.first \in Items
  BY ServerFields, SessionFacts DEF PendingCall, TypeOK, Call
<1>2. /\ s.scores = server.scores \cup {i}
      /\ s.responses[i] = call.value /\ s.attempts[i] = server.attempts[i] + 1
      /\ \A j \in Items \ {i} : /\ s.responses[j] = server.responses[j]
                                /\ s.attempts[j] = server.attempts[j]
  BY <1>1, ServerFields DEF Scored
<1>3. next.full /\ Accepted(next) => next.state.scores = s.scores
  OBVIOUS
<1>. HIDE DEF s
<1>4. /\ Flight(player, call, server) /\ Kept(player, server)
      /\ call.ended.attempts <= server.attempts[i] + 1
  BY DEF Underway, Flight, Owed
<1>5. \A n \in Nat : \A j \in Items : n <= server.attempts[j] => n <= s.attempts[j]
  <2>. SUFFICES ASSUME NEW n \in Nat, NEW j \in Items, n <= server.attempts[j]
                PROVE  n <= s.attempts[j]
    OBVIOUS
  <2>1. server.attempts[j] \in Nat
    BY <1>1, ServerFields
  <2>2. s.attempts[j] = server.attempts[j] \/ s.attempts[j] = server.attempts[j] + 1
    BY <1>2
  <2>. QED  BY <2>1, <2>2
<1>6. Strict => /\ server.scores = player.results
                /\ \A j \in player.results \ Adaptive : j # i
  BY <1>4 DEF Flight
<1>7. Counted(player, s)
  <2>1. \A j \in Items : player.sessions[j].attempts <= s.attempts[j]
    BY <1>1, <1>4, <1>5, PlayerFields DEF Kept, Counted
  <2>. QED  BY <1>2, <1>4, <2>1 DEF Kept, Counted
<1>8. ASSUME Strict, NEW j \in player.results \ Adaptive
      PROVE  s.responses[j] = server.responses[j]
  BY <1>1, <1>2, <1>6, <1>8, PlayerFields
<1>9. Kept(player, s)
  BY <1>4, <1>7, <1>8 DEF Kept, Agreed
<1>10. Flight(player, next, s)
  <2>1. s.attempts[i] \in Nat /\ call.ended.attempts <= s.attempts[i]
    BY <1>1, <1>2, <1>4
  <2>2. next.ended.attempts <= s.attempts[next.item] + Owed(next)
    BY <1>1, <2>1 DEF SameRequest, Owed
  <2>3. Accepted(next) => /\ next.item \in s.scores
                          /\ next.full => next.state.scores = s.scores
                          /\ next.branch \in Branches[next.item]
    BY <1>2, <1>3 DEF SameRequest
  <2>4. Strict => Accepted(next)
    BY DEF Strict
  <2>5. Strict => /\ s.scores = player.results \cup {next.item}
                  /\ s.responses[next.item] = next.value
    BY <1>2, <1>6 DEF SameRequest
  <2>. QED  BY <1>4, <1>9, <2>2, <2>3, <2>4, <2>5 DEF Flight, SameRequest
<1>11. next.op # "all" => FlightOne(player, next, s)
  BY <1>1, <1>5 DEF Underway, FlightOne, SameRequest
<1>12. next.op = "all" => FlightAll(player, next, s)
  BY <1>1, <1>5, <1>8 DEF Underway, FlightAll, Looping, SameRequest
<1>. QED  BY <1>10, <1>11, <1>12 DEF Underway

\* A submission that is refused stays under way.
LEMMA RefusedUnderway ==
    ASSUME NEW p, NEW s \in Server, NEW call \in PendingCall, Underway(p, call, s),
           ~Accepted(call), NEW next, SameRequest(call, next), ~Accepted(next)
    PROVE  Underway(p, next, s)
BY DEF Underway, Flight, FlightOne, FlightAll, Looping, SameRequest, Owed

\* The steps of the backend keep the invariant.
LEMMA BackendAwaited ==
    ASSUME TypeOK, Awaited, NEW c \in Calls, Backend(c)
    PROVE  Awaited'
<1>. DEFINE call == calls[c]
<1>1. /\ calls \in [Calls -> OperationCall] /\ call \in Call /\ server \in Server
      /\ Backed(server) /\ call.stage # "idle"
      /\ calls \in [Calls -> Call]
  <2>1. OperationCall \subseteq Call
    BY DEF OperationCall
  <2>2. calls \in [Calls -> OperationCall] /\ server \in Server /\ Backed(server)
    BY DEF TypeOK, Awaited
  <2>3. call.stage # "idle"
    BY DEF Backend, BackendScores, AnswerLost, BackendRefuses, BackendFinalizes, FinalizeRefused
  <2>. QED  BY <2>1, <2>2, <2>3
<1>2. call.stage = "request" =>
         /\ call \in PendingCall /\ ~Accepted(call)
         /\ Underway(player, call, server) /\ Flight(player, call, server)
  BY DEF TypeOK, OperationCall, Awaited, InFlight, Accepted, Underway
<1>. HIDE DEF call
<1>3. ASSUME NEW next, calls' = [calls EXCEPT ![c] = next]
      PROVE  calls'[c] = next /\ \A d \in Calls \ {c} : calls'[d].stage = "idle"
  BY <1>1, <1>3, OnlyCall DEF call
<1>4. CASE BackendScores(c)
  <2>1. call.stage = "request" /\ server' = Scored(call) /\ UNCHANGED player
    BY <1>4 DEF BackendScores, call
  <2>2. PICK full \in UpdatedState, branch \in Branches[call.item] :
          calls' = [calls EXCEPT ![c].stage = "answer",
                                 ![c].ok = TRUE,
                                 ![c].full = full,
                                 ![c].state = IF full THEN Scored(call) ELSE @,
                                 ![c].branch = branch]
    BY <1>4 DEF BackendScores, call
  <2>. DEFINE state == IF full THEN Scored(call) ELSE call.state
              next == [call EXCEPT !.stage = "answer", !.ok = TRUE, !.full = full,
                                   !.state = state, !.branch = branch]
  <2>3. calls' = [calls EXCEPT ![c] = next]
    BY <2>2 DEF call
  <2>4. full => state = Scored(call)
    OBVIOUS
  <2>. HIDE DEF state
  <2>5. /\ SameRequest(call, next) /\ Accepted(next)
        /\ next.full = full /\ next.state = state /\ next.branch = branch
        /\ next.stage = "answer"
    BY <1>1 DEF SameRequest, Accepted, Call
  <2>. HIDE DEF next
  <2>6. Underway(player, next, Scored(call))
    BY <1>2, <2>1, <2>4, <2>5, ScoredUnderway
  <2>7. Backed(Scored(call))
    BY <1>1, <1>2, <2>1, ScoredBacked
  <2>. QED  BY <1>3, <2>1, <2>3, <2>5, <2>6, <2>7, Concludes DEF InFlight
<1>5. CASE AnswerLost(c)
  <2>. DEFINE next == [call EXCEPT !.stage = "answer", !.ok = FALSE]
  <2>1. /\ call.stage = "request" /\ server' = Scored(call) /\ UNCHANGED player /\ Lossy
        /\ calls' = [calls EXCEPT ![c] = next]
    BY <1>1, <1>5 DEF AnswerLost, call
  <2>2. SameRequest(call, next) /\ ~Accepted(next) /\ next.stage = "answer"
    BY <1>1 DEF SameRequest, Accepted, Call
  <2>. HIDE DEF next
  <2>3. Underway(player, next, Scored(call))
    BY <1>2, <2>1, <2>2, ScoredUnderway
  <2>4. Backed(Scored(call))
    BY <1>1, <1>2, <2>1, ScoredBacked
  <2>. QED  BY <1>3, <2>1, <2>2, <2>3, <2>4, Concludes DEF InFlight
<1>6. CASE BackendRefuses(c)
  <2>. DEFINE next == [call EXCEPT !.stage = "answer", !.ok = FALSE]
  <2>1. /\ call.stage = "request" /\ UNCHANGED <<player, server>>
        /\ calls' = [calls EXCEPT ![c] = next]
    BY <1>1, <1>6 DEF BackendRefuses, call
  <2>2. SameRequest(call, next) /\ ~Accepted(next) /\ next.stage = "answer"
    BY <1>1 DEF SameRequest, Accepted, Call
  <2>. HIDE DEF next
  <2>3. Underway(player, next, server)
    BY <1>1, <1>2, <2>1, <2>2, RefusedUnderway
  <2>. QED  BY <1>1, <1>3, <2>1, <2>2, <2>3, Concludes DEF InFlight
<1>7. CASE BackendFinalizes(c) \/ FinalizeRefused(c)
  <2>1. PICK ok \in BOOLEAN :
           /\ call.stage = "finalize" /\ UNCHANGED <<player, server>>
           /\ calls' = [calls EXCEPT ![c].stage = "finalized", ![c].ok = ok]
    BY <1>7 DEF BackendFinalizes, FinalizeRefused, call
  <2>. DEFINE next == [call EXCEPT !.stage = "finalized", !.ok = ok]
  <2>2. calls' = [calls EXCEPT ![c] = next] /\ next.stage = "finalized"
    BY <1>1, <2>1 DEF call, Call
  <2>. HIDE DEF next
  <2>3. \A d \in Calls : ~InFlight(calls[d])
    <3>1. \A d \in Calls \ {c} : calls[d].stage = "idle"
      BY <1>1, OthersIdle DEF Awaited, call
    <3>. QED  BY <2>1, <3>1 DEF InFlight, call
  <2>4. Rest(player, server)
    BY <2>3 DEF Awaited
  <2>. QED  BY <1>1, <1>3, <2>1, <2>2, <2>4, Concludes DEF InFlight
<1>. QED  BY <1>4, <1>5, <1>6, <1>7 DEF Backend

-----------------------------------------------------------------------------
(* The candidate and the host.                                             *)

\* Starting submit() from rest, for a test submitted as a whole: what the loop
\* has is what it has just persisted.
LEMMA SubmitAllAwaited ==
    ASSUME TypeOK, Awaited, Quiet, NEW c \in Calls,
           LET p == SaveCurrentItemSession(player)
           IN  ContinueSubmit(c, p,
                   [NoCall EXCEPT !.op = "all",
                                  !.pre = player.live,
                                  !.first = p.current,
                                  !.responses = p.responses,
                                  !.sessions = p.sessions]),
           UNCHANGED <<server, finalized>>
    PROVE  Awaited'
<1>. DEFINE p    == SaveCurrentItemSession(player)
            call == [NoCall EXCEPT !.op = "all",
                                   !.pre = player.live,
                                   !.first = p.current,
                                   !.responses = p.responses,
                                   !.sessions = p.sessions]
<1>1. /\ player \in Player /\ server \in Server /\ Rest(player, server)
      /\ player.live \in Session /\ player.current \in Items
  BY QuietRests, PlayerFields DEF TypeOK
<1>2. /\ p \in Player
      /\ p.current = player.current /\ p.results = player.results
      /\ p.live \in Session /\ ~IsWritable(p.live)
      /\ IsWritable(player.live) => p.live.lifecycle = "suspended"
  BY <1>1, SaveCurrentFields
<1>3. Ready(p, server)
  BY <1>1, LeaveReady
<1>4. ContinueSubmit(c, p, call)
  OBVIOUS
<1>. HIDE DEF p
<1>5. call \in Call
  BY <1>1, <1>2, NoCallType DEF Call, Player, SessionOrNone
<1>6. /\ call.op = "all" /\ call.pre = player.live /\ call.first = p.current
      /\ call.responses = p.responses /\ call.sessions = p.sessions /\ call.item = 0
  BY DEF NoCall
<1>. HIDE DEF call
<1>7. Looping(p, call, server)
  <2>1. /\ call.first \in p.results \/ IsWritable(call.pre)
        /\ call.pre.attempts <= server.attempts[call.first]
        /\ p.live.lifecycle = "suspended" \/ call.first \in p.results
    BY <1>1, <1>2, <1>6 DEF Rest
  <2>2. \A i \in Plain : Parked(p, i)
    BY <1>3 DEF Ready
  <2>3. \A i \in Plain : call.sessions[i] # NoSession =>
            call.sessions[i].response = call.responses[i]
    BY <1>6, <2>2 DEF Parked, InStep
  <2>4. Strict => \A i \in p.results \ Adaptive : call.responses[i] = server.responses[i]
    BY <1>3, <1>6 DEF Ready, Agreed
  <2>. QED  BY <1>2, <1>6, <2>1, <2>2, <2>3, <2>4 DEF Looping
<1>8. \A j \in Items : j <= call.item => j \in p.results
  <2>1. \A j \in Items : ~(j <= 0)
    BY SessionAssumption
  <2>. QED  BY <1>6, <2>1
<1>. QED  BY <1>1, <1>2, <1>3, <1>4, <1>5, <1>6, <1>7, <1>8, ContinueSubmitAwaited

\* The steps of the candidate keep the invariant, when the host awaits each
\* operation before the next.
LEMMA UserAwaited ==
    ASSUME TypeOK, Awaited, ~Overlap, User
    PROVE  Awaited'
<1>1. /\ player \in Player /\ player.current \in Items /\ player.live \in Session
      /\ player.responses \in [Items -> Responses] /\ player.currentId \in Items
      /\ server \in Server /\ Backed(server)
  BY DEF TypeOK, Player, Awaited
<1>2. ASSUME NEW v \in Responses, Respond(v)
      PROVE  Awaited'
  <2>. DEFINE session == SetResponse(player.live, v)
  <2>1. /\ IsWritable(player.live) /\ player' = Dispatched(player, session)
        /\ UNCHANGED <<calls, server, finalized>>
    BY <1>2 DEF Respond
  <2>2. /\ session \in Session /\ session.attempts = player.live.attempts
        /\ IsWritable(session)
    BY <1>1, <2>1, SetResponseType DEF SetResponse, Session, IsWritable
  <2>3. Rest(player, server) => Rest(player', server)
    BY <1>1, <2>1, <2>2, DispatchRests
  <2>4. \A call \in PendingCall : Underway(player, call, server)
             => Underway(player', call, server)
    BY <1>1, <2>1, RespondUnderway
  <2>. QED  BY <2>1, <2>3, <2>4, ConcludesLocal
<1>3. ASSUME NEW i \in Items, NEW v \in Responses, RespondElsewhere(i, v)
      PROVE  Awaited'
  <2>1. /\ i # player.current
        /\ player.sessions[i] = NoSession \/ IsWritable(player.sessions[i])
        /\ player' = Elsewhere(player, i, v)
        /\ UNCHANGED <<calls, server, finalized>>
    BY <1>3 DEF RespondElsewhere, Elsewhere
  <2>. QED  BY <1>1, <2>1, ElsewhereRests, ConcludesLocal
<1>4. ASSUME Quiet, NEW p \in Player, NEW i \in Items, Rest(p, server),
             player' = NavigateTo(p, i), calls' = Detached(calls),
             UNCHANGED <<server, finalized>>
      PROVE  Awaited'
  <2>1. Rest(player', server')
    BY <1>1, <1>4, NavigateRests
  <2>2. \A c \in Calls : calls'[c].stage = "idle"
    BY <1>4 DEF Quiet, Detached, TypeOK, OperationCall, Call
  <2>. QED  BY <1>1, <1>4, <2>1, <2>2, ConcludesQuiet
<1>5. ASSUME NEW i \in Items, Navigate(i)
      PROVE  Awaited'
  <2>1. /\ Quiet /\ player' = NavigateTo(player, i) /\ calls' = Detached(calls)
        /\ UNCHANGED <<server, finalized>>
    BY <1>5 DEF Navigate
  <2>2. Rest(player, server)
    BY <2>1, QuietRests
  <2>. QED  BY <1>1, <1>4, <2>1, <2>2
<1>6. ASSUME NEW c \in Calls, SubmitItem(c)
      PROVE  Awaited'
  <2>1. /\ Quiet /\ SubmitCurrentItem(c, "item", player) /\ UNCHANGED <<server, finalized>>
    BY <1>6 DEF SubmitItem, Free
  <2>2. Rest(player, server)
    BY <2>1, QuietRests
  <2>. QED  BY <1>1, <2>1, <2>2, SubmitCurrentItemAwaited
<1>7. ASSUME NEW c \in Calls, NextItem(c)
      PROVE  Awaited'
  <2>. DEFINE i == player.current
              p == MarkAnswered(player, i, player.responses[player.currentId])
  <2>1. Quiet /\ i + 1 \in Items /\ UNCHANGED <<server, finalized>>
    BY <1>7 DEF NextItem, Free, CanNext
  <2>2. p \in Player /\ SameView(player, p)
    BY <1>1, MarkAnsweredType, MarkView
  <2>3. Rest(p, server)
    BY <2>1, <2>2, QuietRests, SameRest
  <2>4. \/ player' = p /\ UNCHANGED calls
        \/ SubmitCurrentItem(c, "next", p)
        \/ player' = NavigateTo(p, i + 1) /\ calls' = Detached(calls)
    BY <1>7 DEF NextItem
  <2>. HIDE DEF p
  <2>5. CASE player' = p /\ UNCHANGED calls
    BY <1>1, <2>1, <2>3, <2>5, ConcludesQuiet DEF Quiet
  <2>6. CASE SubmitCurrentItem(c, "next", p)
    BY <2>1, <2>2, <2>3, <2>6, SubmitCurrentItemAwaited
  <2>7. CASE player' = NavigateTo(p, i + 1) /\ calls' = Detached(calls)
    BY <1>4, <2>1, <2>2, <2>3, <2>7
  <2>. QED  BY <2>4, <2>5, <2>6, <2>7
<1>8. ASSUME NEW c \in Calls, SubmitTest(c)
      PROVE  Awaited'
  <2>1. Quiet /\ UNCHANGED <<server, finalized>>
    BY <1>8 DEF SubmitTest, Free
  <2>2. Rest(player, server)
    BY <2>1, QuietRests
  <2>3. CASE TestSubmission = "simultaneous"
    BY <1>8, <2>1, <2>3, SubmitAllAwaited DEF SubmitTest
  <2>4. CASE UNCHANGED player /\ calls' = [calls EXCEPT ![c] =
                        [NoCall EXCEPT !.stage = "finalize", !.op = "submit"]]
    <3>. DEFINE final == [NoCall EXCEPT !.stage = "finalize", !.op = "submit"]
    <3>1. final.stage = "finalize"
      BY DEF NoCall
    <3>. HIDE DEF final
    <3>2. calls'[c] = final /\ \A d \in Calls \ {c} : calls'[d].stage = "idle"
      BY <2>1, <2>4, OnlyCall DEF final
    <3>. QED  BY <1>1, <2>1, <2>2, <2>4, <3>1, <3>2, Concludes DEF InFlight
  <2>5. CASE SubmitCurrentItem(c, "submit", player)
    BY <1>1, <2>1, <2>2, <2>5, SubmitCurrentItemAwaited
  <2>. QED  BY <1>8, <2>3, <2>4, <2>5 DEF SubmitTest
<1>. QED  BY <1>2, <1>3, <1>5, <1>6, <1>7, <1>8 DEF User

-----------------------------------------------------------------------------
(* Resuming.                                                               *)

\* Following a branch from an accepted item leads to rest.
LEMMA BranchRests ==
    ASSUME NEW p \in Player, NEW s \in Server, NEW branch \in Branch,
           Rest(p, s), Ready(p, s)
    PROVE  Rest(Branched(p, branch), s)
<1>1. branch.to \in Items
  BY DEF Branch
<1>2. Exits(p, branch) => Min(Beyond(p.current, branch.kind)) \in Items
  <2>1. Beyond(p.current, branch.kind) \subseteq Items
    BY DEF Beyond
  <2>. QED  BY <2>1, FirstItem, MinProperties DEF Exits
<1>3. Rest([p EXCEPT !.done = TRUE], s)
  <2>1. SameView(p, [p EXCEPT !.done = TRUE])
    BY DEF SameView, Player
  <2>. QED  BY <2>1, SameRest
<1>. QED  BY <1>1, <1>2, <1>3, OpenRests DEF Branched

\* Resuming a call keeps the invariant.
LEMMA ResumeAwaited ==
    ASSUME TypeOK, Awaited, NEW c \in Calls, Resume(c)
    PROVE  Awaited'
<1>. DEFINE call == calls[c]
<1>1. /\ player \in Player /\ server \in Server /\ Backed(server)
      /\ calls \in [Calls -> OperationCall] /\ call \in Call
  BY DEF TypeOK, OperationCall, Awaited
<1>2. call.stage # "idle" /\ UNCHANGED <<server, finalized>>
  BY DEF Resume, ResumeItem, ResumeItemFailed, ResumeAll, ResumeAllFailed, ResumeFinalized
<1>3. call.stage = "answer" =>
         /\ call \in PendingCall /\ (Accepted(call) <=> call.ok)
         /\ Underway(player, call, server) /\ Flight(player, call, server)
  BY DEF TypeOK, OperationCall, Awaited, InFlight, Accepted, Underway
<1>. HIDE DEF call
\* What is left to show of the operations on one item.
<1>4. ASSUME NEW next, next.stage \in {"idle", "finalize"}, Rest(player', server),
             \/ calls' = [calls EXCEPT ![c] = next]
             \/ calls' = [Detached(calls) EXCEPT ![c] = next]
      PROVE  Awaited'
  <2>1. calls'[c] = next /\ \A d \in Calls \ {c} : calls'[d].stage = "idle"
    BY <1>2, <1>4, OnlyCall DEF call
  <2>. QED  BY <1>1, <1>2, <1>4, <2>1, Concludes DEF InFlight
<1>5. NoCall.stage = "idle"
  BY DEF NoCall
<1>6. CASE ResumeItem(c)
  <2>. DEFINE accepted == ItemAccepted(player, call)
              branched == Branched(accepted, call.branch)
              next == IF call.op = "submit"
                      THEN [NoCall EXCEPT !.stage = "finalize", !.op = "submit"]
                      ELSE NoCall
  <2>1. /\ call.stage = "answer" /\ call.op # "all" /\ call.ok
        /\ player' = IF GoesOn(branched, call)
                     THEN NavigateTo(branched, branched.current + 1)
                     ELSE branched
        /\ \/ calls' = [calls EXCEPT ![c] = next]
           \/ calls' = [Detached(calls) EXCEPT ![c] = next]
    BY <1>6 DEF ResumeItem, call
  <2>2. /\ accepted \in Player /\ Rest(accepted, server) /\ Ready(accepted, server)
        /\ call.branch \in Branch
    BY <1>1, <1>3, <2>1, ItemAcceptedType, ItemAcceptedRests DEF Call
  <2>. HIDE DEF accepted
  <2>3. branched \in Player /\ Rest(branched, server)
    BY <1>1, <2>2, BranchedType, BranchRests
  <2>. HIDE DEF branched
  <2>4. GoesOn(branched, call) => branched.current + 1 \in Items
    BY <1>3, <2>1 DEF GoesOn, PendingCall
  <2>5. Rest(player', server)
    BY <1>1, <2>1, <2>3, <2>4, NavigateRests
  <2>6. next.stage \in {"idle", "finalize"}
    BY <1>5 DEF NoCall
  <2>. HIDE DEF next
  <2>. QED  BY <1>4, <2>1, <2>5, <2>6
<1>7. CASE ResumeItemFailed(c)
  <2>1. /\ call.stage = "answer" /\ call.op # "all" /\ ~call.ok
        /\ player' = IF call.holds THEN [player EXCEPT !.live = call.pre] ELSE player
        /\ \/ calls' = [calls EXCEPT ![c] = NoCall]
           \/ calls' = [Detached(calls) EXCEPT ![c] = NoCall]
    BY <1>7 DEF ResumeItemFailed, call
  <2>2. call.holds /\ Rest([player EXCEPT !.live = call.pre], server)
    BY <1>1, <1>3, <2>1, FailedRests DEF Underway, FlightOne
  <2>. QED  BY <1>4, <1>5, <2>1, <2>2
<1>8. CASE ResumeAll(c)
  <2>. DEFINE p == LoopAccepted(player, call)
  <2>1. /\ call.stage = "answer" /\ call.op = "all" /\ call.ok
        /\ ContinueSubmit(c, p, call)
    BY <1>8 DEF ResumeAll, call
  <2>2. /\ p \in Player /\ Ready(p, server) /\ Looping(p, call, server)
        /\ call.sessions = p.sessions
        /\ \A j \in Items : j <= call.item => j \in p.results
    BY <1>1, <1>3, <2>1, LoopAcceptedType, LoopAcceptedReady
  <2>3. call.pre \in Session
    BY <1>3, <2>1 DEF PendingCall
  <2>4. Quiet \/ calls[c].stage # "idle"
    BY <1>2 DEF call
  <2>. HIDE DEF p
  <2>. QED  BY <1>1, <1>2, <2>1, <2>2, <2>3, <2>4, ContinueSubmitAwaited
<1>9. CASE ResumeAllFailed(c)
  <2>1. /\ call.stage = "answer" /\ call.op = "all" /\ ~call.ok
        /\ AbortSubmit(c, player, call)
    BY <1>9 DEF ResumeAllFailed, call
  <2>2. /\ Ready(player, server) /\ Looping(player, call, server)
        /\ call.first \in player.results => call.sessions[call.first] = player.sessions[call.first]
    BY <1>1, <1>3, <2>1, FailedReady
  <2>3. call.pre \in Session
    BY <1>3, <2>1 DEF PendingCall
  <2>4. Quiet \/ calls[c].stage # "idle"
    BY <1>2 DEF call
  <2>. QED  BY <1>1, <1>2, <2>1, <2>2, <2>3, <2>4, AbortSubmitAwaited
<1>10. CASE ResumeFinalized(c)
  <2>1. /\ call.stage = "finalized"
        /\ player' = IF call.ok THEN [player EXCEPT !.done = TRUE] ELSE player
        /\ calls' = [calls EXCEPT ![c] = NoCall]
    BY <1>10 DEF ResumeFinalized, call
  <2>2. \A d \in Calls : ~InFlight(calls[d])
    <3>1. \A d \in Calls \ {c} : calls[d].stage = "idle"
      BY <1>2, OthersIdle DEF Awaited, call
    <3>. QED  BY <2>1, <3>1 DEF InFlight, call
  <2>3. Rest(player, server)
    BY <2>2 DEF Awaited
  <2>4. SameView(player, [player EXCEPT !.done = TRUE])
    BY <1>1 DEF SameView, Player
  <2>5. Rest(player', server)
    BY <2>1, <2>3, <2>4, SameRest
  <2>6. calls'[c] = NoCall /\ \A d \in Calls \ {c} : calls'[d].stage = "idle"
    BY <1>2, <2>1, OnlyCall DEF call
  <2>. QED  BY <1>1, <1>2, <1>5, <2>5, <2>6, Concludes DEF InFlight
<1>. QED  BY <1>6, <1>7, <1>8, <1>9, <1>10 DEF Resume

-----------------------------------------------------------------------------
(* The invariant.                                                          *)

\* The invariant holds of a new session.
LEMMA InitAwaited == Init => Awaited
<1>. SUFFICES ASSUME Init
              PROVE  Awaited
  OBVIOUS
<1>1. Backed(EmptyServer)
  BY NoSessionFacts DEF Backed, EmptyServer, Plain
<1>2. Rest(player, server) /\ Backed(server)
  BY <1>1, EmptyServerType, BootRests DEF Init
<1>3. \A c \in Calls : calls[c].stage = "idle"
  BY DEF Init, NoCall
<1>. QED  BY <1>2, <1>3 DEF Awaited, Alone, InFlight

\* A reload keeps the invariant: the new page starts from what is stored.
LEMMA ReloadAwaited ==
    ASSUME TypeOK, Awaited, Reload
    PROVE  Awaited'
<1>1. Backed(server) /\ Rest(Boot(server), server)
  BY BootRests DEF TypeOK, Awaited
<1>2. /\ player' = Boot(server) /\ UNCHANGED server
      /\ \A c \in Calls : calls'[c].stage = "idle"
  BY DEF Reload, NoCall
<1>. QED  BY <1>1, <1>2, ConcludesQuiet

\* Every step keeps the invariant.
LEMMA NextAwaited ==
    ASSUME ~Overlap
    PROVE  TypeOK /\ Awaited /\ [Next]_vars => Awaited'
<1>. SUFFICES ASSUME TypeOK, Awaited, [Next]_vars
              PROVE  Awaited'
  OBVIOUS
<1>1. CASE User
  BY <1>1, UserAwaited
<1>2. ASSUME NEW c \in Calls, Backend(c)
      PROVE  Awaited'
  BY <1>2, BackendAwaited
<1>3. ASSUME NEW c \in Calls, Resume(c)
      PROVE  Awaited'
  BY <1>3, ResumeAwaited
<1>4. CASE Reload
  BY <1>4, ReloadAwaited
<1>5. CASE UNCHANGED vars
  BY <1>5 DEF vars, Awaited, Alone
<1>. QED  BY <1>1, <1>2, <1>3, <1>4, <1>5 DEF Next

\* With a host that awaits each operation before it starts the next, a session
\* is at rest, or one submission is under way that keeps what its failure has
\* to bring back, and the backend is fit to resume from: the inductive
\* invariant of the theorems after it.
THEOREM AwaitedInvariant ==
    ASSUME ~Overlap
    PROVE  Spec => []Awaited
<1>1. Init => Awaited
  BY InitAwaited
<1>2. TypeOK /\ Awaited /\ [Next]_vars => Awaited'
  BY NextAwaited
<1>. QED  BY <1>1, <1>2, TypeCorrect, PTL DEF Spec

\* What is kept holds at rest and under way.
LEMMA AwaitedKept ==
    ASSUME TypeOK, Awaited
    PROVE  Kept(player, server)
<1>1. CASE \E c \in Calls : InFlight(calls[c])
  BY <1>1 DEF Awaited, Underway, Flight
<1>2. CASE \A c \in Calls : ~InFlight(calls[c])
  BY <1>2 DEF Awaited, Rest
<1>. QED  BY <1>1, <1>2

\* A session persisted as closed is one whose attempt the backend accepted:
\* neither navigation after a submission, nor one that fails, nor the working
\* copies of the loop of submit() persist the provisional end of an attempt.
THEOREM ProvisionalNotPersistedCorrect ==
    ASSUME ~Overlap
    PROVE  Spec => []ProvisionalNotPersisted
<1>1. TypeOK /\ Awaited => ProvisionalNotPersisted
  BY AwaitedKept DEF Kept, Counted, ProvisionalNotPersisted, Closed
<1>. QED  BY <1>1, TypeCorrect, AwaitedInvariant, PTL

\* After a failed submission the candidate can work on, and submit again: the
\* handlers of submitCurrentItem() and submit() bring back a writable session.
THEOREM RetryPossibleCorrect ==
    ASSUME ~Overlap
    PROVE  Spec => []RetryPossible
<1>1. Awaited => RetryPossible
  BY QuietRests DEF Rest, RetryPossible
<1>. QED  BY <1>1, AwaitedInvariant, PTL

\* Failed attempts are rolled back: when nothing is in flight, no session counts
\* more attempts than the backend has accepted.
THEOREM AttemptsRolledBackCorrect ==
    ASSUME ~Overlap
    PROVE  Spec => []AttemptsRolledBack
<1>1. Awaited => AttemptsRolledBack
  BY QuietRests DEF Rest, Kept, Counted, AttemptsRolledBack
<1>. QED  BY <1>1, AwaitedInvariant, PTL

\* The live session of a non-adaptive item that can be edited and
\* state.itemResponses have one response, through navigation, failed submissions
\* and adopted states.  An adaptive item can be edited during its submission as
\* well; then the two copies may differ afterwards, and the theorem says nothing.
THEOREM LiveMirroredCorrect ==
    ASSUME ~Overlap
    PROVE  Spec => []LiveMirrored
<1>1. TypeOK /\ Awaited => LiveMirrored
  <2>. SUFFICES ASSUME TypeOK, Awaited, IsWritable(player.live), player.current \notin Adaptive
                PROVE  player.responses[player.current] = player.live.response
    BY DEF LiveMirrored
  <2>1. player.current \in Plain
    BY DEF TypeOK, Player, Plain
  <2>2. CASE \A c \in Calls : ~InFlight(calls[c])
    BY <2>1, <2>2 DEF Awaited, Rest, Mirrored
  <2>3. ASSUME NEW c \in Calls, InFlight(calls[c])
        PROVE  FALSE
    <3>1. Underway(player, calls[c], server)
      BY <2>3 DEF Awaited
    <3>2. ~Closed(player.live)
      BY DEF Closed, IsWritable
    <3>. QED  BY <2>1, <3>1, <3>2 DEF Underway, Flight, FlightOne, FlightAll, Looping
  <2>. QED  BY <2>2, <2>3
<1>. QED  BY <1>1, TypeCorrect, AwaitedInvariant, PTL

\* Retrying submit() submits no item a second time: with the sessions in the
\* requests and no answer lost, the backend counts at most one attempt of an
\* item that is not adaptive, however often requests fail or pages reload.
THEOREM AcceptedOnceCorrect ==
    ASSUME ~Overlap, Strict
    PROVE  Spec => []AcceptedOnce
<1>1. TypeOK /\ Awaited => AcceptedOnce
  <2>. SUFFICES ASSUME TypeOK, Awaited, NEW i \in Items \ Adaptive
                PROVE  server.attempts[i] <= 1
    BY DEF AcceptedOnce
  <2>1. CASE i \in server.scores
    BY <2>1 DEF Awaited, Backed
  <2>2. CASE i \notin server.scores
    BY <2>2 DEF Awaited, Backed
  <2>. QED  BY <2>1, <2>2
<1>. QED  BY <1>1, TypeCorrect, AwaitedInvariant, PTL

\* The answer shown of a submitted item is the one that was scored, under the
\* same conditions.
THEOREM ScoredIsShownCorrect ==
    ASSUME ~Overlap, Strict
    PROVE  Spec => []ScoredIsShown
<1>1. Awaited => ScoredIsShown
  BY QuietRests DEF Rest, Kept, Agreed, ScoredIsShown
<1>. QED  BY <1>1, AwaitedInvariant, PTL

-----------------------------------------------------------------------------
(* What no step does.                                                      *)

\* Submitting, or failing to, moves to no other item and loses no result.
LEMMA SubmissionStays ==
    ASSUME NEW c \in Calls, NEW op, NEW p \in Player, SubmitCurrentItem(c, op, p)
    PROVE  player'.results = p.results /\ player'.current = p.current
<1>1. p.live \in Session /\ p.current \in Items
  BY PlayerFields
<1>2. \A outcome \in OutcomesOf(p.current) : EndAttempt(p.current, p.live, outcome) \in Session
  BY <1>1, OutcomesType, EndAttemptType
<1>3. \E session \in Session : player' = Dispatched(p, session) \/ player' = p
  BY <1>1, <1>2 DEF SubmitCurrentItem
<1>4. \A session \in Session : /\ Dispatched(p, session).results = p.results
                              /\ Dispatched(p, session).current = p.current
  BY DispatchedFields
<1>. QED  BY <1>3, <1>4

\* Nor does a turn of the loop of submit(), whether it goes on, ends or fails.
LEMMA LoopStays ==
    ASSUME NEW c \in Calls, NEW p \in Player, NEW call \in Call, call.pre \in Session,
           ContinueSubmit(c, p, call) \/ AbortSubmit(c, p, call)
    PROVE  player'.results = p.results /\ player'.current = p.current
<1>1. call.first \in Items
  BY DEF Call
<1>2. \A q \in Player : \A s : LET r == [q EXCEPT !.live = s]
                               IN  r.results = q.results /\ r.current = q.current
  BY DEF Player
<1>3. LET q == SaveItemSession(p, call.first, call.pre)
      IN  q \in Player /\ q.results = p.results /\ q.current = p.current
  BY <1>1, SavedFields, SaveItemSessionType
<1>4. CASE AbortSubmit(c, p, call)
  <2>1. Restored(p, call).results = p.results /\ Restored(p, call).current = p.current
    BY <1>2, <1>3 DEF Restored
  <2>. QED  BY <1>4, <2>1 DEF AbortSubmit
<1>5. CASE ContinueSubmit(c, p, call) /\ ~AbortSubmit(c, p, call)
  <2>. DEFINE pending == Pending(p, call)
              i       == Min(pending)
              session == SessionToEnd(p, call, i)
  <2>1. CASE pending = {}
    <3>1. player' = [p EXCEPT !.live = call.sessions[p.current]] \/ player' = p
      BY <1>5, <2>1 DEF ContinueSubmit
    <3>. QED  BY <1>2, <3>1
  <2>2. CASE pending # {}
    <3>1. i \in Items
      <4>1. pending \subseteq Items
        BY DEF Pending
      <4>. QED  BY <2>2, <4>1, FirstItem, MinProperties
    <3>2. \A outcome \in OutcomesOf(i) : EndAttempt(i, session, outcome) \in Session
      BY <3>1, SessionToEndType, OutcomesType, EndAttemptType
    <3>3. \E outcome \in OutcomesOf(i) :
             player' = IF UsesLive(p, i) THEN Dispatched(p, EndAttempt(i, session, outcome))
                       ELSE p
      BY <1>5, <2>2 DEF ContinueSubmit
    <3>. HIDE DEF i, session, pending
    <3>4. \A s \in Session : /\ Dispatched(p, s).results = p.results
                            /\ Dispatched(p, s).current = p.current
      BY DispatchedFields
    <3>. QED  BY <3>2, <3>3, <3>4
  <2>. QED  BY <2>1, <2>2
<1>. QED  BY <1>4, <1>5

\* Navigation loses no result and leads where it should.
LEMMA NavigateFields ==
    ASSUME NEW p \in Player, NEW i \in Items
    PROVE  NavigateTo(p, i).results = p.results /\ NavigateTo(p, i).current = i
<1>1. SaveCurrentItemSession(p) \in Player
  BY SaveCurrentType
<1>. QED  BY <1>1, OpenKeepsResults, OpenFields DEF NavigateTo

\* In a step of the candidate no result is lost, and nobody goes back but inside a
\* nonlinear testPart.
LEMMA UserStays ==
    ASSUME TypeOK, User
    PROVE  /\ player'.results = player.results
           /\ player'.current < player.current =>
                 /\ NavigationMode[player.current] = "nonlinear"
                 /\ PartOf[player'.current] = PartOf[player.current]
<1>1. /\ player \in Player /\ player.current \in Items /\ player.live \in Session
      /\ player.responses[player.currentId] \in Responses
  BY DEF TypeOK, Player
<1>2. \A i \in Items : ~(i < i) /\ ~(i + 1 < i)
  BY SessionAssumption
<1>3. ASSUME NEW v \in Responses, Respond(v)
      PROVE  player'.results = player.results /\ player'.current = player.current
  BY <1>1, <1>3, SetResponseType, DispatchedFields DEF Respond
<1>4. ASSUME NEW i \in Items, NEW v \in Responses, RespondElsewhere(i, v)
      PROVE  player'.results = player.results /\ player'.current = player.current
  BY <1>1, <1>4, ElsewhereFields DEF RespondElsewhere, Elsewhere
<1>5. ASSUME NEW i \in Items, Navigate(i)
      PROVE  /\ player'.results = player.results /\ player'.current = i
             /\ CanNavigateByTestPart(player.current, i) /\ i # player.current
  BY <1>1, <1>5, NavigateFields DEF Navigate, MayNavigate
<1>6. ASSUME NEW c \in Calls, SubmitItem(c)
      PROVE  player'.results = player.results /\ player'.current = player.current
  BY <1>1, <1>6, SubmissionStays DEF SubmitItem
<1>7. ASSUME NEW c \in Calls, NextItem(c)
      PROVE  /\ player'.results = player.results
             /\ player'.current \in {player.current, player.current + 1}
  <2>. DEFINE i == player.current
              p == MarkAnswered(player, i, player.responses[player.currentId])
  <2>1. i + 1 \in Items
    BY <1>7 DEF NextItem, CanNext
  <2>2. p \in Player /\ p.results = player.results /\ p.current = i
    BY <1>1, MarkAnsweredType, MarkView DEF SameView
  <2>3. \/ player' = p
        \/ SubmitCurrentItem(c, "next", p)
        \/ player' = NavigateTo(p, i + 1)
    BY <1>7 DEF NextItem
  <2>. HIDE DEF p
  <2>. QED  BY <2>1, <2>2, <2>3, SubmissionStays, NavigateFields
<1>8. ASSUME NEW c \in Calls, SubmitTest(c)
      PROVE  player'.results = player.results /\ player'.current = player.current
  <2>. DEFINE p    == SaveCurrentItemSession(player)
              call == [NoCall EXCEPT !.op = "all",
                                     !.pre = player.live,
                                     !.first = p.current,
                                     !.responses = p.responses,
                                     !.sessions = p.sessions]
  <2>1. p \in Player /\ p.results = player.results /\ p.current = player.current
    BY <1>1, SaveCurrentFields
  <2>2. \/ ContinueSubmit(c, p, call)
        \/ UNCHANGED player
        \/ SubmitCurrentItem(c, "submit", player)
    BY <1>8 DEF SubmitTest
  <2>. HIDE DEF p
  <2>3. call \in Call /\ call.pre = player.live
    BY <1>1, <2>1, NoCallType DEF Call, Player, SessionOrNone
  <2>. HIDE DEF call
  <2>. QED  BY <1>1, <2>1, <2>2, <2>3, LoopStays, SubmissionStays
<1>9. ASSUME NEW i \in Items, CanNavigateByTestPart(player.current, i), i # player.current,
             i < player.current
      PROVE  /\ NavigationMode[player.current] = "nonlinear"
             /\ PartOf[i] = PartOf[player.current]
  BY <1>1, <1>2, <1>9 DEF CanNavigateByTestPart
<1>. QED  BY <1>1, <1>2, <1>3, <1>4, <1>5, <1>6, <1>7, <1>8, <1>9 DEF User

\* Following a branch loses no result; it leads back only where it says so.
LEMMA BranchFields ==
    ASSUME NEW p \in Player, NEW branch \in Branch
    PROVE  /\ Branched(p, branch).results = p.results
           /\ Branched(p, branch).current \in Items
           /\ ~(branch.kind = "item" /\ branch.to < p.current) =>
                 ~(Branched(p, branch).current < p.current)
<1>1. p.current \in Items /\ p.current \in Nat
  BY FirstItem, PlayerFields
<1>2. CASE branch.kind = "item"
  <2>1. branch.to \in Items
    BY DEF Branch
  <2>2. Branched(p, branch) = OpenItem(p, branch.to)
    BY <1>2 DEF Branched
  <2>3. Branched(p, branch).current = branch.to
    BY <2>1, <2>2, OpenFields
  <2>. QED  BY <1>2, <2>1, <2>3, BranchKeepsResults
<1>3. CASE branch.kind # "item" /\ Exits(p, branch)
  <2>. DEFINE beyond == Beyond(p.current, branch.kind)
              j      == Min(beyond)
  <2>1. beyond \subseteq Items /\ (\A k \in beyond : k > p.current) /\ beyond # {}
    BY <1>3 DEF Beyond, Exits
  <2>2. j \in beyond
    BY <2>1, FirstItem, MinProperties
  <2>3. Branched(p, branch) = OpenItem(p, j)
    BY <1>3 DEF Branched
  <2>. HIDE DEF j, beyond
  <2>4. j \in Items /\ j > p.current
    BY <2>1, <2>2
  <2>5. Branched(p, branch).current = j
    BY <2>3, <2>4, OpenFields
  <2>6. ~(j < p.current)
    BY <1>1, <2>4, FirstItem
  <2>. QED  BY <2>4, <2>5, <2>6, BranchKeepsResults
<1>4. CASE branch.kind # "item" /\ ~Exits(p, branch)
  <2>1. Branched(p, branch) \in {p, [p EXCEPT !.done = TRUE]}
    BY <1>4 DEF Branched
  <2>2. Branched(p, branch).current = p.current
    BY <2>1 DEF Player
  <2>3. ~(p.current < p.current)
    BY <1>1
  <2>. QED  BY <1>1, <2>2, <2>3, BranchKeepsResults
<1>. QED  BY <1>2, <1>3, <1>4

\* The branching decisions for an item lead to no earlier one.
BranchForward ==
    \A i \in Items : \A b \in Branches[i] : b.kind = "item" => ~(b.to < i)

\* Resuming a call loses no result, and goes back only along a branch that does.
LEMMA ResumeStays ==
    ASSUME TypeOK, Awaited, NEW c \in Calls, Resume(c)
    PROVE  /\ player.results \subseteq player'.results
           /\ BranchForward => ~(player'.current < player.current)
<1>. DEFINE call == calls[c]
<1>1. /\ player \in Player /\ server \in Server /\ player.current \in Items
      /\ call \in Call
      /\ \A i \in Items : ~(i < i)
  BY SessionAssumption, PlayerFields DEF TypeOK, OperationCall
<1>2. call.stage = "answer" =>
         /\ call \in PendingCall /\ (Accepted(call) <=> call.ok)
         /\ Underway(player, call, server) /\ Flight(player, call, server)
  BY DEF TypeOK, OperationCall, Awaited, InFlight, Accepted, Underway
<1>. HIDE DEF call
<1>3. \A s : LET p == [player EXCEPT !.live = s]
             IN  p.results = player.results /\ p.current = player.current
  BY <1>1 DEF Player
<1>4. CASE ResumeItem(c)
  <2>. DEFINE accepted == ItemAccepted(player, call)
              branched == Branched(accepted, call.branch)
  <2>1. /\ call.stage = "answer" /\ call.op # "all" /\ call.ok
        /\ player' = IF GoesOn(branched, call)
                     THEN NavigateTo(branched, branched.current + 1)
                     ELSE branched
    BY <1>4 DEF ResumeItem, call
  <2>2. /\ accepted \in Player /\ player.results \subseteq accepted.results
        /\ accepted.current = player.current /\ call.branch \in Branch
        /\ call.item = player.current /\ call.branch \in Branches[call.item]
    BY <1>1, <1>2, <2>1, ItemAcceptedType, ItemAcceptedRests
    DEF Call, Underway, Flight, FlightOne
  <2>. HIDE DEF accepted
  <2>3. /\ branched \in Player /\ branched.results = accepted.results
        /\ branched.current \in Items
        /\ BranchForward => ~(branched.current < player.current)
    BY <1>1, <2>2, BranchedType, BranchFields DEF BranchForward
  <2>. HIDE DEF branched
  <2>4. CASE ~GoesOn(branched, call)
    BY <2>1, <2>2, <2>3, <2>4
  <2>5. CASE GoesOn(branched, call)
    <3>1. branched.current = player.current /\ player.current + 1 \in Items
      BY <1>2, <2>1, <2>2, <2>5 DEF GoesOn, PendingCall
    <3>2. /\ player'.results = branched.results
          /\ player'.current = player.current + 1
      BY <2>1, <2>3, <2>5, <3>1, NavigateFields
    <3>3. \A i \in Items : ~(i + 1 < i)
      BY SessionAssumption
    <3>. QED  BY <1>1, <2>2, <2>3, <3>2, <3>3
  <2>. QED  BY <2>4, <2>5
<1>5. CASE ResumeItemFailed(c)
  <2>1. player' \in {player, [player EXCEPT !.live = call.pre]}
    BY <1>5 DEF ResumeItemFailed, call
  <2>. QED  BY <1>1, <1>3, <2>1
<1>6. CASE ResumeAll(c)
  <2>. DEFINE p == LoopAccepted(player, call)
  <2>1. /\ call.stage = "answer" /\ call.op = "all" /\ call.ok
        /\ ContinueSubmit(c, p, call)
    BY <1>6 DEF ResumeAll, call
  <2>2. /\ p \in Player /\ player.results \subseteq p.results /\ call.pre \in Session
        /\ p.current = player.current
    BY <1>1, <1>2, <2>1, LoopAcceptedType, LoopAcceptedReady
    DEF PendingCall, Looping, Underway, FlightAll
  <2>. HIDE DEF p
  <2>. QED  BY <1>1, <2>1, <2>2, LoopStays
<1>7. CASE ResumeAllFailed(c)
  <2>1. call.stage = "answer" /\ AbortSubmit(c, player, call)
    BY <1>7 DEF ResumeAllFailed, call
  <2>2. call.pre \in Session
    BY <1>2, <2>1 DEF PendingCall
  <2>. QED  BY <1>1, <2>1, <2>2, LoopStays
<1>8. CASE ResumeFinalized(c)
  <2>1. player' \in {player, [player EXCEPT !.done = TRUE]}
    BY <1>8 DEF ResumeFinalized
  <2>2. player'.results = player.results /\ player'.current = player.current
    BY <1>1, <2>1 DEF Player
  <2>. QED  BY <1>1, <2>2
<1>. QED  BY <1>4, <1>5, <1>6, <1>7, <1>8 DEF Resume

\* The backend changes nothing of the client.
LEMMA BackendStays ==
    ASSUME NEW c \in Calls, Backend(c)
    PROVE  UNCHANGED player
BY DEF Backend, BackendScores, AnswerLost, BackendRefuses, BackendFinalizes, FinalizeRefused

\* An item shown as submitted stays so: adopting updatedState, which replaces
\* all results by the backend's, loses none, and neither does a reload.
THEOREM ResultsKeptCorrect ==
    ASSUME ~Overlap
    PROVE  Spec => ResultsKept
<1>1. TypeOK /\ Awaited /\ [Next]_vars => [player.results \subseteq player'.results]_vars
  <2>. SUFFICES ASSUME TypeOK, Awaited, Next
                PROVE  player.results \subseteq player'.results
    OBVIOUS
  <2>1. CASE Reload
    <3>1. Counted(player, server)
      BY AwaitedKept DEF Kept
    <3>. QED  BY <2>1, <3>1, BootResults DEF Reload, Counted
  <2>. QED  BY <2>1, UserStays, ResumeStays, BackendStays DEF Next
<1>. QED  BY <1>1, TypeCorrect, AwaitedInvariant, PTL DEF Spec, ResultsKept

\* In a linear testPart the candidate never goes back, and a testPart that was
\* left is never entered again: not by navigation, and not by next() or an
\* answer that branches forward, which go on from the item that was submitted.
\* A reload starts again from the first item.
THEOREM NeverBackCorrect ==
    ASSUME ~Overlap, ~MayReload, BranchForward
    PROVE  Spec => NeverBack
<1>1. TypeOK /\ Awaited /\ [Next]_vars =>
        [player'.current < player.current =>
              /\ NavigationMode[player.current] = "nonlinear"
              /\ PartOf[player'.current] = PartOf[player.current]]_vars
  <2>. SUFFICES ASSUME TypeOK, Awaited, Next, player'.current < player.current
                PROVE  /\ NavigationMode[player.current] = "nonlinear"
                       /\ PartOf[player'.current] = PartOf[player.current]
    OBVIOUS
  <2>1. ~(player.current < player.current)
    BY SessionAssumption, PlayerFields DEF TypeOK
  <2>2. ~Reload
    BY DEF Reload
  <2>. QED  BY <2>1, <2>2, UserStays, ResumeStays, BackendStays DEF Next
<1>. QED  BY <1>1, TypeCorrect, AwaitedInvariant, PTL DEF Spec, NeverBack
=============================================================================
