----------------------------- MODULE PageProofs -----------------------------
(***************************************************************************)
(* Proofs about what a page embeds: the player in an iframe, the custom    *)
(* element, the portable custom interaction and the pair interactions.     *)
(*                                                                         *)
(* IFrameHandshake: for every set of allowed origins and any number of     *)
(* messages and commands.  PostedInOrder is strengthened by how commands   *)
(* wait (in the order given) and by what READY fixes: once an origin said  *)
(* READY it is the one that is locked, and before that nothing is posted.  *)
(*                                                                         *)
(* AssessmentElement: for any number of changes.  What is mounted comes    *)
(* from what is at hand, so the invariant says of the backend at hand, and *)
(* of the loads in flight, what the two properties say of what is mounted. *)
(*                                                                         *)
(* PciSession: for any number of hosts, loads and attempts.  OneInstance   *)
(* is strengthened by LoadsFirst: there is no module while a load of the   *)
(* host is in flight.  That the current answer is one that nothing has     *)
(* superseded follows from AnswersDue: every place from which an answer    *)
(* may later be taken holds one that is due.                               *)
(*                                                                         *)
(* PairResponses: for all labels, gaps, limits, groups and foreign texts.  *)
(* Each property is preserved by what an action makes of the pairs:        *)
(* nothing, fewer pairs, or what one of the components places.             *)
(***************************************************************************)
EXTENDS IFrameHandshake, AssessmentElement, PciSession, PairResponses, FiniteSetTheorems,
        SequenceTheorems, TLAPS

-----------------------------------------------------------------------------
(* IFrameHandshake                                                         *)

\* READY fixes the runtime, and only then are commands posted.
ReadyLocks ==
    /\ ready \notin {"pending", "rejected"} => locked = ready
    /\ posted # <<>> => ready \notin {"pending", "rejected"}

WaitInOrder ==
    \A j \in DOMAIN waiting, k \in DOMAIN waiting : j < k => waiting[j] < waiting[k]

FrameInv == FrameTypeOK /\ ReadyLocks /\ WaitInOrder /\ PostedInOrder

\* What waits or was posted is a command that was given.
LEMMA CommandsGiven ==
    ASSUME FrameTypeOK
    PROVE  /\ DOMAIN waiting = 1 .. Len(waiting) /\ Len(waiting) \in Nat
           /\ DOMAIN posted = 1 .. Len(posted) /\ Len(posted) \in Nat
           /\ \A k \in DOMAIN waiting : waiting[k] \in 1 .. given
           /\ \A k \in DOMAIN posted :
                 posted[k].command \in 1 .. given /\ posted[k].target \in AllowedOrigins
<1> DEFINE Posted == [command : 1 .. given, target : AllowedOrigins]
           Given == 1 .. given
<1>1. waiting \in Seq(Given) /\ posted \in Seq(Posted)
  BY DEF FrameTypeOK
<1> HIDE DEF Posted, Given
<1>2. /\ DOMAIN waiting = 1 .. Len(waiting) /\ Len(waiting) \in Nat
      /\ DOMAIN posted = 1 .. Len(posted) /\ Len(posted) \in Nat
  BY <1>1, LenProperties
<1>3. \A k \in DOMAIN waiting : waiting[k] \in Given
  BY <1>1, <1>2, ElementOfSeq
<1>4. \A k \in DOMAIN posted : posted[k] \in Posted
  BY <1>1, <1>2, ElementOfSeq
<1>5. QED
  BY <1>2, <1>3, <1>4 DEF Posted, Given

\* A message changes at most the origin that is locked and the promise.
LEMMA OnMessageKeeps ==
    ASSUME FrameInv, HandshakeAssumption, OnMessage
    PROVE  FrameInv'
<1> DEFINE m == Head(inbox)
<1>1. inbox # <<>> /\ inbox \in Seq(Messages)
  BY DEF OnMessage, FrameInv, FrameTypeOK
<1>2. inbox' \in Seq(Messages) /\ m \in Messages
  BY <1>1, HeadTailProperties DEF OnMessage
<1>3. UNCHANGED <<elapsed, gone, waiting, given, posted>>
  BY DEF OnMessage
<1>4. /\ locked' \in {locked, m.origin}
      /\ locked' # locked => m.origin \in AllowedOrigins /\ locked = NoOrigin
      /\ ready' \in {ready, m.origin}
      /\ ready' # ready => m.origin \in AllowedOrigins /\ locked' = m.origin /\ ready = "pending"
  BY DEF OnMessage, Accepted
<1>5. FrameTypeOK'
  BY <1>2, <1>3, <1>4 DEF FrameInv, FrameTypeOK
<1>6. locked = ready /\ ready \notin {"pending", "rejected"} => locked' = ready
  BY <1>4 DEF FrameInv, FrameTypeOK, HandshakeAssumption
<1>7. ReadyLocks' /\ WaitInOrder' /\ PostedInOrder'
  <2>1. ready = "pending" => posted = <<>>
    BY DEF FrameInv, ReadyLocks
  <2>2. ReadyLocks'
    BY <1>3, <1>4, <1>6, <2>1 DEF FrameInv, ReadyLocks
  <2>3. posted = <<>> => DOMAIN posted = {}
    BY EmptySeq
  <2>4. PostedInOrder'
    BY <1>3, <1>4, <2>1, <2>3 DEF FrameInv, PostedInOrder
  <2>5. QED
    BY <1>3, <2>2, <2>4 DEF FrameInv, WaitInOrder
<1>8. QED
  BY <1>5, <1>7 DEF FrameInv

\* A command waits behind those given before it, and all that were posted.
LEMMA CommandKeeps ==
    ASSUME FrameInv, HandshakeAssumption, Command
    PROVE  FrameInv'
<1>1. /\ given' = given + 1 /\ given < MaxCommands
      /\ waiting' = Append(waiting, given')
      /\ UNCHANGED <<inbox, locked, ready, elapsed, gone, posted>>
  BY DEF Command
<1>2. given \in Nat /\ given' \in 0 .. MaxCommands /\ given' \in 1 .. given'
  BY <1>1 DEF FrameInv, FrameTypeOK, HandshakeAssumption
<1>3. waiting \in Seq(1 .. given) /\ posted \in Seq([command : 1 .. given, target : AllowedOrigins])
  BY DEF FrameInv, FrameTypeOK
<1>4. waiting \in Seq(1 .. given')
  BY <1>1, <1>2, <1>3, SeqMonotonic
<1>5. /\ waiting' \in Seq(1 .. given')
      /\ Len(waiting) \in Nat
      /\ DOMAIN waiting = 1 .. Len(waiting)
      /\ DOMAIN waiting' = 1 .. Len(waiting) + 1
      /\ \A k \in 1 .. Len(waiting) : waiting'[k] = waiting[k]
      /\ waiting'[Len(waiting) + 1] = given'
  BY <1>1, <1>2, <1>4, AppendProperties, LenProperties
<1>6. \A k \in DOMAIN waiting : waiting[k] \in 1 .. given
  BY CommandsGiven DEF FrameInv
<1>7. \A k \in DOMAIN posted : posted[k].command \in 1 .. given
  BY CommandsGiven DEF FrameInv
<1>8. posted' \in Seq([command : 1 .. given', target : AllowedOrigins])
  <2> DEFINE Posted == [command : 1 .. given, target : AllowedOrigins]
             Later == [command : 1 .. given', target : AllowedOrigins]
  <2>1. Posted \subseteq Later /\ posted \in Seq(Posted)
    BY <1>1, <1>2, <1>3
  <2> HIDE DEF Posted, Later
  <2>2. posted \in Seq(Later)
    BY <2>1, SeqMonotonic
  <2>3. QED
    BY <1>1, <2>2 DEF Later
<1>9. FrameTypeOK'
  BY <1>1, <1>2, <1>5, <1>8 DEF FrameInv, FrameTypeOK
<1>10. WaitInOrder'
  BY <1>1, <1>2, <1>5, <1>6 DEF FrameInv, WaitInOrder
<1>11. PostedInOrder'
  BY <1>1, <1>2, <1>5, <1>6, <1>7 DEF FrameInv, PostedInOrder
<1>12. ReadyLocks'
  BY <1>1 DEF FrameInv, ReadyLocks
<1>13. QED
  BY <1>9, <1>10, <1>11, <1>12 DEF FrameInv

\* The command that has waited longest is posted, or rejects.
LEMMA CommandResumesKeeps ==
    ASSUME FrameInv, HandshakeAssumption, CommandResumes
    PROVE  FrameInv'
<1> DEFINE Posted == [command : 1 .. given, target : AllowedOrigins]
           p == [command |-> Head(waiting), target |-> locked]
<1>1. /\ waiting # <<>> /\ ready # "pending"
      /\ waiting' = Tail(waiting)
      /\ UNCHANGED <<inbox, locked, ready, elapsed, gone, given>>
      /\ posted' = IF ready = "rejected" THEN posted ELSE Append(posted, p)
  BY DEF CommandResumes
<1>2. waiting \in Seq(1 .. given) /\ posted \in Seq(Posted) /\ given \in Nat
  BY DEF FrameInv, FrameTypeOK
<1>3. /\ Len(waiting) \in Nat /\ Len(waiting) >= 1
      /\ DOMAIN waiting = 1 .. Len(waiting)
      /\ Head(waiting) = waiting[1] /\ waiting[1] \in 1 .. given
      /\ waiting' \in Seq(1 .. given)
      /\ DOMAIN waiting' = 1 .. Len(waiting) - 1
      /\ \A k \in 1 .. Len(waiting) - 1 : waiting'[k] = waiting[k + 1]
  BY <1>1, <1>2, HeadTailProperties, EmptySeq, LenProperties, ElementOfSeq
<1>4. \A k \in DOMAIN waiting : waiting[k] \in 1 .. given
  BY CommandsGiven DEF FrameInv
<1>5. WaitInOrder'
  BY <1>3 DEF FrameInv, WaitInOrder
<1>6. \A k \in DOMAIN waiting' : waiting[1] < waiting'[k] /\ waiting'[k] \in 1 .. given
  BY <1>3, <1>4 DEF FrameInv, WaitInOrder
<1>7. CASE ready = "rejected"
  <2>1. posted' = posted
    BY <1>1, <1>7
  <2>2. PostedInOrder'
    BY <1>1, <1>3, <2>1 DEF FrameInv, PostedInOrder
  <2>3. FrameTypeOK'
    BY <1>1, <1>3, <2>1 DEF FrameInv, FrameTypeOK
  <2>4. ReadyLocks'
    BY <1>1, <2>1 DEF FrameInv, ReadyLocks
  <2>5. QED
    BY <1>5, <2>2, <2>3, <2>4 DEF FrameInv
<1>8. CASE ready # "rejected"
  <2>1. locked = ready /\ ready \in AllowedOrigins
    BY <1>1, <1>8 DEF FrameInv, ReadyLocks, FrameTypeOK
  <2>2. p \in Posted
    BY <1>3, <2>1
  <2>3. /\ posted' \in Seq(Posted)
        /\ Len(posted) \in Nat /\ DOMAIN posted = 1 .. Len(posted)
        /\ DOMAIN posted' = 1 .. Len(posted) + 1
        /\ \A k \in 1 .. Len(posted) : posted'[k] = posted[k]
        /\ posted'[Len(posted) + 1] = p
    BY <1>1, <1>2, <1>8, <2>2, AppendProperties, LenProperties
  <2>4. \A k \in DOMAIN posted : posted[k].command \in 1 .. given
    BY CommandsGiven DEF FrameInv
  <2>5. \A k \in DOMAIN posted, j \in DOMAIN waiting : posted[k].command < waiting[j]
    BY DEF FrameInv, PostedInOrder
  <2>6. p.command = waiting[1] /\ p.target = ready
    BY <1>3, <2>1
  <2>7. \A k \in DOMAIN posted' :
           \/ k \in DOMAIN posted /\ posted'[k] = posted[k]
           \/ k = Len(posted) + 1 /\ posted'[k] = p
    BY <2>3
  <2>8. \A k \in DOMAIN posted' : posted'[k].target = ready'
    BY <1>1, <2>6, <2>7 DEF FrameInv, PostedInOrder
  <2>9. \A k \in DOMAIN posted', j \in DOMAIN posted' :
            k < j => posted'[k].command < posted'[j].command
    <3> SUFFICES ASSUME NEW k \in DOMAIN posted', NEW j \in DOMAIN posted', k < j
                 PROVE  posted'[k].command < posted'[j].command
      OBVIOUS
    <3>1. k \in DOMAIN posted /\ posted'[k] = posted[k]
      BY <2>3
    <3>2. CASE j \in DOMAIN posted /\ posted'[j] = posted[j]
      BY <3>1, <3>2 DEF FrameInv, PostedInOrder
    <3>3. CASE posted'[j] = p
      BY <1>3, <2>5, <2>6, <3>1, <3>3
    <3>4. QED
      BY <2>7, <3>2, <3>3
  <2>10. \A k \in DOMAIN posted', j \in DOMAIN waiting' : posted'[k].command < waiting'[j]
    <3> SUFFICES ASSUME NEW k \in DOMAIN posted', NEW j \in DOMAIN waiting'
                 PROVE  posted'[k].command < waiting'[j]
      OBVIOUS
    <3>1. CASE k \in DOMAIN posted /\ posted'[k] = posted[k]
      <4>1. posted[k].command < waiting[1] /\ posted[k].command \in Int
        BY <1>3, <2>4, <2>5, <3>1
      <4>2. waiting[1] < waiting'[j] /\ waiting[1] \in Int /\ waiting'[j] \in Int
        BY <1>2, <1>3, <1>6
      <4>3. QED
        BY <3>1, <4>1, <4>2
    <3>2. CASE posted'[k] = p
      BY <1>6, <2>6, <3>2
    <3>3. QED
      BY <2>7, <3>1, <3>2
  <2>11. PostedInOrder'
    BY <2>8, <2>9, <2>10 DEF PostedInOrder
  <2>12. FrameTypeOK'
    BY <1>1, <1>3, <2>3 DEF FrameInv, FrameTypeOK
  <2>13. ReadyLocks'
    BY <1>1, <1>8 DEF FrameInv, ReadyLocks
  <2>14. QED
    BY <1>5, <2>11, <2>12, <2>13 DEF FrameInv
<1>9. QED
  BY <1>7, <1>8

\* What is left: the runtime posts, time is up, the host is destroyed.
LEMMA FrameOthersKeep ==
    ASSUME FrameInv, HandshakeAssumption,
           (\E m \in Messages : RuntimePosts(m)) \/ Timeout \/ DestroyFrame
    PROVE  FrameInv'
<1>1. UNCHANGED <<locked, waiting, given, posted>>
  BY DEF RuntimePosts, Timeout, DestroyFrame
<1>2. ready' = ready \/ (ready = "pending" /\ ready' = "rejected")
  BY DEF RuntimePosts, Timeout, DestroyFrame
<1>3. inbox' \in Seq(Messages)
  <2>1. inbox \in Seq(Messages)
    BY DEF FrameInv, FrameTypeOK
  <2>2. ASSUME NEW m \in Messages, RuntimePosts(m) PROVE inbox' \in Seq(Messages)
    BY <2>1, <2>2, AppendProperties DEF RuntimePosts
  <2>3. CASE Timeout \/ DestroyFrame
    BY <2>1, <2>3 DEF Timeout, DestroyFrame
  <2>4. QED
    BY <2>2, <2>3
<1>4. elapsed' \in BOOLEAN /\ gone' \in BOOLEAN
  BY DEF RuntimePosts, Timeout, DestroyFrame, FrameInv, FrameTypeOK
<1>5. FrameTypeOK'
  BY <1>1, <1>2, <1>3, <1>4 DEF FrameInv, FrameTypeOK
<1>6. ready' # ready => posted = <<>> /\ DOMAIN posted = {}
  BY <1>2, EmptySeq DEF FrameInv, ReadyLocks
<1>7. ReadyLocks' /\ PostedInOrder' /\ WaitInOrder'
  BY <1>1, <1>2, <1>6 DEF FrameInv, ReadyLocks, PostedInOrder, WaitInOrder
<1>8. QED
  BY <1>5, <1>7 DEF FrameInv

\* Everything that the commands and messages of a host go through.
THEOREM FrameInvariant == FrameSpec => []FrameInv
<1>1. FrameInit => FrameInv
  <2> SUFFICES ASSUME FrameInit PROVE FrameInv
    OBVIOUS
  <2>1. FrameTypeOK
    <3>1. inbox \in Seq(Messages)
      BY EmptySeq DEF FrameInit
    <3>2. waiting \in Seq(1 .. given)
      BY EmptySeq DEF FrameInit
    <3>3. posted \in Seq([command : 1 .. given, target : AllowedOrigins])
      BY EmptySeq DEF FrameInit
    <3>4. given \in 0 .. MaxCommands
      BY HandshakeAssumption DEF FrameInit, HandshakeAssumption
    <3>5. QED
      BY <3>1, <3>2, <3>3, <3>4 DEF FrameInit, FrameTypeOK
  <2>2. ReadyLocks /\ WaitInOrder /\ PostedInOrder
    BY EmptySeq DEF FrameInit, ReadyLocks, WaitInOrder, PostedInOrder
  <2>3. QED
    BY <2>1, <2>2 DEF FrameInv
<1>2. FrameInv /\ [FrameNext]_frameVars => FrameInv'
  <2> SUFFICES ASSUME FrameInv, [FrameNext]_frameVars
               PROVE  FrameInv'
    OBVIOUS
  <2>1. CASE OnMessage
    BY <2>1, HandshakeAssumption, OnMessageKeeps
  <2>2. CASE Command
    BY <2>2, HandshakeAssumption, CommandKeeps
  <2>3. CASE CommandResumes
    BY <2>3, HandshakeAssumption, CommandResumesKeeps
  <2>4. CASE (\E m \in Messages : RuntimePosts(m)) \/ Timeout \/ DestroyFrame
    BY <2>4, HandshakeAssumption, FrameOthersKeep
  <2>5. CASE UNCHANGED frameVars
    BY <2>5 DEF frameVars, FrameInv, FrameTypeOK, ReadyLocks, WaitInOrder, PostedInOrder
  <2>6. QED
    BY <2>1, <2>2, <2>3, <2>4, <2>5 DEF FrameNext
<1>3. QED
  BY <1>1, <1>2, PTL DEF FrameSpec

\* Type correctness of the host of a player in an iframe.
THEOREM FrameTypeCorrect == FrameSpec => []FrameTypeOK
<1>1. FrameInv => FrameTypeOK
  BY DEF FrameInv
<1>2. QED
  BY <1>1, FrameInvariant, PTL

\* Commands reach the one runtime that said READY, in the order they were given
\* and none twice, for any origins, messages and commands.
THEOREM PostedInOrderCorrect == FrameSpec => []PostedInOrder
<1>1. FrameInv => PostedInOrder
  BY DEF FrameInv
<1>2. QED
  BY <1>1, FrameInvariant, PTL

-----------------------------------------------------------------------------
(* AssessmentElement                                                       *)

\* Unless a load was superseded in its second await: only the newest load is in
\* that await; it is wanted, and there is no backend of the host; what is, or
\* may be, mounted on a local backend comes from the load that is wanted.
LoadsCurrent ==
    ~overtaken =>
        /\ parsing \subseteq {loadSeq}
        /\ loadSeq \in fetching \cup parsing => wanted = loadSeq /\ ~hostBackend
        /\ backend \in 1 .. MaxChanges => backend = wanted /\ ~hostBackend
        /\ mounted.backend \in 1 .. MaxChanges => mounted.backend = wanted /\ ~hostBackend

\* With the same reservation: the host's backend is the one in use whenever
\* there is one, and then no session made for a local one is at hand.
HostCurrent ==
    ~overtaken =>
        /\ hostBackend <=> backend = HostBackend
        /\ hostBackend => initSession # "local"
        /\ mounted.backend = HostBackend => mounted.session = "host"

ElementTypes ==
    /\ connected \in BOOLEAN /\ hasXml \in BOOLEAN /\ referenceMode \in BOOLEAN
    /\ hostBackend \in BOOLEAN /\ allowMount \in BOOLEAN /\ overtaken \in BOOLEAN
    /\ backend \in 0 .. HostBackend
    /\ initSession \in {"none", "host", "local"}
    /\ mounted \in [backend : 0 .. HostBackend, session : {"none", "host", "local"}]
    /\ loadSeq \in 0 .. MaxChanges
    /\ wanted \in 0 .. loadSeq
    /\ fetching \subseteq 1 .. loadSeq
    /\ parsing \subseteq 1 .. loadSeq
    /\ mounted = Nobody \/ (mounted.backend # 0 /\ mounted.session # "none")

ElementInv == ElementTypes /\ LoadsCurrent /\ HostCurrent

LEMMA ElementTypesSuffice == ElementTypes <=> ElementTypeOK
  BY DEF ElementTypes, ElementTypeOK

\* A load that is superseded: the newest is one that has not begun.
LEMMA SupersedesEffect ==
    ASSUME ElementInv, ElementAssumption, Supersedes
    PROVE  /\ loadSeq' = loadSeq + 1 /\ loadSeq' \in 1 .. MaxChanges
           /\ overtaken' \in BOOLEAN
           /\ loadSeq' \notin fetching \cup parsing
           /\ fetching \subseteq 1 .. loadSeq' /\ parsing \subseteq 1 .. loadSeq'
           /\ wanted \in 0 .. loadSeq'
           /\ ~overtaken' => ~overtaken /\ parsing = {}
<1>1. loadSeq' = loadSeq + 1 /\ loadSeq < MaxChanges
      /\ loadSeq \in 0 .. MaxChanges /\ MaxChanges \in Nat
  BY DEF Supersedes, ElementInv, ElementTypes, ElementAssumption
<1>2. /\ wanted \in 0 .. loadSeq
      /\ fetching \subseteq 1 .. loadSeq /\ parsing \subseteq 1 .. loadSeq
  BY DEF ElementInv, ElementTypes
<1>3. ~overtaken' => ~overtaken /\ loadSeq \notin parsing
  BY DEF Supersedes
<1>4. ~overtaken => parsing \subseteq {loadSeq}
  BY DEF ElementInv, LoadsCurrent
<1>5. overtaken' \in BOOLEAN
  BY DEF Supersedes
<1>6. QED
  BY <1>1, <1>2, <1>3, <1>4, <1>5

\* A mount takes what is at hand or leaves what there was.
LEMMA MountedEffect ==
    ASSUME NEW before
    PROVE  \/ Mounted(before) = before
           \/ /\ Mounted(before) = [backend |-> backend', session |-> initSession']
              /\ backend' # 0 /\ initSession' # "none"
  BY DEF Mounted

LEMMA MountsHostEffect ==
    ASSUME NEW assigned \in {"none", "host", "local"}, NEW before, MountsHost(assigned, before)
    PROVE  /\ initSession' = assigned
           /\ allowMount' \in BOOLEAN
           /\ backend' \in {backend, HostBackend}
           /\ assigned # "none" => backend' = HostBackend
           /\ \/ mounted' \in {before, Nobody}
              \/ /\ mounted' = [backend |-> HostBackend, session |-> assigned]
                 /\ assigned # "none"
<1>1. CASE assigned = "none"
  BY <1>1 DEF MountsHost
<1>2. CASE assigned # "none"
  <2>1. initSession' = assigned /\ backend' = HostBackend /\ allowMount' = TRUE
        /\ mounted' \in {Mounted(before), before}
    BY <1>2 DEF MountsHost
  <2>2. QED
    BY <1>2, <2>1, MountedEffect
<1>3. QED
  BY <1>1, <1>2

LEMMA HostBackendRange ==
    ASSUME ElementAssumption
    PROVE  /\ HostBackend \in Nat /\ HostBackend \in 0 .. HostBackend /\ 0 \in 0 .. HostBackend
           /\ HostBackend \notin 1 .. MaxChanges /\ HostBackend # 0
           /\ Nobody \in [backend : 0 .. HostBackend, session : {"none", "host", "local"}]
           /\ Nobody.backend = 0
           /\ 1 .. MaxChanges \subseteq 0 .. HostBackend
  BY DEF ElementAssumption, HostBackend, Nobody

\* A load that is started: on a local backend everything begins anew; with the
\* host's, which was there before, only its session counts.
LEMMA SyncsKeeps ==
    ASSUME ElementInv, ElementAssumption, Supersedes, Syncs,
           connected' \in BOOLEAN, hasXml' \in BOOLEAN, referenceMode' \in BOOLEAN,
           hostBackend' \in BOOLEAN, hostBackend' => hostBackend
    PROVE  ElementInv'
<1>1. /\ loadSeq' \in 1 .. MaxChanges
      /\ overtaken' \in BOOLEAN
      /\ loadSeq' \notin fetching \cup parsing
      /\ fetching \subseteq 1 .. loadSeq' /\ parsing \subseteq 1 .. loadSeq'
      /\ ~overtaken' => ~overtaken /\ parsing = {}
  BY SupersedesEffect
<1>2. CASE ~hostBackend'
  <2>1. /\ wanted' = loadSeq'
        /\ allowMount' = FALSE /\ mounted' = Nobody /\ backend' = 0 /\ initSession' = "none"
        /\ fetching' \subseteq fetching \cup {loadSeq'}
        /\ parsing' = parsing
    BY <1>2 DEF Syncs, Deactivates
  <2>2. mounted'.backend = 0
    BY <2>1, HostBackendRange
  <2>3. ElementTypes'
    <3>1. backend' \in 0 .. HostBackend /\ mounted' = Nobody
          /\ mounted' \in [backend : 0 .. HostBackend, session : {"none", "host", "local"}]
      BY <2>1, HostBackendRange
    <3>2. loadSeq' \in 0 .. MaxChanges /\ wanted' \in 0 .. loadSeq'
      BY <1>1, <2>1
    <3>3. fetching' \subseteq 1 .. loadSeq' /\ parsing' \subseteq 1 .. loadSeq'
      BY <1>1, <2>1
    <3>4. QED
      BY <1>1, <2>1, <3>1, <3>2, <3>3 DEF ElementTypes, HostBackend, Nobody
  <2>4. LoadsCurrent'
    BY <1>1, <1>2, <2>1, <2>2 DEF LoadsCurrent
  <2>5. HostCurrent'
    BY <1>2, <2>1, <2>2, HostBackendRange DEF HostCurrent, HostBackend
  <2>6. QED
    BY <2>3, <2>4, <2>5 DEF ElementInv
<1>3. CASE hostBackend'
  <2>1. hostBackend /\ hostBackend'
    BY <1>3
  <2>2. wanted' = 0 /\ MountsHost(initSession, mounted) /\ UNCHANGED <<fetching, parsing>>
    BY <1>3 DEF Syncs
  <2>3. initSession \in {"none", "host", "local"} /\ backend \in 0 .. HostBackend
        /\ mounted \in [backend : 0 .. HostBackend, session : {"none", "host", "local"}]
        /\ (mounted = Nobody \/ (mounted.backend # 0 /\ mounted.session # "none"))
    BY DEF ElementInv, ElementTypes
  <2>4. /\ initSession' = initSession
        /\ allowMount' \in BOOLEAN
        /\ backend' \in {backend, HostBackend}
        /\ \/ mounted' \in {mounted, Nobody}
           \/ /\ mounted' = [backend |-> HostBackend, session |-> initSession]
              /\ initSession # "none"
    BY <2>2, <2>3, MountsHostEffect
  <2>5. /\ mounted' \in [backend : 0 .. HostBackend, session : {"none", "host", "local"}]
        /\ mounted' = Nobody \/ (mounted'.backend # 0 /\ mounted'.session # "none")
        /\ \/ mounted' = mounted
           \/ mounted'.backend = 0
           \/ mounted'.backend = HostBackend /\ mounted'.session = initSession
    BY <2>3, <2>4, HostBackendRange
  <2>6. ElementTypes'
    BY <1>1, <2>2, <2>3, <2>4, <2>5, HostBackendRange DEF ElementTypes, HostBackend, Nobody
  <2>7. ~overtaken' => backend = HostBackend /\ initSession \in {"none", "host"}
    BY <1>1, <2>1, <2>3 DEF ElementInv, HostCurrent
  <2>8. ~overtaken' => mounted.backend \notin 1 .. MaxChanges
    BY <1>1, <2>1 DEF ElementInv, LoadsCurrent
  <2>9. LoadsCurrent'
    BY <1>1, <2>1, <2>2, <2>4, <2>5, <2>7, <2>8, HostBackendRange DEF LoadsCurrent
  <2>10. ~overtaken' /\ mounted'.backend = HostBackend => mounted'.session = "host"
    BY <1>1, <2>4, <2>5, <2>7, HostBackendRange DEF ElementInv, HostCurrent
  <2>11. HostCurrent'
    BY <2>1, <2>4, <2>7, <2>10 DEF HostCurrent, HostBackend
  <2>12. QED
    BY <2>6, <2>9, <2>11 DEF ElementInv
<1>4. QED
  BY <1>2, <1>3

LEMMA SetSourceKeeps ==
    ASSUME ElementInv, ElementAssumption, NEW xml \in BOOLEAN, NEW reference \in BOOLEAN,
           SetSource(xml, reference)
    PROVE  ElementInv'
<1>1. /\ connected' \in BOOLEAN /\ hasXml' \in BOOLEAN /\ referenceMode' \in BOOLEAN
      /\ hostBackend' \in BOOLEAN /\ hostBackend' = hostBackend
      /\ Supersedes /\ Syncs
  BY DEF SetSource, ElementInv, ElementTypes
<1>2. QED
  BY <1>1, SyncsKeeps

LEMMA ConnectKeeps ==
    ASSUME ElementInv, ElementAssumption, Connect
    PROVE  ElementInv'
<1>1. /\ connected' \in BOOLEAN /\ hasXml' \in BOOLEAN /\ referenceMode' \in BOOLEAN
      /\ hostBackend' \in BOOLEAN /\ hostBackend' = hostBackend
      /\ Supersedes /\ Syncs
  BY DEF Connect, ElementInv, ElementTypes
<1>2. QED
  BY <1>1, SyncsKeeps

LEMMA RemoveBackendKeeps ==
    ASSUME ElementInv, ElementAssumption, RemoveBackend
    PROVE  ElementInv'
<1>1. /\ connected' \in BOOLEAN /\ hasXml' \in BOOLEAN /\ referenceMode' \in BOOLEAN
      /\ hostBackend' = FALSE
      /\ Supersedes /\ Syncs
  BY DEF RemoveBackend, ElementInv, ElementTypes
<1>2. QED
  BY <1>1, SyncsKeeps

LEMMA ConnectThrowsKeeps ==
    ASSUME ElementInv, ConnectThrows
    PROVE  ElementInv'
<1>1. connected' = TRUE /\ UNCHANGED <<hasXml, referenceMode, hostBackend, backend, initSession,
          allowMount, mounted, loadSeq, wanted, fetching, parsing, overtaken>>
  BY DEF ConnectThrows
<1>2. QED
  BY <1>1 DEF ElementInv, ElementTypes, LoadsCurrent, HostCurrent, HostBackend, Nobody

LEMMA DisconnectKeeps ==
    ASSUME ElementInv, ElementAssumption, Disconnect
    PROVE  ElementInv'
<1>1. /\ Supersedes
      /\ connected' = FALSE /\ mounted' = Nobody
      /\ UNCHANGED <<hasXml, referenceMode, hostBackend, backend, initSession, allowMount,
                     wanted, fetching, parsing>>
  BY DEF Disconnect
<1>2. /\ loadSeq' \in 1 .. MaxChanges
      /\ overtaken' \in BOOLEAN
      /\ loadSeq' \notin fetching \cup parsing
      /\ fetching \subseteq 1 .. loadSeq' /\ parsing \subseteq 1 .. loadSeq'
      /\ wanted \in 0 .. loadSeq'
      /\ ~overtaken' => ~overtaken /\ parsing = {}
  BY <1>1, SupersedesEffect
<1>3. mounted'.backend = 0
  BY <1>1, HostBackendRange
<1>4. ElementTypes'
  <2>1. mounted' \in [backend : 0 .. HostBackend, session : {"none", "host", "local"}]
    BY <1>1, HostBackendRange
  <2>2. loadSeq' \in 0 .. MaxChanges
    BY <1>2
  <2>3. QED
    BY <1>1, <1>2, <2>1, <2>2 DEF ElementInv, ElementTypes, HostBackend, Nobody
<1>5. LoadsCurrent' /\ HostCurrent'
  BY <1>1, <1>2, <1>3, HostBackendRange DEF ElementInv, LoadsCurrent, HostCurrent, HostBackend
<1>6. QED
  BY <1>4, <1>5 DEF ElementInv

\* With a backend of the host nothing made for a local one is left.
LEMMA InjectBackendKeeps ==
    ASSUME ElementInv, ElementAssumption, InjectBackend
    PROVE  ElementInv'
<1>1. /\ Supersedes /\ hostBackend' = TRUE /\ wanted' = 0
      /\ UNCHANGED <<connected, hasXml, referenceMode, fetching, parsing>>
  BY DEF InjectBackend
<1>2. /\ backend' = HostBackend /\ initSession' \in {"none", "host"} /\ allowMount' \in BOOLEAN
      /\ mounted' \in {Nobody, [backend |-> HostBackend, session |-> "host"]}
  <2>1. CASE initSession = "host"
    <3>1. MountsHost("host", Nobody)
      BY <2>1 DEF InjectBackend
    <3>2. QED
      BY <3>1, MountsHostEffect
  <2>2. CASE initSession # "host"
    BY <2>2 DEF InjectBackend
  <2>3. QED
    BY <2>1, <2>2
<1>3. /\ loadSeq' \in 1 .. MaxChanges
      /\ overtaken' \in BOOLEAN
      /\ loadSeq' \notin fetching \cup parsing
      /\ fetching \subseteq 1 .. loadSeq' /\ parsing \subseteq 1 .. loadSeq'
      /\ ~overtaken' => ~overtaken /\ parsing = {}
  BY <1>1, SupersedesEffect
<1>4. /\ mounted' \in [backend : 0 .. HostBackend, session : {"none", "host", "local"}]
      /\ mounted' = Nobody \/ (mounted'.backend # 0 /\ mounted'.session # "none")
      /\ mounted'.backend \in {0, HostBackend}
      /\ mounted'.backend = HostBackend => mounted'.session = "host"
  BY <1>2, HostBackendRange
<1>5. ElementTypes'
  BY <1>1, <1>2, <1>3, <1>4, HostBackendRange
     DEF ElementInv, ElementTypes, HostBackend, Nobody
<1>6. LoadsCurrent' /\ HostCurrent'
  BY <1>1, <1>2, <1>3, <1>4, HostBackendRange DEF LoadsCurrent, HostCurrent, HostBackend
<1>7. QED
  BY <1>5, <1>6 DEF ElementInv

LEMMA SetInitSessionKeeps ==
    ASSUME ElementInv, ElementAssumption, NEW assigned \in {"none", "host"},
           SetInitSession(assigned)
    PROVE  ElementInv'
<1>1. UNCHANGED <<connected, hasXml, referenceMode, hostBackend, loadSeq, wanted, fetching,
                  parsing, overtaken>>
  BY DEF SetInitSession
<1>2. CASE ~hostBackend
  <2>1. initSession' = assigned /\ UNCHANGED <<backend, allowMount, mounted>>
    BY <1>2 DEF SetInitSession
  <2>2. QED
    BY <1>1, <1>2, <2>1
       DEF ElementInv, ElementTypes, LoadsCurrent, HostCurrent, HostBackend, Nobody
<1>3. CASE hostBackend
  <2>1. /\ initSession' = assigned
        /\ allowMount' \in BOOLEAN
        /\ backend' \in {backend, HostBackend}
        /\ \/ mounted' \in {mounted, Nobody}
           \/ /\ mounted' = [backend |-> HostBackend, session |-> assigned]
              /\ assigned # "none"
    BY <1>3, MountsHostEffect DEF SetInitSession
  <2>2. /\ backend \in 0 .. HostBackend
        /\ mounted \in [backend : 0 .. HostBackend, session : {"none", "host", "local"}]
        /\ (mounted = Nobody \/ (mounted.backend # 0 /\ mounted.session # "none"))
    BY DEF ElementInv, ElementTypes
  <2>3. /\ mounted' \in [backend : 0 .. HostBackend, session : {"none", "host", "local"}]
        /\ mounted' = Nobody \/ (mounted'.backend # 0 /\ mounted'.session # "none")
        /\ \/ mounted' = mounted
           \/ mounted'.backend = 0
           \/ mounted'.backend = HostBackend /\ mounted'.session = "host"
    BY <2>1, <2>2, HostBackendRange
  <2>4. ElementTypes'
    BY <1>1, <2>1, <2>2, <2>3, HostBackendRange
       DEF ElementInv, ElementTypes, HostBackend, Nobody
  <2>5. LoadsCurrent' /\ HostCurrent'
    BY <1>1, <1>3, <2>1, <2>3, HostBackendRange
       DEF ElementInv, LoadsCurrent, HostCurrent, HostBackend
  <2>6. QED
    BY <2>4, <2>5 DEF ElementInv
<1>4. QED
  BY <1>2, <1>3

\* What is mounted again is what is at hand.
LEMMA ConfigureKeeps ==
    ASSUME ElementInv, ElementAssumption, Configure
    PROVE  ElementInv'
<1>1. UNCHANGED <<connected, hasXml, referenceMode, hostBackend, backend, initSession,
                  allowMount, loadSeq, wanted, fetching, parsing, overtaken>>
  BY DEF Configure
<1>2. \/ mounted' = mounted
      \/ /\ mounted' = [backend |-> backend, session |-> initSession]
         /\ backend # 0 /\ initSession # "none"
  BY <1>1, MountedEffect DEF Configure
<1>3. CASE mounted' = mounted
  BY <1>1, <1>3 DEF ElementInv, ElementTypes, LoadsCurrent, HostCurrent, HostBackend, Nobody
<1>4. CASE /\ mounted' = [backend |-> backend, session |-> initSession]
           /\ backend # 0 /\ initSession # "none"
  <2>1. /\ mounted'.backend = backend /\ mounted'.session = initSession
        /\ mounted' \in [backend : 0 .. HostBackend, session : {"none", "host", "local"}]
    BY <1>4 DEF ElementInv, ElementTypes
  <2>2. ElementTypes'
    BY <1>1, <1>4, <2>1 DEF ElementInv, ElementTypes, HostBackend, Nobody
  <2>3. LoadsCurrent'
    BY <1>1, <2>1 DEF ElementInv, LoadsCurrent
  <2>4. HostCurrent'
    BY <1>1, <1>4, <2>1 DEF ElementInv, ElementTypes, HostCurrent, HostBackend
  <2>5. QED
    BY <2>2, <2>3, <2>4 DEF ElementInv
<1>5. QED
  BY <1>2, <1>3, <1>4

LEMMA ItemsResolvedKeeps ==
    ASSUME ElementInv, NEW n \in 1 .. MaxChanges, ItemsResolved(n)
    PROVE  ElementInv'
<1>1. /\ n \in fetching
      /\ fetching' = fetching \ {n}
      /\ parsing' \subseteq parsing \cup {n}
      /\ n # loadSeq => parsing' = parsing
      /\ UNCHANGED <<connected, hasXml, referenceMode, hostBackend, backend, initSession,
                     allowMount, mounted, loadSeq, wanted, overtaken>>
  BY DEF ItemsResolved
<1>2. ElementTypes'
  BY <1>1 DEF ElementInv, ElementTypes, HostBackend, Nobody
<1>3. LoadsCurrent' /\ HostCurrent'
  BY <1>1 DEF ElementInv, LoadsCurrent, HostCurrent, HostBackend
<1>4. QED
  BY <1>2, <1>3 DEF ElementInv

\* A load that fails takes everything with it if it is the newest.
LEMMA LoadFailsKeeps ==
    ASSUME ElementInv, ElementAssumption, NEW n \in 1 .. MaxChanges, LoadFails(n)
    PROVE  ElementInv'
<1>1. /\ n \in fetching \cup parsing
      /\ fetching' = fetching \ {n} /\ parsing' = parsing \ {n}
      /\ UNCHANGED <<connected, hasXml, referenceMode, hostBackend, loadSeq, wanted, overtaken>>
  BY DEF LoadFails
<1>2. CASE n = loadSeq
  <2>1. allowMount' = FALSE /\ mounted' = Nobody /\ backend' = 0 /\ initSession' = "none"
    BY <1>2 DEF LoadFails, Deactivates
  <2>2. mounted'.backend = 0
    BY <2>1, HostBackendRange
  <2>3. ElementTypes'
    BY <1>1, <2>1, HostBackendRange DEF ElementInv, ElementTypes, HostBackend, Nobody
  <2>4. LoadsCurrent' /\ HostCurrent'
    BY <1>1, <1>2, <2>1, <2>2, HostBackendRange
       DEF ElementInv, LoadsCurrent, HostCurrent, HostBackend
  <2>5. QED
    BY <2>3, <2>4 DEF ElementInv
<1>3. CASE n # loadSeq
  <2>1. UNCHANGED <<backend, initSession, allowMount, mounted>>
    BY <1>3 DEF LoadFails
  <2>2. ElementTypes'
    BY <1>1, <2>1 DEF ElementInv, ElementTypes, HostBackend, Nobody
  <2>3. LoadsCurrent' /\ HostCurrent'
    BY <1>1, <2>1 DEF ElementInv, LoadsCurrent, HostCurrent, HostBackend
  <2>4. QED
    BY <2>2, <2>3 DEF ElementInv
<1>4. QED
  BY <1>2, <1>3

\* A load that ends and was not overtaken is the one that is wanted.
LEMMA LoadEndsKeeps ==
    ASSUME ElementInv, ElementAssumption, NEW n \in 1 .. MaxChanges, LoadEnds(n)
    PROVE  ElementInv'
<1>1. /\ n \in parsing /\ parsing' = parsing \ {n}
      /\ backend' = n /\ initSession' = "local" /\ allowMount' = TRUE
      /\ UNCHANGED <<connected, hasXml, referenceMode, hostBackend, loadSeq, wanted, fetching,
                     overtaken>>
      /\ mounted' = Mounted(mounted)
  BY DEF LoadEnds
<1>2. \/ mounted' = mounted
      \/ mounted' = [backend |-> n, session |-> "local"]
  BY <1>1, MountedEffect
<1>3. n \in 0 .. HostBackend /\ n # 0 /\ n # HostBackend
  BY HostBackendRange
<1>4. /\ mounted' \in [backend : 0 .. HostBackend, session : {"none", "host", "local"}]
      /\ mounted' = Nobody \/ (mounted'.backend # 0 /\ mounted'.session # "none")
      /\ mounted' = mounted \/ mounted'.backend = n
  BY <1>2, <1>3 DEF ElementInv, ElementTypes
<1>5. ElementTypes'
  BY <1>1, <1>3, <1>4 DEF ElementInv, ElementTypes, HostBackend, Nobody
<1>6. ~overtaken => n = loadSeq /\ wanted = n /\ ~hostBackend
  BY <1>1 DEF ElementInv, LoadsCurrent
<1>7. LoadsCurrent' /\ HostCurrent'
  BY <1>1, <1>3, <1>4, <1>6 DEF ElementInv, LoadsCurrent, HostCurrent, HostBackend
<1>8. QED
  BY <1>5, <1>7 DEF ElementInv

\* Loads, backends and sessions of a custom element go together.
THEOREM ElementInvariant == ElementSpec => []ElementInv
<1> USE ElementAssumption
<1>1. ElementInit => ElementInv
  <2> SUFFICES ASSUME ElementInit PROVE ElementInv
    OBVIOUS
  <2>1. ElementTypes
    <3>1. 0 \in 0 .. MaxChanges /\ 0 \in 0 .. 0
      BY DEF ElementAssumption
    <3>2. backend \in 0 .. HostBackend /\ mounted = Nobody
          /\ mounted \in [backend : 0 .. HostBackend, session : {"none", "host", "local"}]
      BY HostBackendRange DEF ElementInit
    <3>3. QED
      BY <3>1, <3>2 DEF ElementInit, ElementTypes
  <2>2. LoadsCurrent /\ HostCurrent
    BY HostBackendRange DEF ElementInit, LoadsCurrent, HostCurrent
  <2>3. QED
    BY <2>1, <2>2 DEF ElementInv
<1>2. ElementInv /\ [ElementNext]_elementVars => ElementInv'
  <2> SUFFICES ASSUME ElementInv, [ElementNext]_elementVars
               PROVE  ElementInv'
    OBVIOUS
  <2>1. ASSUME NEW xml \in BOOLEAN, NEW reference \in BOOLEAN, SetSource(xml, reference)
        PROVE  ElementInv'
    BY <2>1, SetSourceKeeps
  <2>2. CASE Connect \/ ConnectThrows
    BY <2>2, ConnectKeeps, ConnectThrowsKeeps
  <2>3. CASE Disconnect
    BY <2>3, DisconnectKeeps
  <2>4. CASE InjectBackend \/ RemoveBackend
    BY <2>4, InjectBackendKeeps, RemoveBackendKeeps
  <2>5. ASSUME NEW assigned \in {"none", "host"}, SetInitSession(assigned) PROVE ElementInv'
    BY <2>5, SetInitSessionKeeps
  <2>6. CASE Configure
    BY <2>6, ConfigureKeeps
  <2>7. ASSUME NEW n \in 1 .. MaxChanges, ItemsResolved(n) \/ LoadFails(n) \/ LoadEnds(n)
        PROVE  ElementInv'
    BY <2>7, ItemsResolvedKeeps, LoadFailsKeeps, LoadEndsKeeps
  <2>8. CASE UNCHANGED elementVars
    BY <2>8 DEF elementVars, ElementInv, ElementTypes, LoadsCurrent, HostCurrent, HostBackend,
                Nobody
  <2>9. QED
    BY <2>1, <2>2, <2>3, <2>4, <2>5, <2>6, <2>7, <2>8 DEF ElementNext
<1>3. QED
  BY <1>1, <1>2, PTL DEF ElementSpec

\* Type correctness of the custom element.
THEOREM ElementTypeCorrect == ElementSpec => []ElementTypeOK
<1>1. ElementInv => ElementTypeOK
  BY ElementTypesSuffice DEF ElementInv
<1>2. QED
  BY <1>1, ElementInvariant, PTL

\* For any number of changes: unless a load was superseded in its second await,
\* a player mounted on a local backend shows what is set now.
THEOREM MountedIsLatestCorrect == ElementSpec => []MountedIsLatest
<1>1. ElementInv => MountedIsLatest
  BY DEF ElementInv, LoadsCurrent, MountedIsLatest
<1>2. QED
  BY <1>1, ElementInvariant, PTL

\* With the same reservation, a backend of the host is never used with a session
\* that was made for a local one.
THEOREM HostSessionOnlyCorrect == ElementSpec => []HostSessionOnly
<1>1. ElementInv => HostSessionOnly
  BY DEF ElementInv, HostCurrent, HostSessionOnly
<1>2. QED
  BY <1>1, ElementInvariant, PTL

-----------------------------------------------------------------------------
(* PciSession                                                              *)

PciHost ==
    [open : BOOLEAN, mod : Responses \cup {NoModule}, resp : Responses,
     owns : BOOLEAN, pending : BOOLEAN]

\* While a load of the host is in flight, the host has no module.
LoadsFirst == \A l \in loads : l.host = mounts /\ host.open => ~HasModule(host)

DisposedCloses == disposed => ~host.open

HostFirst == HasModule(host) => mounts # 0

\* While the candidate may answer, every place that holds an answer, and that an
\* answer may be taken from later, holds one of those that are due.
AnswersDue ==
    IsWritable(session) /\ ~disposed =>
        /\ session.response \in due
        /\ view \in due
        /\ mounts > 0 => host.resp \in due /\ (HasModule(host) => host.mod \in due)

PciInv ==
    /\ PciTypeOK
    /\ OneInstance
    /\ LoadsFirst
    /\ DisposedCloses
    /\ HostFirst
    /\ ClosedViewScored
    /\ AnswersDue

-----------------------------------------------------------------------------
(* The lifecycle commands, on a session as a value.                        *)

LEMMA SetResponseType ==
    ASSUME NEW s \in Session, NEW v \in Responses
    PROVE  /\ SetResponse(s, v) \in Session
           /\ SetResponse(s, v).lifecycle = s.lifecycle
           /\ SetResponse(s, v).response = v
  BY DEF SetResponse, Session

LEMMA EndAttemptType ==
    ASSUME NEW i, NEW s \in Session, NEW outcome \in Outcomes
    PROVE  /\ EndAttempt(i, s, outcome) \in Session
           /\ EndAttempt(i, s, outcome).response = s.response
<1> DEFINE completion == IF i \in Adaptive THEN AdaptiveCompletion(s, outcome) ELSE "completed"
           lifecycle == IF completion = "completed" THEN "closed" ELSE "interacting"
<1>1. completion \in CompletionStatuses
  BY DEF AdaptiveCompletion, Session, CompletionStatuses, Outcomes
<1>2. lifecycle \in Lifecycles
  BY DEF Lifecycles
<1>3. EndAttempt(i, s, outcome) =
        [s EXCEPT !.attempts = @ + 1, !.completion = completion, !.lifecycle = lifecycle]
  BY DEF EndAttempt
<1> HIDE DEF completion, lifecycle
<1>4. s.attempts + 1 \in Nat
  BY DEF Session
<1>5. EndAttempt(i, s, outcome) =
        [lifecycle |-> lifecycle, completion |-> completion, attempts |-> s.attempts + 1,
         response |-> s.response]
  BY <1>3 DEF Session
<1>6. QED
  BY <1>1, <1>2, <1>4, <1>5 DEF Session

LEMMA SubmitAttemptType ==
    ASSUME NEW i, NEW s \in Session, NEW outcome \in Outcomes
    PROVE  /\ SubmitAttempt(i, s, outcome) \in Session
           /\ SubmitAttempt(i, s, outcome).response = s.response
           /\ SubmitAttempt(i, s, outcome).lifecycle = s.lifecycle
<1> DEFINE e == EndAttempt(i, s, outcome)
<1>1. e \in Session /\ e.response = s.response
  BY EndAttemptType
<1>2. SubmitAttempt(i, s, outcome) = [e EXCEPT !.lifecycle = s.lifecycle]
  BY DEF SubmitAttempt
<1> HIDE DEF e
<1>3. QED
  BY <1>1, <1>2 DEF Session

LEMMA ScoreAttemptType ==
    ASSUME NEW i, NEW s \in Session, NEW outcome \in Outcomes
    PROVE  /\ ScoreAttempt(i, s, outcome) \in Session
           /\ ScoreAttempt(i, s, outcome).response = s.response
           /\ ScoreAttempt(i, s, outcome).lifecycle = s.lifecycle
  BY DEF ScoreAttempt, Session, Outcomes, CompletionStatuses

LEMMA OutcomesForType == ASSUME NEW outcome \in OutcomesFor PROVE outcome \in Outcomes
  BY DEF OutcomesFor, Outcomes

-----------------------------------------------------------------------------
(* The host.                                                               *)

LEMMA PullType ==
    ASSUME NEW h \in PciHost, NEW own \in Responses
    PROVE  /\ Pull(h, own) \in Responses
           /\ Pull(h, own) \in {own, h.resp, h.mod}
           /\ mounts = 0 => Pull(h, own) = own
           /\ mounts # 0 => Pull(h, own) \in {h.resp, h.mod}
           /\ mounts # 0 /\ ~HasModule(h) => Pull(h, own) = h.resp
  BY DEF Pull, HasModule, PciHost

LEMMA OfferType ==
    ASSUME NEW h \in PciHost, NEW v \in Responses, PciAssumption, h.pending => ~HasModule(h)
    PROVE  LET o == Offer(h, v)
           IN  /\ o \in PciHost
               /\ o.open = h.open /\ o.owns = h.owns
               /\ HasModule(o) <=> HasModule(h)
               /\ o.pending => ~HasModule(o)
               /\ h.owns => o = h
               /\ o = h \/ (o.resp = v /\ (HasModule(h) => o.mod = v))
               /\ ~h.owns /\ mounts # 0 => o.resp = v /\ (HasModule(h) => o.mod = v)
<1> DEFINE e == [h EXCEPT !.resp = v, !.mod = IF HasModule(h) THEN v ELSE @,
                          !.pending = @ /\ ~HasModule(h)]
           o == Offer(h, v)
<1>1. CASE h.owns \/ mounts = 0
  BY <1>1 DEF Offer
<1>2. CASE ~(h.owns \/ mounts = 0)
  <2>1. o = e
    BY <1>2 DEF Offer
  <2>2. CASE HasModule(h)
    <3>1. e = [h EXCEPT !.resp = v, !.mod = v, !.pending = FALSE]
      BY <2>2 DEF PciHost
    <3>2. QED
      BY <1>2, <2>1, <2>2, <3>1 DEF PciHost, HasModule, PciAssumption
  <2>3. CASE ~HasModule(h)
    <3>1. e = [h EXCEPT !.resp = v]
      BY <2>3 DEF PciHost
    <3>2. QED
      BY <1>2, <2>1, <2>3, <3>1 DEF PciHost, HasModule, PciAssumption
  <2>4. QED
    BY <2>2, <2>3
<1>3. QED
  BY <1>1, <1>2

\* What a capture makes of a session and a host.
LEMMA CapturedEffect ==
    ASSUME NEW s \in Session, NEW h \in PciHost, PciAssumption, h.pending => ~HasModule(h),
           Captured(s, h)
    PROVE  /\ view' = s.response
           /\ session' \in Session /\ session'.lifecycle = s.lifecycle
           /\ session'.response = Pull(h, s.response)
           /\ host' \in PciHost
           /\ host'.open = h.open
           /\ HasModule(host') <=> HasModule(h)
           /\ host'.pending => ~HasModule(host')
           /\ h.owns => host' = h
           /\ host' = h \/ (host'.resp = s.response /\ (HasModule(h) => host'.mod = s.response))
<1>1. s.response \in Responses
  BY DEF Session
<1>2. view' = s.response
  BY DEF Captured
<1>3. session' = [s EXCEPT !.response = Pull(h, s.response)]
  BY DEF Captured
<1>4. Pull(h, s.response) \in Responses
  BY <1>1, PullType
<1>5. /\ session' \in Session /\ session'.lifecycle = s.lifecycle
      /\ session'.response = Pull(h, s.response)
  BY <1>3, <1>4 DEF Session
<1>6. host' \in {h, Offer(h, s.response)}
  BY <1>2 DEF Captured
<1>7. QED
  BY <1>1, <1>2, <1>5, <1>6, OfferType

\* An operation of the session that ends with a capture, on a host that has its
\* module, or none, as before.
LEMMA CapturedKeeps ==
    ASSUME PciInv, PciAssumption,
           NEW s \in Session, NEW h \in PciHost, h.pending => ~HasModule(h),
           h.open = host.open, HasModule(h) <=> HasModule(host),
           Captured(s, h),
           UNCHANGED <<item, mounts, page, loads, alive, disposed>>,
           scored' \in Responses \cup {NoScore},
           due' \subseteq Responses,
           s.lifecycle = "closed" => s.response = scored',
           IsWritable(s) /\ ~disposed =>
               /\ s.response \in due'
               /\ mounts > 0 => h.resp \in due' /\ (HasModule(h) => h.mod \in due')
    PROVE  PciInv'
<1>1. /\ view' = s.response
      /\ session' \in Session /\ session'.lifecycle = s.lifecycle
      /\ session'.response = Pull(h, s.response)
      /\ host' \in PciHost
      /\ host'.open = host.open
      /\ HasModule(host') <=> HasModule(host)
      /\ host'.pending => ~HasModule(host')
      /\ host' = h \/ (host'.resp = s.response /\ (HasModule(h) => host'.mod = s.response))
  BY CapturedEffect
<1>2. s.response \in Responses /\ mounts \in Nat
  BY DEF Session, PciInv, PciTypeOK, PciAssumption
<1>3. PciTypeOK'
  BY <1>1, <1>2 DEF PciInv, PciTypeOK, PciHost
<1>4. OneInstance' /\ LoadsFirst' /\ DisposedCloses' /\ HostFirst'
  BY <1>1 DEF PciInv, OneInstance, LoadsFirst, DisposedCloses, HostFirst
<1>5. ClosedViewScored'
  BY <1>1 DEF ClosedViewScored
<1>6. AnswersDue'
  <2> SUFFICES ASSUME IsWritable(s), ~disposed
               PROVE  /\ session'.response \in due'
                      /\ view' \in due'
                      /\ mounts > 0 => host'.resp \in due'
                                       /\ (HasModule(host') => host'.mod \in due')
    BY <1>1 DEF AnswersDue, IsWritable
  <2>1. s.response \in due'
    OBVIOUS
  <2>2. mounts > 0 => h.resp \in due' /\ (HasModule(h) => h.mod \in due')
    OBVIOUS
  <2>3. session'.response \in due'
    <3>1. CASE mounts = 0
      BY <1>1, <1>2, <2>1, <3>1, PullType
    <3>2. CASE mounts # 0 /\ HasModule(h)
      BY <1>1, <1>2, <2>2, <3>2, PullType
    <3>3. CASE mounts # 0 /\ ~HasModule(h)
      BY <1>1, <1>2, <2>2, <3>3, PullType
    <3>4. QED
      BY <3>1, <3>2, <3>3
  <2>4. QED
    BY <1>1, <2>1, <2>2, <2>3
<1>7. QED
  BY <1>3, <1>4, <1>5, <1>6 DEF PciInv

-----------------------------------------------------------------------------
(* The operations of the session.                                          *)

LEMMA PciFacts ==
    ASSUME PciInv, PciAssumption
    PROVE  /\ session \in Session /\ session.response \in Responses
           /\ host \in PciHost /\ (host.pending => ~HasModule(host))
           /\ host.resp \in Responses
           /\ mounts \in 0 .. MaxMounts /\ mounts \in Nat
           /\ due \subseteq Responses
           /\ scored \in Responses \cup {NoScore}
           /\ Pull(host, session.response) \in Responses
           /\ IsWritable(session) /\ ~disposed => Pull(host, session.response) \in due
<1>1. /\ session \in Session /\ session.response \in Responses
      /\ host \in PciHost /\ (host.pending => ~HasModule(host))
      /\ host.resp \in Responses
      /\ mounts \in 0 .. MaxMounts /\ mounts \in Nat
      /\ due \subseteq Responses
      /\ scored \in Responses \cup {NoScore}
  BY DEF PciInv, PciTypeOK, PciHost, Session, PciAssumption
<1>2. Pull(host, session.response) \in Responses
  BY <1>1, PullType
<1>3. ASSUME IsWritable(session), ~disposed PROVE Pull(host, session.response) \in due
  <2>1. /\ session.response \in due
        /\ mounts > 0 => host.resp \in due /\ (HasModule(host) => host.mod \in due)
    BY <1>3 DEF PciInv, AnswersDue
  <2>2. CASE mounts = 0
    BY <1>1, <2>1, <2>2, PullType
  <2>3. CASE mounts # 0 /\ HasModule(host)
    BY <1>1, <2>1, <2>3, PullType
  <2>4. CASE mounts # 0 /\ ~HasModule(host)
    BY <1>1, <2>1, <2>4, PullType
  <2>5. QED
    BY <2>2, <2>3, <2>4
<1>4. QED
  BY <1>1, <1>2, <1>3

LEMMA SetPciResponseKeeps ==
    ASSUME PciInv, PciAssumption, NEW v \in Responses, SetPciResponse(v)
    PROVE  PciInv'
<1> DEFINE s == SetResponse(session, v)
           h == Offer(host, v)
<1>1. /\ IsWritable(session) /\ ~disposed
      /\ Captured(s, h)
      /\ due' = IF mounts > 0 /\ host.owns THEN due \cup {v} ELSE {v}
      /\ UNCHANGED <<item, scored, mounts, page, loads, alive, disposed>>
  BY DEF SetPciResponse
<1>2. /\ s \in Session /\ s.lifecycle = session.lifecycle /\ s.response = v
  BY PciFacts, SetResponseType
<1>3. /\ h \in PciHost /\ h.open = host.open /\ (HasModule(h) <=> HasModule(host))
      /\ (h.pending => ~HasModule(h))
      /\ host.owns => h = host
      /\ ~host.owns /\ mounts # 0 => h.resp = v /\ (HasModule(host) => h.mod = v)
  BY PciFacts, OfferType
<1> HIDE DEF s, h
<1>4. due' \subseteq Responses /\ v \in due' /\ (mounts > 0 /\ host.owns => due \subseteq due')
  BY <1>1, PciFacts
<1>5. mounts > 0 => h.resp \in due' /\ (HasModule(h) => h.mod \in due')
  BY <1>1, <1>3, <1>4, PciFacts DEF PciInv, AnswersDue
<1>6. s.lifecycle # "closed"
  BY <1>1, <1>2 DEF IsWritable
<1>7. scored' \in Responses \cup {NoScore}
  BY <1>1, PciFacts
<1>8. QED
  BY <1>1, <1>2, <1>3, <1>4, <1>5, <1>6, <1>7, CapturedKeeps

\* An attempt that is ended, submitted or scored, on the host as it is.
LEMMA ScoringKeeps ==
    ASSUME PciInv, PciAssumption, NEW s \in Session, NEW r \in Responses,
           Captured(s, host), s.response = r, scored' = r,
           UNCHANGED <<item, mounts, page, loads, alive, due, disposed>>,
           IsWritable(s) => IsWritable(session),
           r \in {session.response, Pull(host, session.response)}
    PROVE  PciInv'
<1>1. IsWritable(s) /\ ~disposed =>
          /\ s.response \in due'
          /\ mounts > 0 => host.resp \in due' /\ (HasModule(host) => host.mod \in due')
  BY PciFacts DEF PciInv, AnswersDue
<1>2. /\ host \in PciHost /\ (host.pending => ~HasModule(host))
      /\ due' \subseteq Responses /\ scored' \in Responses \cup {NoScore}
  BY PciFacts
<1>3. QED
  BY <1>1, <1>2, CapturedKeeps

LEMMA EndPciAttemptKeeps ==
    ASSUME PciInv, PciAssumption, NEW outcome \in OutcomesFor, NEW validate \in BOOLEAN,
           EndPciAttempt(outcome, validate)
    PROVE  PciInv'
<1> DEFINE s == IF validate THEN SetResponse(session, Pull(host, session.response)) ELSE session
           e == EndAttempt(item, s, outcome)
<1>1. /\ CanEndAttempt(item, s) /\ Captured(e, host) /\ scored' = s.response
      /\ UNCHANGED <<item, mounts, page, loads, alive, due, disposed>>
  BY DEF EndPciAttempt
<1>2. /\ s \in Session /\ s.lifecycle = session.lifecycle
      /\ s.response \in Responses
      /\ s.response \in {session.response, Pull(host, session.response)}
  BY PciFacts, SetResponseType
<1> HIDE DEF s
<1>3. e \in Session /\ e.response = s.response
  BY <1>2, OutcomesForType, EndAttemptType
<1> HIDE DEF e
<1>4. IsWritable(session)
  BY <1>1, <1>2 DEF CanEndAttempt, IsWritable
<1>5. QED
  BY <1>1, <1>2, <1>3, <1>4, ScoringKeeps

LEMMA SubmitPciAttemptKeeps ==
    ASSUME PciInv, PciAssumption, NEW outcome \in OutcomesFor, SubmitPciAttempt(outcome)
    PROVE  PciInv'
<1> DEFINE e == SubmitAttempt(item, session, outcome)
<1>1. /\ IsWritable(session) /\ Captured(e, host) /\ scored' = session.response
      /\ UNCHANGED <<item, mounts, page, loads, alive, due, disposed>>
  BY DEF SubmitPciAttempt, CanSubmitAttempt
<1>2. e \in Session /\ e.response = session.response
  BY PciFacts, OutcomesForType, SubmitAttemptType
<1> HIDE DEF e
<1>3. QED
  BY <1>1, <1>2, PciFacts, ScoringKeeps

LEMMA ScorePciAttemptKeeps ==
    ASSUME PciInv, PciAssumption, NEW outcome \in OutcomesFor, ScorePciAttempt(outcome)
    PROVE  PciInv'
<1> DEFINE e == ScoreAttempt(item, session, outcome)
<1>1. /\ Captured(e, host) /\ scored' = session.response
      /\ UNCHANGED <<item, mounts, page, loads, alive, due, disposed>>
  BY DEF ScorePciAttempt
<1>2. e \in Session /\ e.response = session.response /\ e.lifecycle = session.lifecycle
  BY PciFacts, OutcomesForType, ScoreAttemptType
<1> HIDE DEF e
<1>3. IsWritable(e) => IsWritable(session)
  BY <1>2 DEF IsWritable
<1>4. QED
  BY <1>1, <1>2, <1>3, PciFacts, ScoringKeeps

LEMMA SuspendPciAttemptKeeps ==
    ASSUME PciInv, PciAssumption, SuspendPciAttempt
    PROVE  PciInv'
<1> DEFINE r == SetResponse(session, Pull(host, session.response))
           s == SuspendAttempt(r)
<1>1. Captured(s, host) /\ UNCHANGED <<item, scored, mounts, page, loads, alive, due, disposed>>
  BY DEF SuspendPciAttempt
<1>2. r \in Session
  BY PciFacts, SetResponseType
<1> HIDE DEF r
<1>3. s \in Session /\ s.lifecycle = "suspended"
  BY <1>2 DEF SuspendAttempt, Session, Lifecycles
<1> HIDE DEF s
<1>4. s.lifecycle # "closed" /\ ~IsWritable(s)
  BY <1>3 DEF IsWritable
<1>5. /\ host \in PciHost /\ (host.pending => ~HasModule(host))
      /\ due' \subseteq Responses /\ scored' \in Responses \cup {NoScore}
  BY <1>1, PciFacts
<1>6. QED
  BY <1>1, <1>3, <1>4, <1>5, CapturedKeeps

LEMMA RestoreType ==
    ASSUME NEW h \in PciHost, NEW v \in Responses, PciAssumption
    PROVE  LET o == Restore(h, v)
           IN  mounts # 0 =>
                   /\ o \in PciHost /\ o.open = h.open /\ ~HasModule(o)
                   /\ o.resp = v /\ ~o.owns
<1> SUFFICES ASSUME mounts # 0
             PROVE  /\ Restore(h, v) \in PciHost /\ Restore(h, v).open = h.open
                    /\ ~HasModule(Restore(h, v))
                    /\ Restore(h, v).resp = v /\ ~Restore(h, v).owns
  OBVIOUS
<1>1. CASE HasModule(h)
  <2>1. Restore(h, v) = [h EXCEPT !.resp = v, !.owns = FALSE, !.pending = TRUE, !.mod = NoModule]
    BY <1>1 DEF Restore, PciHost
  <2>2. QED
    BY <2>1 DEF PciHost, HasModule
<1>2. CASE ~HasModule(h)
  <2>1. Restore(h, v) = [h EXCEPT !.resp = v, !.owns = FALSE, !.mod = NoModule]
    BY <1>2 DEF Restore, PciHost
  <2>2. QED
    BY <2>1 DEF PciHost, HasModule
<1>3. QED
  BY <1>1, <1>2

\* A template that is made anew: what was answered is due no more, and the
\* module, if there is one, makes place for a rebuilt one.
LEMMA NewPciTemplateKeeps ==
    ASSUME PciInv, PciAssumption, LifecycleAssumption, NewPciTemplate
    PROVE  PciInv'
<1> DEFINE h == Restore(host, Unanswered)
           l == Load(mounts, TRUE)
<1>1. /\ ~disposed
      /\ Captured(NewTemplate, h)
      /\ scored' = NoScore /\ due' = {Unanswered}
      /\ UNCHANGED <<item, mounts, disposed>>
  BY DEF NewPciTemplate
<1>2. Unanswered \in Responses
  BY DEF LifecycleAssumption
<1>3. /\ NewTemplate \in Session /\ NewTemplate.response = Unanswered
      /\ NewTemplate.lifecycle = "initial"
  BY <1>2 DEF NewTemplate, NewSession, Session, Lifecycles, CompletionStatuses
<1>4. HasModule(host) => mounts # 0
  BY DEF PciInv, HostFirst
<1>5. /\ h \in PciHost /\ h.open = host.open /\ ~HasModule(h)
      /\ mounts > 0 => h.resp = Unanswered
  <2>1. CASE mounts = 0
    BY <1>4, <2>1, PciFacts DEF Restore
  <2>2. CASE mounts # 0
    BY <1>2, <2>2, PciFacts, RestoreType
  <2>3. QED
    BY <2>1, <2>2
<1> HIDE DEF h
<1>6. CASE ~HasModule(host)
  <2>1. UNCHANGED <<loads, alive, page>>
    BY <1>6 DEF NewPciTemplate
  <2>2. NewTemplate.lifecycle # "closed"
    BY <1>3
  <2>3. scored' \in Responses \cup {NoScore} /\ due' \subseteq Responses
    BY <1>1, <1>2
  <2>4. NewTemplate.response \in due' /\ (mounts > 0 => h.resp \in due')
    BY <1>1, <1>3, <1>5
  <2>5. QED
    BY <1>1, <1>3, <1>5, <1>6, <2>1, <2>2, <2>3, <2>4, CapturedKeeps
<1>7. CASE HasModule(host)
  <2>1. loads' = loads \cup {l} /\ alive' = alive - 1 /\ page' = "loading"
    BY <1>7 DEF NewPciTemplate
  <2>2. /\ view' = Unanswered
        /\ session' \in Session /\ session'.lifecycle = "initial"
        /\ session'.response = Pull(h, Unanswered)
        /\ host' \in PciHost /\ host'.open = host.open
        /\ ~HasModule(host')
        /\ host' = h \/ host'.resp = Unanswered
    BY <1>1, <1>3, <1>5, CapturedEffect
  <2>3. mounts \in 1 .. MaxMounts
    BY <1>4, <1>7, PciFacts
  <2>4. Pull(h, Unanswered) = Unanswered /\ host'.resp = Unanswered
    BY <1>2, <1>5, <2>2, <2>3, PullType
  <2>5. l \in [host : 1 .. mounts, path : {"primary", "fallback"}, remount : BOOLEAN]
        /\ l.host = mounts
    BY <2>3 DEF Load
  <2>6. \A m \in loads : m.host # mounts
    BY <1>7 DEF PciInv, OneInstance, LoadsFirst
  <2>7. alive = 1
    BY <1>7 DEF PciInv, OneInstance
  <2>8. PciTypeOK'
    <3>1. loads' \subseteq [host : 1 .. mounts', path : {"primary", "fallback"}, remount : BOOLEAN]
      BY <1>1, <2>1, <2>5 DEF PciInv, PciTypeOK
    <3>2. \A m, n \in loads' : m.host = n.host => m = n
      BY <2>1, <2>5, <2>6 DEF PciInv, PciTypeOK
    <3>3. alive' \in Nat /\ page' \in {"idle", "loading", "ready", "error"}
      BY <2>1, <2>7
    <3>4. view' \in Responses /\ scored' \in Responses \cup {NoScore} /\ due' \subseteq Responses
      BY <1>1, <1>2, <2>2
    <3>5. QED
      BY <1>1, <2>2, <3>1, <3>2, <3>3, <3>4 DEF PciInv, PciTypeOK, PciHost
  <2>9. OneInstance' /\ LoadsFirst' /\ DisposedCloses' /\ HostFirst'
    <3>1. alive' = 0 /\ page' # "ready" /\ ~disposed'
      BY <1>1, <2>1, <2>7
    <3>2. OneInstance'
      BY <2>2, <3>1 DEF OneInstance
    <3>3. LoadsFirst' /\ DisposedCloses' /\ HostFirst'
      BY <2>2, <3>1 DEF LoadsFirst, DisposedCloses, HostFirst
    <3>4. QED
      BY <3>2, <3>3
  <2>10. ClosedViewScored' /\ AnswersDue'
    BY <1>1, <2>2, <2>4 DEF ClosedViewScored, AnswersDue
  <2>11. QED
    BY <2>8, <2>9, <2>10 DEF PciInv
<1>8. QED
  BY <1>6, <1>7

LEMMA SerializePciKeeps ==
    ASSUME PciInv, PciAssumption, SerializePci
    PROVE  PciInv'
<1> DEFINE p == Pull(host, session.response)
<1>1. /\ ~disposed /\ session' = SetResponse(session, p)
      /\ UNCHANGED <<item, view, scored, mounts, host, page, loads, alive, due, disposed>>
  BY DEF SerializePci
<1>2. /\ session' \in Session /\ session'.lifecycle = session.lifecycle
      /\ session'.response = p
  BY <1>1, PciFacts, SetResponseType
<1>3. IsWritable(session) /\ ~disposed => p \in due
  BY PciFacts
<1> HIDE DEF p
<1>4. PciTypeOK'
  BY <1>1, <1>2 DEF PciInv, PciTypeOK, HasModule
<1>5. OneInstance' /\ LoadsFirst' /\ DisposedCloses' /\ HostFirst'
  BY <1>1 DEF PciInv, OneInstance, LoadsFirst, DisposedCloses, HostFirst, HasModule
<1>6. ClosedViewScored' /\ AnswersDue'
  BY <1>1, <1>2, <1>3 DEF PciInv, ClosedViewScored, AnswersDue, IsWritable, HasModule
<1>7. QED
  BY <1>4, <1>5, <1>6 DEF PciInv

LEMMA DestroyedType ==
    ASSUME NEW h \in PciHost
    PROVE  /\ Destroyed(h) \in PciHost
           /\ ~Destroyed(h).open /\ ~HasModule(Destroyed(h))
           /\ Destroyed(h).resp = h.resp
  BY DEF Destroyed, PciHost, HasModule

\* The host is destroyed, by disposal of the session or with its renderer.
LEMMA DestroyKeeps ==
    ASSUME PciInv, PciAssumption,
           host' = Destroyed(host),
           alive' = IF HasModule(host) THEN alive - 1 ELSE alive,
           \/ disposed' = TRUE /\ page' = page
           \/ disposed' = disposed /\ page' = "idle",
           UNCHANGED <<item, session, view, scored, mounts, loads, due>>
    PROVE  PciInv'
<1>1. /\ host' \in PciHost
      /\ ~host'.open /\ ~HasModule(host')
      /\ host'.resp = host.resp
  BY PciFacts, DestroyedType
<1>2. alive' = 0
  BY DEF PciInv, OneInstance
<1>3. PciTypeOK'
  <2>1. disposed' \in BOOLEAN
    BY DEF PciInv, PciTypeOK
  <2>2. page' \in {"idle", "loading", "ready", "error"}
    BY DEF PciInv, PciTypeOK
  <2>3. QED
    BY <1>1, <1>2, <2>1, <2>2 DEF PciInv, PciTypeOK, PciHost
<1>4. OneInstance' /\ LoadsFirst' /\ DisposedCloses' /\ HostFirst'
  BY <1>1, <1>2 DEF OneInstance, LoadsFirst, DisposedCloses, HostFirst
<1>5. ClosedViewScored' /\ AnswersDue'
  BY <1>1 DEF PciInv, ClosedViewScored, AnswersDue
<1>6. QED
  BY <1>3, <1>4, <1>5 DEF PciInv

-----------------------------------------------------------------------------
(* The renderer and the module.                                            *)

LEMMA MountKeeps ==
    ASSUME PciInv, PciAssumption, Mount
    PROVE  PciInv'
<1> DEFINE l == Load(mounts + 1, FALSE)
           Loads(n) == [host : 1 .. n, path : {"primary", "fallback"}, remount : BOOLEAN]
<1>1. /\ ~disposed /\ page = "idle" /\ mounts < MaxMounts
      /\ mounts' = mounts + 1
      /\ host' = Fresh(view)
      /\ page' = "loading"
      /\ loads' = loads \cup {l}
      /\ UNCHANGED <<item, session, view, scored, alive, due, disposed>>
  BY DEF Mount
<1>2. view \in Responses /\ mounts \in Nat /\ MaxMounts \in Nat
  BY DEF PciInv, PciTypeOK, PciAssumption
<1>3. /\ host' \in PciHost /\ ~HasModule(host') /\ host'.resp = view /\ host'.open
      /\ ~host'.pending
  BY <1>1, <1>2 DEF Fresh, PciHost, HasModule
<1>4. alive = 0
  BY <1>1 DEF PciInv, OneInstance
<1>5. PciTypeOK'
  <2>1. l \in Loads(mounts + 1) /\ l.host = mounts + 1
    BY <1>2 DEF Load
  <2>2. loads \subseteq Loads(mounts)
    BY DEF PciInv, PciTypeOK
  <2>3. Loads(mounts) \subseteq Loads(mounts + 1)
    BY <1>2
  <2>4. loads' \subseteq [host : 1 .. mounts', path : {"primary", "fallback"}, remount : BOOLEAN]
    BY <1>1, <2>1, <2>2, <2>3
  <2>5. \A m \in loads : m.host # mounts + 1
    BY <1>2, <2>2
  <2>6. \A m, n \in loads' : m.host = n.host => m = n
    BY <1>1, <2>1, <2>5 DEF PciInv, PciTypeOK
  <2>7. mounts' \in 0 .. MaxMounts
    BY <1>1, <1>2
  <2>8. QED
    BY <1>1, <1>3, <2>4, <2>6, <2>7 DEF PciInv, PciTypeOK, PciHost
<1>6. OneInstance' /\ LoadsFirst' /\ DisposedCloses' /\ HostFirst'
  BY <1>1, <1>3, <1>4 DEF OneInstance, LoadsFirst, DisposedCloses, HostFirst
<1>7. ClosedViewScored' /\ AnswersDue'
  BY <1>1, <1>3 DEF PciInv, ClosedViewScored, AnswersDue
<1>8. QED
  BY <1>5, <1>6, <1>7 DEF PciInv

LEMMA AdoptType ==
    ASSUME NEW h \in PciHost, PciAssumption
    PROVE  /\ Adopt(h) \in PciHost /\ HasModule(Adopt(h)) /\ Adopt(h).open = h.open
           /\ Adopt(h).mod = h.resp /\ Adopt(h).resp = h.resp /\ ~Adopt(h).pending
  BY DEF Adopt, PciHost, HasModule, PciAssumption

LEMMA LoadsLeft ==
    ASSUME PciInv, NEW l \in loads, loads' = loads \ {l}, UNCHANGED mounts
    PROVE  /\ loads' \subseteq [host : 1 .. mounts', path : {"primary", "fallback"},
                               remount : BOOLEAN]
           /\ \A m, n \in loads' : m.host = n.host => m = n
           /\ \A m \in loads' : m.host # l.host
           /\ l.host \in 1 .. mounts
  BY DEF PciInv, PciTypeOK

\* A load that ends too late changes at most what is shown.
LEMMA TooLateKeeps ==
    ASSUME PciInv, NEW l \in loads, loads' = loads \ {l}, ~IsCurrent(l), TooLate(l),
           UNCHANGED <<item, session, view, scored, mounts, due, disposed>>
    PROVE  PciInv'
<1>1. /\ UNCHANGED <<host, alive>>
      /\ page' \in {page, "error"}
      /\ page' # page => l.host = mounts
  BY DEF TooLate
<1>2. page' # page => ~HasModule(host)
  BY <1>1 DEF IsCurrent, PciInv, OneInstance
<1>3. PciTypeOK'
  BY <1>1, LoadsLeft DEF PciInv, PciTypeOK, HasModule
<1>4. OneInstance'
  BY <1>1, <1>2 DEF PciInv, OneInstance, HasModule
<1>5. LoadsFirst' /\ DisposedCloses' /\ HostFirst'
  BY <1>1 DEF PciInv, LoadsFirst, DisposedCloses, HostFirst, HasModule
<1>6. ClosedViewScored' /\ AnswersDue'
  BY <1>1 DEF PciInv, ClosedViewScored, AnswersDue, HasModule, IsWritable
<1>7. QED
  BY <1>3, <1>4, <1>5, <1>6 DEF PciInv

\* A module arrives in time: the host had none, and is still open.
LEMMA ResolvesKeeps ==
    ASSUME PciInv, PciAssumption, NEW l \in loads, Resolves(l)
    PROVE  PciInv'
<1>1. /\ loads' = loads \ {l}
      /\ UNCHANGED <<item, session, view, scored, mounts, due, disposed>>
  BY DEF Resolves
<1>2. CASE ~IsCurrent(l)
  <2>1. TooLate(l)
    BY <1>2 DEF Resolves
  <2>2. QED
    BY <1>1, <1>2, <2>1, TooLateKeeps
<1>3. CASE IsCurrent(l)
  <2>1. host' = Adopt(host) /\ alive' = alive + 1 /\ page' = "ready"
    BY <1>3 DEF Resolves
  <2>2. l.host = mounts /\ host.open /\ ~HasModule(host) /\ ~disposed /\ alive = 0
    BY <1>3 DEF IsCurrent, PciInv, LoadsFirst, DisposedCloses, OneInstance
  <2>3. /\ host' \in PciHost /\ HasModule(host') /\ host'.open
        /\ host'.mod = host.resp /\ host'.resp = host.resp /\ ~host'.pending
    BY <2>1, <2>2, PciFacts, AdoptType
  <2>4. mounts # 0 /\ \A m \in loads' : m.host # mounts
    BY <1>1, <2>2, LoadsLeft, PciFacts
  <2>5. PciTypeOK'
    BY <1>1, <2>1, <2>2, <2>3, LoadsLeft DEF PciInv, PciTypeOK, PciHost
  <2>6. OneInstance' /\ LoadsFirst' /\ DisposedCloses' /\ HostFirst'
    BY <1>1, <2>1, <2>2, <2>3, <2>4 DEF OneInstance, LoadsFirst, DisposedCloses, HostFirst
  <2>7. ClosedViewScored' /\ AnswersDue'
    BY <1>1, <2>3, <2>4 DEF PciInv, ClosedViewScored, AnswersDue
  <2>8. QED
    BY <2>5, <2>6, <2>7 DEF PciInv
<1>4. QED
  BY <1>2, <1>3

LEMMA GivenUpKeeps ==
    ASSUME PciInv, PciAssumption, NEW l \in loads, IsCurrent(l), loads' = loads \ {l},
           NEW h \in PciHost, h.mod = host.mod, h.resp = host.resp, h.open = host.open,
           GivenUp(l, h),
           UNCHANGED <<item, session, view, scored, mounts, due, disposed>>
    PROVE  PciInv'
<1>1. /\ host' \in {h, Destroyed(h)} /\ page' = "error" /\ alive' = alive
  BY DEF GivenUp
<1>2. l.host = mounts /\ host.open /\ ~HasModule(host) /\ ~disposed /\ alive = 0
  BY DEF IsCurrent, PciInv, LoadsFirst, DisposedCloses, OneInstance
<1>3. ~HasModule(h)
  BY <1>2 DEF HasModule
<1>4. host' \in PciHost /\ ~HasModule(host') /\ host'.resp = host.resp
  BY <1>1, <1>3, DestroyedType
<1>5. PciTypeOK'
  BY <1>1, <1>2, <1>4, LoadsLeft DEF PciInv, PciTypeOK, PciHost
<1>6. OneInstance' /\ LoadsFirst' /\ DisposedCloses' /\ HostFirst'
  BY <1>1, <1>2, <1>4 DEF OneInstance, LoadsFirst, DisposedCloses, HostFirst
<1>7. ClosedViewScored' /\ AnswersDue'
  BY <1>4 DEF PciInv, ClosedViewScored, AnswersDue
<1>8. QED
  BY <1>5, <1>6, <1>7 DEF PciInv

LEMMA FailsKeeps ==
    ASSUME PciInv, PciAssumption, NEW l \in loads, Fails(l)
    PROVE  PciInv'
<1> DEFINE f == [l EXCEPT !.path = "fallback"]
<1>1. UNCHANGED <<item, session, view, scored, mounts, due, disposed>>
  BY DEF Fails
<1>2. l \in [host : 1 .. mounts, path : {"primary", "fallback"}, remount : BOOLEAN]
  BY DEF PciInv, PciTypeOK
<1>3. CASE IsCurrent(l) /\ l.path = "primary"
  <2>1. loads' = (loads \ {l}) \cup {f} /\ UNCHANGED <<host, page, alive>>
    BY <1>3 DEF Fails
  <2>2. /\ f \in [host : 1 .. mounts, path : {"primary", "fallback"}, remount : BOOLEAN]
        /\ f.host = l.host
    BY <1>2
  <2>3. \A m \in loads \ {l} : m.host # l.host
    BY DEF PciInv, PciTypeOK
  <2>4. /\ loads' \subseteq [host : 1 .. mounts', path : {"primary", "fallback"},
                            remount : BOOLEAN]
        /\ \A m, n \in loads' : m.host = n.host => m = n
    BY <1>1, <2>1, <2>2, <2>3 DEF PciInv, PciTypeOK
  <2>5. PciTypeOK'
    BY <1>1, <2>1, <2>4 DEF PciInv, PciTypeOK, HasModule
  <2>6. OneInstance' /\ LoadsFirst' /\ DisposedCloses' /\ HostFirst'
    BY <1>1, <2>1, <2>2
       DEF PciInv, OneInstance, LoadsFirst, DisposedCloses, HostFirst, HasModule
  <2>7. ClosedViewScored' /\ AnswersDue'
    BY <1>1, <2>1 DEF PciInv, ClosedViewScored, AnswersDue, HasModule, IsWritable
  <2>8. QED
    BY <2>5, <2>6, <2>7 DEF PciInv
<1>4. CASE IsCurrent(l) /\ l.path = "fallback"
  <2>1. loads' = loads \ {l} /\ GivenUp(l, host)
    BY <1>4 DEF Fails
  <2>2. QED
    BY <1>1, <1>4, <2>1, PciFacts, GivenUpKeeps
<1>5. CASE ~IsCurrent(l)
  <2>1. loads' = loads \ {l} /\ TooLate(l)
    BY <1>5 DEF Fails
  <2>2. QED
    BY <1>1, <1>5, <2>1, TooLateKeeps
<1>6. QED
  BY <1>2, <1>3, <1>4, <1>5

LEMMA FailsToInitializeKeeps ==
    ASSUME PciInv, PciAssumption, NEW l \in loads, FailsToInitialize(l)
    PROVE  PciInv'
<1> DEFINE h == [host EXCEPT !.owns = FALSE]
<1>1. /\ IsCurrent(l) /\ loads' = loads \ {l} /\ GivenUp(l, h)
      /\ UNCHANGED <<item, session, view, scored, mounts, due, disposed>>
  BY DEF FailsToInitialize
<1>2. h \in PciHost /\ h.mod = host.mod /\ h.resp = host.resp /\ h.open = host.open
  BY PciFacts DEF PciHost
<1> HIDE DEF h
<1>3. QED
  BY <1>1, <1>2, GivenUpKeeps

LEMMA TypeKeeps ==
    ASSUME PciInv, PciAssumption, NEW v \in Responses, Type(v)
    PROVE  PciInv'
<1>1. /\ HasModule(host) /\ host' = [host EXCEPT !.mod = v]
      /\ due' = due \cup {v}
      /\ UNCHANGED <<item, session, view, scored, mounts, page, loads, alive, disposed>>
  BY DEF Type
<1>2. /\ host' \in PciHost /\ HasModule(host') /\ host'.mod = v
      /\ host'.open = host.open /\ host'.resp = host.resp /\ host'.pending = host.pending
  BY <1>1, PciFacts DEF PciHost, HasModule, PciAssumption
<1>3. PciTypeOK'
  BY <1>1, <1>2 DEF PciInv, PciTypeOK, PciHost
<1>4. OneInstance' /\ LoadsFirst' /\ DisposedCloses' /\ HostFirst'
  BY <1>1, <1>2 DEF PciInv, OneInstance, LoadsFirst, DisposedCloses, HostFirst
<1>5. ClosedViewScored' /\ AnswersDue'
  BY <1>1, <1>2 DEF PciInv, ClosedViewScored, AnswersDue, IsWritable
<1>6. QED
  BY <1>3, <1>4, <1>5 DEF PciInv

LEMMA ReportKeeps ==
    ASSUME PciInv, PciAssumption, Report
    PROVE  PciInv'
<1> DEFINE h == [host EXCEPT !.resp = host.mod, !.owns = TRUE, !.pending = FALSE]
           s == SetResponse(session, host.mod)
<1>1. /\ HasModule(host)
      /\ due' = {host.mod}
      /\ UNCHANGED <<item, scored, mounts, page, loads, alive, disposed>>
  BY DEF Report
<1>2. host.mod \in Responses
  BY <1>1, PciFacts DEF PciHost, HasModule
<1>3. /\ h \in PciHost /\ h.mod = host.mod /\ h.resp = host.mod /\ h.open = host.open
      /\ ~h.pending /\ (HasModule(h) <=> HasModule(host))
  BY <1>2, PciFacts DEF PciHost, HasModule
<1>4. CASE IsWritable(session)
  <2>1. Captured(s, h)
    BY <1>4 DEF Report
  <2>2. s \in Session /\ s.lifecycle = session.lifecycle /\ s.response = host.mod
    BY <1>2, PciFacts, SetResponseType
  <2> HIDE DEF s, h
  <2>3. s.lifecycle # "closed"
    BY <1>4, <2>2 DEF IsWritable
  <2>4. due' \subseteq Responses /\ scored' \in Responses \cup {NoScore}
    BY <1>1, <1>2, PciFacts
  <2>5. s.response \in due' /\ h.resp \in due' /\ h.mod \in due'
    BY <1>1, <1>3, <2>2
  <2>6. QED
    BY <1>1, <1>3, <2>1, <2>2, <2>3, <2>4, <2>5, CapturedKeeps
<1>5. CASE ~IsWritable(session)
  <2>1. host' = h /\ UNCHANGED <<session, view>>
    BY <1>5 DEF Report
  <2> HIDE DEF h
  <2>2. PciTypeOK'
    BY <1>1, <1>2, <1>3, <2>1 DEF PciInv, PciTypeOK, PciHost
  <2>3. OneInstance' /\ LoadsFirst' /\ DisposedCloses' /\ HostFirst'
    BY <1>1, <1>3, <2>1 DEF PciInv, OneInstance, LoadsFirst, DisposedCloses, HostFirst
  <2>4. ClosedViewScored' /\ AnswersDue'
    BY <1>1, <1>5, <2>1 DEF PciInv, ClosedViewScored, AnswersDue, IsWritable
  <2>5. QED
    BY <2>2, <2>3, <2>4 DEF PciInv
<1>6. QED
  BY <1>4, <1>5

-----------------------------------------------------------------------------
(* The theorems.                                                           *)

\* Session, host, loads and modules of a portable custom interaction go
\* together.
THEOREM PciInvariant == PciSpec => []PciInv
<1> USE PciAssumption, LifecycleAssumption
<1>1. PciInit => PciInv
  <2> SUFFICES ASSUME PciInit PROVE PciInv
    OBVIOUS
  <2>1. Unanswered \in Responses
    BY DEF LifecycleAssumption
  <2>2. session \in Session /\ session.lifecycle = "initial" /\ session.response = Unanswered
    BY <2>1 DEF PciInit, NewSession, Session, Lifecycles, CompletionStatuses
  <2>3. host \in PciHost /\ ~HasModule(host) /\ ~host.pending
    BY <2>1 DEF PciInit, Fresh, PciHost, HasModule
  <2>4. mounts = 0 /\ mounts \in 0 .. MaxMounts
    BY DEF PciInit, PciAssumption
  <2>5. PciTypeOK
    BY <2>1, <2>2, <2>3, <2>4 DEF PciInit, PciTypeOK, PciHost
  <2>6. OneInstance /\ LoadsFirst /\ DisposedCloses /\ HostFirst
    BY <2>3 DEF PciInit, OneInstance, LoadsFirst, DisposedCloses, HostFirst
  <2>7. ClosedViewScored /\ AnswersDue
    BY <2>2, <2>4 DEF PciInit, ClosedViewScored, AnswersDue
  <2>8. QED
    BY <2>5, <2>6, <2>7 DEF PciInv
<1>2. PciInv /\ [PciNext]_pciVars => PciInv'
  <2> SUFFICES ASSUME PciInv, [PciNext]_pciVars
               PROVE  PciInv'
    OBVIOUS
  <2>1. ASSUME NEW v \in Responses, SetPciResponse(v) \/ Type(v) PROVE PciInv'
    BY <2>1, SetPciResponseKeeps, TypeKeeps
  <2>2. ASSUME NEW o \in OutcomesFor, NEW validate \in BOOLEAN, EndPciAttempt(o, validate)
        PROVE  PciInv'
    BY <2>2, EndPciAttemptKeeps
  <2>3. ASSUME NEW o \in OutcomesFor, SubmitPciAttempt(o) \/ ScorePciAttempt(o) PROVE PciInv'
    BY <2>3, SubmitPciAttemptKeeps, ScorePciAttemptKeeps
  <2>4. CASE SuspendPciAttempt \/ NewPciTemplate \/ SerializePci
    BY <2>4, SuspendPciAttemptKeeps, NewPciTemplateKeeps, SerializePciKeeps
  <2>5. CASE DisposePci
    BY <2>5, DestroyKeeps DEF DisposePci
  <2>6. CASE Unmount
    BY <2>6, DestroyKeeps DEF Unmount
  <2>7. CASE Mount
    BY <2>7, MountKeeps
  <2>8. CASE LoadSettles
    BY <2>8, ResolvesKeeps, FailsKeeps, FailsToInitializeKeeps DEF LoadSettles
  <2>9. CASE Report
    BY <2>9, ReportKeeps
  <2>10. CASE UNCHANGED pciVars
    BY <2>10 DEF pciVars, PciInv, PciTypeOK, OneInstance, LoadsFirst, DisposedCloses, HostFirst,
                 ClosedViewScored, AnswersDue, HasModule, IsWritable
  <2>11. QED
    BY <2>1, <2>2, <2>3, <2>4, <2>5, <2>6, <2>7, <2>8, <2>9, <2>10 DEF PciNext
<1>3. QED
  BY <1>1, <1>2, PTL DEF PciSpec

\* Type correctness of the portable custom interaction.
THEOREM PciTypeCorrect == PciSpec => []PciTypeOK
<1>1. PciInv => PciTypeOK
  BY DEF PciInv
<1>2. QED
  BY <1>1, PciInvariant, PTL

\* For any number of hosts, loads and attempts: no module outlives its host, and
\* no two exist at once.
THEOREM OneInstanceCorrect == PciSpec => []OneInstance
<1>1. PciInv => OneInstance
  BY DEF PciInv
<1>2. QED
  BY <1>1, PciInvariant, PTL

\* While the candidate may answer, the answer that the session would take from
\* the host is one that nothing has superseded.
THEOREM AnswerIsCurrentCorrect == PciSpec => []AnswerIsCurrent
<1>1. PciInv => AnswerIsCurrent
  BY PciAssumption, PciFacts DEF AnswerIsCurrent
<1>2. QED
  BY <1>1, PciInvariant, PTL

\* What is shown of a closed session is what its outcomes were computed from.
THEOREM ClosedViewScoredCorrect == PciSpec => []ClosedViewScored
<1>1. PciInv => ClosedViewScored
  BY DEF PciInv
<1>2. QED
  BY <1>1, PciInvariant, PTL

\* In a step that is not the candidate's, the answer of a module that has
\* reported one changes only with the module.
LEMMA OwnedAnswerStays ==
    ASSUME PciInv, PciAssumption, LifecycleAssumption, [PciNext]_pciVars,
           HasModule(host), HasModule(host'), host.owns,
           ~ \E v \in Responses : Type(v)
    PROVE  host'.mod = host.mod
<1>1. ASSUME NEW s \in Session, Captured(s, host) PROVE host'.mod = host.mod
  BY <1>1, PciFacts, CapturedEffect
<1>2. ASSUME NEW v \in Responses, SetPciResponse(v) PROVE host'.mod = host.mod
  <2>1. SetResponse(session, v) \in Session
    BY PciFacts, SetResponseType
  <2>2. Offer(host, v) = host
    BY DEF Offer
  <2>3. Captured(SetResponse(session, v), host)
    BY <1>2, <2>2 DEF SetPciResponse
  <2>4. QED
    BY <1>1, <2>1, <2>3
<1>3. ASSUME NEW o \in OutcomesFor, NEW validate \in BOOLEAN, EndPciAttempt(o, validate)
      PROVE  host'.mod = host.mod
  <2> DEFINE s == IF validate THEN SetResponse(session, Pull(host, session.response))
                  ELSE session
  <2>1. s \in Session
    BY PciFacts, SetResponseType
  <2>2. Captured(EndAttempt(item, s, o), host)
    BY <1>3 DEF EndPciAttempt
  <2> HIDE DEF s
  <2>3. EndAttempt(item, s, o) \in Session
    BY <2>1, OutcomesForType, EndAttemptType
  <2>4. QED
    BY <1>1, <2>2, <2>3
<1>4. ASSUME NEW o \in OutcomesFor, SubmitPciAttempt(o) PROVE host'.mod = host.mod
  <2>1. SubmitAttempt(item, session, o) \in Session
    BY PciFacts, OutcomesForType, SubmitAttemptType
  <2>2. QED
    BY <1>1, <1>4, <2>1 DEF SubmitPciAttempt
<1>5. ASSUME NEW o \in OutcomesFor, ScorePciAttempt(o) PROVE host'.mod = host.mod
  <2>1. ScoreAttempt(item, session, o) \in Session
    BY PciFacts, OutcomesForType, ScoreAttemptType
  <2>2. QED
    BY <1>1, <1>5, <2>1 DEF ScorePciAttempt
<1>6. CASE SuspendPciAttempt
  <2> DEFINE r == SetResponse(session, Pull(host, session.response))
  <2>1. r \in Session
    BY PciFacts, SetResponseType
  <2>2. Captured(SuspendAttempt(r), host)
    BY <1>6 DEF SuspendPciAttempt
  <2> HIDE DEF r
  <2>3. SuspendAttempt(r) \in Session
    BY <2>1 DEF SuspendAttempt, Session, Lifecycles
  <2>4. QED
    BY <1>1, <2>2, <2>3
<1>7. CASE NewPciTemplate
  <2> DEFINE h == Restore(host, Unanswered)
  <2>1. Captured(NewTemplate, h)
    BY <1>7 DEF NewPciTemplate
  <2>2. Unanswered \in Responses /\ mounts # 0
    BY DEF LifecycleAssumption, PciInv, HostFirst
  <2>3. NewTemplate \in Session
    BY <2>2 DEF NewTemplate, NewSession, Session, Lifecycles, CompletionStatuses
  <2>4. h \in PciHost /\ ~HasModule(h)
    BY <2>2, PciFacts, RestoreType
  <2> HIDE DEF h
  <2>5. ~HasModule(host')
    BY <2>1, <2>3, <2>4, CapturedEffect
  <2>6. QED
    BY <2>5
<1>8. CASE SerializePci
  BY <1>8 DEF SerializePci
<1>9. CASE DisposePci \/ Unmount
  BY <1>9, PciFacts, DestroyedType DEF DisposePci, Unmount
<1>10. CASE Mount
  BY <1>10 DEF Mount, PciInv, OneInstance
<1>11. ASSUME NEW l \in loads, Resolves(l) \/ Fails(l) \/ FailsToInitialize(l)
       PROVE  host'.mod = host.mod
  <2>1. ~IsCurrent(l)
    BY DEF IsCurrent, PciInv, LoadsFirst
  <2>2. host' = host
    BY <1>11, <2>1 DEF Resolves, Fails, FailsToInitialize, TooLate
  <2>3. QED
    BY <2>2
<1>12. CASE Report
  <2> DEFINE h == [host EXCEPT !.resp = host.mod, !.owns = TRUE, !.pending = FALSE]
  <2>1. h \in PciHost /\ h.mod = host.mod /\ h.owns /\ ~h.pending
    BY PciFacts DEF PciHost, HasModule
  <2>2. CASE IsWritable(session)
    <3>1. SetResponse(session, host.mod) \in Session
      BY PciFacts, SetResponseType DEF PciHost, HasModule
    <3>2. Captured(SetResponse(session, host.mod), h)
      BY <1>12, <2>2 DEF Report
    <3> HIDE DEF h
    <3>3. host' = h
      BY <2>1, <3>1, <3>2, CapturedEffect
    <3>4. QED
      BY <2>1, <3>3
  <2>3. CASE ~IsWritable(session)
    <3>1. host' = h
      BY <1>12, <2>3 DEF Report
    <3>2. QED
      BY <2>1, <3>1
  <2>4. QED
    BY <2>2, <2>3
<1>13. CASE UNCHANGED pciVars
  BY <1>13 DEF pciVars
<1>14. QED
  BY <1>2, <1>3, <1>4, <1>5, <1>6, <1>7, <1>8, <1>9, <1>10, <1>11, <1>12, <1>13
     DEF PciNext, LoadSettles

\* A module that has reported is never handed a value, not even its own.
THEOREM NotEchoedCorrect == PciSpec => NotEchoed
<1>1. PciInv /\ [PciNext]_pciVars =>
          [HasModule(host) /\ HasModule(host') /\ host.owns /\ host'.mod # host.mod
              => \E v \in Responses : Type(v)]_pciVars
  BY PciAssumption, LifecycleAssumption, OwnedAnswerStays
<1>2. QED
  BY <1>1, PciInvariant, PTL DEF PciSpec, NotEchoed

-----------------------------------------------------------------------------
(* PairResponses                                                           *)

\* Every action leaves the pairs alone, takes some away, or places a label, or
\* in gapMatch any text, that may be placed.
Places(text, gap) ==
    /\ kind # "gapMatch" => text \in Labels
    /\ MayMatch(text, gap)
    /\ pairs' = Placed(text, gap)

LEMMA StepOfPairs ==
    ASSUME PairTypeOK, [PairNext]_pairVars
    PROVE  /\ kind' = kind
           /\ \/ pairs' \subseteq pairs
              \/ \E text \in Texts, gap \in Gaps : Places(text, gap)
<1>1. ASSUME NEW text \in Texts, NEW gap \in Gaps, Drop(text, gap)
      PROVE  kind' = kind /\ Places(text, gap)
    BY <1>1 DEF Drop, Changes, Places
<1>2. ASSUME NEW label \in Labels, PickUp(label) \/ ClearLabel(label)
      PROVE  kind' = kind /\ pairs' \subseteq pairs
    BY <1>2 DEF PickUp, ClearLabel, Changes
<1>3. ASSUME NEW gap \in Gaps, PutDown(gap)
      PROVE  kind' = kind /\ Places(pickedUp, gap) /\ pickedUp \in Texts
    BY <1>3 DEF PutDown, Changes, Places, PairTypeOK, Texts
<1>4. ASSUME NEW gap \in Gaps, Refuse(gap) \/ ClearGap(gap)
      PROVE  kind' = kind /\ pairs' \subseteq pairs
    BY <1>4 DEF Refuse, ClearGap, Changes
<1>5. ASSUME Escape \/ ResetPairs \/ UNCHANGED pairVars
      PROVE  kind' = kind /\ pairs' \subseteq pairs
    BY <1>5 DEF Escape, ResetPairs, pairVars
<1>6. QED
    BY <1>1, <1>2, <1>3, <1>4, <1>5 DEF PairNext

\* What a component makes of the pairs: the new pair, and old ones of other
\* gaps, as far as they are left.
LEMMA PlacedIsNarrow ==
    ASSUME NEW text, NEW gap
    PROVE  Placed(text, gap) \subseteq (pairs \ AtGap(pairs, gap)) \cup {<<text, gap>>}
BY DEF Placed, GapChanged, HotspotChanged, CreateOrUpdatePair

LEMMA PairTypePreserved == PairTypeOK /\ [PairNext]_pairVars => PairTypeOK'
<1> SUFFICES ASSUME PairTypeOK, [PairNext]_pairVars PROVE PairTypeOK'
    OBVIOUS
<1> DEFINE Own == IF kind = "gapMatch" THEN Texts ELSE Labels
<1>1. pairs' \subseteq Own \X Gaps
    <2>1. CASE pairs' \subseteq pairs
        BY <2>1 DEF PairTypeOK
    <2>2. ASSUME NEW text \in Texts, NEW gap \in Gaps, Places(text, gap)
          PROVE  pairs' \subseteq Own \X Gaps
        <3>1. text \in Own
            BY <2>2 DEF Places
        <3>2. pairs' \subseteq pairs \cup {<<text, gap>>}
            BY <2>2, PlacedIsNarrow DEF Places
        <3>3. pairs \subseteq Own \X Gaps
            BY DEF PairTypeOK
        <3> HIDE DEF Own
        <3>4. QED BY <3>1, <3>2, <3>3
    <2>3. QED BY <2>1, <2>2, StepOfPairs
<1>2. pickedUp' \in Labels \cup {NoLabel} /\ follows' \in BOOLEAN
    BY DEF PairTypeOK, PairNext, pairVars, Drop, PickUp, ClearLabel, PutDown, Refuse, ClearGap,
           Escape, ResetPairs, Changes
<1>3. QED BY <1>1, <1>2, StepOfPairs DEF PairTypeOK

\* The pairs of graphicGapMatch and match are of their labels and gaps, those
\* of gapMatch of its blanks and any text, since it takes every text dropped.
THEOREM PairTypeCorrect == PairSpec => []PairTypeOK
<1>1. PairInit => PairTypeOK
    BY DEF PairInit, PairTypeOK
<1>2. QED BY <1>1, PairTypePreserved, PTL DEF PairSpec

LEMMA OneLabelPreserved ==
    ASSUME PairTypeOK, OneLabelPerGap, [PairNext]_pairVars
    PROVE  OneLabelPerGap'
<1>1. CASE pairs' \subseteq pairs
    BY <1>1 DEF OneLabelPerGap
<1>2. ASSUME NEW text \in Texts, NEW gap \in Gaps, Places(text, gap)
      PROVE  OneLabelPerGap'
    <2>1. pairs' \subseteq (pairs \ AtGap(pairs, gap)) \cup {<<text, gap>>}
        BY <1>2, PlacedIsNarrow DEF Places
    <2>2. QED BY <2>1 DEF OneLabelPerGap, AtGap
<1>3. QED BY <1>1, <1>2, StepOfPairs

\* No gap ever holds two labels, and no blank two texts: not in any of the three
\* interactions, however dragging and the keys alternate.
THEOREM OneLabelPerGapCorrect == PairSpec => []OneLabelPerGap
<1>1. PairInit => OneLabelPerGap
    BY DEF PairInit, OneLabelPerGap
<1>2. PairTypeOK /\ OneLabelPerGap /\ [PairNext]_pairVars => OneLabelPerGap'
    BY OneLabelPreserved
<1>3. QED BY <1>1, <1>2, PairTypeCorrect, PTL DEF PairSpec

\* The blanks of a word in a set of pairs, without the texts that begin with it.
Blanks(ps, label) == {g \in Gaps : <<label, g>> \in ps}

LEMMA FewerBlanks ==
    ASSUME NEW A, NEW B \in SUBSET Gaps, A \subseteq B
    PROVE  Cardinality(A) \in Nat /\ Cardinality(B) \in Nat /\ Cardinality(A) <= Cardinality(B)
<1>1. IsFiniteSet(B) /\ IsFiniteSet(A)
    BY PairAssumption, FS_Subset
<1>2. QED BY <1>1, FS_Subset, FS_CardinalityType

\* handleGapChange keeps every word within its limit.  The pairs it counts are
\* those that begin with the word, at least those of the word itself.
LEMMA GapChangedWithinLimits ==
    ASSUME NEW text \in Texts, NEW gap \in Gaps, NEW l \in Labels, MatchMax[l] > 0,
           Cardinality(Blanks(pairs, l)) <= MatchMax[l]
    PROVE  Cardinality(Blanks(GapChanged(text, gap), l)) <= MatchMax[l]
<1> DEFINE rest == pairs \ AtGap(pairs, gap)
           full == MaxOf(text) = 1 \/ (MaxOf(text) > 0 /\ Uses(rest, text) >= MaxOf(text))
           kept == IF full THEN rest \ OfLabel(rest, text) ELSE rest
<1>1. GapChanged(text, gap) = kept \cup {<<text, gap>>}
    BY DEF GapChanged
<1>2. MatchMax[l] \in Nat /\ MatchMax[l] >= 1
    BY PairAssumption
<1>3. CASE l # text
    <2>1. Blanks(kept \cup {<<text, gap>>}, l) \subseteq Blanks(pairs, l)
        BY <1>3 DEF Blanks
    <2>2. Blanks(pairs, l) \subseteq Gaps
        BY DEF Blanks
    <2>3. Blanks(GapChanged(text, gap), l) \subseteq Blanks(pairs, l)
        BY <2>1, <1>1
    <2> HIDE DEF rest, full, kept
    <2>4. /\ Cardinality(Blanks(GapChanged(text, gap), l)) \in Nat
          /\ Cardinality(Blanks(pairs, l)) \in Nat
          /\ Cardinality(Blanks(GapChanged(text, gap), l)) <= Cardinality(Blanks(pairs, l))
        BY <2>2, <2>3, FewerBlanks
    <2>5. QED BY <2>4, <1>2
<1>4. CASE l = text /\ full
    <2>1. Blanks(kept \cup {<<text, gap>>}, l) = {gap}
        BY <1>4 DEF Blanks, OfLabel, BeginsWith
    <2>2. QED BY <2>1, <1>1, <1>2, FS_Singleton
<1>5. CASE l = text /\ ~full
    <2>1. Blanks(kept \cup {<<text, gap>>}, l) = Blanks(rest, l) \cup {gap}
        BY <1>5 DEF Blanks
    <2>2. gap \notin Blanks(rest, l) /\ Blanks(rest, l) \subseteq GapsOf(rest, l)
        BY DEF Blanks, GapsOf, OfLabel, AtGap, BeginsWith
    <2>3. Blanks(rest, l) \in SUBSET Gaps /\ GapsOf(rest, l) \in SUBSET Gaps
        BY DEF Blanks, GapsOf
    <2>4. Cardinality(Blanks(GapChanged(text, gap), l)) = Cardinality(Blanks(rest, l)) + 1
        <3>1. IsFiniteSet(Blanks(rest, l))
            BY <2>3, PairAssumption, FS_Subset
        <3> HIDE DEF rest, kept
        <3>2. QED BY <3>1, <2>1, <2>2, <1>1, FS_AddElement
    <2>5. /\ Cardinality(Blanks(rest, l)) \in Nat /\ Uses(rest, l) \in Nat
          /\ Cardinality(Blanks(rest, l)) <= Uses(rest, l)
        <3> HIDE DEF rest
        <3>1. QED BY <2>2, <2>3, FewerBlanks DEF Uses
    <2>6. Uses(rest, l) < MatchMax[l]
        BY <1>5, <1>2, <2>5 DEF MaxOf
    <2> HIDE DEF rest
    <2>7. QED BY <2>4, <2>5, <2>6, <1>2
<1>6. QED BY <1>3, <1>4, <1>5

LEMMA UsesPreserved ==
    ASSUME PairTypeOK, UsesWithinLimits, [PairNext]_pairVars
    PROVE  UsesWithinLimits'
<1>1. kind' = kind /\ kind \in {"gapMatch", "graphicGapMatch", "match"}
    BY StepOfPairs, PairAssumption DEF PairTypeOK
<1>2. \A l \in Labels : Holding(l) = Blanks(pairs, l) /\ Holding(l)' = Blanks(pairs', l)
    BY DEF Holding, Blanks
<1>3. CASE pairs' \subseteq pairs
    <2>1. ASSUME NEW l \in Labels
          PROVE  Blanks(pairs', l) \subseteq Blanks(pairs, l) /\ Blanks(pairs, l) \subseteq Gaps
        BY <1>3 DEF Blanks
    <2>2. ASSUME NEW l \in Labels, kind = "gapMatch", MatchMax[l] > 0
          PROVE  Cardinality(Blanks(pairs', l)) <= MatchMax[l]
        <3>1. Cardinality(Blanks(pairs, l)) <= MatchMax[l]
            BY <2>2, <1>2 DEF UsesWithinLimits
        <3>2. MatchMax[l] \in Nat
            BY PairAssumption
        <3>3. QED BY <2>1, <3>1, <3>2, FewerBlanks
    <2>3. QED BY <1>1, <1>2, <2>1, <2>2 DEF UsesWithinLimits
<1>4. ASSUME NEW text \in Texts, NEW gap \in Gaps, Places(text, gap)
      PROVE  UsesWithinLimits'
    <2>1. CASE kind = "gapMatch"
        <3>1. pairs' = GapChanged(text, gap)
            BY <1>4, <2>1 DEF Places, Placed
        <3>2. \A l \in Labels : MatchMax[l] > 0 => Cardinality(Blanks(pairs, l)) <= MatchMax[l]
            BY <2>1, <1>2 DEF UsesWithinLimits
        <3>3. \A l \in Labels :
                  MatchMax[l] > 0 => Cardinality(Blanks(pairs', l)) <= MatchMax[l]
            BY <3>1, <3>2, GapChangedWithinLimits
        <3>4. QED BY <3>3, <1>1, <1>2, <2>1 DEF UsesWithinLimits
    <2>2. CASE kind = "graphicGapMatch"
        <3>1. pairs' = HotspotChanged(text, gap)
            BY <1>4, <2>2 DEF Places, Placed
        <3>2. QED
            BY <3>1, <1>1, <2>2
               DEF UsesWithinLimits, Holding, HotspotChanged, OfLabel, AtGap, BeginsWith
    <2>3. CASE kind = "match"
        BY <1>1, <2>3 DEF UsesWithinLimits
    <2>4. QED BY <1>1, <2>1, <2>2, <2>3
<1>5. QED BY <1>3, <1>4, StepOfPairs

\* No word is in more blanks than its matchMax, and no label on two hotspots,
\* also if it was picked up while it was free and is put down when it is not,
\* or is dropped on a blank from elsewhere.
THEOREM UsesWithinLimitsCorrect == PairSpec => []UsesWithinLimits
<1>1. PairInit => UsesWithinLimits
    <2> SUFFICES ASSUME PairInit PROVE UsesWithinLimits
        OBVIOUS
    <2>1. ASSUME NEW l \in Labels
          PROVE  Holding(l) = {} /\ Cardinality(Holding(l)) = 0 /\ MatchMax[l] \in Nat
        <3>1. Holding(l) = {}
            BY DEF PairInit, Holding
        <3>2. QED BY <3>1, FS_EmptySet, PairAssumption
    <2>2. QED BY <2>1 DEF UsesWithinLimits
<1>2. PairTypeOK /\ UsesWithinLimits /\ [PairNext]_pairVars => UsesWithinLimits'
    BY UsesPreserved
<1>3. QED BY <1>1, <1>2, PairTypeCorrect, PTL DEF PairSpec

LEMMA CompatiblePreserved ==
    ASSUME PairTypeOK, MatchesCompatible, [PairNext]_pairVars
    PROVE  MatchesCompatible'
<1>1. CASE pairs' \subseteq pairs
    BY <1>1, StepOfPairs DEF MatchesCompatible, Compatible
<1>2. ASSUME NEW text \in Texts, NEW gap \in Gaps, Places(text, gap)
      PROVE  MatchesCompatible'
    <2>1. pairs' \subseteq pairs \cup {<<text, gap>>}
        BY <1>2, PlacedIsNarrow DEF Places
    <2>2. kind = "match" => Compatible(text, gap)
        BY <1>2 DEF Places, MayMatch
    <2>3. QED BY <2>1, <2>2, StepOfPairs DEF MatchesCompatible, Compatible
<1>3. QED BY <1>1, <1>2, StepOfPairs

\* A match never pairs a source with a target of other groups.
THEOREM MatchesCompatibleCorrect == PairSpec => []MatchesCompatible
<1>1. PairInit => MatchesCompatible
    BY DEF PairInit, MatchesCompatible
<1>2. PairTypeOK /\ MatchesCompatible /\ [PairNext]_pairVars => MatchesCompatible'
    BY CompatiblePreserved
<1>3. QED BY <1>1, <1>2, PairTypeCorrect, PTL DEF PairSpec
=============================================================================
