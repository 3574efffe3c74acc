--------------------------- MODULE IFrameHandshake --------------------------
(***************************************************************************)
(* IFramePlayerHost: the page that embeds a player runtime in an iframe.   *)
(* The runtime posts messages; the first valid one locks its origin, READY *)
(* settles the promise that every command of the host waits for, and a     *)
(* timeout rejects it.  The runtime is outside the repository: it may load *)
(* on any origin, post in any order, fail, or say nothing.                 *)
(***************************************************************************)
EXTENDS Naturals, Sequences

CONSTANTS
    AllowedOrigins,  \* allowedOrigins of the configuration
    OtherOrigins,    \* origins the iframe may also be on
    NoOrigin,        \* no origin is locked
    MaxMessages,     \* bound: messages on their way
    MaxCommands      \* bound: commands the page gives

ASSUME HandshakeAssumption ==
    /\ AllowedOrigins # {}
    /\ AllowedOrigins \cap OtherOrigins = {}
    /\ NoOrigin \notin AllowedOrigins \cup OtherOrigins
    /\ MaxMessages \in Nat /\ MaxCommands \in Nat

VARIABLES
    inbox,    \* messages from the iframe, not yet received
    locked,   \* lockedOrigin
    ready,    \* pendingReady: "pending", "rejected" or the origin of READY
    elapsed,  \* whether the timeout has fired
    gone,     \* destroyed
    waiting,  \* commands that wait for pendingReady, in order
    given,    \* how many commands were given
    posted    \* what was posted: commands with their target origin

frameVars == <<inbox, locked, ready, elapsed, gone, waiting, given, posted>>

Origins == AllowedOrigins \cup OtherOrigins
Messages == [type : {"READY", "EVENT"}, origin : Origins]

FrameInit ==
    /\ inbox = <<>>
    /\ locked = NoOrigin
    /\ ready = "pending"
    /\ elapsed = FALSE
    /\ gone = FALSE
    /\ waiting = <<>>
    /\ given = 0
    /\ posted = <<>>

\* The runtime posts READY, or one of RESIZE, RESPONSE_CHANGE, SUBMIT_RESULT
\* and ERROR.
RuntimePosts(m) ==
    /\ Len(inbox) < MaxMessages
    /\ inbox' = Append(inbox, m)
    /\ UNCHANGED <<locked, ready, elapsed, gone, waiting, given, posted>>

\* Variant: READY is taken from any allowed origin.
AcceptedFromAny(m) == ~gone /\ m.origin \in AllowedOrigins

\* onMessage() up to handleMessage()
Accepted(m) == ~gone /\ m.origin \in AllowedOrigins /\ locked \in {NoOrigin, m.origin}

\* onMessage(); a promise is settled once.
OnMessage ==
    /\ inbox # <<>>
    /\ LET m == Head(inbox)
       IN  /\ locked' = IF ~gone /\ m.origin \in AllowedOrigins /\ locked = NoOrigin
                        THEN m.origin ELSE locked
           /\ ready' = IF Accepted(m) /\ m.type = "READY" /\ ready = "pending"
                       THEN m.origin ELSE ready
    /\ inbox' = Tail(inbox)
    /\ UNCHANGED <<elapsed, gone, waiting, given, posted>>

\* The timeout does nothing once an origin is locked.
Timeout ==
    /\ ~elapsed
    /\ elapsed' = TRUE
    /\ ready' = IF ~gone /\ locked = NoOrigin /\ ready = "pending" THEN "rejected" ELSE ready
    /\ UNCHANGED <<inbox, locked, gone, waiting, given, posted>>

\* init(), setResponses(), submit(), reset(); nothing stops them after destroy().
Command ==
    /\ given < MaxCommands
    /\ given' = given + 1
    /\ waiting' = Append(waiting, given')
    /\ UNCHANGED <<inbox, locked, ready, elapsed, gone, posted>>

\* The await of the first waiting command ends: post(), or the command rejects.
CommandResumes ==
    /\ waiting # <<>>
    /\ ready # "pending"
    /\ posted' = IF ready = "rejected" THEN posted
                 ELSE Append(posted, [command |-> Head(waiting), target |-> locked])
    /\ waiting' = Tail(waiting)
    /\ UNCHANGED <<inbox, locked, ready, elapsed, gone, given>>

DestroyFrame ==
    /\ ~gone
    /\ gone' = TRUE
    /\ UNCHANGED <<inbox, locked, ready, elapsed, waiting, given, posted>>

FrameNext ==
    \/ \E m \in Messages : RuntimePosts(m)
    \/ OnMessage
    \/ Timeout
    \/ Command
    \/ CommandResumes
    \/ DestroyFrame

FrameSpec == FrameInit /\ [][FrameNext]_frameVars

-----------------------------------------------------------------------------
(* Properties.                                                             *)

FrameTypeOK ==
    /\ inbox \in Seq(Messages)
    /\ locked \in AllowedOrigins \cup {NoOrigin}
    /\ ready \in AllowedOrigins \cup {"pending", "rejected"}
    /\ elapsed \in BOOLEAN /\ gone \in BOOLEAN
    /\ given \in 0 .. MaxCommands
    /\ waiting \in Seq(1 .. given)
    /\ posted \in Seq([command : 1 .. given, target : AllowedOrigins])

\* Commands reach one runtime, that which said READY, in the order they were
\* given and none twice, whatever origins the iframe goes through and however
\* late messages and the timeout come.
PostedInOrder ==
    /\ \A k \in DOMAIN posted : posted[k].target = ready
    /\ \A k \in DOMAIN posted, j \in DOMAIN posted :
          k < j => posted[k].command < posted[j].command
    /\ \A k \in DOMAIN posted, j \in DOMAIN waiting :
          posted[k].command < waiting[j]

\* A host that has not been destroyed rejects its commands when the time to wait
\* for READY is over and READY has not come.
TimeoutRejects == elapsed /\ ~gone => ready # "pending"
=============================================================================
