------------------------- MODULE AssessmentElement --------------------------
(***************************************************************************)
(* QtiAssessmentPlayerElement: the custom element that either mounts a     *)
(* player on the backend of its host page, or, in reference mode, loads an *)
(* assessment from XML and mounts one on a local backend.  Every change    *)
(* supersedes the load in flight; a load has two awaits, and only after    *)
(* the first does it look whether it was superseded.                       *)
(*                                                                         *)
(* An update of a mounted player is taken at once; in the code it is a     *)
(* remount one microtask later.                                            *)
(***************************************************************************)
EXTENDS Naturals

CONSTANT MaxChanges  \* bound: changes that supersede a load

ASSUME ElementAssumption == MaxChanges \in Nat

VARIABLES
    connected,
    hasXml,         \* assessmentTestXml is set
    referenceMode,
    hostBackend,    \* a backend was injected
    backend,        \* #backend: "none", "host", or the load that made it
    initSession,    \* "none", or its source: "host" or "local"
    allowMount,
    mounted,        \* the backend and session of the player mounted
    loadSeq,
    wanted,         \* the load that was asked for what is set now, or 0
    fetching,       \* loads in their first await: resolveItemsForAssessment()
    parsing,        \* loads in their second: parseAssessmentTestXml()
    overtaken       \* a load was superseded in its second await

elementVars == <<connected, hasXml, referenceMode, hostBackend, backend, initSession,
                 allowMount, mounted, loadSeq, wanted, fetching, parsing, overtaken>>

Nobody == [backend |-> 0, session |-> "none"]

\* Backends: 0 is none, loads are counted from 1, the last stands for the host's.
HostBackend == MaxChanges + 1

ElementInit ==
    /\ connected = FALSE
    /\ hasXml = FALSE
    /\ referenceMode = FALSE
    /\ hostBackend = FALSE
    /\ backend = 0
    /\ initSession = "none"
    /\ allowMount = FALSE
    /\ mounted = Nobody
    /\ loadSeq = 0 /\ wanted = 0
    /\ fetching = {} /\ parsing = {}
    /\ overtaken = FALSE

\* ++#loadSeq; the fetches of the load in flight are aborted, which ends it when
\* it next runs.
Supersedes ==
    /\ loadSeq < MaxChanges
    /\ loadSeq' = loadSeq + 1
    /\ overtaken' = (overtaken \/ loadSeq \in parsing)

\* _mountOrUpdate(): getProps() throws without a backend or a session, and what
\* is mounted on an element that is not connected is not mounted again.
Mounted(before) ==
    IF backend' = 0 \/ initSession' = "none" \/ (before # Nobody /\ ~connected')
    THEN before
    ELSE [backend |-> backend', session |-> initSession']

\* #syncSecureBackendMount() with the host's backend.
MountsHost(session, before) ==
    /\ initSession' = session
    /\ IF session = "none"
       THEN allowMount' = FALSE /\ mounted' = Nobody /\ UNCHANGED backend
       ELSE /\ backend' = HostBackend
            /\ allowMount' = TRUE
            /\ mounted' = IF connected' THEN Mounted(before) ELSE before

\* #deactivateLocalBackend(), without a backend of the host.
Deactivates ==
    /\ allowMount' = FALSE
    /\ mounted' = Nobody
    /\ backend' = 0
    /\ initSession' = "none"

\* #syncFromQti() up to its first await.
Syncs ==
    /\ wanted' = IF hostBackend' THEN 0 ELSE loadSeq'
    /\ IF hostBackend'
       THEN MountsHost(initSession, mounted) /\ UNCHANGED <<fetching, parsing>>
       ELSE /\ Deactivates
            /\ fetching' = fetching \cup {n \in {loadSeq'} : hasXml' /\ referenceMode'}
            /\ UNCHANGED parsing

\* Setting the XML, the items, where to fetch them, or the reference mode.
SetSource(xml, reference) ==
    /\ Supersedes
    /\ hasXml' = xml
    /\ referenceMode' = reference
    /\ UNCHANGED <<connected, hostBackend>>
    /\ Syncs

\* connectedCallback(): a player that may be mounted already is, which throws
\* without a session, before the load is started.
ConnectThrows ==
    /\ ~connected
    /\ allowMount /\ initSession = "none"
    /\ connected' = TRUE
    /\ UNCHANGED <<hasXml, referenceMode, hostBackend, backend, initSession, allowMount,
                   mounted, loadSeq, wanted, fetching, parsing, overtaken>>

Connect ==
    /\ ~connected
    /\ allowMount => initSession # "none"
    /\ Supersedes
    /\ connected' = TRUE
    /\ UNCHANGED <<hasXml, referenceMode, hostBackend>>
    /\ Syncs

Disconnect ==
    /\ connected
    /\ Supersedes
    /\ connected' = FALSE
    /\ mounted' = Nobody
    /\ UNCHANGED <<hasXml, referenceMode, hostBackend, backend, initSession, allowMount,
                   wanted, fetching, parsing>>

\* Variant: the session made for the local backend is taken over.
InjectBackendOnly ==
    /\ Supersedes
    /\ hostBackend' = TRUE
    /\ wanted' = 0
    /\ UNCHANGED <<connected, hasXml, referenceMode, fetching, parsing>>
    /\ MountsHost(initSession, Nobody)

\* backend = value: what is mounted goes, and a session made for a local backend.
InjectBackend ==
    /\ Supersedes
    /\ hostBackend' = TRUE
    /\ wanted' = 0
    /\ UNCHANGED <<connected, hasXml, referenceMode, fetching, parsing>>
    /\ IF initSession = "host"
       THEN MountsHost("host", Nobody)
       ELSE /\ backend' = HostBackend
            /\ initSession' = "none" /\ allowMount' = FALSE /\ mounted' = Nobody

\* backend = undefined
RemoveBackend ==
    /\ hostBackend
    /\ Supersedes
    /\ hostBackend' = FALSE
    /\ UNCHANGED <<connected, hasXml, referenceMode>>
    /\ Syncs

\* initSession = value, and the ids that make one.
SetInitSession(session) ==
    /\ session # initSession
    /\ UNCHANGED <<connected, hasXml, referenceMode, hostBackend, loadSeq, wanted, fetching,
                   parsing, overtaken>>
    /\ IF hostBackend THEN MountsHost(session, mounted)
       ELSE initSession' = session /\ UNCHANGED <<backend, allowMount, mounted>>

\* config, security or pci is set.
Configure ==
    /\ allowMount
    /\ UNCHANGED <<connected, hasXml, referenceMode, hostBackend, backend, initSession,
                   allowMount, loadSeq, wanted, fetching, parsing, overtaken>>
    /\ mounted' = Mounted(mounted)

\* Variant: a load goes on whether or not it was superseded.
ItemsResolvedAlways(n) ==
    /\ n \in fetching
    /\ fetching' = fetching \ {n}
    /\ parsing' = parsing \cup {n}
    /\ UNCHANGED <<connected, hasXml, referenceMode, hostBackend, backend, initSession,
                   allowMount, mounted, loadSeq, wanted, overtaken>>

\* The first await ends; a superseded load ends with it.
ItemsResolved(n) ==
    /\ n \in fetching
    /\ fetching' = fetching \ {n}
    /\ parsing' = IF n = loadSeq THEN parsing \cup {n} ELSE parsing
    /\ UNCHANGED <<connected, hasXml, referenceMode, hostBackend, backend, initSession,
                   allowMount, mounted, loadSeq, wanted, overtaken>>

\* Parsing or fetching fails, also by abort: load-error unless superseded.
LoadFails(n) ==
    /\ n \in fetching \cup parsing
    /\ fetching' = fetching \ {n}
    /\ parsing' = parsing \ {n}
    /\ IF n = loadSeq THEN Deactivates
       ELSE UNCHANGED <<backend, initSession, allowMount, mounted>>
    /\ UNCHANGED <<connected, hasXml, referenceMode, hostBackend, loadSeq, wanted, overtaken>>

\* The second await ends: load-end, and the player is mounted.
LoadEnds(n) ==
    /\ n \in parsing
    /\ parsing' = parsing \ {n}
    /\ backend' = n
    /\ initSession' = "local"
    /\ allowMount' = TRUE
    /\ UNCHANGED <<connected, hasXml, referenceMode, hostBackend, loadSeq, wanted, fetching,
                   overtaken>>
    /\ mounted' = Mounted(mounted)

ElementNext ==
    \/ \E xml \in BOOLEAN, reference \in BOOLEAN : SetSource(xml, reference)
    \/ Connect
    \/ ConnectThrows
    \/ Disconnect
    \/ InjectBackend
    \/ RemoveBackend
    \/ \E session \in {"none", "host"} : SetInitSession(session)
    \/ Configure
    \/ \E n \in 1 .. MaxChanges : ItemsResolved(n) \/ LoadFails(n) \/ LoadEnds(n)

ElementSpec == ElementInit /\ [][ElementNext]_elementVars

-----------------------------------------------------------------------------
(* Properties.                                                             *)

ElementTypeOK ==
    /\ <<connected, hasXml, referenceMode, hostBackend, allowMount, overtaken>> \in
           BOOLEAN \X BOOLEAN \X BOOLEAN \X BOOLEAN \X BOOLEAN \X BOOLEAN
    /\ backend \in 0 .. HostBackend
    /\ initSession \in {"none", "host", "local"}
    /\ mounted \in [backend : 0 .. HostBackend, session : {"none", "host", "local"}]
    /\ loadSeq \in 0 .. MaxChanges
    /\ wanted \in 0 .. loadSeq
    /\ fetching \subseteq 1 .. loadSeq
    /\ parsing \subseteq 1 .. loadSeq
    /\ mounted = Nobody \/ (mounted.backend # 0 /\ mounted.session # "none")

\* Unless a load was superseded in its second await, which nothing looks at
\* afterwards, what is mounted on a local backend is what the last load for the
\* XML, the items and the mode now set has brought, and there is none beside a
\* backend of the host.
MountedIsLatest ==
    mounted.backend \in 1 .. MaxChanges /\ ~overtaken
        => mounted.backend = wanted /\ ~hostBackend

\* With the same reservation, a backend of the host is never used with a session
\* that was made for a local one, in whatever order backend, session and XML are
\* set and loads end.
HostSessionOnly ==
    mounted.backend = HostBackend /\ ~overtaken => mounted.session = "host"
=============================================================================
