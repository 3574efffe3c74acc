---------------------------- MODULE PackageLaws ----------------------------
(***************************************************************************)
(* What the analysis of a package promises, over small packages.  TLC      *)
(* evaluates each law before it explores a state.                          *)
(***************************************************************************)
EXTENDS PackageGraph

LawNames == {Segment("a"), Segment("b"), <<"a", TRUE>>}
LawPaths == {<<Segment("a")>>, <<Segment("b")>>, <<<<"a", TRUE>>>>, <<Segment("b"), Segment("a")>>,
             <<Segment("a"), Segment("b"), Segment("a")>>}
LawHrefs == {<<Segment("a")>>, <<Segment("b"), Segment("a")>>, <<Up, Segment("a")>>,
             <<Segment("a"), Up>>, <<Here, Segment("b"), <<"a", TRUE>>>>, <<Segment("b"), Up, Up>>}

LawRequests ==
    [index : SUBSET LawPaths, evidence : {{}, {<<Segment("b"), Segment("a")>>}},
     kind : {"media-asset", "source-xml", "stylesheet"}, base : {<<>>, <<Segment("b")>>},
     form : {"relative"}, parts : LawHrefs, config : {Lenient}]

\* A reference is resolved to a file of the name it asks for, in capitals or
\* not, and never to one outside the package.
ASSUME ResolvesToTheName ==
    \A q \in LawRequests :
        LET r == ResolvePackageReference(q)
        IN  r.status = "resolved" =>
                /\ r.path \in q.index
                /\ Last(q.parts) # Up => Last(r.path)[1] = Last(q.parts)[1]

\* The file index holds no path with a step up, whatever paths it is built of.
ASSUME IndexStaysInside ==
    \A raw \in UNION {[1 .. n -> {Segment("a"), Here, Up}] : n \in 0 .. 4} :
        \A p \in PackageFileIndex({raw}) : p # <<>> /\ \A k \in DOMAIN p : p[k] \notin {Here, Up}

LawRefs ==
    {[kind |-> "assessment-item-ref", form |-> "relative", parts |-> <<Segment("b")>>],
     [kind |-> "asset", form |-> "relative", parts |-> <<Segment("c"), Segment("a")>>],
     [kind |-> "stimulus", form |-> "relative", parts |-> <<Segment("d")>>]}

LawResource(href, dependencies, files, refs) ==
    [href |-> <<Segment(href)>>, dependencies |-> dependencies, files |-> files, refs |-> refs]

\* Three resources that depend on each other in every way, one of them also
\* on a resource that does not exist.
LawPackages ==
    {[resources |-> <<LawResource("a", d1, {}, refs), LawResource("b", d2, {<<Segment("c")>>}, {}),
                      LawResource("e", d3, {}, refs)>>,
      listed |-> listed, sourceQti |-> {}, config |-> Lenient] :
        d1 \in {{}, {2, 4}}, d2 \in {{1}, {3}}, d3 \in {{}, {2}}, refs \in SUBSET LawRefs,
        listed \in {{<<Segment("a")>>, <<Segment("b")>>, <<Segment("c")>>, <<Segment("d")>>},
                    {<<Segment("a")>>, <<Segment("e")>>}}}

\* The closure of an entry point is the least set of resources that has the
\* entry point and the targets of all its members, also if they go in circles.
ASSUME ClosureIsReachable ==
    \A pkg \in LawPackages, id \in {1, 2} :
        LET ids == Visit(pkg, {}, id)
            targets == [i \in 1 .. 3 |-> Targets(pkg, i)]
            Closed(s) == id \in s /\ \A i \in s : targets[i] \subseteq s
        IN  Closed(ids) /\ \A s \in SUBSET (1 .. 3) : Closed(s) => ids \subseteq s

\* A closure lists no file that the package does not have without a diagnostic
\* that names it.
ASSUME NothingMissesSilently ==
    \A pkg \in LawPackages, id \in {1, 3} :
        \A path \in Closure(pkg, id).filePaths \ pkg.listed :
            \E d \in ClosureDiagnostics(pkg, id) :
                d[1] # "IMS_CP_DANGLING_DEPENDENCY" /\ d[2] = path

\* Signals of two versions are a conflict, however confident either is, and
\* another signal never turns it into agreement.
ASSUME ConflictsStay ==
    LET signals == {"2.1", "2.2", "3.0"} \X {"high", "medium", "low"}
    IN  \A r, s, t \in signals :
            r[1] # s[1] => SummarizeQtiVersion({r, s, t})[1] = "conflicting"
=============================================================================
