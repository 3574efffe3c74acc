---------------------------- MODULE PackageGraph ----------------------------
(***************************************************************************)
(* analyzeContentPackage: the resources of a manifest, what they refer to, *)
(* and the closure of each entry point.                                    *)
(*                                                                         *)
(* A package has resources, numbered as the manifest declares them, the    *)
(* files it lists and the configuration of the heuristics.  A resource has *)
(* its resolved href (a path), its resolved files, its dependencies (a     *)
(* number that is no resource is a dangling one) and its refs, the         *)
(* references in the text of its href.  Left out: the texts themselves,    *)
(* their syntax, and how a package is serialized; every href is XML.       *)
(***************************************************************************)
EXTENDS PackageReferences, FiniteSets

Resources(pkg) == DOMAIN pkg.resources

ManifestPaths(pkg) ==
    UNION {{pkg.resources[id].href} \cup pkg.resources[id].files : id \in Resources(pkg)}

Dirname(path) == Front(path)

\* referenceKindForMatch.
ReferenceKindForMatch(kind) ==
    CASE kind \in {"assessment-item-ref", "stimulus"} -> "source-xml"
      [] kind = "catalog" -> "catalog-file"
      [] kind \in {"asset", "object"} -> "media-asset"
      [] OTHER -> kind

ResolutionOf(pkg, id, ref) ==
    ResolvePackageReference(
        [index |-> PackageFileIndex(pkg.listed \cup ManifestPaths(pkg)),
         evidence |-> ManifestPaths(pkg), kind |-> ReferenceKindForMatch(ref.kind),
         base |-> Dirname(pkg.resources[id].href), form |-> ref.form, parts |-> ref.parts,
         config |-> pkg.config])

\* findResourceByResolvedHref, 0 if there is none.
ResourceAt(pkg, path) ==
    LET at == {id \in Resources(pkg) : pkg.resources[id].href = path}
    IN  IF at = {} THEN 0 ELSE CHOOSE id \in at : \A other \in at : id <= other

IsXmlReference(kind) == kind \in {"assessment-item-ref", "stimulus"}

\* A text that cannot be read has no references.
ReadableRefs(pkg, id) ==
    LET node == pkg.resources[id] IN IF node.href \in pkg.listed THEN node.refs ELSE {}

\* discoverReferences: a reference that is not found keeps the path it means.
DiscoveredReferences(pkg, id) ==
    LET Found(ref, r) ==
            LET path == IF r.status = "resolved" THEN r.path
                        ELSE NormalizePackagePath(Dirname(pkg.resources[id].href), ref.parts).path
            IN  [kind |-> ref.kind, path |-> path,
                 target |-> IF IsXmlReference(ref.kind) THEN ResourceAt(pkg, path) ELSE 0]
    IN  {Found(ref, ResolutionOf(pkg, id, ref)) :
            ref \in {r \in ReadableRefs(pkg, id) :
                        ResolutionOf(pkg, id, r).status \in {"resolved", "missing"}}}

Targets(pkg, id) ==
    (pkg.resources[id].dependencies \cap Resources(pkg))
    \cup {ref.target : ref \in {r \in DiscoveredReferences(pkg, id) : r.target # 0}}

\* visit of buildClosure, depth first.
RECURSIVE Visit(_, _, _)
Visit(pkg, visited, id) ==
    IF id \in visited THEN visited
    ELSE FoldLeft(LAMBDA seen, target : Visit(pkg, seen, target),
                  visited \cup {id}, SetToSeq(Targets(pkg, id)))

\* The files of one resource that a closure lists as assets.
AssetFiles(pkg, id) ==
    {f \in pkg.resources[id].files : f \notin pkg.sourceQti}
    \cup {r.path : r \in {s \in DiscoveredReferences(pkg, id) : ~IsXmlReference(s.kind)}}

\* buildClosure.
Closure(pkg, id) ==
    LET ids == Visit(pkg, {}, id)
        assets == UNION {AssetFiles(pkg, i) : i \in ids}
        Unowned(i) == {r.path : r \in {s \in DiscoveredReferences(pkg, i) : s.target = 0}}
    IN  [resourceIds |-> ids,
         assetPaths |-> assets,
         filePaths |-> assets \cup UNION {{pkg.resources[i].href} \cup pkg.resources[i].files
                                              \cup Unowned(i) : i \in ids}]

\* The diagnostics of a resource: what it depends on and is not there, and
\* what its text refers to and is not resolved.
Diagnostics(pkg, id) ==
    LET node == pkg.resources[id]
        refs == DiscoveredReferences(pkg, id)
    IN  {<<"IMS_CP_DANGLING_DEPENDENCY", d>> : d \in node.dependencies \ Resources(pkg)}
        \cup {<<"IMS_CP_MISSING_FILE", f>> :
                 f \in (node.files \cup {node.href}) \ pkg.listed}
        \cup {<<ResolutionOf(pkg, id, r).status, r.parts>> :
                 r \in {s \in ReadableRefs(pkg, id) :
                           ResolutionOf(pkg, id, s).status \notin {"resolved", "skipped"}}}
        \cup {<<"IMS_CP_DANGLING_REF", r.path>> :
                 r \in {s \in refs : IsXmlReference(s.kind) /\ s.target = 0 /\ s.path \notin pkg.listed}}
        \cup {<<"IMS_CP_MISSING_ASSET", r.path>> :
                 r \in {s \in refs : ~IsXmlReference(s.kind) /\ s.path \notin pkg.listed}}

ClosureDiagnostics(pkg, id) ==
    UNION {Diagnostics(pkg, i) : i \in Closure(pkg, id).resourceIds}

\* summarizeQtiVersion and strongestConfidence, of pairs of a version and the
\* confidence in it.
SummarizeQtiVersion(signals) ==
    LET versions == {s[1] : s \in signals}
        confidences == {s[2] : s \in signals}
    IN  CASE versions = {} -> <<"unknown", "none">>
          [] Cardinality(versions) > 1 -> <<"conflicting", "conflicting">>
          [] OTHER -> <<Sole(versions),
                        CASE "high" \in confidences -> "high"
                          [] "high" \notin confidences /\ "medium" \in confidences -> "medium"
                          [] OTHER -> "low">>
=============================================================================
