------------------------- MODULE PackageReferences -------------------------
(***************************************************************************)
(* The resolution of a reference in a content package to one of the        *)
(* package's files: first as written, from the file that holds it or from  *)
(* the root, and then by heuristics that find the only file it can mean.   *)
(*                                                                         *)
(* A path is a sequence of segments, a segment <<name, capital>> a name    *)
(* and whether it is written in capitals.  A request q has the file index, *)
(* the files the manifest names (evidence), the kind of the reference, the *)
(* directory of the file that holds it (base), the form of the reference   *)
(* and its segments (parts), and the configuration of the heuristics.      *)
(* Queries, fragments and encodings are left out; an encoded dot or slash  *)
(* is of the form "rooted", refused like an absolute path.                 *)
(***************************************************************************)
EXTENDS Naturals, Sequences, SequencesExt

Segment(name) == <<name, FALSE>>
Here == Segment(".")
Up == Segment("..")

\* lookupKey: the heuristics do not tell capitals apart.
LookupKey(path) == [k \in DOMAIN path |-> path[k][1]]

Enter(done, part) ==
    CASE done.unsafe \/ part = Here -> done
      [] ~done.unsafe /\ part = Up ->
             IF done.path = <<>> THEN [path |-> <<>>, unsafe |-> TRUE]
             ELSE [done EXCEPT !.path = Front(@)]
      [] OTHER -> [done EXCEPT !.path = Append(@, part)]

\* normalizePackagePath.
NormalizePackagePath(base, parts) ==
    FoldLeft(Enter, [path |-> <<>>, unsafe |-> FALSE], base \o parts)

\* buildPackageFileIndex: the paths without the ones that leave the package.
PackageFileIndex(paths) ==
    LET normalized == {NormalizePackagePath(<<>>, p) : p \in paths}
    IN  {n.path : n \in {m \in normalized : ~m.unsafe /\ m.path # <<>>}}

Strict == [paths |-> FALSE, basenames |-> FALSE]
Lenient == [paths |-> TRUE, basenames |-> TRUE]

SourceXml == {"source-xml", "assessment-item-ref"}

SourceCandidate(q) == NormalizePackagePath(q.base, q.parts)
RootCandidate(q) == NormalizePackagePath(<<>>, q.parts)

SuffixLookupKeys(q) ==
    SelectSeq(<<RootCandidate(q).path, SourceCandidate(q).path, q.parts>>, LAMBDA key : key # <<>>)

BySuffix(q, key) == {p \in q.index : IsSuffix(LookupKey(key), LookupKey(p))}

\* filterManifestEvidence, for a key that the kind of the reference may use.
Eligible(q, key) ==
    {p \in BySuffix(q, key) : /\ q.kind \in SourceXml => p \in q.evidence
                              /\ q.kind # "media-asset" => Len(key) > 1}

ByBasename(q) ==
    {p \in q.index : Last(p)[1] = Last(SuffixLookupKeys(q)[1])[1]}

IsSole(matches) == \E p \in matches : matches = {p}
Sole(matches) == CHOOSE p \in matches : TRUE

Resolved(path, strategy) == [status |-> "resolved", path |-> path, strategy |-> strategy]
Unresolved(status) == [status |-> status, path |-> <<>>, strategy |-> "none"]

\* The first key that only one file ends in counts, even after one that
\* several files end in.
FirstSole(q) ==
    LET keys == SuffixLookupKeys(q)
    IN  {p \in q.index : \E k \in DOMAIN keys :
            /\ Eligible(q, keys[k]) = {p}
            /\ \A j \in 1 .. k - 1 : ~IsSole(Eligible(q, keys[j]))}

ResolveHeuristically(q) ==
    LET keys == SuffixLookupKeys(q)
    IN  IF FirstSole(q) # {} THEN Resolved(Sole(FirstSole(q)), "unique-suffix")
        ELSE IF \E k \in DOMAIN keys : Eligible(q, keys[k]) # {} THEN Unresolved("ambiguous")
        ELSE IF ~q.config.basenames \/ q.kind # "media-asset" \/ ByBasename(q) = {}
             THEN Unresolved("missing")
        ELSE IF IsSole(ByBasename(q)) THEN Resolved(Sole(ByBasename(q)), "unique-basename")
        ELSE Unresolved("ambiguous")

\* resolvePackageReference.
ResolvePackageReference(q) ==
    LET source == SourceCandidate(q)
        root == RootCandidate(q)
    IN  IF q.form = "skipped" THEN Unresolved("skipped")
        ELSE IF q.form = "rooted" \/ source.unsafe THEN Unresolved("unsafe")
        ELSE IF source.path \in q.index THEN Resolved(source.path, "source-relative")
        ELSE IF ~root.unsafe /\ root.path \in q.index THEN Resolved(root.path, "package-root")
        ELSE IF ~q.config.paths THEN Unresolved("missing")
        ELSE ResolveHeuristically(q)
=============================================================================
