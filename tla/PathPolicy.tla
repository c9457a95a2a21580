----------------------------- MODULE PathPolicy ------------------------------
(***************************************************************************)
(* torbrowser_driver/path_policy.py: which paths the tools may read and    *)
(* write.  A path is the sequence of its parts from the root on.           *)
(***************************************************************************)
EXTENDS Naturals, Sequences, SequencesExt

CONSTANTS
    OutputDir,      \* PathPolicy.output_dir
    AllowedRoots,   \* PathPolicy.allowed_roots
    Unrestricted,   \* PathPolicy.unrestricted
    Links           \* symbolic links: path -> path

Up == ".."

Parts == STRING
PathSeqs == Seq(Parts)
GivenNames == [absolute : BOOLEAN, parts : PathSeqs]

\* A path without "..", and not through a link.
IsCanonical(path) ==
    /\ \A i \in DOMAIN path : path[i] # Up
    /\ \A link \in DOMAIN Links : ~IsPrefix(link, path)

ASSUME UnrestrictedAssumption == Unrestricted \in BOOLEAN
ASSUME OutputDirAssumption == OutputDir \in PathSeqs
\* The file system's root is no link, and a link is taken to where it leads in the end.
ASSUME LinksAssumption ==
    /\ DOMAIN Links \subseteq PathSeqs \ {<<>>}
    /\ \A link \in DOMAIN Links : Links[link] \in PathSeqs /\ IsCanonical(Links[link])

Roots == {OutputDir} \cup AllowedRoots

\* from_config makes the roots canonical.
ASSUME RootsAssumption == \A root \in Roots : root \in PathSeqs /\ IsCanonical(root)

\* One name more: ".." goes up, and a link leads to where it points.
Walk(at, name) ==
    IF name = Up THEN IF at = <<>> THEN at ELSE Front(at)
    ELSE LET next == Append(at, name)
         IN  IF next \in DOMAIN Links THEN Links[next] ELSE next

\* _canonical: the parts are walked from the root on.
Canonical(path) ==
    LET Walked[n \in 0 .. Len(path)] ==
            IF n = 0 THEN <<>> ELSE Walk(Walked[n - 1], path[n])
    IN  Walked[Len(path)]

\* _is_within, of two paths that are canonical already: the root itself is within it.
IsWithin(path, root) == IsPrefix(root, path)

\* resolve_input, and is_file_url_allowed for the path of a local URL.
InputAllowed(path) == Unrestricted \/ \E root \in Roots : IsWithin(Canonical(path), root)

\* resolve_output: a name, which may have parts of its own, or an absolute path.
OutputPath(given) ==
    Canonical(IF given.absolute THEN given.parts ELSE OutputDir \o given.parts)

\* Mutant: a relative name is checked before its ".." and its links are followed.
AllowedAsJoined(given) ==
    IF given.absolute THEN InputAllowed(given.parts)
    ELSE Unrestricted \/ IsWithin(OutputDir \o given.parts, OutputDir)

OutputAllowed(given) ==
    IF given.absolute THEN InputAllowed(given.parts)
    ELSE Unrestricted \/ IsWithin(OutputPath(given), OutputDir)
=============================================================================
