----------------------------- MODULE OutputFiles -----------------------------
(***************************************************************************)
(* The files of the output directory and of the allowed roots: what the    *)
(* tools of _core_primitives.py write, list, move, read and delete there,  *)
(* and what the browser downloads into it.  Calls run in threads of their  *)
(* own; a step is one operation of the file system, and reading the names  *)
(* in one folder is one.                                                   *)
(***************************************************************************)
EXTENDS ToolThreads, PathPolicy, Naturals, FiniteSets

\* "downloads" is browser_downloads_list, "list" browser_output_list; the others are
\* given names.
NamedTools == {"write", "read", "save", "delete"}
Listings == {"downloads", "list"}
FileTools == NamedTools \cup Listings \cup {"dump"}

CONSTANTS
    Given,          \* the names that calls are given
    Downloads,      \* the names that the browser downloads to
    Artifacts,      \* browser_dump_page's files, as names, in their order
    Outside,        \* the paths of files that are none of the tools' business
    MaxMade         \* bound: calls made and downloads ended

ASSUME NamesAssumption == Given \cup Downloads \subseteq GivenNames
ASSUME ArtifactsAssumption == Artifacts \in Seq(GivenNames)
\* The browser downloads into the output directory.
ASSUME DownloadsAssumption == \A g \in Downloads : OutputAllowed(g)
ASSUME MaxMadeAssumption == MaxMade \in Nat
ASSUME OutsideAssumption ==
    \A p \in Outside : p \in PathSeqs /\ IsCanonical(p) /\ \A root \in Roots : ~IsWithin(p, root)

Paths ==
    Outside \cup {OutputPath(g) : g \in Given \cup Downloads \cup {Artifacts[i] : i \in DOMAIN Artifacts}}
\* What has files is a folder.
Folders == {OutputDir} \cup (UNION {Prefixes(Front(p)) : p \in Paths})

ASSUME FoldersAssumption == Folders \cap Paths = {}

VARIABLES
    files,          \* path -> the call or download that made what is there, or 0
    arriving,       \* downloads in progress, each in its .part file
    fileCall,       \* what each thread is doing
    made,           \* calls and downloads so far
    arrived,        \* history: downloads that came to their end
    lost            \* history: what was deleted, or overwritten

fileVars == <<files, arriving, fileCall, made, arrived, lost>>

\* Of a listing, "unread" are the folders that it has found and not read, "pending" the
\* names that it has not looked at, "parts" the .part files among them.  History:
\* "began" is what it was to list when it began, "touched" the paths that others
\* changed since.
NoFileCall == [tool |-> "none", step |-> "idle", number |-> 0, source |-> <<>>, target |-> <<>>,
               unread |-> {}, pending |-> {}, parts |-> {}, listed |-> {}, began |-> {},
               next |-> 1, touched |-> {}]

Made == 0..MaxMade

FileCalls ==
    [tool : FileTools \cup {"none"},
     step : {"idle", "first", "visit", "stat", "move", "unlink", "done", "raised"},
     number : Made, source : Paths \cup {<<>>}, target : Paths \cup {<<>>},
     unread : SUBSET Folders, pending : SUBSET Paths, parts : SUBSET Paths,
     listed : SUBSET Paths, began : SUBSET Paths,
     next : 1..Len(Artifacts) + 1, touched : SUBSET Paths]

\* Every variable has its type.
FilesTypeOK ==
    /\ DOMAIN files \subseteq Paths /\ \A p \in DOMAIN files : files[p] \in Made
    /\ arriving \subseteq Paths /\ made \in Made
    /\ arrived \subseteq Made /\ lost \subseteq Made
    /\ fileCall \in [Threads -> FileCalls]

FilesInit ==
    /\ files = [p \in Outside |-> 0] /\ arriving = {}
    /\ fileCall = [t \in Threads |-> NoFileCall]
    /\ made = 0 /\ arrived = {} /\ lost = {}

-----------------------------------------------------------------------------
(* The file system                                                         *)

Exists(p) == p \in DOMAIN files
Held(p) == IF Exists(p) THEN {files[p]} ELSE {}

\* The files once p has been written, removed or moved.
With(p, number) == [q \in DOMAIN files \cup {p} |-> IF q = p THEN number ELSE files[q]]
Without(p) == [q \in DOMAIN files \ {p} |-> files[q]]

\* Mutant: a move is a copy.
MovedByCopy(p, q) == [r \in DOMAIN files \cup {q} |-> IF r = q THEN files[p] ELSE files[r]]

Moved(p, q) == [r \in (DOMAIN files \ {p}) \cup {q} |-> IF r = q THEN files[p] ELSE files[r]]

\* The calls, once t is at "call" and has changed what is at the paths: the other
\* calls see them changed.
Changing(t, call, changed) ==
    fileCall' = [u \in Threads |->
        IF u = t THEN call
        ELSE IF fileCall[u].step = "idle" THEN fileCall[u]
        ELSE [fileCall[u] EXCEPT !.touched = @ \cup changed]]

Step(t, step) == fileCall' = [fileCall EXCEPT ![t].step = step]

-----------------------------------------------------------------------------
(* Downloads of the browser                                                *)

DownloadBegins(p) ==
    /\ ~Exists(p) /\ p \notin arriving
    /\ arriving' = arriving \cup {p}
    /\ UNCHANGED <<files, fileCall, made, arrived, lost>>

\* The .part file gets its name, or is gone.
DownloadEnds(p) ==
    /\ p \in arriving
    /\ arriving' = arriving \ {p}
    /\ \/ /\ made < MaxMade
          /\ made' = made + 1 /\ arrived' = arrived \cup {made + 1}
          /\ files' = With(p, made + 1) /\ lost' = lost \cup Held(p)
          /\ Changing("browser", NoFileCall, {p})
       \/ UNCHANGED <<files, fileCall, made, arrived, lost>>

-----------------------------------------------------------------------------
(* Calls                                                                   *)

\* What a listing is of: the files in the output directory, or all those below it.
InScope(tool, p) ==
    IF tool = "downloads" THEN Front(p) = OutputDir ELSE IsWithin(Front(p), OutputDir)

\* Each name that a call is given is resolved first, and accepted or refused: it has a
\* "target", and a save a source, which may be the same.
BeginNamed(t, tool, source, target) ==
    /\ fileCall[t].step = "idle" /\ made < MaxMade
    /\ made' = made + 1
    /\ tool # "save" => source = target
    /\ fileCall' = [fileCall EXCEPT ![t] =
          IF OutputAllowed(source) /\ OutputAllowed(target)
          THEN [NoFileCall EXCEPT !.tool = tool, !.step = "first",
                   !.number = IF tool = "write" THEN made + 1 ELSE 0,
                   !.source = OutputPath(source), !.target = OutputPath(target)]
          ELSE [NoFileCall EXCEPT !.tool = tool, !.step = "raised"]]
    /\ UNCHANGED <<files, arriving, arrived, lost>>

BeginDump(t) ==
    /\ fileCall[t].step = "idle" /\ made < MaxMade
    /\ made' = made + 1
    /\ fileCall' = [fileCall EXCEPT ![t] =
          [NoFileCall EXCEPT !.tool = "dump", !.step = "first", !.number = made + 1]]
    /\ UNCHANGED <<files, arriving, arrived, lost>>

BeginListing(t, tool) ==
    /\ fileCall[t].step = "idle" /\ made < MaxMade
    /\ made' = made + 1
    /\ fileCall' = [fileCall EXCEPT ![t] =
          [NoFileCall EXCEPT !.tool = tool, !.step = "visit", !.unread = {OutputDir},
              !.began = {p \in DOMAIN files : InScope(tool, p)}]]
    /\ UNCHANGED <<files, arriving, arrived, lost>>

EndFile(t) ==
    /\ fileCall[t].step \in {"done", "raised"}
    /\ fileCall' = [fileCall EXCEPT ![t] = NoFileCall]
    /\ UNCHANGED <<files, arriving, made, arrived, lost>>

\* write_bytes() of browser_page_source, _snapshot, _take_screenshot and every other
\* tool that is given a filename.
Write(t) ==
    LET c == fileCall[t] IN
    /\ c.tool = "write" /\ c.step = "first"
    /\ files' = With(c.target, c.number) /\ lost' = lost \cup Held(c.target)
    /\ Changing(t, [c EXCEPT !.step = "done"], {c.target})
    /\ UNCHANGED <<arriving, made, arrived>>

\* browser_output_read.
ReadFile(t) ==
    /\ fileCall[t].tool = "read" /\ fileCall[t].step = "first"
    /\ Step(t, IF Exists(fileCall[t].target) THEN "done" ELSE "raised")
    /\ UNCHANGED <<files, arriving, made, arrived, lost>>

\* The folders in a folder; those that hold a file exist, and others may.
FoldersIn(d) == {e \in Folders : Len(e) = Len(d) + 1 /\ IsPrefix(d, e)}
HoldsFile(d) == \E p \in DOMAIN files : IsPrefix(d, Front(p))

\* The names in a folder: iterdir() of the output directory, or rglob(), which goes on
\* with the folders in it, each read in its turn ...
ReadFolder(t, d) ==
    LET c == fileCall[t]
        below == IF c.tool = "list" THEN FoldersIn(d) ELSE {}
    IN
    /\ c.step = "visit" /\ d \in c.unread
    /\ \E found \in SUBSET below :
          /\ {e \in below : HoldsFile(e)} \subseteq found
          /\ fileCall' = [fileCall EXCEPT ![t] =
                [c EXCEPT !.unread = (c.unread \ {d}) \cup found,
                    !.pending = c.pending \cup {p \in DOMAIN files : Front(p) = d},
                    !.parts = IF c.tool = "list" THEN c.parts \cup {p \in arriving : Front(p) = d}
                              ELSE {}]]
    /\ UNCHANGED <<files, arriving, made, arrived, lost>>

\* ... then, once all are read, one name by one: is_file(), and a file that has gone is
\* left out.
VisitName(t, p) ==
    LET c == fileCall[t] IN
    /\ c.step = "visit" /\ c.unread = {} /\ p \in c.pending
    /\ fileCall' = [fileCall EXCEPT ![t] = IF Exists(p) THEN [c EXCEPT !.step = "stat", !.target = p]
                                           ELSE [c EXCEPT !.pending = c.pending \ {p}]]
    /\ UNCHANGED <<files, arriving, made, arrived, lost>>

\* browser_output_list looks at .part files too, and their stat() may raise.
PartGone(t, p) ==
    LET c == fileCall[t] IN
    /\ c.step = "visit" /\ c.unread = {} /\ p \in c.parts \ arriving
    /\ Step(t, "raised")
    /\ UNCHANGED <<files, arriving, made, arrived, lost>>

\* stat(), which raises for one that has gone since.
StatName(t) ==
    LET c == fileCall[t] IN
    /\ c.tool \in Listings /\ c.step = "stat"
    /\ fileCall' = [fileCall EXCEPT ![t] =
          IF Exists(c.target) THEN [c EXCEPT !.step = "visit", !.pending = c.pending \ {c.target},
                                        !.listed = c.listed \cup {c.target}]
          ELSE [c EXCEPT !.step = "raised"]]
    /\ UNCHANGED <<files, arriving, made, arrived, lost>>

ListEnds(t) ==
    /\ fileCall[t].step = "visit" /\ fileCall[t].unread = {} /\ fileCall[t].pending = {}
    /\ Step(t, "done")
    /\ UNCHANGED <<files, arriving, made, arrived, lost>>

\* browser_download_save: is_file(), os.replace() unless it stays, and stat().
FindDownload(t) ==
    LET c == fileCall[t] IN
    /\ c.tool = "save" /\ c.step = "first"
    /\ Step(t, IF ~Exists(c.source) THEN "raised" ELSE IF c.source = c.target THEN "stat" ELSE "move")
    /\ UNCHANGED <<files, arriving, made, arrived, lost>>

MoveDownload(t) ==
    LET c == fileCall[t] IN
    /\ c.step = "move"
    /\ IF Exists(c.source)
       THEN /\ files' = Moved(c.source, c.target)
            /\ lost' = lost \cup Held(c.target)
            /\ Changing(t, [c EXCEPT !.step = "stat"], {c.source, c.target})
       ELSE Step(t, "raised") /\ UNCHANGED <<files, lost>>
    /\ UNCHANGED <<arriving, made, arrived>>

StatSaved(t) ==
    /\ fileCall[t].tool = "save" /\ fileCall[t].step = "stat"
    /\ Step(t, IF Exists(fileCall[t].target) THEN "done" ELSE "raised")
    /\ UNCHANGED <<files, arriving, made, arrived, lost>>

\* browser_output_delete: exists(), and unlink(), which raises if it has gone since.
FindDeleted(t) ==
    /\ fileCall[t].tool = "delete" /\ fileCall[t].step = "first"
    /\ Step(t, IF Exists(fileCall[t].target) THEN "unlink" ELSE "done")
    /\ UNCHANGED <<files, arriving, made, arrived, lost>>

Unlink(t) ==
    LET c == fileCall[t] IN
    /\ c.step = "unlink"
    /\ IF Exists(c.target)
       THEN /\ files' = Without(c.target) /\ lost' = lost \cup Held(c.target)
            /\ Changing(t, [c EXCEPT !.step = "done"], {c.target})
       ELSE Step(t, "raised") /\ UNCHANGED <<files, lost>>
    /\ UNCHANGED <<arriving, made, arrived>>

\* browser_dump_page: what cannot be captured, other than the console, or has no place
\* in the output directory, ends the call.
DumpFails(t) ==
    LET c == fileCall[t] IN
    /\ c.tool = "dump" /\ c.step = "first" /\ c.next <= Len(Artifacts)
    /\ Step(t, "raised")
    /\ UNCHANGED <<files, arriving, made, arrived, lost>>

DumpNext(t) ==
    LET c == fileCall[t]
        p == OutputPath(Artifacts[c.next])
    IN
    /\ c.tool = "dump" /\ c.step = "first" /\ c.next <= Len(Artifacts)
    /\ OutputAllowed(Artifacts[c.next])
    /\ files' = With(p, c.number) /\ lost' = lost \cup Held(p)
    /\ Changing(t, [c EXCEPT !.next = @ + 1], {p})
    /\ UNCHANGED <<arriving, made, arrived>>

DumpEnds(t) ==
    /\ fileCall[t].tool = "dump" /\ fileCall[t].step = "first" /\ fileCall[t].next > Len(Artifacts)
    /\ Step(t, "done")
    /\ UNCHANGED <<files, arriving, made, arrived, lost>>

FilesNext ==
    \/ \E g \in Downloads : DownloadBegins(OutputPath(g)) \/ DownloadEnds(OutputPath(g))
    \/ \E t \in Threads :
          \/ \E tool \in NamedTools, source, target \in Given : BeginNamed(t, tool, source, target)
          \/ BeginDump(t)
          \/ \E tool \in Listings : BeginListing(t, tool)
          \/ EndFile(t) \/ Write(t) \/ ReadFile(t)
          \/ \E d \in fileCall[t].unread : ReadFolder(t, d)
          \/ \E p \in fileCall[t].pending : VisitName(t, p)
          \/ \E p \in fileCall[t].parts : PartGone(t, p)
          \/ StatName(t) \/ ListEnds(t)
          \/ FindDownload(t) \/ MoveDownload(t) \/ StatSaved(t)
          \/ FindDeleted(t) \/ Unlink(t)
          \/ DumpFails(t) \/ DumpNext(t) \/ DumpEnds(t)

-----------------------------------------------------------------------------
(* Properties                                                              *)

\* A place that the tools may touch.
IsInside(p) == IsCanonical(p) /\ \E root \in Roots : IsPrefix(root, p)

\* Whatever names the tools are given, with ".." in them, absolute or through links: a
\* call that is not refused is at work inside of the output directory and the allowed
\* roots, whatever is made is there, and what is elsewhere stays as it was.
NothingOutside ==
    ~Unrestricted =>
       /\ \A t \in Threads :
             fileCall[t].tool \in NamedTools /\ fileCall[t].step # "raised" =>
                IsInside(fileCall[t].source) /\ IsInside(fileCall[t].target)
       /\ \A p \in DOMAIN files \ Outside : IsInside(p)
       /\ \A p \in Outside : Held(p) = {0}

\* A download that came to its end is in exactly one place until it is deleted or
\* overwritten, however saves, deletes and writers race for it, and also when it is
\* saved to its own name in other words.
DownloadsAreKept ==
    \A n \in arrived : Cardinality({p \in DOMAIN files : files[p] = n}) = IF n \in lost THEN 0 ELSE 1

\* A listing that returns has every file that was there when it began and stayed as it
\* was, however deep, and none but those and what others changed while it ran.
ListingIsSound ==
    \A t \in Threads :
       LET c == fileCall[t] IN
       c.tool \in Listings /\ c.step = "done" =>
          (c.began \ c.touched) \subseteq c.listed /\ c.listed \subseteq c.began \cup c.touched

\* A dump that returns has left all of its artifacts, except where others have been
\* at work on them: one that fails half way leaves some, and says so.
DumpIsWhole ==
    \A t \in Threads :
       LET c == fileCall[t] IN
       c.tool = "dump" /\ c.step = "done" =>
          \A i \in DOMAIN Artifacts :
             LET p == OutputPath(Artifacts[i]) IN p \in c.touched \/ Held(p) = {c.number}

\* The calls that share the output directory lose nothing of each other's: downloads
\* are kept, listings sound and dumps whole.
SharedFilesAreKept == DownloadsAreKept /\ ListingIsSound /\ DumpIsWhole
=============================================================================
