----------------------------- MODULE GeckoCache -----------------------------
(***************************************************************************)
(* torbrowser_driver/_geckodriver_resolver.py: the cache of one            *)
(* geckodriver version, and the driver processes that resolve it, one      *)
(* after another or at once.  Nothing locks the cache directory.           *)
(*                                                                         *)
(* A file that is open for writing keeps being written when its name is    *)
(* moved or removed, and opening an existing name for writing truncates    *)
(* the very file another process may be writing.                           *)
(***************************************************************************)
EXTENDS Naturals, FiniteSets

CONSTANTS
    Resolvers,      \* processes that call resolve_geckodriver, each once
    NoFile,         \* no file has the name
    CacheFaults     \* of "kill", "network", "archive" and "disk"

ASSUME NoFileAssumption == NoFile \notin Resolvers
ASSUME CacheFaultsAssumption == CacheFaults \subseteq {"kill", "network", "archive", "disk"}

VARIABLES
    part,           \* the download <archive>.part: the resolver that created the file
    archive,        \* <archive>: likewise
    download,       \* per file: whom it was truncated for last, and what it holds
    binary,         \* the cached geckodriver: likewise, or absent
    resolver,       \* where each process is
    file,           \* the download it writes or reads
    spoiled         \* the last to write the binary did not come to the end

cacheVars == <<part, archive, download, binary, resolver, file, spoiled>>

Active == {"start", "fetch", "copy", "size", "move", "open", "target", "extract"}
Over == {"hit", "returned", "raised", "killed"}

\* A file is "whole" from when the last process that truncated it has written it.
Contents == {"absent", "partial", "bad", "whole"}
Truncated(r, held) == [by |-> r, holds |-> held]

\* Every variable has its type.
CacheTypeOK ==
    /\ part \in Resolvers \cup {NoFile} /\ archive \in Resolvers \cup {NoFile}
    /\ download \in [Resolvers -> [by : Resolvers \cup {NoFile}, holds : Contents]]
    /\ binary \in [by : Resolvers \cup {NoFile}, holds : Contents \ {"bad"}]
    /\ resolver \in [Resolvers -> Active \cup Over \cup {"clean", "cleanRaised"}]
    /\ file \in [Resolvers -> Resolvers \cup {NoFile}]
    /\ spoiled \in BOOLEAN

CacheInit ==
    /\ part = NoFile /\ archive = NoFile
    /\ download = [r \in Resolvers |-> Truncated(NoFile, "absent")]
    /\ binary = Truncated(NoFile, "absent")
    /\ resolver = [r \in Resolvers |-> "start"]
    /\ file = [r \in Resolvers |-> NoFile]
    /\ spoiled = FALSE

At(r, from, to) == resolver[r] = from /\ resolver' = [resolver EXCEPT ![r] = to]

\* cached.is_file(): a hit, whatever the file holds.
LookUp(r) ==
    /\ At(r, "start", IF binary.holds = "absent" THEN "fetch" ELSE "hit")
    /\ UNCHANGED <<part, archive, download, binary, file, spoiled>>

-----------------------------------------------------------------------------
(* _download_to                                                            *)

\* The response arrives and tmp.open("wb") makes or truncates the .part file; or
\* the request fails, and a .part file of whomever is removed.
Fetch(r) ==
    \/ /\ At(r, "fetch", "copy")
       /\ LET f == IF part = NoFile THEN r ELSE part IN
             /\ part' = f
             /\ file' = [file EXCEPT ![r] = f]
             /\ download' = [download EXCEPT ![f] = Truncated(r, "partial")]
       /\ UNCHANGED <<archive, binary, spoiled>>
    \/ /\ "network" \in CacheFaults
       /\ At(r, "fetch", "raised")
       /\ part' = NoFile
       /\ UNCHANGED <<archive, download, binary, file, spoiled>>

\* What arrived is the archive, the same bytes for every process, or a body that
\* is none and spoils the file.
Copied(r) ==
    \E good \in IF "archive" \in CacheFaults THEN BOOLEAN ELSE {TRUE} :
       /\ At(r, "copy", "size")
       /\ download' = [download EXCEPT ![file[r]].holds =
             IF ~good THEN "bad" ELSE IF @ = "partial" /\ download[file[r]].by = r THEN "whole" ELSE @]
       /\ UNCHANGED <<part, archive, binary, file, spoiled>>

CopyFails(r) ==
    /\ "network" \in CacheFaults
    /\ At(r, "copy", "raised")
    /\ part' = NoFile
    /\ UNCHANGED <<archive, download, binary, file, spoiled>>

\* tmp.stat(): the file of that name may be another one by now, or none; a body
\* that is no archive is refused if it is too small or too large.
CheckSize(r) ==
    \/ /\ part # NoFile
       /\ At(r, "size", "move")
       /\ UNCHANGED part
       /\ UNCHANGED <<archive, download, binary, file, spoiled>>
    \/ /\ IF part = NoFile THEN TRUE ELSE download[part].holds # "whole"
       /\ At(r, "size", "raised")
       /\ part' = NoFile
       /\ UNCHANGED <<archive, download, binary, file, spoiled>>

\* tmp.replace(destination).
Move(r) ==
    \/ /\ part # NoFile
       /\ At(r, "move", "open")
       /\ archive' = part /\ part' = NoFile
       /\ UNCHANGED <<download, binary, file, spoiled>>
    \/ /\ part = NoFile
       /\ At(r, "move", "raised")
       /\ UNCHANGED <<part, archive, download, binary, file, spoiled>>

-----------------------------------------------------------------------------
(* _extract_binary, and the finally around it                              *)

\* The members of the archive are read: it is gone, it is not one, it is still
\* being written, or it has the binary.
OpenArchive(r) ==
    /\ IF archive # NoFile /\ download[archive].holds = "whole"
       THEN At(r, "open", "target") /\ file' = [file EXCEPT ![r] = archive]
       ELSE At(r, "open", "cleanRaised") /\ UNCHANGED file
    /\ UNCHANGED <<part, archive, download, binary, spoiled>>

\* out_path.open("wb").
OpenTarget(r) ==
    /\ At(r, "target", "extract")
    /\ binary' = Truncated(r, "partial")
    /\ spoiled' = FALSE
    /\ UNCHANGED <<part, archive, download, file>>

\* Mutant: the archive's own checks are not made on what is copied.
ExtractedUnchecked(r) ==
    /\ At(r, "extract", "clean")
    /\ binary' = IF binary.by = r /\ download[file[r]].holds = "whole"
                 THEN [binary EXCEPT !.holds = "whole"] ELSE binary
    /\ UNCHANGED <<part, archive, download, file, spoiled>>

\* Mutant: whatever is in the archive's file by now is taken for the binary.
ExtractedAsIs(r) ==
    /\ At(r, "extract", "clean")
    /\ binary' = [binary EXCEPT !.holds = download[file[r]].holds]
    /\ UNCHANGED <<part, archive, download, file, spoiled>>

\* The binary is copied, as the archive's checksums confirm, and made executable.  (Assumed
\* of a tar.gz: it is read as far as its last member, and its checksum comes after that.)
Extracted(r) ==
    /\ At(r, "extract", "clean")
    /\ download[file[r]].holds = "whole"
    /\ binary' = IF binary.by = r THEN [binary EXCEPT !.holds = "whole"] ELSE binary
    /\ UNCHANGED <<part, archive, download, file, spoiled>>

\* The disk is full, or a checksum does not match, for one because another process
\* still writes the archive: what has been written of the binary stays.
ExtractFails(r) ==
    /\ At(r, "extract", "cleanRaised")
    /\ "disk" \in CacheFaults \/ download[file[r]].holds # "whole"
    /\ spoiled' = (spoiled \/ binary.by = r)
    /\ UNCHANGED <<part, archive, download, binary, file>>

\* archive_path.unlink(missing_ok=True).
Clean(r) ==
    /\ At(r, "clean", "returned") \/ At(r, "cleanRaised", "raised")
    /\ archive' = NoFile
    /\ UNCHANGED <<part, download, binary, file, spoiled>>

\* The process is killed.
Kill(r) ==
    /\ "kill" \in CacheFaults
    /\ resolver[r] \notin Over
    /\ resolver' = [resolver EXCEPT ![r] = "killed"]
    /\ spoiled' = (spoiled \/ (resolver[r] = "extract" /\ binary.by = r))
    /\ UNCHANGED <<part, archive, download, binary, file>>

CacheNext ==
    \E r \in Resolvers :
       \/ LookUp(r) \/ Fetch(r) \/ Copied(r) \/ CopyFails(r) \/ CheckSize(r) \/ Move(r)
       \/ OpenArchive(r) \/ OpenTarget(r) \/ Extracted(r) \/ ExtractFails(r) \/ Clean(r)
       \/ Kill(r)

-----------------------------------------------------------------------------
(* Properties                                                              *)

\* A binary that is in the cache while nobody extracts is whole, however many
\* processes shared the .part file, the archive and the binary's own name and
\* whichever downloads broke off, unless the last extraction to begin was cut
\* short: then, and only then, later sessions hit a broken binary.
CachedBinaryIsWhole ==
    /\ \A r \in Resolvers : resolver[r] # "extract"
    /\ binary.holds # "absent"
    /\ ~spoiled
    => binary.holds = "whole"

\* When every process has ended by itself, whether it got a binary or an error,
\* neither a download nor an archive is left in the cache directory.
NothingLeftInCache ==
    (\A r \in Resolvers : resolver[r] \in Over \ {"killed"})
    => part = NoFile /\ archive = NoFile

\* The cache serves whole binaries and keeps nothing else.
CacheIsClean == CachedBinaryIsWhole /\ NothingLeftInCache
=============================================================================
