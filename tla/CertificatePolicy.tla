-------------------------- MODULE CertificatePolicy --------------------------
(***************************************************************************)
(* torbrowser_driver/_proxy_intercept_policies.py: policies.json in the    *)
(* Tor Browser install directory, which every session that intercepts      *)
(* rewrites, and the snapshot each keeps of it in its session directory.   *)
(*                                                                         *)
(* A file is told by its kind and by what a well-formed one says: the       *)
(* policies of the installation's owner and the certificates of sessions.  *)
(***************************************************************************)
EXTENDS SessionIds

CONSTANT Owner      \* the policies of the installation's owner

ASSUME OwnerAssumption == Owner \notin Sessions

VARIABLES
    policies,       \* <tbb_root>/Browser/distribution/policies.json
    snapshot,       \* what a session's snapshot directory holds; Absent is
                    \* the no-prior-policies marker
    held            \* the bytes a session has read and has yet to write

policyVars == <<policies, snapshot, held>>

Content(says) == [kind |-> "json", says |-> says]
Absent == [kind |-> "absent", says |-> {}]
Malformed == [kind |-> "malformed", says |-> {}]
NoSnapshot == [kind |-> "none", says |-> {}]

Files == [kind : {"json"}, says : SUBSET (Sessions \cup {Owner})] \cup {Absent, Malformed}

PolicyTypeOK ==
    /\ policies \in Files
    /\ snapshot \in [Sessions -> Files \cup {NoSnapshot}]
    /\ held \in [Sessions -> Files \cup {NoSnapshot}]

PolicyInit ==
    /\ policies \in {Absent, Malformed, Content({Owner})}
    /\ snapshot = [s \in Sessions |-> NoSnapshot]
    /\ held = [s \in Sessions |-> NoSnapshot]

\* install_certificate_policy up to the parse of the prior file.
TakeSnapshot(s) ==
    /\ snapshot' = [snapshot EXCEPT ![s] = policies]
    /\ held' = [held EXCEPT ![s] = policies]
    /\ UNCHANGED policies

\* The merge, renamed into place.
WriteMerged(s) ==
    /\ policies' = Content(held[s].says \cup {s})
    /\ held' = [held EXCEPT ![s] = NoSnapshot]
    /\ UNCHANGED snapshot

\* restore_certificate_policy when no file had been there.
RestoreAbsence(s) ==
    /\ snapshot[s] = Absent
    /\ policies' = Absent
    /\ snapshot' = [snapshot EXCEPT ![s] = NoSnapshot]
    /\ UNCHANGED held

\* Mutant: the snapshot is read only after the file has been opened for writing.
RestoreTruncateFirst(s) ==
    /\ snapshot[s] \notin {Absent, NoSnapshot}
    /\ policies' \in {Content({}), Malformed}
    /\ UNCHANGED <<snapshot, held>>

\* Path.write_bytes truncates the file and then fills it with what was read:
\* in between it is empty or cut short.
RestoreTruncate(s) ==
    /\ snapshot[s] \notin {Absent, NoSnapshot}
    /\ policies' \in {Content({}), Malformed}
    /\ held' = [held EXCEPT ![s] = snapshot[s]]
    /\ UNCHANGED snapshot

RestoreWrite(s) ==
    /\ policies' = held[s]
    /\ snapshot' = [snapshot EXCEPT ![s] = NoSnapshot]
    /\ held' = [held EXCEPT ![s] = NoSnapshot]
=============================================================================
