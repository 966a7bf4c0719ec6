------------------------------- MODULE Bundles -------------------------------
(* The bundle of an upload, from the archive to the accepted directory:        *)
(* safe_extract_zip of core/archive.py, and validate_manifest and              *)
(* validate_bundle_files of model_registry/manifest.py.                        *)
(* What an archive declares is checked as a whole before anything is written;  *)
(* what it holds is checked again, chunk by chunk, as it is written. Names are *)
(* model values with the path they normalise to, sizes are small numbers, and  *)
(* a JSON schema is valid or not.                                              *)
EXTENDS Naturals, Sequences, FiniteSets, Functions

CONSTANTS
    Paths,      \* paths in a bundle
    Parent,     \* the directory of each path, or Top
    Normal,     \* the path each name normalises to, or Rejected
    Yaml,       \* the path of model.yaml
    Archives,   \* the archives uploaded, as sequences of entries
    Manifests,  \* what a model.yaml may say
    MaxEntries, MaxEntry, MaxTotal,  \* ArchiveLimits
    MaxRatio,   \* the limit on compression, or 0
    Rejected, Top

Entries == [name : DOMAIN Normal, dir : BOOLEAN, special : BOOLEAN,
            declared : Nat, packed : Nat, bytes : Nat]

ASSUME BundleAssumption ==
    /\ IsFiniteSet(Paths) /\ Rejected \notin Paths /\ Top \notin Paths
    /\ Parent \in [Paths -> Paths \cup {Top}]
    /\ \A p \in Paths : Parent[p] # Top => Parent[Parent[p]] = Top  \* two levels
    /\ \A name \in DOMAIN Normal : Normal[name] \in Paths \cup {Rejected}
    /\ Archives \subseteq Seq(Entries)
    /\ MaxEntry \in Nat /\ MaxTotal \in Nat

VARIABLES
    archive,  \* the archive being processed
    bundle,   \* the progress of the upload
    disk      \* the target directory

bundleVars == <<archive, bundle, disk>>

Absent   == [kind |-> "absent", bytes |-> 0]
Dir      == [kind |-> "dir", bytes |-> 0]
File(n)  == [kind |-> "file", bytes |-> n]
Nothing  == [p \in Paths |-> Absent]

BundleInit ==
    /\ archive \in Archives
    /\ bundle = [pc |-> "validate", at |-> 1, written |-> 0, before |-> 0]
    /\ disk = Nothing

Entry    == archive[bundle.at]
IsFile(p) == p \in Paths /\ disk[p].kind = "file"

\* Where a directory can be, and the disk with x put at p in its directory
DirFits(p) == p # Top => ~IsFile(p)
Placed(p, x) ==
    [q \in Paths |-> IF q = p THEN x ELSE IF q = Parent[p] THEN Dir ELSE disk[q]]

\* Any failure: the target directory is removed with all that was extracted.
Reject ==
    /\ bundle' = [bundle EXCEPT !.pc = "rejected"]
    /\ disk' = Nothing
    /\ UNCHANGED archive
----------------------------------------------------------------------------
(* core/archive.py                                                             *)

EntryAllowed(e) ==
    /\ ~e.special
    /\ Normal[e.name] # Rejected
    /\ ~e.dir => /\ e.declared <= MaxEntry
                 /\ MaxRatio # 0 => e.declared <= MaxRatio * e.packed

\* _validate_entries: an entry for a directory counts as the name it has.
Valid ==
    /\ Len(archive) <= MaxEntries
    /\ \A e \in Range(archive) : EntryAllowed(e)
    /\ FoldFunction(LAMBDA e, n : IF e.dir THEN n ELSE n + e.declared, 0, archive) <= MaxTotal
    /\ Yaml \in {Normal[e.name] : e \in Range(archive)}

Validate ==
    /\ bundle.pc = "validate"
    /\ \/ Valid /\ bundle' = [bundle EXCEPT !.pc = "open"] /\ UNCHANGED <<archive, disk>>
       \/ ~Valid /\ Reject

\* _validate_entries does not pass on the entries of directories: they are checked
\* and then nothing is made for them.
SkipDirectory ==
    /\ bundle.pc = "open" /\ bundle.at <= Len(archive) /\ Entry.dir
    /\ bundle' = [bundle EXCEPT !.at = @ + 1]
    /\ UNCHANGED <<archive, disk>>

\* The parent directory is made and the file opened, empty.
Open == LET p == Normal[Entry.name] IN
    /\ bundle.pc = "open" /\ bundle.at <= Len(archive) /\ ~Entry.dir
    /\ \/ /\ disk[p].kind # "dir" /\ DirFits(Parent[p])
          /\ disk' = Placed(p, File(0))
          /\ bundle' = [bundle EXCEPT !.pc = "extract", !.written = 0]
          /\ UNCHANGED archive
       \/ ~(disk[p].kind # "dir" /\ DirFits(Parent[p])) /\ Reject

WithinEntryOnly(written, before) == written <= MaxEntry /\ written <= MaxTotal

\* The caps on what is written, per entry and over all entries so far
Within(written, before) == written <= MaxEntry /\ before + written <= MaxTotal

\* The next chunk of an entry is checked and written; a corrupt entry ends there.
Extract == LET p == Normal[Entry.name]
               n == bundle.written + 1
           IN
    /\ bundle.pc = "extract" /\ bundle.written < Entry.bytes
    /\ \/ /\ Within(n, bundle.before)
          /\ disk' = [disk EXCEPT ![p] = File(n)]
          /\ bundle' = [bundle EXCEPT !.written = n]
          /\ UNCHANGED archive
       \/ ~Within(n, bundle.before) /\ Reject

Corrupt == bundle.pc = "extract" /\ Reject

EndEntry ==
    /\ bundle.pc = "extract" /\ bundle.written = Entry.bytes
    /\ bundle' = [bundle EXCEPT !.pc = "open", !.at = @ + 1, !.before = @ + bundle.written]
    /\ UNCHANGED <<archive, disk>>
----------------------------------------------------------------------------
(* model_registry/manifest.py                                                  *)

\* validate_manifest and validate_bundle_files; a declared path is the path it
\* resolves to, or Rejected.
Complete(m) ==
    /\ m.wellFormed
    /\ IsFile(m.requirements) /\ IsFile(m.artifact)
    /\ m.stateDict => IsFile(m.classFile)
    /\ m.schema # "invalid"

\* model.yaml is read, and what it declares must be there.
CheckManifest ==
    /\ bundle.pc = "open" /\ bundle.at > Len(archive)
    /\ \/ /\ IsFile(Yaml) /\ \E m \in Manifests : Complete(m)
          /\ \E m \in {k \in Manifests : Complete(k)} :
                bundle' = [pc |-> "accepted", manifest |-> m]
          /\ UNCHANGED <<archive, disk>>
       \/ (~IsFile(Yaml) \/ \E m \in Manifests : ~Complete(m)) /\ Reject

BundleNext ==
    Validate \/ SkipDirectory \/ Open \/ Extract \/ Corrupt \/ EndEntry \/ CheckManifest

BundleSpec == BundleInit /\ [][BundleNext]_bundleVars
----------------------------------------------------------------------------
FileEntry(i, p) == ~archive[i].dir /\ Normal[archive[i].name] = p

\* What validate_bundle_files requires of a manifest
Declared(m) == {m.requirements, m.artifact} \cup IF m.stateDict THEN {m.classFile} ELSE {}

\* At every moment what an upload has on disk is within the limits, whatever its
\* archive declares, repeats or holds; a rejected one has nothing left; and an
\* accepted one has its manifest, everything the manifest declares, a file for
\* every file of the archive, and in each all that the last entry for it holds.
ExtractionIsSafe ==
    /\ \A p \in Paths : disk[p].bytes <= MaxEntry
    /\ FoldFunction(LAMBDA d, n : n + d.bytes, 0, disk) <= MaxTotal
    /\ bundle.pc = "rejected" => disk = Nothing
    /\ bundle.pc = "accepted" =>
         /\ \A p \in {Yaml} \cup Declared(bundle.manifest) : IsFile(p)
         /\ \A i \in DOMAIN archive : ~archive[i].dir => IsFile(Normal[archive[i].name])
         /\ \A p \in Paths : IsFile(p) =>
              \E i \in DOMAIN archive :
                 /\ FileEntry(i, p) /\ archive[i].bytes = disk[p].bytes
                 /\ \A j \in i+1 .. Len(archive) : ~FileEntry(j, p)
=============================================================================
