----------------------------- MODULE UpdateArchive -----------------------------
(***************************************************************************)
(* UpdateArchive: what load makes of an archive.  An entry is what its     *)
(* name says it is, in any order and number: the image (.swu), its         *)
(* manifest, the manifest's checksum, something unexpected, or a file in a *)
(* directory.  Contents stand for their hashes.                            *)
(***************************************************************************)
EXTENDS OsVersion, Sequences

None == "none"

\* A manifest describes files by name, hash and the device they are for; a
\* description may lack its sha256.
NoHash == "no hash"

Entries(archive, kind) == SelectSeq(archive, LAMBDA e : e.kind = kind)

\* The loop over the entries keeps name and hash of the last one of each kind.
LastEntry(archive, kind) ==
  LET entries == Entries(archive, kind) IN entries[Len(entries)]

\* The checks up to the lookup of the image's hash.
Described(archive) ==
  /\ Entries(archive, "nested") = <<>>
  /\ \A kind \in {"swu", "manifest", "sha256"} : Entries(archive, kind) # <<>>
  /\ LastEntry(archive, "manifest").content = LastEntry(archive, "sha256").content
  /\ LastEntry(archive, "swu").name \in DOMAIN LastEntry(archive, "manifest").content.files

\* hashes["sha256"] panics when there is none.
Panics(archive) ==
  /\ Described(archive)
  /\ LastEntry(archive, "manifest").content.files[LastEntry(archive, "swu").name] = NoHash

\* Mutant: the hash is that of any image in the archive.
AcceptedMutant(archive, current_version) ==
  LET swu == LastEntry(archive, "swu")
      manifest == LastEntry(archive, "manifest").content
  IN  /\ Described(archive)
      /\ \E i \in DOMAIN archive :
           archive[i].kind = "swu" /\ manifest.files[swu.name] = archive[i].content
      /\ manifest.compatible
      /\ manifest.version # current_version
      /\ PartialCmp(current_version, manifest.version) # "Greater"

\* The image's hash, the device, and versions later than the current one.
Accepted(archive, current_version) ==
  LET swu == LastEntry(archive, "swu")
      manifest == LastEntry(archive, "manifest").content
  IN  /\ Described(archive)
      /\ manifest.files[swu.name] = swu.content
      /\ manifest.compatible
      /\ manifest.version # current_version
      /\ PartialCmp(current_version, manifest.version) # "Greater"

\* swu_file_path after load.
Loaded(archive, current_version) ==
  IF Accepted(archive, current_version) THEN LastEntry(archive, "swu").content ELSE None
=============================================================================
