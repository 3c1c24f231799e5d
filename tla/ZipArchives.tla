---------------------------- MODULE ZipArchives ----------------------------
(* Which archives are taken in and what is written of them.  An archive is  *)
(* a sequence of entries [path, type, isDir, form, fold, size, actual]: the *)
(* type is the extension, the form tells regular files from encrypted ones, *)
(* links and unusable paths, fold is the path without regard to case, size  *)
(* the announced and actual the real length.  The limits are [entries,      *)
(* files, single, total].                                                   *)
EXTENDS Integers, FiniteSets, FiniteSetsExt, SequenceParts

Fine == "none"

Policy(type) ==
  CASE type \in {".m", ".slx", ".mat", ".c", ".h", ".md", ".txt"} -> "allow"
    [] type = ".pdf" -> "skip"
    [] type = ".exe" -> "deny"
    [] OTHER -> "other"

FileEntries(entries) == {i \in DOMAIN entries : ~entries[i].isDir}

TotalOf(entries, S) == MapThenSumSet(LAMBDA i : entries[i].size, S)

Clashes(entries, i) == \E k \in 1..(i - 1) : entries[k].fold = entries[i].fold

(* What is wrong with an entry, given the entries before it.                *)
EntryFault(entries, i, limits) ==
  LET e == entries[i]
  IN  IF e.form = "encrypted" THEN "zip_bomb"
      ELSE IF e.form # "regular" \/ Clashes(entries, i) THEN "zip_slip"
      ELSE IF ~e.isDir /\ e.size > limits.single THEN "project_too_large"
      ELSE IF ~e.isDir /\ Policy(e.type) = "deny" THEN "file_type_not_allowed"
      ELSE Fine

(* The listing of an archive is checked before anything is written.  The    *)
(* limit on the compression ratio has the error of the limit on the total   *)
(* and is not told apart from it here.                                      *)
ScanFault(entries, limits) ==
  LET faulty == {i \in DOMAIN entries : EntryFault(entries, i, limits) # Fine}
  IN  CASE entries = <<>> -> "zip_bomb"
        [] \/ Len(entries) > limits.entries
           \/ Cardinality(FileEntries(entries)) > limits.files -> "project_too_large"
        [] /\ Len(entries) \in 1..limits.entries
           /\ Cardinality(FileEntries(entries)) <= limits.files ->
             IF faulty # {} THEN EntryFault(entries, Min(faulty), limits)
             ELSE IF TotalOf(entries, FileEntries(entries)) > limits.total
             THEN "zip_bomb" ELSE Fine

(* The entries that are written, and the first one that does not keep what  *)
(* it announced.  The running total can pass its limit only in such an      *)
(* entry; where it does so before the limit on one file is passed too, the  *)
(* code says zip_bomb and this project_too_large.                           *)
Consumed(entries) == {i \in FileEntries(entries) : Policy(entries[i].type) # "skip"}

CopyFault(entries, limits) ==
  LET lying == {i \in Consumed(entries) : entries[i].actual # entries[i].size}
  IN  CASE lying = {} -> Fine
        [] lying # {} /\ entries[Min(lying)].actual > limits.single -> "project_too_large"
        [] OTHER -> "zip_bomb"

ArchiveFault(entries, limits) ==
  IF ScanFault(entries, limits) # Fine THEN ScanFault(entries, limits)
  ELSE CopyFault(entries, limits)

(* The files listed for the project; entries come in the order of paths.    *)
FilesIn(entries) ==
  LET kept == Picked(entries, Consumed(entries))
  IN  [i \in DOMAIN kept |->
         [path |-> kept[i].path,
          type |-> IF Policy(kept[i].type) = "allow" THEN kept[i].type ELSE "other"]]
=============================================================================
