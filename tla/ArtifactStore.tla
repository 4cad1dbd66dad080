---------------------------- MODULE ArtifactStore ----------------------------
(***************************************************************************)
(* services/artifact_store.py: the JSON-file-per-key store that every       *)
(* persistent service of MASTERDB is built on.                              *)
(*                                                                          *)
(* A file is what a reader can find under one key: nothing, the empty file  *)
(* that path.open("w") leaves before json.dump has written anything, a      *)
(* complete JSON text, or bytes that no longer parse.  The text of a file   *)
(* is abstracted to the record it encodes; of its bytes only the length     *)
(* ("extent") is kept, because it decides what two overlapping writers      *)
(* leave behind: both write from offset 0 of the same file, so a text that  *)
(* does not cover a longer one is followed by that one's tail.              *)
(*                                                                          *)
(* A record carries the length of its JSON text in its field "size".        *)
(* A text is written by one write: the store's records are shorter than     *)
(* the 8 KiB buffer of a Python text file, which is flushed on close.       *)
(***************************************************************************)
EXTENDS Naturals

CONSTANTS
  Absent,   \* no file under the key
  Blank,    \* created or truncated, nothing written yet
  Garbled   \* bytes that json.load rejects

ASSUME ArtifactStoreAssumption ==
  Absent # Blank /\ Absent # Garbled /\ Blank # Garbled

\* The three contents that are not the text of a record.
NotAText == {Absent, Blank, Garbled}

NoFile == [text |-> Absent, extent |-> 0]

\* path.exists() in load().
Exists(file) == file.text # Absent

\* json.load succeeds; on a blank or garbled file it raises JSONDecodeError.
Parses(file) == file.text \notin NotAText

\* path.open("w") in save(): the file is created, or cut to length 0.
Truncated == [text |-> Blank, extent |-> 0]

\* json.dump and the close of the handle in save(): the text goes to
\* offset 0, over whatever other writers put there since the truncation.
Written(file, record) ==
  IF record.size >= file.extent
    THEN [text |-> record, extent |-> record.size]
    ELSE [file EXCEPT !.text = Garbled]
=============================================================================
