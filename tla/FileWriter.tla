----------------------------- MODULE FileWriter -----------------------------
(***************************************************************************)
(* LT_write_file_bytes_atomically of src/src/vm/utils.c, called by several *)
(* writers of one path: a temporary file is made, written in one or more   *)
(* writes, closed and renamed over the path.  Every system call may fail,  *)
(* and the process may die between any two of them.                        *)
(***************************************************************************)
EXTENDS Naturals

CONSTANTS Writers,
          OldFile,   \* what the path names before: a file, or nothing
          FileLength \* the length of what is written

ASSUME WritersAssumption == OldFile \notin Writers
ASSUME FileLengthAssumption == FileLength \in Nat

VARIABLES
  path,      \* whose file the path names
  temporary, \* the writers whose temporary name exists
  size,      \* the length of each writer's file
  wat        \* where each writer is

fileVars == <<path, temporary, size, wat>>

InProgress == {"write", "close", "rename", "unlink"}

FileTypeOK ==
  /\ path \in Writers \cup {OldFile}
  /\ temporary \subseteq Writers
  /\ size \in [Writers -> 0..FileLength]
  /\ wat \in [Writers -> InProgress \cup {"idle", "done", "failed", "dead"}]

FileInit ==
  /\ path = OldFile
  /\ temporary = {}
  /\ size = [w \in Writers |-> 0]
  /\ wat = [w \in Writers |-> "idle"]

WriterTo(w, l) == wat' = [wat EXCEPT ![w] = l]

(* mkstemp *)
MakeTemporary(w) ==
  /\ wat[w] = "idle"
  /\ \/ WriterTo(w, IF FileLength = 0 THEN "close" ELSE "write")
        /\ temporary' = temporary \cup {w}
     \/ WriterTo(w, "failed") /\ UNCHANGED temporary
  /\ UNCHANGED <<path, size>>

(* Mutant of WriteChunk: a write that is short is taken for a whole one. *)
WriteOnce(w) ==
  /\ wat[w] = "write"
  /\ \E n \in (size[w] + 1)..FileLength :
       size' = [size EXCEPT ![w] = n] /\ WriterTo(w, "close")
  /\ UNCHANGED <<path, temporary>>

(* write may write less than it was asked to; the loop asks for the rest.  *)
WriteChunk(w) ==
  /\ wat[w] = "write"
  /\ \E n \in (size[w] + 1)..FileLength :
       /\ size' = [size EXCEPT ![w] = n]
       /\ WriterTo(w, IF n < FileLength THEN "write" ELSE "close")
  /\ UNCHANGED <<path, temporary>>

(* write, close or rename answers an error. *)
CallFails(w) ==
  /\ wat[w] \in {"write", "close", "rename"}
  /\ WriterTo(w, "unlink")
  /\ UNCHANGED <<path, temporary, size>>

CloseFile(w) ==
  /\ wat[w] = "close"
  /\ WriterTo(w, "rename")
  /\ UNCHANGED <<path, temporary, size>>

Rename(w) ==
  /\ wat[w] = "rename"
  /\ path' = w
  /\ temporary' = temporary \ {w}
  /\ WriterTo(w, "done")
  /\ UNCHANGED size

Unlink(w) ==
  /\ wat[w] = "unlink"
  /\ temporary' = temporary \ {w}
  /\ WriterTo(w, "failed")
  /\ UNCHANGED <<path, size>>

ProcessDies ==
  /\ \E w \in Writers : wat[w] \in InProgress
  /\ wat' = [w \in Writers |-> IF wat[w] \in InProgress THEN "dead" ELSE wat[w]]
  /\ UNCHANGED <<path, temporary, size>>

FileNext ==
  \/ \E w \in Writers : \/ MakeTemporary(w) \/ WriteChunk(w) \/ CallFails(w)
                        \/ CloseFile(w) \/ Rename(w) \/ Unlink(w)
  \/ ProcessDies

FileSpec == FileInit /\ [][FileNext]_fileVars

(* Whoever opens the path, at any moment, finds the old file or all of     *)
(* what one writer wrote, and never the file of a call that reported an    *)
(* error or died; a call that has answered leaves no temporary file        *)
(* behind, with an error or without one (utils.c:80).                      *)
FileIsOldOrNew ==
  /\ path # OldFile => wat[path] = "done" /\ size[path] = FileLength
  /\ \A w \in temporary : wat[w] \in InProgress \cup {"dead"}
==========================================================================
