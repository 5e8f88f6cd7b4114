---------------------------- MODULE ConfigFiles -----------------------------
(***************************************************************************)
(* symbols.txt and splits.txt between dtk, which reads them, works for a   *)
(* while and writes them back (src/src/util/config.rs), and the user, who  *)
(* may save one of them in an editor at any time.                          *)
(*                                                                         *)
(* dtk looks at a file three times when it reads it: map() hashes the      *)
(* contents and closes the file, metadata() asks for the mtime, lines()    *)
(* opens the file again (FileReadInfo::new, StdFile).  Before it writes it *)
(* asks for the mtime again.  fs::write truncates the file and then fills  *)
(* it, so a process that is killed in between leaves it torn.              *)
(*                                                                         *)
(* A file's text is the set of the user's edits that are in it, and        *)
(* whether the lines dtk generates are.  Its mtime is modelled by how      *)
(* often it was written: each time it gets another one.  Nobody deletes a  *)
(* file.                                                                   *)
(***************************************************************************)
EXTENDS Naturals

CONSTANTS
  Files,      \* the files of all modules
  Present,    \* those that are there when dtk first runs
  MaxSaves    \* (bound) how often the user saves a file

ASSUME SavesAssumption == MaxSaves \in Nat

VARIABLES
  disk,       \* the files
  saves,      \* how often the user saved
  st,         \* how far dtk is with each file
  cached,     \* the FileReadInfo and the text dtk read; info is FALSE for None
  made,       \* (history) the edits the user has saved to each file
  risked      \* (history) those saved where dtk cannot notice

fileVars == <<disk, saves, st, cached, made, risked>>

Text == [user : SUBSET Nat, auto : BOOLEAN]
Empty == [user |-> {}, auto |-> FALSE]

\* What dtk writes for what it has read: the user's lines stay, its own are added.
Updated(text) == [text EXCEPT !.auto = TRUE]

Reading == {"unread", "hashed", "timed"}

FInit ==
  /\ disk = [f \in Files |-> [exists |-> f \in Present, mtime |-> 0, text |-> Empty]]
  /\ saves = 0
  /\ st = [f \in Files |-> "unread"]
  /\ cached = [f \in Files |-> [info |-> FALSE, hash |-> Empty, mtime |-> 0, text |-> Empty]]
  /\ made = [f \in Files |-> {}]
  /\ risked = [f \in Files |-> {}]

\* A file gets new contents, and with them a new mtime.
Put(f, text) ==
  disk' = [disk EXCEPT ![f] = [exists |-> TRUE, mtime |-> @.mtime + 1, text |-> text]]

\* dtk no longer looks: it will write the file whatever happens to it.
Blind(f) == st[f] \in {"checked", "writing"} \/ (st[f] = "read" /\ ~cached[f].info)

\* The user saves a file with one more edit, with or without dtk's lines.
Save(f) ==
  /\ saves < MaxSaves
  /\ saves' = saves + 1
  /\ \E auto \in {disk[f].text.auto, FALSE} :
       Put(f, [user |-> disk[f].text.user \cup {saves + 1}, auto |-> auto])
  /\ made' = [made EXCEPT ![f] = @ \cup {saves + 1}]
  /\ risked' = IF Blind(f) THEN [risked EXCEPT ![f] = @ \cup {saves + 1}] ELSE risked
  /\ UNCHANGED <<st, cached>>

-----------------------------------------------------------------------------
\* A step of dtk with a file: what it knows of it.
Look(f, from, to, info) ==
  /\ st[f] = from
  /\ st' = [st EXCEPT ![f] = to]
  /\ cached' = [cached EXCEPT ![f] = info]
  /\ UNCHANGED <<disk, saves, made, risked>>

\* There is no file: dtk starts from nothing, and remembers no FileReadInfo.
NoFile(f) ==
  /\ ~disk[f].exists
  /\ Look(f, "unread", "read", [cached[f] EXCEPT !.info = FALSE, !.text = Empty])

Hash(f) ==
  /\ disk[f].exists
  /\ Look(f, "unread", "hashed", [cached[f] EXCEPT !.info = TRUE, !.hash = disk[f].text])

Mtime(f) == Look(f, "hashed", "timed", [cached[f] EXCEPT !.mtime = disk[f].mtime])

\* (mutant) the text is that of the map, which is older than the mtime.
LinesOfMap(f) == Look(f, "timed", "read", [cached[f] EXCEPT !.text = cached[f].hash])

Lines(f) == Look(f, "timed", "read", [cached[f] EXCEPT !.text = disk[f].text])

\* (mutant) the file is not looked at again before it is written.
CheckNothing(f) ==
  Look(f, "read",
       IF cached[f].info /\ Updated(cached[f].text) = cached[f].hash THEN "same" ELSE "checked",
       cached[f])

\* (mutant) a file that was not there is not written.
CheckMissing(f) ==
  Look(f, "read",
       IF ~cached[f].info \/ Updated(cached[f].text) = cached[f].hash THEN "same"
       ELSE IF disk[f].mtime # cached[f].mtime THEN "kept"
       ELSE "checked",
       cached[f])

(***************************************************************************)
(* write_if_unchanged: a file that has changed since it was read is kept,  *)
(* and one whose contents would be those that were read is not written.    *)
(***************************************************************************)
Check(f) ==
  Look(f, "read",
       IF cached[f].info /\ disk[f].mtime # cached[f].mtime THEN "kept"
       ELSE IF cached[f].info /\ Updated(cached[f].text) = cached[f].hash THEN "same"
       ELSE "checked",
       cached[f])

\* fs::write: the file is empty until its contents are written.
Truncate(f) ==
  /\ st[f] = "checked"
  /\ st' = [st EXCEPT ![f] = "writing"]
  /\ Put(f, Empty)
  /\ UNCHANGED <<saves, cached, made, risked>>

Fill(f) ==
  /\ st[f] = "writing"
  /\ st' = [st EXCEPT ![f] = "written"]
  /\ Put(f, Updated(cached[f].text))
  /\ UNCHANGED <<saves, cached, made, risked>>

\* The process ends, with the files as they are, and a new one starts.
Forget ==
  /\ st' = [f \in Files |-> "unread"]
  /\ cached' = [f \in Files |-> [info |-> FALSE, hash |-> Empty, mtime |-> 0, text |-> Empty]]
  /\ risked' = [f \in Files |-> IF st[f] = "writing" THEN made[f] ELSE risked[f]]
  /\ UNCHANGED <<disk, saves, made>>

Read(f) == NoFile(f) \/ Hash(f) \/ Mtime(f) \/ Lines(f)
Write(f) == Check(f) \/ Truncate(f) \/ Fill(f)

FNext == Forget \/ \E f \in Files : Save(f) \/ Read(f) \/ Write(f)

FSpec == FInit /\ [][FNext]_fileVars

-----------------------------------------------------------------------------
FTypeOK ==
  /\ disk \in [Files -> [exists : BOOLEAN, mtime : Nat, text : Text]]
  /\ saves \in 0..MaxSaves
  /\ st \in [Files -> Reading \cup {"read", "kept", "same", "checked", "writing", "written"}]
  /\ cached \in [Files -> [info : BOOLEAN, hash : Text, mtime : Nat, text : Text]]
  /\ made \in [Files -> SUBSET Nat] /\ risked \in [Files -> SUBSET Nat]

(***************************************************************************)
(* No edit of the user is lost, whenever it is saved: not while dtk reads  *)
(* the file, not while it analyses, in whatever order the three looks at   *)
(* the file and the saves come.  The exceptions are the edits dtk cannot   *)
(* notice: saved after the mtime was compared, to a file dtk found missing *)
(* and writes whatever is there, or in a file dtk was killed in the middle *)
(* of writing.                                                             *)
(***************************************************************************)
EditsKept ==
  \A f \in Files : st[f] # "writing" => made[f] \ risked[f] \subseteq disk[f].text.user
=============================================================================
