--------------------------- MODULE DolSplitProofs ---------------------------
(***************************************************************************)
(* For every project: no edit of the user is lost, and a run that succeeds *)
(* leaves every object, made of what was saved before it and of nothing    *)
(* stale.                                                                  *)
(*                                                                         *)
(* The first rests on the order in which a file is read: the text dtk has  *)
(* is never older than the mtime it remembers, so when the mtime is still  *)
(* that of the file the text is, too (SameText).                           *)
(***************************************************************************)
EXTENDS DolSplit, TLAPS

\* What is known of a file, of dtk's knowledge of it, and of its edits.
Fresh(f) == made[f] \ risked[f]

EditsInFile(f) == st[f] # "writing" => Fresh(f) \subseteq disk[f].text.user
EditsInText(f) == Blind(f) => Fresh(f) \subseteq cached[f].text.user
MtimeSeen(f) == st[f] \in {"timed", "read"} /\ cached[f].info => cached[f].mtime <= disk[f].mtime
SameText(f) == st[f] = "read" /\ cached[f].info /\ cached[f].mtime = disk[f].mtime =>
                 cached[f].text = disk[f].text
MissingEmpty(f) == ~disk[f].exists => disk[f].text = Empty

FileInv(f) ==
  EditsInFile(f) /\ EditsInText(f) /\ MtimeSeen(f) /\ SameText(f) /\ MissingEmpty(f)

FInv == FTypeOK /\ \A f \in Files : FileInv(f)

-----------------------------------------------------------------------------
LEMMA FInitInv ==
  FInit => FInv
<1> SUFFICES ASSUME FInit
             PROVE  FInv
  OBVIOUS
<1>1. Empty \in Text
  BY DEF Empty, Text
<1>2. FTypeOK
  BY <1>1, SavesAssumption DEF FInit, FTypeOK, Reading
<1>3. ASSUME NEW f \in Files
      PROVE  FileInv(f)
  BY DEF FInit, FileInv, EditsInFile, EditsInText, MtimeSeen, SameText, MissingEmpty, Fresh, Blind
<1> QED
  BY <1>2, <1>3 DEF FInv

LEMMA PutType ==
  ASSUME FTypeOK, NEW f \in Files, NEW text \in Text, Put(f, text)
  PROVE  disk' \in [Files -> [exists : BOOLEAN, mtime : Nat, text : Text]]
BY DEF Put, FTypeOK

\* The type invariant is kept by each step.
LEMMA FTypes ==
  ASSUME FTypeOK, [FNext]_fileVars
  PROVE  FTypeOK'
<1>e. Empty \in Text
  BY DEF Empty, Text
<1>1. CASE Forget
  BY <1>1, <1>e DEF Forget, FTypeOK, Reading
<1>2. ASSUME NEW f \in Files, Save(f)
      PROVE  FTypeOK'
  <2>1. PICK auto \in {disk[f].text.auto, FALSE} :
          Put(f, [user |-> disk[f].text.user \cup {saves + 1}, auto |-> auto])
    BY <1>2 DEF Save
  <2> DEFINE text == [user |-> disk[f].text.user \cup {saves + 1}, auto |-> auto]
  <2>2. disk[f].text \in Text /\ disk[f].mtime \in Nat /\ saves \in Nat /\ saves < MaxSaves
    BY <1>2, SavesAssumption DEF FTypeOK, Save
  <2>3. text \in Text /\ Put(f, text)
    <3>1. disk[f].text.user \cup {saves + 1} \in SUBSET Nat
      BY <2>2 DEF Text
    <3>2. disk[f].text.auto \in BOOLEAN
      BY <2>2 DEF Text
    <3>3. auto \in BOOLEAN
      BY <3>2
    <3>4. text \in Text
      BY <3>1, <3>3 DEF Text
    <3> QED
      BY <2>1, <3>4
  <2> HIDE DEF text
  <2>4. disk' \in [Files -> [exists : BOOLEAN, mtime : Nat, text : Text]]
    BY <2>3, PutType
  <2>5. saves' \in 0..MaxSaves /\ made' \in [Files -> SUBSET Nat] /\ risked' \in [Files -> SUBSET Nat]
    BY <1>2, <2>2, SavesAssumption DEF Save, FTypeOK
  <2> QED
    BY <1>2, <2>4, <2>5 DEF Save, FTypeOK
<1>3. ASSUME NEW f \in Files, NEW from, NEW to, NEW info, Look(f, from, to, info),
             to \in Reading \cup {"read", "kept", "same", "checked"},
             info \in [info : BOOLEAN, hash : Text, mtime : Nat, text : Text]
      PROVE  FTypeOK'
  BY <1>3 DEF Look, FTypeOK
<1>4. ASSUME NEW f \in Files, Read(f)
      PROVE  FTypeOK'
  <2>1. /\ cached[f] \in [info : BOOLEAN, hash : Text, mtime : Nat, text : Text]
        /\ disk[f] \in [exists : BOOLEAN, mtime : Nat, text : Text]
    BY DEF FTypeOK
  <2>2. CASE NoFile(f)
    BY <1>3, <1>e, <2>1, <2>2 DEF NoFile
  <2>3. CASE Hash(f)
    BY <1>3, <2>1, <2>3 DEF Hash, Reading
  <2>4. CASE Mtime(f)
    BY <1>3, <2>1, <2>4 DEF Mtime, Reading
  <2>5. CASE Lines(f)
    BY <1>3, <2>1, <2>5 DEF Lines
  <2> QED
    BY <1>4, <2>2, <2>3, <2>4, <2>5 DEF Read
<1>5. ASSUME NEW f \in Files, Write(f)
      PROVE  FTypeOK'
  <2>1. /\ cached[f] \in [info : BOOLEAN, hash : Text, mtime : Nat, text : Text]
        /\ disk[f] \in [exists : BOOLEAN, mtime : Nat, text : Text]
    BY DEF FTypeOK
  <2>2. CASE Check(f)
    BY <1>3, <2>1, <2>2 DEF Check
  <2>4. CASE Truncate(f)
    BY <1>e, <2>4, PutType DEF Truncate, FTypeOK
  <2>5. CASE Fill(f)
    <3>1. Updated(cached[f].text) \in Text
      BY <2>1 DEF Updated, Text
    <3> QED
      BY <2>5, <3>1, PutType DEF Fill, FTypeOK
  <2> QED
    BY <1>5, <2>2, <2>4, <2>5 DEF Write
<1>6. CASE UNCHANGED fileVars
  BY <1>6 DEF fileVars, FTypeOK
<1> QED
  BY <1>1, <1>2, <1>4, <1>5, <1>6 DEF FNext

\* A step with one file leaves what is known of the others.
LEMMA OtherFiles ==
  ASSUME NEW f, NEW g, FileInv(g), f # g,
         disk'[g] = disk[g], st'[g] = st[g], cached'[g] = cached[g],
         made'[g] = made[g], risked'[g] = risked[g]
  PROVE  FileInv(g)'
BY DEF FileInv, EditsInFile, EditsInText, MtimeSeen, SameText, MissingEmpty, Fresh, Blind

LEMMA SaveInv ==
  ASSUME FInv, NEW f \in Files, Save(f), NEW g \in Files
  PROVE  FileInv(g)'
<1>0. FTypeOK /\ FileInv(f) /\ FileInv(g)
  BY DEF FInv
<1>1. CASE f # g
  BY <1>0, <1>1, OtherFiles DEF Save, Put, FTypeOK
<1>2. CASE f = g
  <2>1. PICK auto \in {disk[f].text.auto, FALSE} :
          Put(f, [user |-> disk[f].text.user \cup {saves + 1}, auto |-> auto])
    BY DEF Save
  <2>2. disk'[f].exists /\ disk'[f].mtime = disk[f].mtime + 1
        /\ disk'[f].text.user = disk[f].text.user \cup {saves + 1}
    BY <1>0, <2>1 DEF Put, FTypeOK
  <2>3. st'[f] = st[f] /\ cached'[f] = cached[f] /\ made'[f] = made[f] \cup {saves + 1}
        /\ risked'[f] = IF Blind(f) THEN risked[f] \cup {saves + 1} ELSE risked[f]
    BY <1>0 DEF Save, FTypeOK
  <2>4. disk[f].mtime \in Nat /\ cached[f].mtime \in Nat
    BY <1>0 DEF FTypeOK
  <2>5. EditsInFile(f)' /\ EditsInText(f)'
    BY <1>0, <2>2, <2>3 DEF FileInv, EditsInFile, EditsInText, Fresh, Blind
  <2>6. MtimeSeen(f)' /\ SameText(f)' /\ MissingEmpty(f)'
    BY <1>0, <2>2, <2>3, <2>4 DEF FileInv, MtimeSeen, SameText, MissingEmpty
  <2> QED
    BY <1>2, <2>5, <2>6 DEF FileInv
<1> QED
  BY <1>1, <1>2

LEMMA LookInv ==
  ASSUME FInv, NEW f \in Files, Read(f) \/ Check(f), NEW g \in Files
  PROVE  FileInv(g)'
<1>0. FTypeOK /\ FileInv(f) /\ FileInv(g)
  BY DEF FInv
<1>1. UNCHANGED <<disk, made, risked>>
  BY DEF Read, NoFile, Hash, Mtime, Lines, Check, Look
<1>2. CASE f # g
  <2>1. st'[g] = st[g] /\ cached'[g] = cached[g]
    BY <1>0, <1>2 DEF Read, NoFile, Hash, Mtime, Lines, Check, Look, FTypeOK
  <2> QED
    BY <1>0, <1>1, <1>2, <2>1, OtherFiles
<1>3. CASE f = g
  <2>1. cached[f] \in [info : BOOLEAN, hash : Text, mtime : Nat, text : Text]
        /\ disk[f] \in [exists : BOOLEAN, mtime : Nat, text : Text]
    BY <1>0 DEF FTypeOK
  <2>2. CASE NoFile(f)
    <3>1. st[f] = "unread" /\ st'[f] = "read" /\ ~cached'[f].info /\ cached'[f].text = Empty
          /\ ~disk[f].exists
      BY <1>0, <2>1, <2>2 DEF NoFile, Look, FTypeOK
    <3> QED
      BY <1>0, <1>1, <1>3, <3>1 DEF FileInv, EditsInFile, EditsInText, MtimeSeen, SameText,
                                    MissingEmpty, Fresh, Blind
  <2>3. CASE Hash(f)
    <3>1. st[f] = "unread" /\ st'[f] = "hashed"
      BY <1>0, <2>3 DEF Hash, Look, FTypeOK
    <3> QED
      BY <1>0, <1>1, <1>3, <3>1 DEF FileInv, EditsInFile, EditsInText, MtimeSeen, SameText,
                                    MissingEmpty, Fresh, Blind
  <2>4. CASE Mtime(f)
    <3>1. st[f] = "hashed" /\ st'[f] = "timed" /\ cached'[f].mtime = disk[f].mtime
      BY <1>0, <2>1, <2>4 DEF Mtime, Look, FTypeOK
    <3> QED
      BY <1>0, <1>1, <1>3, <2>1, <3>1 DEF FileInv, EditsInFile, EditsInText, MtimeSeen, SameText,
                                    MissingEmpty, Fresh, Blind
  <2>5. CASE Lines(f)
    <3>1. /\ st[f] = "timed" /\ st'[f] = "read" /\ cached'[f].text = disk[f].text
          /\ cached'[f].mtime = cached[f].mtime /\ cached'[f].info = cached[f].info
      BY <1>0, <2>1, <2>5 DEF Lines, Look, FTypeOK
    <3> QED
      BY <1>0, <1>1, <1>3, <3>1 DEF FileInv, EditsInFile, EditsInText, MtimeSeen, SameText,
                                    MissingEmpty, Fresh, Blind
  <2>6. CASE Check(f)
    <3>1. /\ st[f] = "read" /\ cached'[f] = cached[f]
          /\ \/ st'[f] \in {"kept", "same"}
             \/ st'[f] = "checked" /\ (cached[f].info => disk[f].mtime = cached[f].mtime)
      BY <1>0, <2>6 DEF Check, Look, FTypeOK
    <3> QED
      BY <1>0, <1>1, <1>3, <3>1 DEF FileInv, EditsInFile, EditsInText, MtimeSeen, SameText,
                                    MissingEmpty, Fresh, Blind
  <2> QED
    BY <2>2, <2>3, <2>4, <2>5, <2>6 DEF Read
<1> QED
  BY <1>2, <1>3

LEMMA WriteInv ==
  ASSUME FInv, NEW f \in Files, Truncate(f) \/ Fill(f), NEW g \in Files
  PROVE  FileInv(g)'
<1>0. FTypeOK /\ FileInv(f) /\ FileInv(g)
  BY DEF FInv
<1>1. UNCHANGED <<made, risked, cached>>
  BY DEF Truncate, Fill
<1>2. CASE f # g
  <2>1. st'[g] = st[g] /\ disk'[g] = disk[g]
    BY <1>0, <1>2 DEF Truncate, Fill, Put, FTypeOK
  <2> QED
    BY <1>0, <1>1, <1>2, <2>1, OtherFiles
<1>3. CASE f = g
  <2>1. CASE Truncate(f)
    <3>1. st[f] = "checked" /\ st'[f] = "writing" /\ disk'[f].exists
      BY <1>0, <2>1 DEF Truncate, Put, FTypeOK
    <3> QED
      BY <1>0, <1>1, <1>3, <3>1 DEF FileInv, EditsInFile, EditsInText, MtimeSeen, SameText,
                                    MissingEmpty, Fresh, Blind
  <2>2. CASE Fill(f)
    <3>1. st[f] = "writing" /\ st'[f] = "written" /\ disk'[f].exists
          /\ disk'[f].text = Updated(cached[f].text)
      BY <1>0, <2>2 DEF Fill, Put, FTypeOK
    <3>2. disk'[f].text.user = cached[f].text.user
      <4>1. cached[f].text \in Text
        BY <1>0 DEF FTypeOK
      <4> QED
        BY <3>1, <4>1 DEF Updated, Text
    <3> QED
      BY <1>0, <1>1, <1>3, <3>1, <3>2 DEF FileInv, EditsInFile, EditsInText, MtimeSeen, SameText,
                                    MissingEmpty, Fresh, Blind
  <2> QED
    BY <2>1, <2>2
<1> QED
  BY <1>2, <1>3

LEMMA ForgetInv ==
  ASSUME FInv, Forget, NEW g \in Files
  PROVE  FileInv(g)'
<1>0. FTypeOK /\ FileInv(g)
  BY DEF FInv
<1>1. /\ st'[g] = "unread" /\ disk' = disk /\ made' = made
      /\ risked'[g] = IF st[g] = "writing" THEN made[g] ELSE risked[g]
  BY DEF Forget
<1> QED
  BY <1>0, <1>1 DEF FileInv, EditsInFile, EditsInText, MtimeSeen, SameText, MissingEmpty, Fresh, Blind

LEMMA FilesInv ==
  FInv /\ [FNext]_fileVars => FInv'
<1> SUFFICES ASSUME FInv, [FNext]_fileVars
             PROVE  FInv'
  OBVIOUS
<1>1. FTypeOK'
  BY FTypes DEF FInv
<1>2. ASSUME NEW g \in Files
      PROVE  FileInv(g)'
  <2>1. CASE Forget
    BY <2>1, ForgetInv
  <2>2. CASE \E f \in Files : Save(f) \/ Read(f) \/ Write(f)
    BY <2>2, SaveInv, LookInv, WriteInv DEF Write
  <2>3. CASE UNCHANGED fileVars
    BY <2>3 DEF fileVars, FInv, FileInv, EditsInFile, EditsInText, MtimeSeen, SameText,
                MissingEmpty, Fresh, Blind
  <2> QED
    BY <2>1, <2>2, <2>3 DEF FNext
<1> QED
  BY <1>1, <1>2 DEF FInv

-----------------------------------------------------------------------------
\* What dtk and the user do with the files is a step of ConfigFiles.
LEMMA RunSteps ==
  ASSUME [Next]_allVars
  PROVE  [FNext]_fileVars
<1>f. Files \subseteq {Splits(m) : m \in Modules} \cup {Symbols(m) : m \in Modules}
  BY ProjectAssumption
<1>1. CASE Start \/ Kill
  BY <1>1 DEF Start, Kill, FNext
<1>2. CASE MainStep \/ Errors
  BY <1>2 DEF MainStep, Errors, ErrorIn, Extract, Extracted, VerifyModules, Loaded, Link,
              SplitEnded, CreateConfig, FlushConfig, WriteDep
<1>3. CASE UserStep
  BY <1>3 DEF UserStep, FNext
<1>4. ASSUME NEW m \in Modules, TaskStep(m)
      PROVE  [FNext]_fileVars
  <2>1. CASE ReadConfig(m) \/ WriteConfig(m)
    BY <2>1 DEF ReadConfig, WriteConfig, FNext
  <2>2. CASE LoadObject(m) \/ Analyse(m) \/ UpdateModule(m) \/ SplitObj(m) \/ WriteObject(m)
    BY <2>2 DEF LoadObject, Analyse, UpdateModule, SplitObj, WriteObject
  <2> QED
    BY <1>4, <2>1, <2>2 DEF TaskStep
<1>5. ASSUME NEW m \in Modules, TaskEnds(m)
      PROVE  [FNext]_fileVars
  BY <1>5 DEF TaskEnds, TaskFails, Skip
<1>6. CASE UNCHANGED allVars
  BY <1>6 DEF allVars
<1> QED
  BY <1>1, <1>2, <1>3, <1>4, <1>5, <1>6 DEF Next

(***************************************************************************)
(* EditsKept for every project and every number of runs and saves: no edit *)
(* the user saves to symbols.txt or splits.txt is lost, except where       *)
(* write_if_unchanged cannot notice it.                                    *)
(***************************************************************************)
THEOREM NoEditLost ==
  Spec => []EditsKept
<1>1. Init => FInv
  BY FInitInv DEF Init
<1>2. FInv /\ [Next]_allVars => FInv'
  BY FilesInv, RunSteps
<1>3. FInv => EditsKept
  BY DEF FInv, FileInv, EditsInFile, EditsKept, Fresh
<1> QED
  BY <1>1, <1>2, <1>3, PTL DEF Spec

-----------------------------------------------------------------------------
LEMMA InputsType ==
  ASSUME FTypeOK, NEW m \in Modules
  PROVE  Inputs(m) \in Content
<1>1. Empty \in Text
  BY DEF Empty, Text
<1>2. \A f \in Files : cached[f].text \in Text
  BY DEF FTypeOK
<1>3. TextOf(Splits(m)) \in Text /\ TextOf(Symbols(m)) \in Text
  BY <1>1, <1>2 DEF TextOf
<1> QED
  BY <1>3 DEF Inputs, Content

\* The steps of split() keep the types of what the process keeps.
LEMMA MainTypes ==
  ASSUME TypeOK, FTypeOK', Start \/ MainStep \/ Errors \/ Kill \/ UserStep
  PROVE  TypeOK'
<1>u. 1 \in 1..Units
  BY ProjectAssumption
<1>1. CASE Start
  <2>1. runs' \in 0..MaxRuns /\ before' \in 0..MaxSaves
    BY <1>1, ProjectAssumption, SavesAssumption DEF Start, TypeOK, FTypeOK
  <2> QED
    BY <1>1, <1>u, <2>1 DEF Start, TypeOK
<1>2. CASE Errors
  BY <1>2 DEF Errors, ErrorIn, Fail, TypeOK
<1>3. CASE UserStep
  BY <1>3 DEF UserStep, runVars, TypeOK
<1>4. ASSUME NEW m \in Modules, Extract(m)
      PROVE  TypeOK'
  BY <1>4 DEF Extract, Fail, TypeOK
<1>5. CASE Extracted \/ VerifyModules \/ Link \/ SplitEnded \/ WriteDep
  BY <1>5 DEF Extracted, VerifyModules, Link, SplitEnded, WriteDep, Fail, TypeOK
<1>6. CASE Loaded
  BY <1>6 DEF Loaded, Fail, TypeOK
<1>7. CASE CreateConfig
  BY <1>7 DEF CreateConfig, TypeOK, MadeOf
<1>8. CASE FlushConfig
  <2>1. [m \in Modules |-> Inputs(m)] \in [Modules -> Content]
    BY InputsType DEF TypeOK
  <2>2. config' \in MadeOf([Modules -> Content])
    BY <1>8, <2>1 DEF FlushConfig, MadeOf, Whole
  <2> QED
    BY <1>8, <2>2 DEF FlushConfig, TypeOK
<1>9. CASE Kill
  <2>1. PICK torn \in SUBSET Modules :
          out' = [m \in Modules |-> IF m \in torn THEN [out[m] EXCEPT ![unit[m]] = Torn] ELSE out[m]]
    BY <1>9 DEF Kill
  <2>2. Torn \in MadeOf(Content)
    BY DEF MadeOf
  <2>3. out' \in [Modules -> [1..Units -> MadeOf(Content)]]
    BY <2>1, <2>2 DEF TypeOK
  <2>4. extracted' \in [Modules -> {"none", "part", "whole"}]
    <3>1. PICK m \in Modules :
            extracted' = IF phase = "extract" /\ extracted[m] = "none"
                         THEN [extracted EXCEPT ![m] = "part"] ELSE extracted
      BY <1>9 DEF Kill
    <3>2. extracted \in [Modules -> {"none", "part", "whole"}]
      BY DEF TypeOK
    <3> QED
      BY <3>1, <3>2
  <2> QED
    BY <1>9, <1>u, <2>3, <2>4 DEF Kill, TypeOK
<1> QED
  BY <1>1, <1>2, <1>3, <1>4, <1>5, <1>6, <1>7, <1>8, <1>9 DEF MainStep

\* So do the tasks.
LEMMA TaskTypes ==
  ASSUME TypeOK, FTypeOK', NEW m \in Modules, TaskStep(m) \/ TaskEnds(m)
  PROVE  TypeOK'
<1>1. CASE LoadObject(m) \/ Analyse(m) \/ UpdateModule(m) \/ SplitObj(m)
  BY <1>1 DEF LoadObject, Analyse, UpdateModule, SplitObj, Go, TypeOK
<1>2. CASE ReadConfig(m) \/ WriteConfig(m)
  BY <1>2 DEF ReadConfig, WriteConfig, runVars, TypeOK
<1>3. CASE WriteObject(m)
  <2>1. Whole(Inputs(m)) \in MadeOf(Content)
    BY InputsType DEF Whole, MadeOf, TypeOK
  <2>2. out' \in [Modules -> [1..Units -> MadeOf(Content)]]
    BY <1>3, <2>1 DEF WriteObject, TypeOK
  <2>3. unit[m] \in 1..Units /\ Units \in Nat
    BY ProjectAssumption DEF TypeOK
  <2>4. unit' \in [Modules -> 1..Units]
    <3>1. CASE LastUnit(m)
      BY <1>3, <3>1 DEF WriteObject, TypeOK
    <3>2. CASE ~LastUnit(m)
      <4>1. unit[m] + 1 \in 1..Units
        BY <2>3, <3>2 DEF LastUnit
      <4>2. unit' = [unit EXCEPT ![m] = unit[m] + 1] /\ unit \in [Modules -> 1..Units]
        BY <1>3, <3>2 DEF WriteObject, TypeOK
      <4> QED
        BY <4>1, <4>2
    <3> QED
      BY <3>1, <3>2
  <2> QED
    BY <1>3, <2>2, <2>4 DEF WriteObject, TypeOK
<1>4. CASE TaskEnds(m)
  BY <1>4 DEF TaskEnds, TaskFails, Skip, Go, TypeOK
<1> QED
  BY <1>1, <1>2, <1>3, <1>4 DEF TaskStep

(***************************************************************************)
(* TypeOK for every project: in particular no task writes an object behind *)
(* the last of its module.                                                 *)
(***************************************************************************)
THEOREM TypeCorrect ==
  Spec => []TypeOK
<1>1. Init => TypeOK
  <2> SUFFICES ASSUME Init
               PROVE  TypeOK
    OBVIOUS
  <2>1. FTypeOK
    BY FInitInv DEF Init, FInv
  <2>2. 1 \in 1..Units /\ 0 \in 0..MaxRuns /\ 0 \in 0..MaxSaves
    BY ProjectAssumption, SavesAssumption
  <2>3. None \in MadeOf(Content) /\ None \in MadeOf([Modules -> Content])
    BY DEF MadeOf
  <2> QED
    BY <2>1, <2>2, <2>3 DEF Init, TypeOK
<1>2. TypeOK /\ [Next]_allVars => TypeOK'
  <2> SUFFICES ASSUME TypeOK, [Next]_allVars
               PROVE  TypeOK'
    OBVIOUS
  <2>1. FTypeOK'
    BY FTypes, RunSteps DEF TypeOK
  <2>2. CASE UNCHANGED allVars
    BY <2>1, <2>2 DEF allVars, runVars, TypeOK
  <2> QED
    BY <2>1, <2>2, MainTypes, TaskTypes DEF Next
<1> QED
  BY <1>1, <1>2, PTL DEF Spec


-----------------------------------------------------------------------------
(***************************************************************************)
(* What is written while the modules are split: a task's objects in front  *)
(* of its unit are those of this run, and stay so, because nothing is read *)
(* any more; split() goes on to config.json only when every task is done.  *)
(***************************************************************************)
WrittenBy(m) ==
  /\ stage[m] \in {"waiting", "config"} => unit[m] = 1
  /\ stage[m] = "objects" => \A u \in 1..(unit[m] - 1) : out[m][u] = Whole(Inputs(m))
  /\ stage[m] = "done" => \A u \in 1..Units : out[m][u] = Whole(Inputs(m))

AllWritten == \A m \in Modules : \A u \in 1..Units : out[m][u] = Whole(Inputs(m))
ConfigWritten == config = Whole([m \in Modules |-> Inputs(m)])

OInv ==
  /\ phase \in {"extract", "hash", "load", "link"} => unit = [m \in Modules |-> 1]
  /\ phase = "split" => \A m \in Modules : WrittenBy(m)
  /\ phase \in {"config", "flush", "dep"} => AllWritten
  /\ phase = "dep" => ConfigWritten
  /\ outcome = "ok" => phase = "off" /\ AllWritten /\ ConfigWritten

LEMMA SameInputs ==
  ASSUME cached' = cached, NEW m
  PROVE  Inputs(m)' = Inputs(m)
BY DEF Inputs, TextOf

\* Writing a file changes nothing dtk knows of it.
LEMMA WriteKnows ==
  ASSUME FTypeOK, NEW f \in Files, Write(f)
  PROVE  cached' = cached
<1>1. CASE Check(f)
  BY <1>1 DEF Check, Look, FTypeOK
<1>2. CASE Truncate(f) \/ Fill(f)
  BY <1>2 DEF Truncate, Fill
<1> QED
  BY <1>1, <1>2 DEF Write

\* The tasks of the modules while they are loaded.
LEMMA LoadOutputs ==
  ASSUME OInv, phase = "load", phase' = phase, outcome' = outcome, unit' = unit
  PROVE  OInv'
BY DEF OInv

\* A step of the task of a module while the modules are split.
LEMMA SplitOutputs ==
  ASSUME OInv, phase = "split", phase' = phase, outcome' = outcome, cached' = cached,
         NEW m \in Modules, WrittenBy(m)',
         \A n \in Modules : n # m => stage'[n] = stage[n] /\ unit'[n] = unit[n] /\ out'[n] = out[n]
  PROVE  OInv'
<1>1. ASSUME NEW n \in Modules, n # m
      PROVE  WrittenBy(n)'
  <2>1. Inputs(n)' = Inputs(n)
    BY SameInputs
  <2> QED
    BY <1>1, <2>1 DEF OInv, WrittenBy
<1> QED
  BY <1>1 DEF OInv

LEMMA TaskOutputs ==
  ASSUME TypeOK, OInv, NEW m \in Modules, TaskStep(m) \/ TaskEnds(m)
  PROVE  OInv'
<1>t. FTypeOK /\ m \in DOMAIN stage /\ m \in DOMAIN unit /\ m \in DOMAIN out
      /\ unit[m] \in 1..Units /\ Units \in Nat /\ DOMAIN out[m] = 1..Units
      /\ stage \in [Modules -> {"waiting", "reading", "analysed", "config", "objects", "done",
                               "error", "skipped"}]
      /\ unit \in [Modules -> 1..Units]
      /\ out \in [Modules -> [1..Units -> MadeOf(Content)]]
  BY ProjectAssumption DEF TypeOK
<1>0. phase = "split" => WrittenBy(m)
  BY DEF OInv
<1>1. CASE LoadObject(m) \/ ReadConfig(m) \/ Analyse(m)
  BY <1>1, LoadOutputs DEF LoadObject, ReadConfig, Analyse, runVars
<1>2. CASE UpdateModule(m) \/ SplitObj(m)
  <2>1. /\ phase = "split" /\ cached' = cached /\ stage[m] \in {"waiting", "config"}
        /\ stage'[m] \in {"config", "objects"} /\ unit' = unit /\ out' = out
        /\ phase' = phase /\ outcome' = outcome
        /\ \A n \in Modules : n # m => stage'[n] = stage[n]
    BY <1>t, <1>2 DEF UpdateModule, SplitObj, Go, fileVars
  <2>2. WrittenBy(m)'
    BY <1>0, <2>1 DEF WrittenBy
  <2> QED
    BY <2>1, <2>2, SplitOutputs
<1>3. CASE WriteConfig(m)
  <2>1. cached' = cached
    BY <1>t, <1>3, WriteKnows DEF WriteConfig
  <2>2. phase = "split" /\ UNCHANGED runVars
    BY <1>3 DEF WriteConfig
  <2>3. Inputs(m)' = Inputs(m)
    BY <2>1, SameInputs
  <2>4. WrittenBy(m)'
    BY <1>0, <2>2, <2>3 DEF WrittenBy, runVars
  <2> QED
    BY <2>1, <2>2, <2>4, SplitOutputs DEF runVars
<1>4. CASE WriteObject(m)
  <2>1. /\ phase = "split" /\ stage[m] = "objects" /\ cached' = cached
        /\ phase' = phase /\ outcome' = outcome
        /\ out' = [out EXCEPT ![m][unit[m]] = Whole(Inputs(m))]
    BY <1>4 DEF WriteObject, fileVars
  <2>2. Inputs(m)' = Inputs(m)
    BY <2>1, SameInputs
  <2>3. \A u \in 1..Units : out'[m][u] = IF u = unit[m] THEN Whole(Inputs(m)) ELSE out[m][u]
    BY <1>t, <2>1
  <2>4. \A u \in 1..(unit[m] - 1) : out[m][u] = Whole(Inputs(m))
    BY <1>0, <2>1 DEF WrittenBy
  <2>5. \A u \in 1..unit[m] : out'[m][u] = Whole(Inputs(m))
    BY <1>t, <2>3, <2>4
  <2>6. WrittenBy(m)'
    <3>1. CASE LastUnit(m)
      BY <1>t, <1>4, <2>2, <2>5, <3>1 DEF WriteObject, LastUnit, WrittenBy
    <3>2. CASE ~LastUnit(m)
      <4>1. unit'[m] = unit[m] + 1 /\ stage'[m] = "objects"
        BY <1>t, <1>4, <2>1, <3>2 DEF WriteObject
      <4> QED
        BY <1>t, <2>2, <2>5, <4>1 DEF WrittenBy
    <3> QED
      BY <3>1, <3>2
  <2>7. \A n \in Modules : n # m => stage'[n] = stage[n] /\ unit'[n] = unit[n] /\ out'[n] = out[n]
    BY <1>t, <1>4, <2>1 DEF WriteObject
  <2> QED
    BY <2>1, <2>6, <2>7, SplitOutputs
<1>5. CASE TaskEnds(m)
  <2>1. /\ phase \in {"load", "split"} /\ phase' = phase /\ outcome' = outcome
        /\ unit' = unit /\ out' = out /\ cached' = cached
        /\ stage'[m] \in {"error", "skipped"}
        /\ \A n \in Modules : n # m => stage'[n] = stage[n]
    BY <1>t, <1>5 DEF TaskEnds, TaskFails, Skip, Go, fileVars
  <2>2. WrittenBy(m)'
    BY <2>1 DEF WrittenBy
  <2> QED
    BY <2>1, <2>2, LoadOutputs, SplitOutputs
<1> QED
  BY <1>1, <1>2, <1>3, <1>4, <1>5 DEF TaskStep

LEMMA MainOutputs ==
  ASSUME TypeOK, OInv, Start \/ MainStep \/ Errors \/ Kill \/ UserStep
  PROVE  OInv'
<1>1. CASE Start
  BY <1>1 DEF Start, OInv
<1>2. CASE Errors \/ Kill
  BY <1>2 DEF Errors, ErrorIn, Fail, Kill, OInv
<1>3. CASE UserStep
  <2>1. cached' = cached /\ UNCHANGED runVars
    BY <1>3 DEF UserStep, Save
  <2>2. \A m \in Modules : Inputs(m)' = Inputs(m)
    BY <2>1, SameInputs
  <2> QED
    BY <2>1, <2>2 DEF OInv, WrittenBy, AllWritten, ConfigWritten, runVars
<1>4. ASSUME NEW m \in Modules, Extract(m)
      PROVE  OInv'
  BY <1>4 DEF Extract, Fail, OInv
<1>5. CASE Extracted \/ VerifyModules \/ Loaded
  BY <1>5 DEF Extracted, VerifyModules, Loaded, Fail, OInv
<1>6. CASE Link
  BY <1>6 DEF Link, OInv, WrittenBy
<1>7. CASE SplitEnded
  <2>1. cached' = cached /\ out' = out /\ phase = "split"
    BY <1>7 DEF SplitEnded, fileVars
  <2>2. \A m \in Modules : Inputs(m)' = Inputs(m)
    BY <2>1, SameInputs
  <2>3. CASE Succeeded("done")
    <3>1. AllWritten
      BY <2>1, <2>3 DEF Succeeded, OInv, WrittenBy, AllWritten
    <3>2. AllWritten'
      BY <2>1, <2>2, <3>1 DEF AllWritten
    <3> QED
      BY <1>7, <2>1, <2>3, <3>2 DEF SplitEnded, OInv
  <2>4. CASE ~Succeeded("done")
    BY <1>7, <2>4 DEF SplitEnded, Fail, OInv
  <2> QED
    BY <2>3, <2>4
<1>8. CASE CreateConfig \/ FlushConfig \/ WriteDep
  <2>1. cached' = cached /\ out' = out /\ phase \in {"config", "flush", "dep"}
    BY <1>8 DEF CreateConfig, FlushConfig, WriteDep, fileVars
  <2>2. \A m \in Modules : Inputs(m)' = Inputs(m)
    BY <2>1, SameInputs
  <2>3. AllWritten'
    BY <2>1, <2>2 DEF OInv, AllWritten
  <2>4. outcome # "ok"
    BY <2>1 DEF OInv
  <2>5. CASE CreateConfig
    BY <2>3, <2>4, <2>5 DEF CreateConfig, OInv
  <2>6. CASE FlushConfig
    <3>1. ConfigWritten'
      BY <2>2, <2>6 DEF FlushConfig, ConfigWritten, Whole
    <3> QED
      BY <2>3, <2>4, <2>6, <3>1 DEF FlushConfig, OInv
  <2>7. CASE WriteDep
    <3>1. ConfigWritten'
      BY <2>2, <2>7 DEF WriteDep, ConfigWritten, OInv, Whole
    <3> QED
      BY <2>3, <2>7, <3>1 DEF WriteDep, OInv
  <2> QED
    BY <1>8, <2>5, <2>6, <2>7
<1> QED
  BY <1>1, <1>2, <1>3, <1>4, <1>5, <1>6, <1>7, <1>8 DEF MainStep

(***************************************************************************)
(* OutputsComplete for every project: a run that ends with success has     *)
(* written every object of every module and a config.json that names them, *)
(* whatever failed or was killed before.                                   *)
(***************************************************************************)
THEOREM OutputsAreComplete ==
  Spec => []OutputsComplete
<1>1. Init => OInv
  BY DEF Init, OInv
<1>2. TypeOK /\ OInv /\ [Next]_allVars => OInv'
  <2> SUFFICES ASSUME TypeOK, OInv, [Next]_allVars
               PROVE  OInv'
    OBVIOUS
  <2>1. CASE UNCHANGED allVars
    <3>1. cached' = cached /\ UNCHANGED runVars
      BY <2>1 DEF allVars, fileVars
    <3>2. \A m \in Modules : Inputs(m)' = Inputs(m)
      BY <3>1, SameInputs
    <3> QED
      BY <3>1, <3>2 DEF OInv, WrittenBy, AllWritten, ConfigWritten, runVars
  <2> QED
    BY <2>1, MainOutputs, TaskOutputs DEF Next
<1>3. OInv => OutputsComplete
  BY DEF OInv, OutputsComplete, AllWritten, ConfigWritten
<1> QED
  BY <1>1, <1>2, <1>3, TypeCorrect, PTL DEF Spec

-----------------------------------------------------------------------------
(***************************************************************************)
(* What a run has made of a file once it has read it: the edits that were  *)
(* saved before the run are in the text, and as long as no save comes in   *)
(* between the file is what dtk knows of it.                               *)
(***************************************************************************)
Seen == {"read", "kept", "same", "checked", "writing", "written"}

EarlierRead(f) ==
  st[f] \in Seen => {e \in made[f] : e <= before} \ risked[f] \subseteq cached[f].text.user

AsKnown(f) ==
  /\ st[f] \in {"hashed", "timed", "read"} /\ cached[f].info => cached[f].hash = disk[f].text
  /\ st[f] \in {"timed", "read"} /\ cached[f].info => cached[f].mtime = disk[f].mtime
  /\ st[f] \in {"read", "checked"} => cached[f].text = disk[f].text
  /\ st[f] # "kept"
  /\ st[f] \in {"same", "written"} => disk[f].text = Updated(cached[f].text)

InRun(f) == EarlierRead(f) /\ (saves = before => AsKnown(f))

RunInv == before <= saves /\ \A f \in Files : InRun(f)

\* Start and Kill begin with the files anew; any other step looks at one file or at none.
LEMMA FileSteps ==
  ASSUME [Next]_allVars
  PROVE  \/ Start \/ Kill
         \/ /\ before' = before /\ update' = update
            /\ UNCHANGED fileVars \/ \E f \in Files : Save(f) \/ Read(f) \/ Write(f)
<1>1. CASE MainStep \/ Errors
  BY <1>1 DEF MainStep, Errors, ErrorIn, Extract, Extracted, VerifyModules, Loaded, Link,
              SplitEnded, CreateConfig, FlushConfig, WriteDep
<1>2. CASE UserStep
  BY <1>2 DEF UserStep, runVars
<1>3. ASSUME NEW m \in Modules, TaskStep(m)
      PROVE  /\ before' = before /\ update' = update
             /\ UNCHANGED fileVars \/ \E f \in Files : Save(f) \/ Read(f) \/ Write(f)
  <2>1. CASE ReadConfig(m) \/ WriteConfig(m)
    BY <2>1 DEF ReadConfig, WriteConfig, runVars
  <2>2. CASE LoadObject(m) \/ Analyse(m) \/ UpdateModule(m) \/ SplitObj(m) \/ WriteObject(m)
    BY <2>2 DEF LoadObject, Analyse, UpdateModule, SplitObj, WriteObject
  <2> QED
    BY <1>3, <2>1, <2>2 DEF TaskStep
<1>4. ASSUME NEW m \in Modules, TaskEnds(m)
      PROVE  before' = before /\ update' = update /\ UNCHANGED fileVars
  BY <1>4 DEF TaskEnds, TaskFails, Skip
<1>5. CASE UNCHANGED allVars
  BY <1>5 DEF allVars, runVars
<1> QED
  BY <1>1, <1>2, <1>3, <1>4, <1>5 DEF Next

LEMMA OtherInRun ==
  ASSUME NEW f, InRun(f), before' = before, saves' = saves,
         disk'[f] = disk[f], st'[f] = st[f], cached'[f] = cached[f],
         made'[f] = made[f], risked'[f] = risked[f]
  PROVE  InRun(f)'
BY DEF InRun, EarlierRead, AsKnown

\* A save is later than the run began, and ends its being undisturbed.
LEMMA SaveInRun ==
  ASSUME FInv, RunInv, before \in Nat, before' = before, NEW f \in Files, Save(f), NEW g \in Files
  PROVE  before' <= saves' /\ InRun(g)'
<1>1. FTypeOK /\ InRun(g) /\ before <= saves /\ saves \in Nat /\ saves' = saves + 1
  BY SavesAssumption DEF FInv, RunInv, FTypeOK, Save
<1>2. st' = st /\ cached' = cached /\ risked[g] \subseteq risked'[g]
      /\ made'[g] \subseteq made[g] \cup {saves + 1}
  BY <1>1 DEF Save, FTypeOK
<1>3. {e \in made'[g] : e <= before'} \subseteq {e \in made[g] : e <= before}
  BY <1>1, <1>2
<1>4. EarlierRead(g)'
  BY <1>1, <1>2, <1>3 DEF InRun, EarlierRead
<1> QED
  BY <1>1, <1>4 DEF InRun

LEMMA ReadInRun ==
  ASSUME FInv, RunInv, before' = before, NEW f \in Files, Read(f) \/ Check(f), NEW g \in Files
  PROVE  saves' = saves /\ InRun(g)'
<1>0. FTypeOK /\ FileInv(f) /\ InRun(f) /\ InRun(g)
  BY DEF FInv, RunInv
<1>1. UNCHANGED <<disk, saves, made, risked>>
  BY DEF Read, NoFile, Hash, Mtime, Lines, Check, Look
<1>2. CASE f # g
  <2>1. st'[g] = st[g] /\ cached'[g] = cached[g]
    BY <1>0, <1>2 DEF Read, NoFile, Hash, Mtime, Lines, Check, Look, FTypeOK
  <2> QED
    BY <1>0, <1>1, <2>1, OtherInRun
<1>3. CASE f = g
  <2>1. cached[f] \in [info : BOOLEAN, hash : Text, mtime : Nat, text : Text]
        /\ disk[f] \in [exists : BOOLEAN, mtime : Nat, text : Text]
    BY <1>0 DEF FTypeOK
  <2>2. CASE NoFile(f)
    <3>1. st[f] = "unread" /\ st'[f] = "read" /\ ~cached'[f].info /\ cached'[f].text = Empty
          /\ disk[f].text = Empty
      BY <1>0, <2>1, <2>2 DEF NoFile, Look, FTypeOK, FileInv, MissingEmpty
    <3>2. Fresh(f) \subseteq Empty.user
      BY <1>0, <3>1 DEF FileInv, EditsInFile
    <3>3. EarlierRead(f)'
      BY <1>1, <3>1, <3>2 DEF EarlierRead, Fresh
    <3> QED
      BY <1>1, <1>3, <3>1, <3>3 DEF InRun, AsKnown
  <2>3. CASE Hash(f)
    <3>1. st'[f] = "hashed" /\ cached'[f].hash = disk[f].text
      BY <1>0, <2>1, <2>3 DEF Hash, Look, FTypeOK
    <3> QED
      BY <1>1, <1>3, <3>1 DEF InRun, AsKnown, EarlierRead, Seen
  <2>4. CASE Mtime(f)
    <3>1. st[f] = "hashed" /\ st'[f] = "timed" /\ cached'[f].mtime = disk[f].mtime
          /\ cached'[f].hash = cached[f].hash /\ cached'[f].info = cached[f].info
      BY <1>0, <2>1, <2>4 DEF Mtime, Look, FTypeOK
    <3> QED
      BY <1>0, <1>1, <1>3, <3>1 DEF InRun, AsKnown, EarlierRead, Seen
  <2>5. CASE Lines(f)
    <3>1. /\ st[f] = "timed" /\ st'[f] = "read" /\ cached'[f].text = disk[f].text
          /\ cached'[f].mtime = cached[f].mtime /\ cached'[f].info = cached[f].info
          /\ cached'[f].hash = cached[f].hash
      BY <1>0, <2>1, <2>5 DEF Lines, Look, FTypeOK
    <3>2. EarlierRead(f)'
      BY <1>0, <1>1, <3>1 DEF EarlierRead, FileInv, EditsInFile, Fresh
    <3> QED
      BY <1>0, <1>1, <1>3, <3>1, <3>2 DEF InRun, AsKnown
  <2>6. CASE Check(f)
    <3>1. /\ st[f] = "read" /\ cached'[f] = cached[f]
          /\ st'[f] = IF cached[f].info /\ disk[f].mtime # cached[f].mtime THEN "kept"
                      ELSE IF cached[f].info /\ Updated(cached[f].text) = cached[f].hash THEN "same"
                      ELSE "checked"
      BY <1>0, <2>6 DEF Check, Look, FTypeOK
    <3>2. EarlierRead(f)'
      BY <1>0, <1>1, <3>1 DEF InRun, EarlierRead, Seen
    <3>3. ASSUME saves = before
          PROVE  AsKnown(f)'
      BY <1>0, <1>1, <3>1, <3>3 DEF InRun, AsKnown
    <3> QED
      BY <1>1, <1>3, <3>2, <3>3 DEF InRun
  <2> QED
    BY <1>1, <2>2, <2>3, <2>4, <2>5, <2>6 DEF Read
<1> QED
  BY <1>1, <1>2, <1>3

LEMMA WriteInRun ==
  ASSUME FInv, RunInv, before' = before, NEW f \in Files, Truncate(f) \/ Fill(f), NEW g \in Files
  PROVE  saves' = saves /\ InRun(g)'
<1>0. FTypeOK /\ InRun(f) /\ InRun(g)
  BY DEF FInv, RunInv
<1>1. UNCHANGED <<saves, made, risked, cached>>
  BY DEF Truncate, Fill
<1>2. CASE f # g
  <2>1. st'[g] = st[g] /\ disk'[g] = disk[g]
    BY <1>0, <1>2 DEF Truncate, Fill, Put, FTypeOK
  <2> QED
    BY <1>0, <1>1, <2>1, OtherInRun
<1>3. CASE f = g /\ Truncate(f)
  <2>1. st[f] = "checked" /\ st'[f] = "writing"
    BY <1>0, <1>3 DEF Truncate, FTypeOK
  <2> QED
    BY <1>0, <1>1, <1>3, <2>1 DEF InRun, EarlierRead, AsKnown, Seen
<1>4. CASE f = g /\ Fill(f)
  <2>1. st[f] = "writing" /\ st'[f] = "written" /\ disk'[f].text = Updated(cached[f].text)
    BY <1>0, <1>4 DEF Fill, Put, FTypeOK
  <2> QED
    BY <1>0, <1>1, <1>4, <2>1 DEF InRun, EarlierRead, AsKnown, Seen
<1> QED
  BY <1>1, <1>2, <1>3, <1>4

LEMMA RunStays ==
  ASSUME FInv, TypeOK, RunInv, [Next]_allVars
  PROVE  RunInv'
<1>0. before \in Nat /\ saves \in Nat
  BY SavesAssumption DEF TypeOK, FTypeOK
<1>1. CASE Start \/ Kill
  <2>1. Forget /\ saves' = saves /\ (before' = saves \/ before' = before)
    BY <1>1 DEF Start, Kill, Forget
  <2>2. \A f \in Files : st'[f] = "unread"
    BY <2>1 DEF Forget
  <2> QED
    BY <1>0, <2>1, <2>2 DEF RunInv, InRun, EarlierRead, AsKnown, Seen
<1>2. CASE before' = before /\ UNCHANGED fileVars
  BY <1>2 DEF fileVars, RunInv, InRun, EarlierRead, AsKnown
<1>3. ASSUME NEW f \in Files, before' = before, Save(f)
      PROVE  RunInv'
  BY <1>0, <1>3, SaveInRun DEF RunInv
<1>4. ASSUME NEW f \in Files, before' = before, Read(f) \/ Write(f)
      PROVE  RunInv'
  BY <1>4, ReadInRun, WriteInRun DEF RunInv, Write
<1> QED
  BY <1>1, <1>2, <1>3, <1>4, FileSteps

-----------------------------------------------------------------------------
(***************************************************************************)
(* How far a run is: a module is analysed only when it was verified and    *)
(* its files are read, the modules are linked only when all files are, and *)
(* a module's objects are written behind its files.                        *)
(***************************************************************************)
AllIn(m, states) == Past(Splits(m), states) /\ Past(Symbols(m), states)

HashChecked(m) ==
  m \in Rels \/ stage[m] \in {"reading", "analysed"} => Verified(m)

Progress ==
  /\ phase \in {"extract", "hash"} => \A m \in Modules : stage[m] = "waiting"
  /\ phase = "load" => \A m \in Modules :
       HashChecked(m) /\ (stage[m] = "analysed" => AllIn(m, Seen))
  /\ phase \in {"link", "split", "config", "flush", "dep"} \/ outcome = "ok" =>
       \A m \in Modules : AllIn(m, Seen)
  /\ update /\ phase = "split" =>
       \A m \in Modules : stage[m] \in {"objects", "done"} => AllIn(m, Rest)
  /\ update /\ (phase \in {"config", "flush", "dep"} \/ outcome = "ok") =>
       \A m \in Modules : AllIn(m, Rest)
  /\ ~update => /\ \A m \in Modules : stage[m] # "config"
                /\ \A f \in Files : st[f] \in Reading \cup {"read"}
  /\ outcome = "ok" => phase = "off"

\* Every file belongs to a module.
LEMMA FilesOfModules ==
  ASSUME NEW states, \A m \in Modules : AllIn(m, states), NEW f \in Files
  PROVE  st[f] \in states
BY ProjectAssumption DEF AllIn, Past

\* A file that is read stays so, and one dtk is done with, too, until dtk starts anew.
LEMMA StateStays ==
  ASSUME FTypeOK, UNCHANGED fileVars \/ \E f \in Files : Save(f) \/ Read(f) \/ Write(f)
  PROVE  \A g \in Files : /\ st[g] \in Seen => st'[g] \in Seen
                          /\ st[g] \in Rest => st'[g] \in Rest
<1>1. CASE UNCHANGED fileVars
  BY <1>1 DEF fileVars
<1>2. ASSUME NEW f \in Files, Save(f)
      PROVE  UNCHANGED st
  BY <1>2 DEF Save
<1>3. ASSUME NEW f \in Files, Read(f) \/ Write(f), NEW g \in Files
      PROVE  /\ st[g] \in Seen => st'[g] \in Seen
             /\ st[g] \in Rest => st'[g] \in Rest
  <2>1. CASE f # g
    BY <1>3, <2>1 DEF Read, Write, NoFile, Hash, Mtime, Lines, Check, Truncate, Fill, Look, FTypeOK
  <2>2. CASE f = g
    <3>1. st'[f] \in Seen \/ st[f] \in {"unread", "hashed"}
      BY <1>3 DEF Read, Write, NoFile, Hash, Mtime, Lines, Check, Truncate, Fill, Look, FTypeOK, Seen
    <3>2. st[f] \in Reading \cup {"read", "checked", "writing"}
      BY <1>3 DEF Read, Write, NoFile, Hash, Mtime, Lines, Check, Truncate, Fill, Look, Reading
    <3> QED
      BY <2>2, <3>1, <3>2 DEF Seen, Rest, Reading
  <2> QED
    BY <2>1, <2>2
<1> QED
  BY <1>1, <1>2, <1>3

LEMMA PastStays ==
  ASSUME FTypeOK, UNCHANGED fileVars \/ \E f \in Files : Save(f) \/ Read(f) \/ Write(f), NEW m
  PROVE  /\ AllIn(m, Seen) => AllIn(m, Seen)'
         /\ AllIn(m, Rest) => AllIn(m, Rest)'
BY StateStays DEF AllIn, Past

LEMMA MainProgress ==
  ASSUME TypeOK, Progress, Start \/ MainStep \/ Errors \/ Kill \/ UserStep
  PROVE  Progress'
<1>1. CASE Start
  BY <1>1 DEF Start, Forget, Progress, Reading
<1>2. CASE Errors
  BY <1>2 DEF Errors, ErrorIn, Fail, fileVars, Progress
<1>3. CASE Kill
  BY <1>3 DEF Kill, Forget, Progress, Reading
<1>4. CASE UserStep
  <2>1. st' = st /\ UNCHANGED runVars
    BY <1>4 DEF UserStep, Save
  <2> QED
    BY <2>1 DEF runVars, Progress, HashChecked, Verified, AllIn, Past
<1>5. ASSUME NEW m \in Modules, Extract(m)
      PROVE  Progress'
  BY <1>5 DEF Extract, Fail, fileVars, Progress
<1>6. CASE Extracted
  BY <1>6 DEF Extracted, fileVars, Progress
<1>7. CASE VerifyModules
  BY <1>7 DEF VerifyModules, Fail, fileVars, Progress, HashChecked, Verified
<1>8. CASE Loaded
  <2>1. st' = st /\ update' = update /\ phase = "load"
    BY <1>8 DEF Loaded, fileVars
  <2>2. CASE Succeeded("analysed")
    <3>1. \A m \in Modules : AllIn(m, Seen)
      BY <2>1, <2>2 DEF Succeeded, Progress
    <3>2. (\A m \in Modules : AllIn(m, Seen))'
      BY <2>1, <3>1 DEF AllIn, Past
    <3> QED
      BY <1>8, <2>1, <2>2, <3>2 DEF Loaded, Progress
  <2>3. CASE ~Succeeded("analysed")
    BY <1>8, <2>1, <2>3 DEF Loaded, Fail, Progress
  <2> QED
    BY <2>2, <2>3
<1>9. CASE Link
  BY <1>9 DEF Link, fileVars, Progress, AllIn, Past
<1>10. CASE SplitEnded
  <2>1. st' = st /\ update' = update /\ stage' = stage /\ phase = "split"
    BY <1>10 DEF SplitEnded, fileVars
  <2>2. CASE Succeeded("done")
    BY <1>10, <2>1, <2>2 DEF SplitEnded, Succeeded, Progress, AllIn, Past
  <2>3. CASE ~Succeeded("done")
    BY <1>10, <2>1, <2>3 DEF SplitEnded, Fail, Progress
  <2> QED
    BY <2>2, <2>3
<1>11. CASE CreateConfig \/ FlushConfig \/ WriteDep
  BY <1>11 DEF CreateConfig, FlushConfig, WriteDep, fileVars, Progress, AllIn, Past
<1> QED
  BY <1>1, <1>2, <1>3, <1>4, <1>5, <1>6, <1>7, <1>8, <1>9, <1>10, <1>11 DEF MainStep

\* A task that changes only its stage, while the modules are loaded.
LEMMA LoadProgress ==
  ASSUME FTypeOK, Progress, phase = "load", NEW m \in Modules,
         UNCHANGED <<phase, outcome, update, extracted>>,
         UNCHANGED fileVars \/ \E f \in Files : Read(f),
         stage'[m] # "config", \A n \in Modules : n # m => stage'[n] = stage[n],
         m \in Rels \/ stage'[m] \in {"reading", "analysed"} => Verified(m),
         stage'[m] = "analysed" => AllIn(m, Seen)
  PROVE  Progress'
<1>1. ASSUME NEW n \in Modules
      PROVE  HashChecked(n)' /\ (stage'[n] = "analysed" => AllIn(n, Seen)')
  <2>1. AllIn(n, Seen) => AllIn(n, Seen)'
    BY PastStays
  <2> QED
    BY <2>1 DEF Progress, HashChecked, Verified
<1>2. ASSUME ~update, NEW g \in Files
      PROVE  st'[g] \in Reading \cup {"read"}
  <2>1. CASE UNCHANGED fileVars
    BY <1>2, <2>1 DEF fileVars, Progress
  <2>2. ASSUME NEW f \in Files, Read(f)
        PROVE  st'[g] \in Reading \cup {"read"}
    <3>1. st[g] \in Reading \cup {"read"}
      BY <1>2 DEF Progress
    <3>2. PICK to \in Reading \cup {"read"} : st' = [st EXCEPT ![f] = to]
      BY <2>2 DEF Read, NoFile, Hash, Mtime, Lines, Look, Reading
    <3>3. DOMAIN st = Files
      BY DEF FTypeOK
    <3> QED
      BY <3>1, <3>2, <3>3
  <2> QED
    BY <2>1, <2>2
<1> QED
  BY <1>1, <1>2 DEF Progress

\* The same while they are split, where files are written only to be updated.
LEMMA SplitProgress ==
  ASSUME FTypeOK, Progress, phase = "split", NEW m \in Modules,
         UNCHANGED <<phase, outcome, update>>,
         UNCHANGED fileVars \/ (update /\ \E f \in Files : Write(f)),
         stage'[m] = "config" => update, \A n \in Modules : n # m => stage'[n] = stage[n],
         update /\ stage'[m] \in {"objects", "done"} => AllIn(m, Rest)
  PROVE  Progress'
<1>1. ASSUME NEW n \in Modules
      PROVE  /\ AllIn(n, Seen)'
             /\ update' /\ stage'[n] \in {"objects", "done"} => AllIn(n, Rest)'
  BY PastStays DEF Progress
<1>2. ASSUME ~update'
      PROVE  /\ \A n \in Modules : stage'[n] # "config"
             /\ \A f \in Files : st'[f] \in Reading \cup {"read"}
  BY <1>2 DEF Progress, fileVars
<1> QED
  BY <1>1, <1>2 DEF Progress

LEMMA TaskProgress ==
  ASSUME TypeOK, Progress, NEW m \in Modules, TaskStep(m) \/ TaskEnds(m)
  PROVE  Progress'
<1>t. FTypeOK /\ m \in DOMAIN stage
  BY DEF TypeOK
<1>v. phase = "load" => HashChecked(m) /\ (stage[m] = "analysed" => AllIn(m, Seen))
  BY DEF Progress
<1>w. m \in Rels \/ m = Dol
  BY DEF Modules
<1>1. CASE LoadObject(m)
  <2>1. Verified(m)
    BY <1>1, <1>v, <1>w DEF LoadObject, HashChecked
  <2> QED
    BY <1>1, <1>t, <2>1, LoadProgress DEF LoadObject, Go
<1>2. CASE ReadConfig(m)
  <2>1. phase = "load" /\ stage[m] = "reading" /\ UNCHANGED runVars /\ \E f \in Files : Read(f)
    BY <1>2 DEF ReadConfig
  <2> QED
    BY <1>t, <1>v, <2>1, LoadProgress DEF runVars, HashChecked
<1>3. CASE Analyse(m)
  <2>1. AllIn(m, Seen)
    BY <1>3 DEF Analyse, AllIn, Past, Seen
  <2>2. Verified(m)
    BY <1>3, <1>v DEF Analyse, Go, HashChecked
  <2> QED
    BY <1>3, <1>t, <2>1, <2>2, LoadProgress DEF Analyse, Go
<1>4. CASE UpdateModule(m)
  BY <1>4, <1>t, SplitProgress DEF UpdateModule, Go
<1>5. CASE WriteConfig(m)
  <2>1. phase = "split" /\ stage[m] = "config" /\ UNCHANGED runVars /\ \E f \in Files : Write(f)
    BY <1>5 DEF WriteConfig
  <2>2. update
    BY <1>t, <2>1 DEF Progress, TypeOK
  <2> QED
    BY <1>t, <2>1, <2>2, SplitProgress DEF runVars
<1>6. CASE SplitObj(m)
  <2>1. AllIn(m, Rest)
    BY <1>6 DEF SplitObj, AllIn
  <2> QED
    BY <1>6, <1>t, <2>1, SplitProgress DEF SplitObj, Go
<1>7. CASE WriteObject(m)
  <2>1. update => AllIn(m, Rest)
    BY <1>7 DEF WriteObject, Progress
  <2>2. stage'[m] \in {"objects", "done"} /\ \A n \in Modules : n # m => stage'[n] = stage[n]
    <3>1. stage' = [stage EXCEPT ![m] = "done"] \/ (stage' = stage /\ stage[m] = "objects")
      BY <1>7 DEF WriteObject
    <3> QED
      BY <1>t, <3>1 DEF TypeOK
  <2> QED
    BY <1>7, <1>t, <2>1, <2>2, SplitProgress DEF WriteObject
<1>8. CASE TaskEnds(m)
  <2>1. /\ phase \in {"load", "split"} /\ UNCHANGED <<phase, outcome, update, extracted, fileVars>>
        /\ stage'[m] \in {"error", "skipped"}
        /\ \A n \in Modules : n # m => stage'[n] = stage[n]
    <3>1. /\ phase \in {"load", "split"} /\ UNCHANGED <<phase, outcome, update, extracted, fileVars>>
          /\ stage' = [stage EXCEPT ![m] = "error"] \/ stage' = [stage EXCEPT ![m] = "skipped"]
      BY <1>8 DEF TaskEnds, TaskFails, Skip, Go
    <3> QED
      BY <1>t, <3>1 DEF TypeOK
  <2>2. CASE phase = "load"
    BY <1>t, <1>v, <2>1, <2>2, LoadProgress DEF HashChecked
  <2>3. CASE phase = "split"
    BY <1>t, <2>1, <2>3, SplitProgress
  <2> QED
    BY <2>1, <2>2, <2>3
<1> QED
  BY <1>1, <1>2, <1>3, <1>4, <1>5, <1>6, <1>7, <1>8 DEF TaskStep

LEMMA ProgressStays ==
  TypeOK /\ Progress /\ [Next]_allVars => Progress'
<1> SUFFICES ASSUME TypeOK, Progress, [Next]_allVars
             PROVE  Progress'
  OBVIOUS
<1>1. CASE UNCHANGED allVars
  <2>1. st' = st /\ UNCHANGED runVars
    BY <1>1 DEF allVars, fileVars
  <2> QED
    BY <2>1 DEF runVars, Progress, HashChecked, Verified, AllIn, Past
<1> QED
  BY <1>1, MainProgress, TaskProgress DEF Next

\* Both hold all along, with what is known of the files.
LEMMA RunAlways ==
  Spec => [](TypeOK /\ RunInv /\ Progress)
<1>1. Init => Progress /\ RunInv /\ FInv
  BY FInitInv, ProjectAssumption, SavesAssumption
     DEF Init, FInit, Progress, Reading, RunInv, InRun, EarlierRead, AsKnown, Seen
<1>2. TypeOK /\ FInv /\ RunInv /\ Progress /\ [Next]_allVars => (FInv /\ RunInv /\ Progress)'
  BY FilesInv, RunSteps, RunStays, ProgressStays
<1> QED
  BY <1>1, <1>2, TypeCorrect, PTL DEF Spec

(***************************************************************************)
(* EditsBuilt for every project: an edit that was saved before a run began *)
(* is in what that run reads, and so in the objects of one that succeeds,  *)
(* in whatever order the files are read while the user saves others.       *)
(***************************************************************************)
THEOREM EarlierEditsBuilt ==
  Spec => []EditsBuilt
<1>1. RunInv /\ Progress => EditsBuilt
  <2> SUFFICES ASSUME RunInv, Progress, outcome = "ok", NEW f \in Files
               PROVE  {e \in made[f] : e <= before} \ risked[f] \subseteq cached[f].text.user
    BY DEF EditsBuilt
  <2>1. st[f] \in Seen
    BY FilesOfModules DEF Progress
  <2> QED
    BY <2>1 DEF RunInv, InRun, EarlierRead
<1> QED
  BY <1>1, RunAlways, PTL

(***************************************************************************)
(* NothingStale for every project: a run that succeeds undisturbed leaves  *)
(* its files as it says, and no object with a hash is analysed that is not *)
(* whole, whatever a killed run left.                                      *)
(***************************************************************************)
THEOREM NothingIsStale ==
  Spec => []NothingStale
<1>1. TypeOK /\ RunInv /\ Progress => UpToDate
  <2> SUFFICES ASSUME TypeOK, RunInv, Progress, outcome = "ok", saves = before, NEW f \in Files
               PROVE  /\ disk[f].text.user = cached[f].text.user
                      /\ update => disk[f].text = Updated(cached[f].text)
    BY DEF UpToDate
  <2>1. AsKnown(f)
    BY DEF RunInv, InRun
  <2>2. CASE update
    <3>1. st[f] \in Rest
      BY <2>2, FilesOfModules DEF Progress
    <3>2. disk[f].text = Updated(cached[f].text)
      BY <2>1, <3>1 DEF AsKnown, Rest
    <3>3. cached[f].text \in Text
      BY DEF TypeOK, FTypeOK
    <3> QED
      BY <3>2, <3>3 DEF Updated, Text
  <2>3. CASE ~update
    <3>1. st[f] \in Seen /\ st[f] \in Reading \cup {"read"}
      BY <2>3, FilesOfModules DEF Progress
    <3> QED
      BY <2>1, <2>3, <3>1 DEF AsKnown, Seen, Reading
  <2> QED
    BY <2>2, <2>3 DEF TypeOK
<1>2. Progress => AnalysedWhole
  BY ProjectAssumption DEF Progress, HashChecked, Verified, AnalysedWhole
<1> QED
  BY <1>1, <1>2, RunAlways, PTL DEF NothingStale
=============================================================================
