------------------------------ MODULE DolSplit ------------------------------
(***************************************************************************)
(* dtk dol split (src/src/cmd/dol.rs): the run of the process, and the     *)
(* files it leaves.  The DOL and the REL modules are loaded and analysed   *)
(* in parallel (rayon), linked with each other one by one, split and       *)
(* written in parallel; config.json and dep, which the build waits for,    *)
(* come last.  The user may save a file of the project at any time         *)
(* (ConfigFiles), a step may fail, the process may be killed and is then   *)
(* started again.                                                          *)
(*                                                                         *)
(* What the analysis finds is left out: a module's object files are made   *)
(* of the texts that were read for it.                                     *)
(***************************************************************************)
EXTENDS ConfigFiles, FiniteSets

CONSTANTS
  Rels,       \* the REL modules of the project
  Dol,        \* the main executable
  Hashed,     \* the modules with a hash in config.yml
  Units,      \* the last of a module's units 1..Units
  MaxRuns     \* (bound) how often dtk is started

Modules == Rels \cup {Dol}

\* The files config.yml may name for a module.
Splits(m) == <<m, "splits">>
Symbols(m) == <<m, "symbols">>

ASSUME ProjectAssumption ==
  /\ Dol \notin Rels /\ IsFiniteSet(Rels)
  /\ Hashed \subseteq Modules
  /\ Files \subseteq {Splits(m) : m \in Modules} \cup {Symbols(m) : m \in Modules}
  /\ Units \in Nat \ {0} /\ MaxRuns \in Nat

VARIABLES
  phase,      \* where split() is; off when no process runs
  outcome,    \* how the last run ended
  runs,       \* how many runs were started
  before,     \* (history) how often the user had saved when it was started
  update,     \* not --no-update
  extracted,  \* the objects in the object base: none, part or whole
  stage,      \* where the task of each module is
  unit,       \* the unit a module's task writes next
  out,        \* the object files: what they were made of, none or torn
  config      \* config.json: what it describes, none or torn

runVars == <<phase, outcome, runs, before, update, extracted, stage, unit, out, config>>
allVars == <<fileVars, runVars>>

\* A file dtk writes: not there, torn, or whole and made of something.
None == [is |-> "none"]
Torn == [is |-> "torn"]
Whole(of) == [is |-> "whole", of |-> of]

\* What the module's objects are made of.
TextOf(f) == IF f \in Files THEN cached[f].text ELSE Empty
Inputs(m) == [splits |-> TextOf(Splits(m)), symbols |-> TextOf(Symbols(m))]

Init ==
  /\ FInit
  /\ phase = "off" /\ outcome = "none" /\ runs = 0 /\ before = 0 /\ update = TRUE
  /\ extracted = [m \in Modules |-> "none"]
  /\ stage = [m \in Modules |-> "waiting"]
  /\ unit = [m \in Modules |-> 1]
  /\ out = [m \in Modules |-> [u \in 1..Units |-> None]]
  /\ config = None

-----------------------------------------------------------------------------
Start ==
  /\ phase = "off" /\ runs < MaxRuns
  /\ Forget
  /\ phase' = "extract" /\ outcome' = "none" /\ runs' = runs + 1 /\ before' = saves
  /\ update' \in BOOLEAN
  /\ stage' = [m \in Modules |-> "waiting"]
  /\ unit' = [m \in Modules |-> 1]
  /\ UNCHANGED <<extracted, out, config>>

Fail ==
  /\ phase' = "off"
  /\ outcome' = "failed"

\* An error that is not one of the model's: a file that does not parse, a
\* full disk, a bug in a pass.
ErrorIn(p) ==
  /\ phase = p
  /\ Fail
  /\ UNCHANGED <<fileVars, runs, before, update, extracted, stage, unit, out, config>>

\* extract_objects: only what is missing is taken out of the disc image.  An
\* error or a wrong hash leaves the file that was begun.
Extract(m) ==
  /\ phase = "extract"
  /\ extracted[m] = "none"
  /\ \/ extracted' = [extracted EXCEPT ![m] = "whole"] /\ UNCHANGED <<phase, outcome>>
     \/ extracted' = [extracted EXCEPT ![m] = "part"] /\ Fail
  /\ UNCHANGED <<fileVars, runs, before, update, stage, unit, out, config>>

Extracted ==
  /\ phase = "extract"
  /\ \A m \in Modules : extracted[m] # "none"
  /\ phase' = "hash"
  /\ UNCHANGED <<fileVars, outcome, runs, before, update, extracted, stage, unit, out, config>>

\* (mutant) only the modules are verified.
RelsVerified(m) == m \in Hashed \cap Rels => extracted[m] = "whole"

\* verify_hash: the contents are those config.yml names.
Verified(m) == m \in Hashed => extracted[m] = "whole"

\* The loop over config.modules; the DOL is verified when it is loaded.
VerifyModules ==
  /\ phase = "hash"
  /\ IF \A m \in Rels : Verified(m)
     THEN phase' = "load" /\ UNCHANGED outcome
     ELSE Fail
  /\ UNCHANGED <<fileVars, runs, before, update, extracted, stage, unit, out, config>>

-----------------------------------------------------------------------------
\* A task goes from a stage to the next.
Go(m, from, to) == stage[m] = from /\ stage' = [stage EXCEPT ![m] = to]

\* The task of a module fails; the others go on.
TaskFails(m, p, stages) ==
  /\ phase = p
  /\ stage[m] \in stages
  /\ stage' = [stage EXCEPT ![m] = "error"]
  /\ UNCHANGED <<fileVars, phase, outcome, runs, before, update, extracted, unit, out, config>>

\* par_iter().collect() into a Result: once a module failed, the modules
\* that were not begun may be left.
Skip(m, p) ==
  /\ phase = p
  /\ m \in Rels /\ \E other \in Rels : stage[other] = "error"
  /\ Go(m, "waiting", "skipped")
  /\ UNCHANGED <<fileVars, phase, outcome, runs, before, update, extracted, unit, out, config>>

\* load_analyze_dol and load_analyze_rel: the object, splits.txt, then symbols.txt.
LoadObject(m) ==
  /\ phase = "load"
  /\ m = Dol => Verified(m)
  /\ Go(m, "waiting", "reading")
  /\ UNCHANGED <<fileVars, phase, outcome, runs, before, update, extracted, unit, out, config>>

\* dtk is done with a file, if the project has it.
Past(f, states) == f \in Files => st[f] \in states

ReadConfig(m) ==
  /\ phase = "load" /\ stage[m] = "reading"
  /\ \/ Splits(m) \in Files /\ Read(Splits(m))
     \/ Past(Splits(m), {"read"}) /\ Symbols(m) \in Files /\ Read(Symbols(m))
  /\ UNCHANGED runVars

\* The analysis of the module, up to its relocations from config.yml.
Analyse(m) ==
  /\ phase = "load"
  /\ Past(Splits(m), {"read"}) /\ Past(Symbols(m), {"read"})
  /\ Go(m, "reading", "analysed")
  /\ UNCHANGED <<fileVars, phase, outcome, runs, before, update, extracted, unit, out, config>>

\* (mutant) a module that was left is waited for.
EndedAll(stages) == \A m \in Modules : stage[m] \in stages \cup {"error"}

Ended(stages) == \A m \in Modules : stage[m] \in stages \cup {"error", "skipped"}

\* (mutant) only the DOL's result is looked at.
DolSucceeded(to) == stage[Dol] = to

Succeeded(to) == \A m \in Modules : stage[m] = to

\* rayon::scope has ended: every result must be Ok.
Loaded ==
  /\ phase = "load"
  /\ Ended({"analysed"})
  /\ IF Succeeded("analysed")
     THEN /\ phase' = "link" /\ UNCHANGED outcome
          /\ stage' = [m \in Modules |-> "analysed"]
     ELSE Fail /\ UNCHANGED stage
  /\ UNCHANGED <<fileVars, runs, before, update, extracted, unit, out, config>>

\* update_symbols, create_relocations and resolve_external_relocations.
Link ==
  /\ phase = "link"
  /\ phase' = "split"
  /\ stage' = [m \in Modules |-> "waiting"]
  /\ UNCHANGED <<fileVars, outcome, runs, before, update, extracted, unit, out, config>>

-----------------------------------------------------------------------------
\* split_write_obj: relocations, strings, update_splits.
UpdateModule(m) ==
  /\ phase = "split"
  /\ Go(m, "waiting", IF update THEN "config" ELSE "objects")
  /\ UNCHANGED <<fileVars, phase, outcome, runs, before, update, extracted, unit, out, config>>

Rest == {"kept", "same", "written"}

WriteConfig(m) ==
  /\ phase = "split" /\ stage[m] = "config"
  /\ \/ Symbols(m) \in Files /\ Write(Symbols(m))
     \/ Past(Symbols(m), Rest) /\ Splits(m) \in Files /\ Write(Splits(m))
  /\ UNCHANGED runVars

\* split_obj cuts the module into its objects.
SplitObj(m) ==
  /\ phase = "split"
  /\ Past(Symbols(m), Rest) /\ Past(Splits(m), Rest)
  /\ Go(m, "config", "objects")
  /\ UNCHANGED <<fileVars, phase, outcome, runs, before, update, extracted, unit, out, config>>

\* (mutant) one unit more is written than there are.
LastUnitPast(m) == unit[m] > Units

LastUnit(m) == unit[m] = Units

\* write_if_changed of the object of a unit, in the link order.
WriteObject(m) ==
  /\ phase = "split" /\ stage[m] = "objects"
  /\ out' = [out EXCEPT ![m][unit[m]] = Whole(Inputs(m))]
  /\ IF LastUnit(m)
     THEN stage' = [stage EXCEPT ![m] = "done"] /\ UNCHANGED unit
     ELSE unit' = [unit EXCEPT ![m] = @ + 1] /\ UNCHANGED stage
  /\ UNCHANGED <<fileVars, phase, outcome, runs, before, update, extracted, config>>

\* The results of the modules, then that of the DOL, before config.json.
SplitEnded ==
  /\ phase = "split"
  /\ Ended({"done"})
  /\ IF Succeeded("done") THEN phase' = "config" /\ UNCHANGED outcome ELSE Fail
  /\ UNCHANGED <<fileVars, runs, before, update, extracted, stage, unit, out, config>>

\* config.json is created empty, and flushed when it is complete.
CreateConfig ==
  /\ phase = "config"
  /\ phase' = "flush"
  /\ config' = Torn
  /\ UNCHANGED <<fileVars, outcome, runs, before, update, extracted, stage, unit, out>>

FlushConfig ==
  /\ phase = "flush"
  /\ phase' = "dep"
  /\ config' = Whole([m \in Modules |-> Inputs(m)])
  /\ UNCHANGED <<fileVars, outcome, runs, before, update, extracted, stage, unit, out>>

WriteDep ==
  /\ phase = "dep"
  /\ phase' = "off" /\ outcome' = "ok"
  /\ UNCHANGED <<fileVars, runs, before, update, extracted, stage, unit, out, config>>

(***************************************************************************)
(* The process is killed: the files that are being written stay torn.      *)
(***************************************************************************)
Kill ==
  /\ phase # "off"
  /\ Forget
  /\ phase' = "off" /\ outcome' = "killed"
  /\ stage' = [m \in Modules |-> "waiting"]
  /\ unit' = [m \in Modules |-> 1]
  /\ \E torn \in SUBSET {m \in Modules : phase = "split" /\ stage[m] = "objects"} :
       out' = [m \in Modules |-> IF m \in torn THEN [out[m] EXCEPT ![unit[m]] = Torn] ELSE out[m]]
  /\ \E m \in Modules :
       extracted' = IF phase = "extract" /\ extracted[m] = "none"
                    THEN [extracted EXCEPT ![m] = "part"] ELSE extracted
  /\ UNCHANGED <<runs, before, update, config>>

LoadStages == {"waiting", "reading"}
SplitStages == {"waiting", "config", "objects"}

TaskStep(m) ==
  \/ LoadObject(m) \/ ReadConfig(m) \/ Analyse(m)
  \/ UpdateModule(m) \/ WriteConfig(m) \/ SplitObj(m) \/ WriteObject(m)

TaskEnds(m) ==
  \/ TaskFails(m, "load", LoadStages) \/ TaskFails(m, "split", SplitStages)
  \/ Skip(m, "load") \/ Skip(m, "split")

MainStep ==
  \/ \E m \in Modules : Extract(m)
  \/ Extracted \/ VerifyModules \/ Loaded \/ Link \/ SplitEnded \/ CreateConfig
  \/ FlushConfig \/ WriteDep

Errors == \E p \in {"extract", "hash", "link", "config", "flush", "dep"} : ErrorIn(p)

UserStep == (\E f \in Files : Save(f)) /\ UNCHANGED runVars

Next ==
  \/ Start \/ MainStep \/ Errors \/ Kill \/ UserStep
  \/ \E m \in Modules : TaskStep(m) \/ TaskEnds(m)

Spec ==
  /\ Init /\ [][Next]_allVars
  /\ WF_allVars(MainStep)
  /\ \A m \in Modules : WF_allVars(TaskStep(m) \/ TaskEnds(m))

-----------------------------------------------------------------------------
Content == [splits : Text, symbols : Text]
MadeOf(S) == {None, Torn} \cup [is : {"whole"}, of : S]

TypeOK ==
  /\ FTypeOK
  /\ phase \in {"off", "extract", "hash", "load", "link", "split", "config", "flush", "dep"}
  /\ outcome \in {"none", "ok", "failed", "killed"}
  /\ runs \in 0..MaxRuns /\ before \in 0..MaxSaves /\ update \in BOOLEAN
  /\ extracted \in [Modules -> {"none", "part", "whole"}]
  /\ stage \in [Modules -> {"waiting", "reading", "analysed", "config", "objects",
                            "done", "error", "skipped"}]
  /\ unit \in [Modules -> 1..Units]
  /\ out \in [Modules -> [1..Units -> MadeOf(Content)]]
  /\ config \in MadeOf([Modules -> Content])

(***************************************************************************)
(* When a run succeeds, every object of every module is on disk, made of   *)
(* the texts of this run, and config.json says so: no module that failed   *)
(* or was left out, here or in an earlier run, goes unnoticed.             *)
(***************************************************************************)
OutputsComplete ==
  outcome = "ok" =>
    /\ config = Whole([m \in Modules |-> Inputs(m)])
    /\ \A m \in Modules : \A u \in 1..Units : out[m][u] = Whole(Inputs(m))

(***************************************************************************)
(* An edit that was saved before a run began, during the run before even,  *)
(* is in the objects the run makes when it succeeds, unless it was saved   *)
(* where dtk cannot notice.                                                *)
(***************************************************************************)
EditsBuilt ==
  outcome = "ok" => \A f \in Files :
    {e \in made[f] : e <= before} \ risked[f] \subseteq cached[f].text.user

(***************************************************************************)
(* When a run succeeds that no save came in between, the files of the      *)
(* project are up to date: with the user's lines the objects were made of  *)
(* and with dtk's own, unless they are not to be updated.                  *)
(***************************************************************************)
UpToDate ==
  outcome = "ok" /\ saves = before => \A f \in Files :
    /\ disk[f].text.user = cached[f].text.user
    /\ update => disk[f].text = Updated(cached[f].text)

(***************************************************************************)
(* An object with a hash is analysed only when it is whole, though a run   *)
(* that was killed left a part of it and the next one does not extract it  *)
(* again.                                                                  *)
(***************************************************************************)
AnalysedWhole ==
  \A m \in Hashed : phase = "load" /\ stage[m] \in {"reading", "analysed"} => extracted[m] = "whole"

(***************************************************************************)
(* No stale state goes into what a run makes: the files it leaves are up   *)
(* to date, and the objects it analyses are whole.                         *)
(***************************************************************************)
NothingStale == UpToDate /\ AnalysedWhole

\* Every run ends: rayon::scope waits for no task that will not run.
RunEnds == []<>(phase = "off")
=============================================================================
