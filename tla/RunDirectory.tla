---------------------------- MODULE RunDirectory ----------------------------
(***************************************************************************)
(* One output directory of the end-to-end run: run_experiment              *)
(* (experiment/orchestrator.py), the experiment-create command (cli.py),   *)
(* write_manifest (data/manifest.py), write_bundle (mql5/bundle.py) and    *)
(* the parity command (mql5/parity.py, parity_from_bundle) that reads and  *)
(* rewrites the bundle while a run may be writing it.                      *)
(*                                                                         *)
(* A file holds the number of the command that wrote it last, 0 when none  *)
(* did.  Files are written one after another; the process may stop between *)
(* any two of them, or in the middle of one that is written in place: that *)
(* file is torn until a later command writes it.  Only for report.json,    *)
(* which others read meanwhile, are truncation and content two steps.      *)
(* Commands that write do not overlap, but for a check of the bundle; the  *)
(* contents of data, plans, genomes and reports are left out, but for  *)
(* what is compared later: the data behind a file, verdicts and states.    *)
(***************************************************************************)
EXTENDS ExperimentState, SequencesExt

CONSTANTS MaxRuns  \* bound on the commands run in the directory

ASSUME RunsAssumption == MaxRuns \in Nat \ {0}

\* The actors that the commands name in transition().
ASSUME CallersAssumption == {"orchestrator", "cli"} \subseteq Callers

Bundle == << "mq5", "tester", "instructions", "genome", "spec", "signals",
             "trades", "parity_status" >>

Files == {"manifest", "split_plan", "experiment", "report", "model_card",
          "repro", "parity_report"} \cup ToSet(Bundle)

Verdicts == {"SHORTLISTED", "REJECTED", "NO_EDGE_FOUND"}

VARIABLES
  runs,          \* history: the commands started so far
  pc,            \* what the command under way does next
  outcome,       \* how it ended: "none", "running", "returned", "raised", "killed"
  experiment,    \* the Experiment object in memory
  verdict,
  written,       \* bundle files written by this run
  stages,        \* progress events of this run
  files,
  torn,          \* per file: the command that left it truncated, 0 while it is whole
  saved,         \* contents of experiment.json
  reported,      \* verdict in report.json
  parity,        \* status in parity_status.json
  checker,       \* the parity command: step, run of the status it read, result
  compared       \* history: comparisons made, as << run of the status, result >>

commandVars == << runs, pc, outcome, experiment, verdict, written, stages >>
diskVars == << files, torn, saved, reported, parity >>
checkerVars == << checker, compared >>
runVars == << commandVars, diskVars, checkerVars >>

Commands == [kind : {"run", "create"}, data : Datas]

IdleChecker == [at |-> "idle", of |-> 0, result |-> "none"]

RunInit ==
  /\ runs = << >>
  /\ pc = "idle"
  /\ outcome = "none"
  /\ experiment = Created
  /\ verdict = "none"
  /\ written = 0
  /\ stages = << >>
  /\ files = [f \in Files |-> 0]
  /\ torn = [f \in Files |-> 0]
  /\ saved = Created
  /\ reported = "none"
  /\ parity = "none"
  /\ checker = IdleChecker
  /\ compared = {}

Command == Last(runs)

Write(f) ==
  /\ files' = [files EXCEPT ![f] = Len(runs)]
  /\ torn' = [torn EXCEPT ![f] = 0]

\* The file that the next step opens and writes in place; the manifest and
\* experiment.json are written aside and renamed.
InHand ==
  CASE pc = "plan"   -> {"split_plan"}
    [] pc = "bundle" -> {Bundle[written + 1]}
    [] pc = "card"   -> {"model_card"}
    [] pc = "repro"  -> {"repro"}
    [] OTHER         -> {}

\* The command stops: between two files, or in the middle of one.
LeaveFiles ==
  /\ \/ UNCHANGED torn
     \/ \E f \in InHand : torn' = [torn EXCEPT ![f] = Len(runs)]
  /\ UNCHANGED << files, saved, reported, parity >>

Goto(from, to) ==
  /\ pc = from
  /\ pc' = to
  /\ UNCHANGED << runs, outcome, checkerVars >>

\* on_progress is called in the run's own thread.
Progress(new) == stages' = stages \o new

-----------------------------------------------------------------------------
(* run_experiment and experiment-create, up to the sealed experiment.      *)

Start(kind, data) ==
  /\ pc = "idle"
  /\ Len(runs) < MaxRuns
  /\ runs' = Append(runs, [kind |-> kind, data |-> data])
  /\ pc' = "load"
  /\ outcome' = "running"
  /\ verdict' = "none"
  /\ written' = 0
  /\ stages' = IF kind = "run" THEN << "loading_data" >> ELSE << >>
  /\ UNCHANGED << experiment, diskVars, checkerVars >>

\* Loading, quality checks, the split plan, costs, the router and the search
\* may raise, and so may every write; nothing is undone.
Raise ==
  /\ pc # "idle"
  /\ pc' = "idle"
  /\ outcome' = "raised"
  /\ LeaveFiles
  /\ UNCHANGED << runs, experiment, verdict, written, stages, checkerVars >>

Load ==
  /\ Goto("load", "manifest")
  /\ UNCHANGED << experiment, verdict, written, stages, diskVars >>

ManifestData == runs[files["manifest"]].data

\* Mutant of SameManifest: an existing manifest is not compared.
SameManifestUnchecked == files["manifest"] # 0

SameManifest == files["manifest"] # 0 /\ ManifestData = Command.data

WriteManifest ==
  /\ Goto("manifest", "plan")
  /\ \/ files["manifest"] = 0 /\ Write("manifest")
     \/ SameManifest /\ UNCHANGED << files, torn >>
  /\ IF Command.kind = "run" THEN Progress(<< "data_ready" >>) ELSE UNCHANGED stages
  /\ UNCHANGED << experiment, verdict, written, saved, reported, parity >>

ManifestImmutabilityError ==
  /\ pc = "manifest"
  /\ files["manifest"] # 0 /\ ~SameManifest
  /\ pc' = "idle"
  /\ outcome' = "raised"
  /\ UNCHANGED << runs, experiment, verdict, written, stages, diskVars, checkerVars >>

WritePlan ==
  /\ Goto("plan", "seal")
  /\ Write("split_plan")
  /\ UNCHANGED << experiment, verdict, written, stages, saved, reported, parity >>

\* Who changes the state of the experiment.
Driver == IF Command.kind = "run" THEN "orchestrator" ELSE "cli"

Seal ==
  /\ Goto("seal", IF Command.kind = "run" THEN "costs" ELSE "save")
  /\ \E plan \in Plans :
       experiment' = Transitioned(Sealed(Created, [plan |-> plan, data |-> Command.data]),
                                  "SEARCH_ACTIVE", Driver)
  /\ IF Command.kind = "run" THEN Progress(<< "experiment_sealed" >>) ELSE UNCHANGED stages
  /\ UNCHANGED << verdict, written, diskVars >>

-----------------------------------------------------------------------------
(* run_experiment, up to the verdict.                                      *)

Characterize ==
  /\ Goto("costs", "search")
  /\ Progress(<< "characterized" >>)
  /\ UNCHANGED << experiment, verdict, written, diskVars >>

NoChampion ==
  /\ Goto("search", "save")
  /\ Progress(<< "search_generation" >>)
  /\ verdict' = "NO_EDGE_FOUND"
  /\ experiment' = Transitioned(experiment, "CLOSED_NO_EDGE", Driver)
  /\ UNCHANGED << written, diskVars >>

Champion ==
  /\ Goto("search", "oos")
  /\ Progress(<< "search_generation", "fold_done" >>)
  /\ UNCHANGED << experiment, verdict, written, diskVars >>

\* Mutant of FinalState: a rejected champion is shortlisted all the same.
FinalStateLenient(v) == IF v = "NO_EDGE_FOUND" THEN "CLOSED_NO_EDGE" ELSE "SHORTLISTED"

\* Mutant of FinalState: the verdict taken for a state.
FinalStateVerbatim(v) == v

FinalState(v) == IF v = "SHORTLISTED" THEN "SHORTLISTED" ELSE "CLOSED_NO_EDGE"

Validate ==
  /\ Goto("oos", "bundle")
  /\ Progress(<< "oos_evaluated", "validated" >>)
  /\ \E v \in Verdicts :
       /\ verdict' = v
       /\ experiment' = Transitioned(experiment, FinalState(v), Driver)
  /\ UNCHANGED << written, diskVars >>

-----------------------------------------------------------------------------
(* Artifacts.                                                              *)

\* Mutant of PendingAgain: an existing parity status is kept.
PendingAgainOnce ==
  parity' = IF parity = "none" THEN "PENDING_REAL_TICK" ELSE parity

\* The status of a bundle that has just been written.
PendingAgain == parity' = "PENDING_REAL_TICK"

WriteBundleFile ==
  /\ Goto("bundle", IF written + 1 = Len(Bundle) THEN "save" ELSE "bundle")
  /\ Write(Bundle[written + 1])
  /\ written' = written + 1
  /\ IF written + 1 = Len(Bundle) THEN PendingAgain ELSE UNCHANGED parity
  /\ UNCHANGED << experiment, verdict, stages, saved, reported >>

\* Experiment.save replaces the file by a rename.
SaveExperiment ==
  /\ Goto("save", IF Command.kind = "run" THEN "truncate" ELSE "repro")
  /\ Write("experiment")
  /\ saved' = experiment
  /\ UNCHANGED << experiment, verdict, written, stages, reported, parity >>

TruncateReport ==
  /\ Goto("truncate", "report")
  /\ torn' = [torn EXCEPT !["report"] = Len(runs)]
  /\ UNCHANGED << experiment, verdict, written, stages, files, saved, reported, parity >>

WriteReport ==
  /\ Goto("report", "card")
  /\ Write("report")
  /\ reported' = verdict
  /\ UNCHANGED << experiment, verdict, written, stages, saved, parity >>

Return ==
  /\ pc' = "idle"
  /\ outcome' = "returned"
  /\ UNCHANGED << runs, experiment, verdict, written, saved, reported, parity, checkerVars >>

WriteModelCard ==
  /\ pc = "card"
  /\ Write("model_card")
  /\ Progress(<< "finished" >>)
  /\ Return

WriteRepro ==
  /\ pc = "repro"
  /\ Write("repro")
  /\ UNCHANGED stages
  /\ Return

CommandStep ==
  \/ Load \/ WriteManifest \/ ManifestImmutabilityError \/ WritePlan \/ Seal
  \/ Characterize \/ NoChampion \/ Champion \/ Validate
  \/ WriteBundleFile \/ SaveExperiment \/ TruncateReport \/ WriteReport
  \/ WriteModelCard \/ WriteRepro \/ Raise

\* The process is killed.
Kill ==
  /\ pc # "idle"
  /\ pc' = "idle"
  /\ outcome' = "killed"
  /\ LeaveFiles
  /\ UNCHANGED << runs, experiment, verdict, written, stages, checkerVars >>

-----------------------------------------------------------------------------
(* parity_from_bundle.                                                     *)

ReadStatus ==
  /\ checker.at = "idle"
  /\ files["parity_status"] # 0 /\ torn["parity_status"] = 0
  /\ checker' = [at |-> "compare", of |-> files["parity_status"], result |-> "none"]
  /\ UNCHANGED << compared, diskVars, commandVars >>

Compare ==
  /\ checker.at = "compare"
  /\ \E result \in {"PASS", "FAIL"} :
       /\ checker' = [checker EXCEPT !.at = "report", !.result = result]
       /\ compared' = compared \cup { << checker.of, result >> }
  /\ UNCHANGED << diskVars, commandVars >>

WriteParityReport ==
  /\ checker.at = "report"
  /\ files' = [files EXCEPT !["parity_report"] = checker.of]
  /\ torn' = [torn EXCEPT !["parity_report"] = 0]
  /\ checker' = [checker EXCEPT !.at = "status"]
  /\ UNCHANGED << compared, saved, reported, parity, commandVars >>

\* The whole document that was read is written back.
WriteParityStatus ==
  /\ checker.at = "status"
  /\ files' = [files EXCEPT !["parity_status"] = checker.of]
  /\ torn' = [torn EXCEPT !["parity_status"] = 0]
  /\ parity' = checker.result
  /\ checker' = IdleChecker
  /\ UNCHANGED << compared, saved, reported, commandVars >>

\* The file that the check writes next.
CheckerInHand ==
  CASE checker.at = "report" -> {"parity_report"}
    [] checker.at = "status" -> {"parity_status"}
    [] OTHER                 -> {}

\* The check raises or is killed, between two files or in the middle of one.
KillChecker ==
  /\ checker.at # "idle"
  /\ checker' = IdleChecker
  /\ \/ UNCHANGED torn
     \/ \E f \in CheckerInHand : torn' = [torn EXCEPT ![f] = checker.of]
  /\ UNCHANGED << compared, files, saved, reported, parity, commandVars >>

CheckerStep == ReadStatus \/ Compare \/ WriteParityReport \/ WriteParityStatus \/ KillChecker

-----------------------------------------------------------------------------
(* Safety.                                                                 *)

\* The type invariant of the commands' locals and of the directory
\* (orchestrator.py:98-371).
RunTypeOK ==
  /\ runs \in Seq(Commands) /\ Len(runs) <= MaxRuns
  /\ pc \in {"idle", "load", "manifest", "plan", "seal", "costs", "search", "oos",
             "bundle", "save", "truncate", "report", "card", "repro"}
  /\ outcome \in {"none", "running", "returned", "raised", "killed"}
  /\ experiment \in Experiments /\ saved \in Experiments
  /\ verdict \in Verdicts \cup {"none"} /\ reported \in Verdicts \cup {"none"}
  /\ written \in 0 .. Len(Bundle)
  /\ files \in [Files -> 0 .. MaxRuns]
  /\ torn \in [Files -> 0 .. MaxRuns]
  /\ parity \in {"none", "PENDING_REAL_TICK", "PASS", "FAIL"}
  /\ checker.of \in 0 .. MaxRuns
  /\ compared \subseteq (1 .. MaxRuns) \X {"PASS", "FAIL"}

\* Whatever is in the directory, whole or torn, was made from the data of its
\* manifest, after any number of reruns with other data and of crashes, and experiment.json
\* is sealed on that data (manifest.py:131-140, orchestrator.py:122 and 421).
DirectoryHasOneDataset ==
  /\ \A f \in Files \ {"manifest"} :
       /\ files[f] # 0 => files["manifest"] # 0 /\ runs[files[f]].data = ManifestData
       /\ torn[f] # 0 => files["manifest"] # 0 /\ runs[torn[f]].data = ManifestData
  /\ files["experiment"] # 0 => \A s \in saved.seals : s.data = ManifestData

\* File f is whole, or torn by a run after the one that g is of.
TornAfter(f, g) == torn[f] = 0 \/ torn[f] > files[g]

\* Artifacts of several runs may lie side by side, but never the result of a
\* run without what it rests on: a report comes with the experiment of its
\* run or a later one, in the state its verdict calls for, never opened, and
\* with a champion's whole bundle written before it; a file that one of them
\* rests on is torn only by a run that came later and stopped in it
\* (orchestrator.py:139 and 346-424, bundle.py:42-90).
ReportsRestOnArtifacts ==
  /\ files["split_plan"] >= files["experiment"] /\ TornAfter("split_plan", "experiment")
  /\ files["experiment"] >= files["report"]
  /\ files["report"] >= files["model_card"] /\ TornAfter("report", "model_card")
  /\ files["report"] # 0 /\ files["report"] = files["experiment"] =>
       saved.state = IF reported = "SHORTLISTED" THEN "SHORTLISTED" ELSE "CLOSED_NO_EDGE"
  /\ ~WasDisclosed(saved) /\ TailMatchesState(saved)
  /\ \A i, j \in DOMAIN Bundle : i < j => files[Bundle[i]] >= files[Bundle[j]]
  /\ files["report"] # 0 /\ reported \in {"SHORTLISTED", "REJECTED"} =>
       \A f \in ToSet(Bundle) \ {"parity_status"} :
         files[f] >= files["report"] /\ TornAfter(f, "report")

\* A decided parity status was earned by a comparison that started from the
\* status of the same run, and its report was written before it, although the
\* parity command may overlap a run and either may be killed, also while it
\* writes (bundle.py:90, parity.py:232 and 248-254).
StatusIsEarned ==
  parity \in {"PASS", "FAIL"} =>
    /\ << files["parity_status"], parity >> \in compared
    /\ files["parity_report"] >= files["parity_status"]
=============================================================================
