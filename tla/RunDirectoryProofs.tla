------------------------- MODULE RunDirectoryProofs -------------------------
(***************************************************************************)
(* Theorems about RunDirectory, for every number of commands, data sets    *)
(* and split plans, wherever commands and parity commands are killed; and  *)
(* that the three hosts of Studio run their directories that way.          *)
(*                                                                         *)
(* The invariant follows the command under way: which files are its own by *)
(* now, that its data are the manifest's, and what its experiment says.    *)
(***************************************************************************)
EXTENDS Studio, TLAPS

DirectoryNext == ShellStarts \/ CommandStep \/ Kill \/ CheckerStep

DirectorySpec == RunInit /\ [][DirectoryNext]_runVars

-----------------------------------------------------------------------------
(* The invariant.                                                          *)

Decided == {"SHORTLISTED", "REJECTED"}

WithManifest == {"plan", "seal", "costs", "search", "oos", "bundle", "save",
                 "truncate", "report", "card", "repro"}

WithSeals == WithManifest \ {"plan", "seal"}

Checkers == [at : {"idle", "compare", "report", "status"}, of : 0 .. MaxRuns,
             result : {"none", "PASS", "FAIL"}]

\* No file is ahead of the commands; locals are what the command's step says.
LocalsAgree ==
  /\ \A f \in Files : files[f] <= Len(runs)
  /\ pc # "idle" => Len(runs) > 0
  /\ pc \in {"load", "manifest", "plan", "seal", "costs", "search", "oos"} => written = 0
  /\ pc = "bundle" => written < Len(Bundle)
  /\ pc \in {"costs", "search", "oos", "bundle", "truncate", "report", "card"} =>
       Command.kind = "run"
  /\ checker \in Checkers /\ checker.of <= Len(runs)

\* What a command writes comes after its manifest, on its manifest's data.
UnderManifest ==
  /\ pc \in WithManifest => files["manifest"] # 0 /\ ManifestData = Command.data
  /\ pc \in WithSeals => \A s \in experiment.seals : s.data = Command.data
  /\ checker.at # "idle" =>
       checker.of # 0 /\ files["manifest"] # 0 /\ runs[checker.of].data = ManifestData

\* Experiments of this pipeline are never opened.
Unopened(e) == ~WasDisclosed(e) /\ TailMatchesState(e)

ExperimentsAreUnopened == Unopened(experiment) /\ Unopened(saved)

\* The state of the experiment is that of its verdict, until it is saved ...
StateIsOfVerdict ==
  /\ pc \in {"bundle", "save"} /\ Command.kind = "run" =>
       verdict \in Verdicts /\ experiment.state = FinalState(verdict)
  /\ pc \in {"truncate", "report"} => verdict \in Verdicts /\ saved.state = FinalState(verdict)

\* ... and the files a command is past are its own.
FilesAreOwn ==
  /\ pc \notin {"idle", "card"} => files["report"] < Len(runs)
  /\ pc \in {"load", "manifest", "plan"} => files["experiment"] < Len(runs)
  /\ pc \in WithManifest \ {"plan"} => files["split_plan"] = Len(runs)
  /\ pc \in {"truncate", "report", "card", "repro"} => files["experiment"] = Len(runs)
  /\ pc = "card" => files["report"] = Len(runs)
  /\ pc = "bundle" => \A i \in 1 .. written : files[Bundle[i]] = Len(runs)
  /\ pc \in {"save", "truncate", "report", "card"} /\ Command.kind = "run" /\ verdict \in Decided =>
       \A i \in 1 .. 7 : files[Bundle[i]] = Len(runs)
  /\ checker.of <= files["trades"]

\* No file was torn by a command to come, and those a command is past are whole.
OwnAreWhole ==
  /\ \A f \in Files : torn[f] <= Len(runs)
  /\ pc \in WithManifest \ {"plan"} => torn["split_plan"] = 0
  /\ pc = "card" => torn["report"] = 0
  /\ pc = "bundle" => \A i \in 1 .. written : torn[Bundle[i]] = 0
  /\ pc \in {"save", "truncate", "report"} /\ Command.kind = "run" /\ verdict \in Decided =>
       \A i \in 1 .. 7 : torn[Bundle[i]] = 0

\* The parity command under way has made its comparison and its report, and a
\* decided status is the one it has read.
CheckerHasEarned ==
  /\ checker.at \in {"report", "status"} =>
       checker.result \in {"PASS", "FAIL"} /\ << checker.of, checker.result >> \in compared
  /\ checker.at = "status" => files["parity_report"] = checker.of
  /\ checker.at # "idle" /\ parity \in {"PASS", "FAIL"} => files["parity_status"] = checker.of

IInv ==
  /\ RunTypeOK
  /\ LocalsAgree
  /\ UnderManifest
  /\ ExperimentsAreUnopened
  /\ StateIsOfVerdict
  /\ FilesAreOwn
  /\ OwnAreWhole
  /\ CheckerHasEarned
  /\ DirectoryHasOneDataset
  /\ ReportsRestOnArtifacts
  /\ StatusIsEarned

-----------------------------------------------------------------------------
(* Constants and helpers.                                                  *)

LEMMA Runs == MaxRuns \in Int /\ MaxRuns >= 1
BY RunsAssumption

LEMMA BundleNames ==
  /\ Len(Bundle) = 8 /\ DOMAIN Bundle = 1 .. 8
  /\ \A i \in 1 .. 8 :
       /\ Bundle[i] \in Files
       /\ Bundle[i] \notin {"manifest", "split_plan", "experiment", "report",
                            "model_card", "repro", "parity_report"}
       /\ Bundle[i] = "parity_status" <=> i = 8
       /\ Bundle[i] = "trades" <=> i = 7
       /\ \A j \in 1 .. 8 : Bundle[i] = Bundle[j] => i = j
  /\ ToSet(Bundle) = { Bundle[i] : i \in 1 .. 8 }
BY DEF Bundle, Files, ToSet

LEMMA NamedFiles ==
  {"manifest", "split_plan", "experiment", "report", "model_card", "repro",
   "parity_report", "parity_status", "trades"} \subseteq Files
BY BundleNames DEF Files

LEMMA DriverIsActor == Driver \in Actors /\ "system" \in Actors
BY CallersAssumption DEF Driver, Actors

\* A transition to a state other than DISCLOSED opens nothing.
LEMMA Walked ==
  ASSUME NEW e \in Experiments, NEW to \in States \ {"DISCLOSED"}, NEW actor \in Actors,
         Unopened(e)
  PROVE  /\ Transitioned(e, to, actor) \in Experiments
         /\ Transitioned(e, to, actor).seals = e.seals
         /\ Transitioned(e, to, actor).state = to
         /\ Unopened(Transitioned(e, to, actor))
<1> DEFINE ev == [from |-> e.state, to |-> to, actor |-> actor]
           log == Append(e.events, ev)
           walked == [[e EXCEPT !.state = to] EXCEPT !.events = log]
<1>1. ev \in Events /\ ev.to = to /\ e.events \in Seq(Events)
  BY DEF Events, Experiments
<1>2. /\ log \in Seq(Events) /\ Len(log) = Len(e.events) + 1
      /\ log[Len(log)].to = to
      /\ \A i \in 1 .. Len(e.events) : log[i] = e.events[i]
  <2> HIDE DEF ev
  <2> QED BY <1>1
<1>3. Transitioned(e, to, actor) = walked
  BY DEF Transitioned, Experiments
<1>4. /\ walked \in Experiments /\ walked.seals = e.seals
      /\ walked.state = to /\ walked.events = log
  <2>1. log \in Seq(Events) \ {<< >>}
    <3> HIDE DEF log
    <3> QED BY <1>1, <1>2
  <2> HIDE DEF log, ev
  <2> QED BY <2>1 DEF Experiments
<1>5. Unopened(walked)
  <2> HIDE DEF log, ev, walked
  <2>1. \A i \in 1 .. Len(log) : log[i].to # "DISCLOSED"
    <3> SUFFICES ASSUME NEW i \in 1 .. Len(log) PROVE log[i].to # "DISCLOSED"
      OBVIOUS
    <3>1. CASE i = Len(log)
      BY <3>1, <1>2
    <3>2. CASE i # Len(log)
      <4>1. i \in 1 .. Len(e.events)
        BY <3>2, <1>1, <1>2
      <4> QED BY <4>1, <1>2 DEF Unopened, WasDisclosed
    <3> QED BY <3>1, <3>2
  <2> QED BY <2>1, <1>2, <1>4 DEF Unopened, WasDisclosed, TailMatchesState
<1> QED BY <1>3, <1>4, <1>5

LEMMA CreatedIsUnopened ==
  Created \in Experiments /\ Created.seals = {} /\ Unopened(Created)
BY DEF Created, Experiments, Bindings, States, Events, Actors, GuardActor, Unopened, WasDisclosed,
       TailMatchesState

LEMMA SealedIsUnopened ==
  ASSUME NEW s \in Seals
  PROVE  /\ Sealed(Created, s) \in Experiments
         /\ Sealed(Created, s).seals = {s}
         /\ Unopened(Sealed(Created, s))
<1> DEFINE bound == [Created EXCEPT !.seals = {s}]
<1>1. /\ bound \in Experiments /\ bound.seals = {s}
      /\ bound.state = Created.state /\ bound.events = Created.events
  <2>1. {s} \in Bindings
    BY DEF Bindings
  <2> QED BY <2>1, CreatedIsUnopened DEF Created, Experiments
<1>2. Unopened(bound)
  <2> HIDE DEF bound
  <2> QED BY <1>1, CreatedIsUnopened DEF Unopened, WasDisclosed, TailMatchesState
<1>3. Sealed(Created, s) = Transitioned(bound, "SEALED", "system")
  BY DEF Sealed
<1> HIDE DEF bound
<1> QED BY <1>1, <1>2, <1>3, Walked, DriverIsActor DEF States

\* The command under way is the last one.
LEMMA LastRun ==
  ASSUME runs \in Seq(Commands), Len(runs) > 0
  PROVE  /\ Command = runs[Len(runs)] /\ Command \in Commands
         /\ Command.kind \in {"run", "create"} /\ Command.data \in Datas
<1>1. runs[Len(runs)] \in Commands
  OBVIOUS
<1> QED BY <1>1 DEF Command, Last, Commands

LEMMA InitIInv == RunInit => IInv
<1> SUFFICES ASSUME RunInit PROVE IInv
  OBVIOUS
<1> USE DEF RunInit
<1>1. RunTypeOK
  <2>1. runs = << >> /\ runs \in Seq(Commands) /\ Len(runs) = 0
    OBVIOUS
  <2>2. files \in [Files -> 0 .. MaxRuns] /\ 0 \in 0 .. MaxRuns /\ Len(runs) <= MaxRuns
    BY <2>1, Runs
  <2>4. torn \in [Files -> 0 .. MaxRuns]
    BY <2>2
  <2>3. checker.of = 0 /\ written \in 0 .. Len(Bundle)
    BY BundleNames DEF IdleChecker
  <2> QED BY <2>1, <2>2, <2>3, <2>4, CreatedIsUnopened DEF RunTypeOK
<1>2. LocalsAgree /\ UnderManifest /\ StateIsOfVerdict /\ CheckerHasEarned
  <2>1. checker \in Checkers /\ checker.at = "idle" /\ checker.of = 0
    BY Runs DEF Checkers, IdleChecker
  <2> QED BY <2>1 DEF LocalsAgree, UnderManifest, StateIsOfVerdict, CheckerHasEarned,
            WithManifest, WithSeals
<1>3. ExperimentsAreUnopened
  BY CreatedIsUnopened DEF ExperimentsAreUnopened
<1>4. FilesAreOwn /\ OwnAreWhole
  BY NamedFiles DEF FilesAreOwn, OwnAreWhole, WithManifest, IdleChecker
<1>5. DirectoryHasOneDataset /\ StatusIsEarned
  BY CreatedIsUnopened, NamedFiles DEF DirectoryHasOneDataset, StatusIsEarned
<1>6. ReportsRestOnArtifacts
  BY CreatedIsUnopened, NamedFiles, BundleNames DEF ReportsRestOnArtifacts, Unopened, TornAfter
<1> QED BY <1>1, <1>2, <1>3, <1>4, <1>5, <1>6 DEF IInv

-----------------------------------------------------------------------------
(* The types.                                                              *)

\* Steps that end the command under way and touch nothing else.
Stop == ManifestImmutabilityError \/ Raise \/ Kill

\* A new command is the last one and leaves the others where they are.
LEMMA Started ==
  ASSUME IInv, NEW c \in Commands, Start(c.kind, c.data)
  PROVE  /\ runs' \in Seq(Commands) /\ Len(runs') = Len(runs) + 1 /\ Len(runs) \in Nat
         /\ Len(runs') <= MaxRuns /\ Len(runs') > 0
         /\ \A i \in 1 .. Len(runs) : runs'[i] = runs[i]
<1> DEFINE new == [kind |-> c.kind, data |-> c.data]
<1>1. new \in Commands
  BY DEF Commands
<1>2. runs' = Append(runs, new) /\ runs \in Seq(Commands) /\ Len(runs) < MaxRuns
  BY DEF Start, IInv, RunTypeOK
<1> HIDE DEF new
<1> QED BY <1>1, <1>2, Runs

\* Every other step leaves the commands alone.
LEMMA RunsStay ==
  ASSUME CommandStep \/ Kill \/ CheckerStep \/ UNCHANGED runVars
  PROVE  runs' = runs
BY DEF CommandStep, Load, WriteManifest, ManifestImmutabilityError, WritePlan, Seal,
       Characterize, NoChampion, Champion, Validate, WriteBundleFile, SaveExperiment,
       TruncateReport, WriteReport, WriteModelCard, WriteRepro, Raise, Return, Kill, LeaveFiles,
       CheckerStep, ReadStatus, Compare, WriteParityReport, WriteParityStatus, KillChecker,
       Goto, runVars, commandVars

\* A file that is written becomes the command's; the others stay.
LEMMA Written ==
  ASSUME RunTypeOK, NEW f \in Files, Write(f)
  PROVE  /\ files' \in [Files -> 0 .. MaxRuns]
         /\ files'[f] = Len(runs)
         /\ \A g \in Files \ {f} : files'[g] = files[g]
<1>1. Len(runs) \in 0 .. MaxRuns /\ files \in [Files -> 0 .. MaxRuns]
  BY Runs DEF RunTypeOK
<1> QED BY <1>1 DEF Write

\* The bundle has a file left to write whenever the command writes one.
LEMMA BundleWritten ==
  ASSUME RunTypeOK, LocalsAgree, WriteBundleFile
  PROVE  /\ pc = "bundle" /\ pc' \in {"bundle", "save"}
         /\ written \in 0 .. 7 /\ written + 1 \in 1 .. 8
         /\ Bundle[written + 1] \in Files
<1>1. pc = "bundle" /\ pc' = IF written + 1 = Len(Bundle) THEN "save" ELSE "bundle"
  BY DEF WriteBundleFile, Goto
<1>2. written \in 0 .. Len(Bundle)
  BY DEF RunTypeOK
<1>3. written < Len(Bundle)
  BY <1>1 DEF LocalsAgree
<1>4. Len(Bundle) = 8
  BY BundleNames
<1>5. written \in 0 .. 7 /\ written + 1 \in 1 .. 8
  <2> HIDE DEF RunTypeOK, LocalsAgree, WriteBundleFile
  <2> QED BY <1>2, <1>3, <1>4
<1>6. QED
  BY <1>1, <1>5, BundleNames

\* The file that a command has in hand, by its step.
LEMMA FileInHand ==
  ASSUME RunTypeOK, LocalsAgree, NEW f \in InHand
  PROVE  /\ f \in Files \ {"manifest", "experiment", "parity_report"}
         /\ pc \in WithManifest /\ Len(runs) > 0
         /\ \/ pc = "plan" /\ f = "split_plan"
            \/ pc = "bundle" /\ written \in 0 .. 7 /\ f = Bundle[written + 1]
            \/ pc \in {"card", "repro"} /\ f \in {"model_card", "repro"}
<1>1. CASE pc = "plan"
  <2>1. InHand = {"split_plan"}
    BY <1>1, Zenon DEF InHand
  <2> QED BY <1>1, <2>1, NamedFiles DEF WithManifest, LocalsAgree
<1>2. CASE pc = "bundle"
  <2>1. InHand = {Bundle[written + 1]}
    BY <1>2, Zenon DEF InHand
  <2>2. written \in 0 .. Len(Bundle) /\ written < Len(Bundle) /\ Len(Bundle) = 8
    BY <1>2, BundleNames DEF RunTypeOK, LocalsAgree
  <2>3. written \in 0 .. 7 /\ written + 1 \in 1 .. 8
    BY <2>2
  <2> QED BY <1>2, <2>1, <2>3, BundleNames DEF WithManifest, LocalsAgree
<1>3. CASE pc = "card"
  <2>1. InHand = {"model_card"}
    BY <1>3, Zenon DEF InHand
  <2> QED BY <1>3, <2>1, NamedFiles DEF WithManifest, LocalsAgree
<1>4. CASE pc = "repro"
  <2>1. InHand = {"repro"}
    BY <1>4, Zenon DEF InHand
  <2> QED BY <1>4, <2>1, NamedFiles DEF WithManifest, LocalsAgree
<1>5. CASE pc \notin {"plan", "bundle", "card", "repro"}
  <2>1. InHand = {}
    BY <1>5, Zenon DEF InHand
  <2> QED BY <2>1
<1> QED BY <1>1, <1>2, <1>3, <1>4, <1>5

\* What may happen to whether file f is torn: nothing, it is written, it is
\* left torn by the command under way, or by the parity command.
LeftByCommand(f) ==
  /\ torn'[f] = Len(runs) /\ pc \in WithManifest /\ runs' = runs
  /\ \/ f \in InHand /\ Stop
     \/ f = "report" /\ TruncateReport

LeftByChecker(f) ==
  /\ torn'[f] = checker.of /\ checker.at # "idle" /\ CheckerStep
  /\ f \in {"parity_report", "parity_status"}

\* One value of torn is replaced.
LEMMA TornTyped ==
  ASSUME RunTypeOK, NEW f \in Files, NEW n \in 0 .. MaxRuns, torn' = [torn EXCEPT ![f] = n]
  PROVE  /\ torn' \in [Files -> 0 .. MaxRuns] /\ torn'[f] = n
         /\ \A g \in Files \ {f} : torn'[g] = torn[g]
BY DEF RunTypeOK

TornTurns ==
  /\ torn' \in [Files -> 0 .. MaxRuns]
  /\ \A f \in Files : torn'[f] \in {torn[f], 0} \/ LeftByCommand(f) \/ LeftByChecker(f)

LEMMA TornChanges ==
  ASSUME RunTypeOK, LocalsAgree, DirectoryNext \/ UNCHANGED runVars
  PROVE  TornTurns
<1>0. 0 \in 0 .. MaxRuns /\ Len(runs) \in 0 .. MaxRuns /\ torn \in [Files -> 0 .. MaxRuns]
  BY Runs DEF RunTypeOK
<1>1. ASSUME torn' = torn PROVE TornTurns
  BY <1>0, <1>1 DEF TornTurns
<1>2. ASSUME NEW f \in Files, torn' = [torn EXCEPT ![f] = 0] PROVE TornTurns
  BY <1>0, <1>2, TornTyped DEF TornTurns
<1>3. ASSUME NEW f \in Files, NEW n \in 0 .. MaxRuns, torn' = [torn EXCEPT ![f] = n],
             LeftByCommand(f) \/ LeftByChecker(f)
      PROVE  TornTurns
  <2>1. /\ torn' \in [Files -> 0 .. MaxRuns]
        /\ \A g \in Files \ {f} : torn'[g] = torn[g]
    BY <1>3, TornTyped
  <2> QED BY <1>3, <2>1 DEF TornTurns
<1>4. CASE Stop
  <2>1. UNCHANGED torn \/ (\E f \in InHand : torn' = [torn EXCEPT ![f] = Len(runs)])
    BY <1>4 DEF Stop, ManifestImmutabilityError, Raise, Kill, LeaveFiles, diskVars
  <2>2. runs' = runs
    BY <1>4 DEF Stop, ManifestImmutabilityError, Raise, Kill
  <2>3. ASSUME NEW f \in InHand, torn' = [torn EXCEPT ![f] = Len(runs)] PROVE TornTurns
    <3>1. f \in Files /\ pc \in WithManifest
      BY FileInHand
    <3>2. torn'[f] = Len(runs)
      BY <1>0, <2>3, <3>1, TornTyped
    <3>3. LeftByCommand(f)
      BY <1>4, <2>2, <3>1, <3>2 DEF LeftByCommand
    <3> QED BY <1>0, <1>3, <2>3, <3>1, <3>3
  <2> QED BY <1>1, <2>1, <2>3
<1>5. CASE TruncateReport
  <2>1. /\ torn' = [torn EXCEPT !["report"] = Len(runs)] /\ "report" \in Files
        /\ pc \in WithManifest /\ runs' = runs
    BY <1>5, NamedFiles DEF TruncateReport, Goto, WithManifest
  <2>2. torn'["report"] = Len(runs)
    BY <1>0, <2>1, TornTyped
  <2> QED BY <1>0, <1>3, <1>5, <2>1, <2>2 DEF LeftByCommand
<1>6. CASE WriteBundleFile
  <2>1. Bundle[written + 1] \in Files
    BY <1>6, BundleWritten
  <2>2. torn' = [torn EXCEPT ![Bundle[written + 1]] = 0]
    BY <1>6 DEF WriteBundleFile, Write
  <2> QED BY <1>2, <2>1, <2>2
<1>7. CASE WriteManifest \/ WritePlan \/ SaveExperiment \/ WriteReport \/ WriteModelCard \/ WriteRepro
  <2>1. \/ torn' = torn
        \/ \E f \in {"manifest", "split_plan", "experiment", "report", "model_card", "repro"} :
             torn' = [torn EXCEPT ![f] = 0]
    BY <1>7 DEF WriteManifest, WritePlan, SaveExperiment, WriteReport, WriteModelCard, WriteRepro, Write
  <2> QED BY <1>1, <1>2, <2>1, NamedFiles
<1>8. CASE ShellStarts \/ Load \/ Seal \/ Characterize \/ NoChampion \/ Champion \/ Validate
           \/ ReadStatus \/ Compare \/ UNCHANGED runVars
  <2>1. torn' = torn
    BY <1>8 DEF ShellStarts, Start, Load, Seal, Characterize, NoChampion, Champion, Validate,
       ReadStatus, Compare, diskVars, runVars
  <2> QED BY <1>1, <2>1
<1>9. CASE WriteParityReport \/ WriteParityStatus
  <2>1. \E f \in {"parity_report", "parity_status"} : torn' = [torn EXCEPT ![f] = 0]
    BY <1>9 DEF WriteParityReport, WriteParityStatus
  <2> QED BY <1>2, <2>1, NamedFiles
<1>10. CASE KillChecker
  <2>1. CheckerInHand \subseteq {"parity_report", "parity_status"}
    <3>1. CASE checker.at = "report"
      BY <3>1, Zenon DEF CheckerInHand
    <3>2. CASE checker.at = "status"
      BY <3>2, Zenon DEF CheckerInHand
    <3>3. CASE checker.at \notin {"report", "status"}
      BY <3>3, Zenon DEF CheckerInHand
    <3> QED BY <3>1, <3>2, <3>3
  <2>2. checker.of \in 0 .. MaxRuns
    BY DEF RunTypeOK
  <2>3. ASSUME NEW f \in CheckerInHand, torn' = [torn EXCEPT ![f] = checker.of] PROVE TornTurns
    <3>1. f \in Files /\ f \in {"parity_report", "parity_status"}
      BY <2>1, <2>3, NamedFiles
    <3>2. torn'[f] = checker.of
      BY <2>2, <2>3, <3>1, TornTyped
    <3>3. LeftByChecker(f)
      BY <1>10, <3>1, <3>2 DEF LeftByChecker, CheckerStep, KillChecker
    <3> QED BY <1>3, <2>2, <2>3, <3>1, <3>3
  <2> QED BY <1>1, <1>10, <2>3 DEF KillChecker
<1> QED
  BY <1>4, <1>5, <1>6, <1>7, <1>8, <1>9, <1>10 DEF DirectoryNext, CommandStep, CheckerStep, Stop

LEMMA TypeStep ==
  ASSUME IInv, DirectoryNext \/ UNCHANGED runVars
  PROVE  RunTypeOK'
<1> USE DEF IInv
<1>1. /\ runs \in Seq(Commands) /\ Len(runs) \in Nat /\ Len(runs) <= MaxRuns
      /\ files \in [Files -> 0 .. MaxRuns] /\ MaxRuns \in Nat
  BY Runs DEF RunTypeOK
<1>0. torn' \in [Files -> 0 .. MaxRuns]
  BY TornChanges DEF TornTurns
<1> USE <1>0
<1>2. CASE ShellStarts
  <2> PICK c \in Commands : Start(c.kind, c.data)
    BY <1>2 DEF ShellStarts
  <2>1. runs' \in Seq(Commands) /\ Len(runs') <= MaxRuns
    BY Started
  <2>2. written' \in 0 .. Len(Bundle) /\ pc' = "load" /\ outcome' = "running" /\ verdict' = "none"
    BY BundleNames DEF Start
  <2>3. UNCHANGED << experiment, diskVars, checkerVars >>
    BY DEF Start
  <2> QED BY <2>1, <2>2, <2>3 DEF RunTypeOK, diskVars, checkerVars
<1>3. CASE Stop
  BY <1>3 DEF Stop, ManifestImmutabilityError, Raise, Kill, LeaveFiles, RunTypeOK, diskVars, checkerVars
<1>4. CASE Load
  BY <1>4 DEF Load, Goto, RunTypeOK, diskVars, checkerVars
<1>5. CASE WriteManifest
  <2>1. files' \in [Files -> 0 .. MaxRuns]
    BY <1>5, <1>1, Written, NamedFiles DEF WriteManifest
  <2> QED BY <1>5, <2>1 DEF WriteManifest, Goto, RunTypeOK, checkerVars
<1>6. CASE WritePlan
  <2>1. files' \in [Files -> 0 .. MaxRuns]
    BY <1>6, Written, NamedFiles DEF WritePlan
  <2> QED BY <1>6, <2>1 DEF WritePlan, Goto, RunTypeOK, checkerVars
<1>7. CASE Seal
  <2> PICK plan \in Plans :
        experiment' = Transitioned(Sealed(Created, [plan |-> plan, data |-> Command.data]),
                                   "SEARCH_ACTIVE", Driver)
    BY <1>7 DEF Seal
  <2>1. [plan |-> plan, data |-> Command.data] \in Seals
    BY <1>7, <1>1, LastRun DEF Seal, Goto, LocalsAgree, Seals
  <2>2. experiment' \in Experiments
    BY <2>1, SealedIsUnopened, Walked, DriverIsActor DEF States
  <2> QED BY <2>2, <1>7 DEF Seal, Goto, RunTypeOK, diskVars, checkerVars
<1>8. CASE Characterize \/ Champion
  BY <1>8 DEF Characterize, Champion, Goto, RunTypeOK, diskVars, checkerVars
<1>9. CASE NoChampion
  <2>1. experiment' \in Experiments
    BY <1>9, Walked, DriverIsActor DEF NoChampion, ExperimentsAreUnopened, RunTypeOK, States
  <2> QED BY <2>1, <1>9 DEF NoChampion, Goto, RunTypeOK, Verdicts, diskVars, checkerVars
<1>10. CASE Validate
  <2>1. /\ verdict' \in Verdicts
        /\ experiment' = Transitioned(experiment, FinalState(verdict'), Driver)
    BY <1>10 DEF Validate
  <2>2. experiment' \in Experiments
    BY <2>1, Walked, DriverIsActor DEF ExperimentsAreUnopened, RunTypeOK, States, FinalState
  <2> QED BY <2>1, <2>2, <1>10 DEF Validate, Goto, RunTypeOK, diskVars, checkerVars
<1>11. CASE WriteBundleFile
  <2>1. written < 8 /\ written \in Nat
    BY <1>11, BundleWritten
  <2>2. files' \in [Files -> 0 .. MaxRuns]
    BY <1>11, <2>1, Written, BundleNames DEF WriteBundleFile
  <2>3. written' \in 0 .. Len(Bundle) /\ parity' \in {"none", "PENDING_REAL_TICK", "PASS", "FAIL"}
    <3>1. written' = written + 1 /\ parity' \in {parity, "PENDING_REAL_TICK"}
      BY <1>11 DEF WriteBundleFile, PendingAgain
    <3>2. parity \in {"none", "PENDING_REAL_TICK", "PASS", "FAIL"}
      BY DEF RunTypeOK
    <3>3. Len(Bundle) = 8
      BY BundleNames
    <3> HIDE <1>0 DEF IInv
    <3> QED BY <2>1, <3>1, <3>2, <3>3
  <2>4. pc' \in {"bundle", "save"}
    BY <1>11 DEF WriteBundleFile, Goto
  <2> QED BY <2>2, <2>3, <2>4, <1>11 DEF WriteBundleFile, Goto, RunTypeOK, checkerVars
<1>12. CASE SaveExperiment
  <2>1. files' \in [Files -> 0 .. MaxRuns]
    BY <1>12, Written, NamedFiles DEF SaveExperiment
  <2> QED BY <1>12, <2>1 DEF SaveExperiment, Goto, RunTypeOK, checkerVars
<1>13. CASE TruncateReport
  BY <1>13 DEF TruncateReport, Goto, RunTypeOK, checkerVars
<1>14. CASE WriteReport
  <2>1. files' \in [Files -> 0 .. MaxRuns]
    BY <1>14, Written, NamedFiles DEF WriteReport
  <2> QED BY <1>14, <2>1 DEF WriteReport, Goto, RunTypeOK, checkerVars
<1>15. CASE WriteModelCard \/ WriteRepro
  BY <1>15, <1>1 DEF WriteModelCard, WriteRepro, Return, Write, RunTypeOK, checkerVars
<1>16. CASE CheckerStep
  <2>0. UNCHANGED << commandVars, saved, reported >>
    BY <1>16 DEF CheckerStep, ReadStatus, Compare, WriteParityReport, WriteParityStatus,
       KillChecker, diskVars, commandVars
  <2>1. checker \in Checkers
    BY DEF LocalsAgree
  <2>2. CASE ReadStatus
    BY <2>0, <2>2, <1>1, NamedFiles DEF ReadStatus, RunTypeOK, diskVars, commandVars
  <2>3. CASE Compare
    <3>1. checker.of # 0 /\ checker.of \in 1 .. MaxRuns
      BY <2>1, <2>3, Runs DEF Compare, UnderManifest, Checkers
    <3> QED BY <2>0, <2>1, <2>3, <3>1 DEF Compare, Checkers, RunTypeOK, diskVars, commandVars
  <2>4. CASE WriteParityReport
    BY <2>0, <2>1, <2>4 DEF WriteParityReport, Checkers, RunTypeOK, commandVars
  <2>5. CASE WriteParityStatus
    <3>1. checker.result \in {"PASS", "FAIL"}
      BY <2>5 DEF WriteParityStatus, CheckerHasEarned
    <3>2. checker.of \in 0 .. MaxRuns /\ files \in [Files -> 0 .. MaxRuns]
      BY <2>1, <1>1 DEF Checkers
    <3>3. files' \in [Files -> 0 .. MaxRuns] /\ parity' \in {"PASS", "FAIL"}
          /\ checker'.of = 0 /\ compared' = compared
      BY <2>5, <3>1, <3>2 DEF WriteParityStatus, IdleChecker
    <3> QED BY <2>0, <3>3, Runs DEF RunTypeOK, commandVars
  <2>6. CASE KillChecker
    BY <2>0, <2>6, Runs DEF KillChecker, IdleChecker, RunTypeOK, diskVars, commandVars
  <2> QED BY <1>16, <2>2, <2>3, <2>4, <2>5, <2>6 DEF CheckerStep
<1>17. CASE UNCHANGED runVars
  BY <1>17 DEF RunTypeOK, runVars, commandVars, diskVars, checkerVars
<1> QED
  BY <1>2, <1>3, <1>4, <1>5, <1>6, <1>7, <1>8, <1>9, <1>10, <1>11, <1>12, <1>13, <1>14,
     <1>15, <1>16, <1>17 DEF DirectoryNext, CommandStep, Stop

-----------------------------------------------------------------------------
(* The locals and the manifest.                                            *)

LEMMA Sizes ==
  ASSUME IInv
  PROVE  /\ runs \in Seq(Commands) /\ Len(runs) \in Nat /\ Len(runs) <= MaxRuns
         /\ MaxRuns \in Nat
         /\ files \in [Files -> 0 .. MaxRuns]
         /\ \A f \in Files : files[f] \in 0 .. Len(runs)
<1>1. runs \in Seq(Commands) /\ Len(runs) <= MaxRuns /\ files \in [Files -> 0 .. MaxRuns]
  BY DEF IInv, RunTypeOK
<1>2. \A f \in Files : files[f] <= Len(runs)
  BY DEF IInv, LocalsAgree
<1> QED BY <1>1, <1>2, Runs

LEMMA TornSizes ==
  ASSUME IInv
  PROVE  \A f \in Files : torn[f] \in 0 .. Len(runs)
<1>1. torn \in [Files -> 0 .. MaxRuns] /\ Len(runs) \in Nat
  BY Sizes DEF IInv, RunTypeOK
<1>2. \A f \in Files : torn[f] <= Len(runs)
  BY DEF IInv, OwnAreWhole
<1> QED BY <1>1, <1>2, Runs

\* Commands leave the parity command alone.
LEMMA CheckerStays ==
  ASSUME CommandStep \/ Kill \/ UNCHANGED runVars
  PROVE  checker' = checker /\ compared' = compared
BY DEF CommandStep, Load, WriteManifest, ManifestImmutabilityError, WritePlan, Seal,
       Characterize, NoChampion, Champion, Validate, WriteBundleFile, SaveExperiment,
       TruncateReport, WriteReport, WriteModelCard, WriteRepro, Raise, Return, Kill, LeaveFiles,
       Goto, runVars, checkerVars

\* The parity command leaves commands and their files alone, but for its own.
LEMMA CheckerWrites ==
  ASSUME IInv, CheckerStep
  PROVE  /\ UNCHANGED << commandVars, saved, reported >>
         /\ \A f \in Files :
              \/ files'[f] = files[f]
              \/ /\ f \in {"parity_report", "parity_status"}
                 /\ files'[f] = checker.of
                 /\ checker.at # "idle"
         /\ files'["parity_status"] # files["parity_status"] => WriteParityStatus
<1>1. files \in [Files -> 0 .. MaxRuns]
  BY Sizes
<1> QED BY <1>1, NamedFiles DEF CheckerStep, ReadStatus, Compare, WriteParityReport, WriteParityStatus,
       KillChecker, diskVars, commandVars

\* A command writes its own number, and apart from the manifest only after it.
LEMMA CommandWrites ==
  ASSUME IInv, CommandStep \/ Kill \/ UNCHANGED runVars
  PROVE  /\ \A f \in Files \ {"manifest"} :
              \/ files'[f] = files[f]
              \/ files'[f] = Len(runs) /\ pc \in WithManifest
         /\ files'["manifest"] = files["manifest"] \/ WriteManifest
         /\ files'["parity_report"] = files["parity_report"]
<1>1. RunTypeOK /\ files \in [Files -> 0 .. MaxRuns]
  BY Sizes DEF IInv
<1>2. CASE WriteManifest
  <2>1. files' = files \/ Write("manifest")
    BY <1>2 DEF WriteManifest
  <2> QED BY <1>1, <1>2, <2>1, Written, NamedFiles
<1>3. CASE WriteBundleFile
  <2>1. written + 1 \in 1 .. 8 /\ pc \in WithManifest
    BY <1>3, BundleWritten DEF IInv, WithManifest
  <2>2. Write(Bundle[written + 1])
    BY <1>3 DEF WriteBundleFile
  <2> QED BY <1>1, <2>1, <2>2, Written, BundleNames, NamedFiles
<1>4. CASE WritePlan
  BY <1>1, <1>4, Written, NamedFiles DEF WritePlan, Goto, WithManifest
<1>5. CASE SaveExperiment
  BY <1>1, <1>5, Written, NamedFiles DEF SaveExperiment, Goto, WithManifest
<1>6. CASE WriteReport
  BY <1>1, <1>6, Written, NamedFiles DEF WriteReport, Goto, WithManifest
<1>7. CASE WriteModelCard
  <2>1. "model_card" \in Files
    BY NamedFiles
  <2> QED BY <1>1, <1>7, <2>1, Written, NamedFiles DEF WriteModelCard, WithManifest
<1>8. CASE WriteRepro
  BY <1>1, <1>8, Written, NamedFiles DEF WriteRepro, WithManifest
<1>9. CASE files' = files
  BY <1>9
<1>10. Load \/ Seal \/ Characterize \/ NoChampion \/ Champion \/ Validate \/ TruncateReport
         \/ Stop \/ UNCHANGED runVars => files' = files
  BY DEF Load, Seal, Characterize, NoChampion, Champion, Validate, TruncateReport, Stop,
     ManifestImmutabilityError, Raise, Kill, LeaveFiles, runVars, diskVars
<1> QED BY <1>2, <1>3, <1>4, <1>5, <1>6, <1>7, <1>8, <1>9, <1>10 DEF CommandStep, Stop

\* Which step writes which file.
LEMMA WritesOnly ==
  ASSUME IInv, CommandStep
  PROVE  /\ files'["split_plan"] = files["split_plan"] \/ WritePlan
         /\ files'["experiment"] = files["experiment"] \/ SaveExperiment
         /\ files'["report"] = files["report"] \/ WriteReport
         /\ files'["model_card"] = files["model_card"] \/ WriteModelCard
         /\ \A i \in 1 .. 8 :
              \/ files'[Bundle[i]] = files[Bundle[i]]
              \/ WriteBundleFile /\ i = written + 1
<1>1. RunTypeOK /\ files \in [Files -> 0 .. MaxRuns]
  BY Sizes DEF IInv
<1>2. CASE WriteBundleFile
  <2>1. written + 1 \in 1 .. 8
    BY <1>2, BundleWritten DEF IInv
  <2>2. Write(Bundle[written + 1])
    BY <1>2 DEF WriteBundleFile
  <2>3. \A g \in Files \ {Bundle[written + 1]} : files'[g] = files[g]
    BY <1>1, <2>1, <2>2, Written, BundleNames
  <2>4. {"split_plan", "experiment", "report", "model_card"} \subseteq Files \ {Bundle[written + 1]}
    BY <2>1, BundleNames, NamedFiles
  <2>5. \A i \in 1 .. 8 : i # written + 1 => Bundle[i] \in Files \ {Bundle[written + 1]}
    BY <2>1, BundleNames
  <2> QED BY <1>2, <2>3, <2>4, <2>5
<1>3. ASSUME NEW f \in {"manifest", "split_plan", "experiment", "report", "model_card", "repro"},
             Write(f)
      PROVE  /\ \A g \in Files \ {f} : files'[g] = files[g]
             /\ \A i \in 1 .. 8 : files'[Bundle[i]] = files[Bundle[i]]
  <2>1. f \in Files
    BY DEF Files
  <2>2. \A g \in Files \ {f} : files'[g] = files[g]
    BY <1>1, <1>3, <2>1, Written
  <2>3. \A i \in 1 .. 8 : Bundle[i] \in Files \ {f}
    BY BundleNames
  <2> QED BY <2>2, <2>3
<1>4. CASE WritePlan
  BY <1>3, <1>4, NamedFiles DEF WritePlan
<1>5. CASE SaveExperiment
  BY <1>3, <1>5, NamedFiles DEF SaveExperiment
<1>6. CASE WriteReport
  BY <1>3, <1>6, NamedFiles DEF WriteReport
<1>7. CASE WriteModelCard
  BY <1>3, <1>7, NamedFiles DEF WriteModelCard
<1>8. CASE WriteRepro
  BY <1>3, <1>8, NamedFiles DEF WriteRepro
<1>9. CASE WriteManifest
  BY <1>3, <1>9, NamedFiles DEF WriteManifest
<1>10. CASE files' = files
  BY <1>10
<1> QED
  BY <1>2, <1>4, <1>5, <1>6, <1>7, <1>8, <1>9, <1>10 DEF CommandStep, Load,
     ManifestImmutabilityError, Seal, Characterize, NoChampion, Champion, Validate,
     TruncateReport, Raise, LeaveFiles, diskVars

\* The manifest is written once, and its data stay.
LEMMA ManifestStays ==
  ASSUME IInv, DirectoryNext \/ UNCHANGED runVars, files["manifest"] # 0
  PROVE  files'["manifest"] = files["manifest"] /\ ManifestData' = ManifestData
<1>1. /\ files["manifest"] \in 1 .. Len(runs)
      /\ Len(runs) \in Nat
  BY Sizes, NamedFiles
<1>2. CASE ShellStarts
  <2> PICK c \in Commands : Start(c.kind, c.data)
    BY <1>2 DEF ShellStarts
  <2>1. files' = files /\ \A i \in 1 .. Len(runs) : runs'[i] = runs[i]
    BY Started DEF Start, diskVars
  <2> QED BY <1>1, <2>1 DEF ManifestData
<1>3. CASE CommandStep \/ Kill \/ UNCHANGED runVars
  <2>1. CASE WriteManifest
    BY <2>1, <1>1, RunsStay DEF WriteManifest, ManifestData, CommandStep
  <2>2. CASE ~WriteManifest
    BY <1>3, <2>2, CommandWrites, RunsStay DEF ManifestData
  <2> QED BY <2>1, <2>2
<1>4. CASE CheckerStep
  BY <1>4, CheckerWrites, RunsStay, NamedFiles DEF ManifestData
<1> QED BY <1>2, <1>3, <1>4 DEF DirectoryNext

\* The command under way stays the last one, but for a start.
LEMMA CommandStays ==
  ASSUME CommandStep \/ Kill \/ CheckerStep \/ UNCHANGED runVars
  PROVE  runs' = runs /\ Command' = Command
BY RunsStay DEF Command

LEMMA CheckerTyped ==
  ASSUME IInv, DirectoryNext \/ UNCHANGED runVars
  PROVE  checker' \in Checkers /\ checker'.of <= Len(runs)
<1>1. checker \in Checkers /\ checker.of <= Len(runs) /\ Len(runs) \in Nat /\ MaxRuns \in Nat
  BY Sizes DEF IInv, LocalsAgree
<1>2. IdleChecker \in Checkers /\ IdleChecker.of = 0
  BY <1>1 DEF IdleChecker, Checkers
<1>3. CASE ReadStatus
  <2>1. files["parity_status"] \in 0 .. MaxRuns /\ files["parity_status"] <= Len(runs)
    BY Sizes, NamedFiles
  <2> QED BY <1>3, <2>1 DEF ReadStatus, Checkers
<1>4. CASE Compare
  BY <1>1, <1>4 DEF Compare, Checkers
<1>5. CASE WriteParityReport
  BY <1>1, <1>5 DEF WriteParityReport, Checkers
<1>6. CASE WriteParityStatus \/ KillChecker
  BY <1>1, <1>2, <1>6 DEF WriteParityStatus, KillChecker
<1>7. CASE ShellStarts \/ CommandStep \/ Kill \/ UNCHANGED runVars
  BY <1>1, <1>7, CheckerStays DEF ShellStarts, Start, checkerVars
<1> QED BY <1>3, <1>4, <1>5, <1>6, <1>7 DEF DirectoryNext, CheckerStep

LEMMA LocalsStep ==
  ASSUME IInv, DirectoryNext \/ UNCHANGED runVars
  PROVE  LocalsAgree'
<1> USE DEF IInv
<1>1. CASE ShellStarts
  <2> PICK c \in Commands : Start(c.kind, c.data)
    BY <1>1 DEF ShellStarts
  <2>1. files' = files /\ pc' = "load" /\ written' = 0 /\ checker' = checker
    BY DEF Start, diskVars, checkerVars
  <2>2. Len(runs') = Len(runs) + 1 /\ Len(runs) \in Nat /\ Len(runs') > 0
    BY Started
  <2>3. \A f \in Files : files'[f] <= Len(runs')
    BY <2>1, <2>2, Sizes
  <2>4. checker' \in Checkers /\ checker'.of <= Len(runs')
    BY <2>1, <2>2, CheckerTyped, Sizes DEF DirectoryNext, Checkers, LocalsAgree
  <2> QED BY <2>1, <2>2, <2>3, <2>4 DEF LocalsAgree
<1>2. CASE CommandStep \/ Kill \/ CheckerStep \/ UNCHANGED runVars
  <2>1. runs' = runs /\ Command' = Command
    BY <1>2, CommandStays
  <2>2. \A f \in Files : files'[f] <= Len(runs')
    <3>1. \A f \in Files : files[f] <= Len(runs) /\ Len(runs) \in Nat
      BY Sizes
    <3>2. CASE CheckerStep
      BY <2>1, <3>1, <3>2, CheckerWrites DEF LocalsAgree
    <3>3. CASE CommandStep \/ Kill \/ UNCHANGED runVars
      <4>1. files'["manifest"] \in {files["manifest"], Len(runs)}
        BY <3>3, CommandWrites, Written, NamedFiles DEF WriteManifest
      <4> QED BY <2>1, <3>1, <3>3, <4>1, CommandWrites, NamedFiles
    <3> QED BY <1>2, <3>2, <3>3
  <2>3. checker' \in Checkers /\ checker'.of <= Len(runs')
    BY <1>2, <2>1, CheckerTyped DEF DirectoryNext
  <2> DEFINE LocalsOfPc ==
        /\ pc # "idle" => Len(runs) > 0
        /\ pc \in {"load", "manifest", "plan", "seal", "costs", "search", "oos"} => written = 0
        /\ pc = "bundle" => written < Len(Bundle)
        /\ pc \in {"costs", "search", "oos", "bundle", "truncate", "report", "card"} =>
             Command.kind = "run"
  <2>4. LocalsOfPc'
    <3> USE <2>1 DEF LocalsAgree
    <3>1. CASE Stop
      BY <3>1 DEF Stop, ManifestImmutabilityError, Raise, Kill, LeaveFiles
    <3>2. CASE Load \/ WriteManifest \/ WritePlan \/ Characterize \/ Champion
      BY <3>2 DEF Load, WriteManifest, WritePlan, Characterize, Champion, Goto
    <3>3. CASE Seal \/ NoChampion \/ SaveExperiment \/ TruncateReport \/ WriteReport
      BY <3>3 DEF Seal, NoChampion, SaveExperiment, TruncateReport, WriteReport, Goto
    <3>4. CASE Validate
      BY <3>4, BundleNames DEF Validate, Goto
    <3>5. CASE WriteBundleFile
      BY <3>5, BundleNames DEF WriteBundleFile, Goto, RunTypeOK
    <3>6. CASE WriteModelCard \/ WriteRepro
      BY <3>6 DEF WriteModelCard, WriteRepro, Return
    <3>7. CASE CheckerStep \/ UNCHANGED runVars
      BY <3>7, CheckerWrites DEF commandVars, runVars
    <3> QED BY <1>2, <3>1, <3>2, <3>3, <3>4, <3>5, <3>6, <3>7 DEF CommandStep, Stop
  <2> QED BY <2>2, <2>3, <2>4 DEF LocalsAgree
<1> QED BY <1>1, <1>2 DEF DirectoryNext

-----------------------------------------------------------------------------
(* One set of data.                                                        *)

\* The manifest is there from its step on, with the command's data.
LEMMA ManifestWritten ==
  ASSUME IInv, WriteManifest
  PROVE  files'["manifest"] # 0 /\ ManifestData' = Command.data
<1>1. Len(runs) > 0 /\ Len(runs) \in Nat /\ runs' = runs /\ Command = runs[Len(runs)]
  BY Sizes, LastRun DEF WriteManifest, Goto, IInv, LocalsAgree
<1>2. CASE Write("manifest")
  BY <1>1, <1>2, Written, NamedFiles DEF IInv, ManifestData
<1>3. CASE SameManifest /\ files' = files
  BY <1>1, <1>3 DEF SameManifest, ManifestData
<1> QED BY <1>2, <1>3 DEF WriteManifest

LEMMA ManifestStep ==
  ASSUME IInv, DirectoryNext \/ UNCHANGED runVars
  PROVE  UnderManifest'
<1> USE DEF IInv, UnderManifest
<1>1. pc' \in WithManifest => files'["manifest"] # 0 /\ ManifestData' = Command'.data
  <2>1. CASE WriteManifest
    BY <2>1, ManifestWritten, CommandStays DEF CommandStep
  <2>2. CASE ShellStarts \/ Stop
    BY <2>2 DEF ShellStarts, Start, Stop, ManifestImmutabilityError, Raise, Kill, LeaveFiles, WithManifest
  <2>3. CASE CommandStep \/ CheckerStep \/ UNCHANGED runVars
    <3>1. SUFFICES ASSUME ~WriteManifest, ~Stop PROVE pc' \in WithManifest => pc \in WithManifest
      BY <2>1, <2>2, <2>3, ManifestStays, CommandStays DEF DirectoryNext
    <3>2. CASE CheckerStep \/ UNCHANGED runVars
      BY <3>2, CheckerWrites DEF commandVars, runVars
    <3>3. CASE CommandStep
      BY <3>1, <3>3 DEF CommandStep, Stop, Load, WritePlan, Seal, Characterize, NoChampion, Champion,
         Validate, WriteBundleFile, SaveExperiment, TruncateReport, WriteReport, WriteModelCard,
         WriteRepro, Return, Goto, WithManifest
    <3> QED BY <2>3, <3>2, <3>3
  <2> QED BY <2>1, <2>2, <2>3 DEF DirectoryNext, Stop
<1>2. pc' \in WithSeals => \A s \in experiment'.seals : s.data = Command'.data
  <2>1. CASE Seal
    <3> PICK plan \in Plans :
          experiment' = Transitioned(Sealed(Created, [plan |-> plan, data |-> Command.data]),
                                     "SEARCH_ACTIVE", Driver)
      BY <2>1 DEF Seal
    <3> DEFINE s == [plan |-> plan, data |-> Command.data]
    <3>1. s \in Seals /\ s.data = Command.data
      BY <2>1, Sizes, LastRun DEF Seal, Goto, LocalsAgree, Seals
    <3> HIDE DEF s
    <3>2. experiment'.seals = {s}
      BY <3>1, SealedIsUnopened, Walked, DriverIsActor DEF States, s
    <3> QED BY <2>1, <3>1, <3>2, CommandStays DEF CommandStep
  <2>2. CASE NoChampion
    <3>1. experiment'.seals = experiment.seals /\ pc \in {"search"}
      BY <2>2, Walked, DriverIsActor DEF NoChampion, Goto, ExperimentsAreUnopened, RunTypeOK, States
    <3> QED BY <2>2, <3>1, CommandStays DEF CommandStep, WithSeals, WithManifest
  <2>3. CASE Validate
    <3>1. experiment'.seals = experiment.seals /\ pc \in {"oos"}
      BY <2>3, Walked, DriverIsActor DEF Validate, Goto, ExperimentsAreUnopened, RunTypeOK, States, FinalState
    <3> QED BY <2>3, <3>1, CommandStays DEF CommandStep, WithSeals, WithManifest
  <2>4. CASE ShellStarts \/ Stop
    BY <2>4 DEF ShellStarts, Start, Stop, ManifestImmutabilityError, Raise, Kill, LeaveFiles, WithSeals, WithManifest
  <2>5. CASE CheckerStep \/ UNCHANGED runVars
    BY <2>5, CheckerWrites, CommandStays DEF commandVars, runVars
  <2>6. CASE CommandStep /\ ~(Seal \/ NoChampion \/ Validate \/ Stop)
    <3>1. experiment' = experiment /\ (pc' \in WithSeals => pc \in WithSeals)
      BY <2>6 DEF CommandStep, Stop, Load, WriteManifest, WritePlan, Characterize, Champion,
         WriteBundleFile, SaveExperiment, TruncateReport, WriteReport, WriteModelCard,
         WriteRepro, Return, Goto, WithSeals, WithManifest
    <3> QED BY <2>6, <3>1, CommandStays
  <2> QED BY <2>1, <2>2, <2>3, <2>4, <2>5, <2>6 DEF DirectoryNext, Stop
<1>3. checker'.at # "idle" =>
        checker'.of # 0 /\ files'["manifest"] # 0 /\ runs'[checker'.of].data = ManifestData'
  <2>1. CASE ReadStatus
    <3>1. /\ checker'.of = files["parity_status"] /\ files["parity_status"] # 0
          /\ files["manifest"] # 0 /\ runs[files["parity_status"]].data = ManifestData
      BY <2>1, NamedFiles DEF ReadStatus, DirectoryHasOneDataset
    <3> QED BY <2>1, <3>1, ManifestStays, RunsStay DEF CheckerStep, DirectoryNext
  <2>2. CASE ~ReadStatus
    <3>1. SUFFICES ASSUME checker'.at # "idle"
                   PROVE  /\ checker.at # "idle" /\ checker'.of = checker.of
                          /\ runs'[checker.of] = runs[checker.of]
      BY <3>1, ManifestStays
    <3>2. checker.of <= Len(runs) /\ checker \in Checkers /\ Len(runs) \in Nat
      BY Sizes DEF LocalsAgree
    <3>3. CASE CheckerStep
      <4>1. Compare \/ WriteParityReport
        BY <2>2, <3>1, <3>3 DEF CheckerStep, WriteParityStatus, KillChecker, IdleChecker
      <4>2. checker.at # "idle" /\ checker'.of = checker.of
        BY <3>2, <4>1 DEF Compare, WriteParityReport, Checkers
      <4> QED BY <3>3, <4>2, RunsStay
    <3>4. CASE CommandStep \/ Kill \/ UNCHANGED runVars
      BY <3>1, <3>4, CheckerStays, RunsStay
    <3>5. CASE ShellStarts
      <4> PICK c \in Commands : Start(c.kind, c.data)
        BY <3>5 DEF ShellStarts
      <4>1. checker' = checker
        BY DEF Start, checkerVars
      <4>2. checker.of \in 1 .. Len(runs)
        BY <3>1, <3>2, <4>1 DEF Checkers
      <4> QED BY <3>1, <4>1, <4>2, Started
    <3> QED BY <3>3, <3>4, <3>5 DEF DirectoryNext
  <2> QED BY <2>1, <2>2
<1> QED BY <1>1, <1>2, <1>3

LEMMA DatasetStep ==
  ASSUME IInv, DirectoryNext \/ UNCHANGED runVars
  PROVE  DirectoryHasOneDataset'
<1> USE DEF IInv
<1>1. /\ files \in [Files -> 0 .. MaxRuns] /\ Len(runs) \in Nat
      /\ \A f \in Files : files[f] \in 0 .. Len(runs)
  BY Sizes
<1>2. CASE ShellStarts
  <2> PICK c \in Commands : Start(c.kind, c.data)
    BY <1>2 DEF ShellStarts
  <2>1. files' = files /\ torn' = torn /\ saved' = saved
    BY DEF Start, diskVars
  <2>2. \A f \in Files :
          /\ files[f] # 0 => runs'[files[f]] = runs[files[f]]
          /\ torn[f] # 0 => runs'[torn[f]] = runs[torn[f]]
    BY <1>1, Started, TornSizes
  <2>3. files["manifest"] # 0 => ManifestData' = ManifestData
    BY <1>2, ManifestStays DEF DirectoryNext
  <2> QED BY <2>1, <2>2, <2>3, NamedFiles DEF DirectoryHasOneDataset
<1>3. CASE WriteManifest /\ files["manifest"] = 0
  <2>1. files' = [files EXCEPT !["manifest"] = Len(runs)] /\ saved' = saved
    BY <1>3 DEF WriteManifest, Write, SameManifest
  <2>2. \A f \in Files \ {"manifest"} : files[f] = 0
    BY <1>3 DEF DirectoryHasOneDataset
  <2>4. torn' = [torn EXCEPT !["manifest"] = 0] /\ torn \in [Files -> 0 .. MaxRuns]
    BY <1>3 DEF WriteManifest, Write, SameManifest, RunTypeOK
  <2>5. \A f \in Files \ {"manifest"} : torn[f] = 0
    BY <1>3 DEF DirectoryHasOneDataset
  <2>3. \A f \in Files \ {"manifest"} : files'[f] = 0 /\ torn'[f] = 0
    BY <1>1, <2>1, <2>2, <2>4, <2>5
  <2> QED BY <2>3, NamedFiles DEF DirectoryHasOneDataset
<1>4. CASE /\ ~ShellStarts
           /\ ~(WriteManifest /\ files["manifest"] = 0)
  <2>1. runs' = runs /\ Command' = Command
    BY <1>4, CommandStays DEF DirectoryNext
  <2>2. pc \in WithManifest => files["manifest"] # 0 /\ runs[Len(runs)].data = ManifestData
    <3>1. pc \in WithManifest => Command = runs[Len(runs)]
      BY <1>1, LastRun DEF RunTypeOK, LocalsAgree, WithManifest
    <3> QED BY <3>1 DEF UnderManifest
  <2>3. files["manifest"] # 0 => files'["manifest"] # 0 /\ ManifestData' = ManifestData
    BY ManifestStays
  <2>4. ASSUME NEW f \in Files \ {"manifest"}, files'[f] # 0
        PROVE  files["manifest"] # 0 /\ runs[files'[f]].data = ManifestData
    <3>1. CASE files'[f] = files[f]
      BY <2>4, <3>1 DEF DirectoryHasOneDataset
    <3>2. CASE files'[f] # files[f]
      <4>1. CASE CheckerStep
        BY <3>2, <4>1, CheckerWrites DEF UnderManifest
      <4>2. CASE CommandStep \/ Kill \/ UNCHANGED runVars
        BY <2>2, <3>2, <4>2, CommandWrites
      <4> QED BY <1>4, <4>1, <4>2 DEF DirectoryNext
    <3> QED BY <3>1, <3>2
  <2>6. ASSUME NEW f \in Files \ {"manifest"}, torn'[f] # 0
        PROVE  files["manifest"] # 0 /\ runs[torn'[f]].data = ManifestData
    <3>1. torn'[f] \in {torn[f], 0} \/ LeftByCommand(f) \/ LeftByChecker(f)
      BY TornChanges DEF TornTurns
    <3>2. CASE torn'[f] = torn[f]
      BY <2>6, <3>2 DEF DirectoryHasOneDataset
    <3>3. CASE LeftByCommand(f)
      BY <2>2, <3>3 DEF LeftByCommand
    <3>4. CASE LeftByChecker(f)
      BY <3>4 DEF LeftByChecker, UnderManifest
    <3> QED BY <2>6, <3>1, <3>2, <3>3, <3>4
  <2>5. ASSUME files'["experiment"] # 0, NEW s \in saved'.seals
        PROVE  s.data = ManifestData /\ files["manifest"] # 0
    <3>1. CASE SaveExperiment
      <4>1. pc \in WithSeals /\ pc \in WithManifest /\ saved' = experiment
        BY <3>1 DEF SaveExperiment, Goto, WithSeals, WithManifest
      <4> QED BY <2>5, <4>1 DEF UnderManifest
    <3>2. CASE ~SaveExperiment
      <4>1. saved' = saved
        BY <1>4, <3>2, CheckerWrites DEF DirectoryNext, CommandStep, Load, WriteManifest,
           ManifestImmutabilityError, WritePlan, Seal, Characterize, NoChampion, Champion, Validate,
           WriteBundleFile, TruncateReport, WriteReport, WriteModelCard, WriteRepro, Raise,
           LeaveFiles, Return, Kill, diskVars, runVars
      <4>2. files'["experiment"] = files["experiment"]
        <5>1. CASE CheckerStep
          BY <5>1, CheckerWrites, NamedFiles
        <5>2. CASE CommandStep
          BY <3>2, <5>2, WritesOnly
        <5>3. CASE Kill \/ UNCHANGED runVars
          BY <5>3 DEF Kill, LeaveFiles, diskVars, runVars
        <5> QED BY <1>4, <5>1, <5>2, <5>3 DEF DirectoryNext
      <4> QED BY <2>5, <4>1, <4>2, NamedFiles DEF DirectoryHasOneDataset
    <3> QED BY <3>1, <3>2
  <2> QED BY <2>1, <2>3, <2>4, <2>5, <2>6 DEF DirectoryHasOneDataset
<1> QED BY <1>2, <1>3, <1>4

-----------------------------------------------------------------------------
(* The experiment and its verdict.                                         *)

LEMMA UnopenedStep ==
  ASSUME IInv, DirectoryNext \/ UNCHANGED runVars
  PROVE  ExperimentsAreUnopened'
<1> USE DEF IInv, ExperimentsAreUnopened
<1>1. CASE Seal
  <2> PICK plan \in Plans :
        experiment' = Transitioned(Sealed(Created, [plan |-> plan, data |-> Command.data]),
                                   "SEARCH_ACTIVE", Driver)
    BY <1>1 DEF Seal
  <2> DEFINE s == [plan |-> plan, data |-> Command.data]
  <2>1. s \in Seals
    BY <1>1, Sizes, LastRun DEF Seal, Goto, LocalsAgree, Seals
  <2> HIDE DEF s
  <2>2. Unopened(experiment')
    BY <2>1, SealedIsUnopened, Walked, DriverIsActor DEF States, s
  <2>3. saved' = saved
    BY <1>1 DEF Seal, diskVars
  <2> QED BY <2>2, <2>3 DEF Unopened, WasDisclosed, TailMatchesState
<1>2. CASE NoChampion \/ Validate
  <2>1. \E to \in States \ {"DISCLOSED"} : experiment' = Transitioned(experiment, to, Driver)
    BY <1>2 DEF NoChampion, Validate, FinalState, States
  <2>2. Unopened(experiment')
    BY <2>1, Walked, DriverIsActor DEF RunTypeOK
  <2>3. saved' = saved
    BY <1>2 DEF NoChampion, Validate, diskVars
  <2> QED BY <2>2, <2>3 DEF Unopened, WasDisclosed, TailMatchesState
<1>3. CASE SaveExperiment
  BY <1>3 DEF SaveExperiment, Unopened, WasDisclosed, TailMatchesState
<1>4. CASE ~(Seal \/ NoChampion \/ Validate \/ SaveExperiment)
  <2>1. experiment' = experiment /\ saved' = saved
    BY <1>4, CheckerWrites DEF DirectoryNext, ShellStarts, Start, CommandStep, Load, WriteManifest,
       ManifestImmutabilityError, WritePlan, Characterize, Champion, WriteBundleFile,
       TruncateReport, WriteReport, WriteModelCard, WriteRepro, Raise, Return, Kill, LeaveFiles,
       diskVars, commandVars, runVars
  <2> QED BY <2>1 DEF Unopened, WasDisclosed, TailMatchesState
<1> QED BY <1>1, <1>2, <1>3, <1>4

LEMMA VerdictStep ==
  ASSUME IInv, DirectoryNext \/ UNCHANGED runVars
  PROVE  StateIsOfVerdict'
<1> USE DEF IInv, StateIsOfVerdict
<1>1. CASE ShellStarts \/ Stop
  BY <1>1 DEF ShellStarts, Start, Stop, ManifestImmutabilityError, Raise, Kill, LeaveFiles
<1>2. CASE CheckerStep \/ UNCHANGED runVars
  BY <1>2, CheckerWrites, CommandStays DEF commandVars, diskVars, runVars
<1>3. CASE Load \/ WriteManifest \/ WritePlan \/ Characterize \/ Champion
  BY <1>3 DEF Load, WriteManifest, WritePlan, Characterize, Champion, Goto
<1>4. CASE Seal
  BY <1>4, CommandStays DEF Seal, Goto, CommandStep
<1>5. CASE NoChampion
  <2>1. experiment'.state = "CLOSED_NO_EDGE"
    BY <1>5, Walked, DriverIsActor DEF NoChampion, ExperimentsAreUnopened, RunTypeOK, States
  <2> QED BY <1>5, <2>1 DEF NoChampion, Goto, FinalState, Verdicts
<1>6. CASE Validate
  <2>1. /\ verdict' \in Verdicts
        /\ experiment' = Transitioned(experiment, FinalState(verdict'), Driver)
    BY <1>6 DEF Validate
  <2>2. experiment'.state = FinalState(verdict')
    BY <2>1, Walked, DriverIsActor DEF ExperimentsAreUnopened, RunTypeOK, States, FinalState
  <2> QED BY <1>6, <2>1, <2>2 DEF Validate, Goto
<1>7. CASE WriteBundleFile
  BY <1>7, CommandStays DEF WriteBundleFile, Goto, CommandStep, LocalsAgree, FinalState
<1>8. CASE SaveExperiment
  BY <1>8, CommandStays DEF SaveExperiment, Goto, CommandStep, FinalState
<1>9. CASE TruncateReport
  BY <1>9 DEF TruncateReport, Goto, FinalState
<1>10. CASE WriteReport
  BY <1>10 DEF WriteReport, Goto
<1>11. CASE WriteModelCard \/ WriteRepro
  BY <1>11 DEF WriteModelCard, WriteRepro, Return
<1> QED BY <1>1, <1>2, <1>3, <1>4, <1>5, <1>6, <1>7, <1>8, <1>9, <1>10, <1>11
    DEF DirectoryNext, CommandStep, Stop

-----------------------------------------------------------------------------
(* Which files are whose.                                                  *)

LEMMA OwnStep ==
  ASSUME IInv, DirectoryNext \/ UNCHANGED runVars
  PROVE  FilesAreOwn'
<1> USE DEF IInv, FilesAreOwn
<1>1. /\ files \in [Files -> 0 .. MaxRuns] /\ Len(runs) \in Nat
      /\ \A f \in Files : files[f] \in 0 .. Len(runs)
      /\ checker.of \in Nat /\ checker.of <= Len(runs)
  BY Sizes DEF LocalsAgree, Checkers
<1>2. CASE ShellStarts
  <2> PICK c \in Commands : Start(c.kind, c.data)
    BY <1>2 DEF ShellStarts
  <2>1. files' = files /\ pc' = "load" /\ checker' = checker
    BY DEF Start, diskVars, checkerVars
  <2>2. Len(runs') = Len(runs) + 1
    BY Started
  <2>3. files["report"] \in 0 .. Len(runs) /\ files["experiment"] \in 0 .. Len(runs)
    BY <1>1, NamedFiles
  <2>4. files'["report"] < Len(runs') /\ files'["experiment"] < Len(runs')
    <3>1. Len(runs) \in Nat
      BY <1>1
    <3> HIDE DEF IInv, FilesAreOwn
    <3> QED BY <2>1, <2>2, <2>3, <3>1
  <2>5. checker'.of <= files'["trades"]
    BY <2>1
  <2> QED BY <2>1, <2>4, <2>5 DEF WithManifest
<1>3. CASE CheckerStep
  <2>1. UNCHANGED << runs, pc, written, verdict >> /\ Command' = Command
    BY <1>3, CheckerWrites, CommandStays DEF commandVars
  <2>2. /\ \A f \in {"report", "split_plan", "experiment", "trades"} : files'[f] = files[f]
        /\ \A i \in 1 .. 7 : files'[Bundle[i]] = files[Bundle[i]]
    BY <1>3, CheckerWrites, NamedFiles, BundleNames
  <2>3. checker'.of <= files["trades"]
    <3>1. CASE ReadStatus
      <4>1. Bundle[7] = "trades" /\ Bundle[8] = "parity_status" /\ DOMAIN Bundle = 1 .. 8
        BY BundleNames
      <4>2. files["trades"] >= files["parity_status"]
        BY <4>1 DEF ReportsRestOnArtifacts
      <4> QED BY <1>1, <3>1, <4>2, NamedFiles DEF ReadStatus
    <3>2. CASE Compare \/ WriteParityReport
      BY <3>2 DEF Compare, WriteParityReport, LocalsAgree, Checkers
    <3>3. CASE WriteParityStatus \/ KillChecker
      BY <1>1, <3>3, NamedFiles DEF WriteParityStatus, KillChecker, IdleChecker
    <3> QED BY <1>3, <3>1, <3>2, <3>3 DEF CheckerStep
  <2>4. written < 8 \/ pc # "bundle"
    BY BundleNames DEF LocalsAgree
  <2>5. written \in Nat
    BY DEF RunTypeOK
  <2>6. pc = "bundle" => \A i \in 1 .. written : i \in 1 .. 7
    BY <2>4, <2>5
  <2> QED BY <2>1, <2>2, <2>3, <2>6
<1>4. CASE CommandStep \/ Kill \/ UNCHANGED runVars
  <2>1. runs' = runs /\ Command' = Command /\ checker' = checker
    BY <1>4, CommandStays, CheckerStays
  <2>2. checker'.of <= files'["trades"]
    <3>1. files'["trades"] \in {files["trades"], Len(runs)}
      BY <1>4, CommandWrites, NamedFiles
    <3> QED BY <1>1, <2>1, <3>1
  <2> DEFINE OwnOfPc ==
        /\ pc \notin {"idle", "card"} => files["report"] < Len(runs)
        /\ pc \in {"load", "manifest", "plan"} => files["experiment"] < Len(runs)
        /\ pc \in WithManifest \ {"plan"} => files["split_plan"] = Len(runs)
        /\ pc \in {"truncate", "report", "card", "repro"} => files["experiment"] = Len(runs)
        /\ pc = "card" => files["report"] = Len(runs)
        /\ pc = "bundle" => \A i \in 1 .. written : files[Bundle[i]] = Len(runs)
        /\ (pc \in {"save", "truncate", "report", "card"} /\ Command.kind = "run"
             /\ verdict \in Decided) => \A i \in 1 .. 7 : files[Bundle[i]] = Len(runs)
  <2>3. OwnOfPc'
    <3> USE <2>1
    <3>1. CASE Stop \/ WriteModelCard \/ WriteRepro
      BY <3>1 DEF Stop, ManifestImmutabilityError, Raise, Kill, LeaveFiles, WriteModelCard, WriteRepro, Return,
         WithManifest
    <3>2. CASE UNCHANGED runVars
      BY <3>2 DEF runVars, commandVars, diskVars
    <3>3. CASE Load \/ WriteManifest
      <4>1. files'["report"] = files["report"] /\ files'["experiment"] = files["experiment"]
        BY <3>3, WritesOnly DEF CommandStep, WriteReport, SaveExperiment, Goto, Load, WriteManifest
      <4> QED BY <3>3, <4>1 DEF Load, WriteManifest, Goto, WithManifest
    <3>4. CASE WritePlan
      <4>1. files'["report"] = files["report"] /\ files'["split_plan"] = Len(runs)
        BY <3>4, Written, NamedFiles DEF WritePlan
      <4> QED BY <3>4, <4>1 DEF WritePlan, Goto, WithManifest
    <3>5. CASE Seal \/ Characterize \/ NoChampion \/ Champion \/ Validate
      <4>1. /\ files' = files /\ pc \in {"seal", "costs", "search", "oos"}
            /\ pc' \in {"costs", "save", "search", "oos", "bundle"}
            /\ pc' = "bundle" => written' = 0
            /\ pc' = "save" => verdict' \notin Decided \/ Command.kind # "run"
        BY <3>5 DEF Seal, Characterize, NoChampion, Champion, Validate, Goto, diskVars, Decided,
           LocalsAgree
      <4> QED BY <4>1 DEF WithManifest
    <3>6. CASE WriteBundleFile
      <4>1. /\ pc = "bundle" /\ pc' \in {"bundle", "save"} /\ written' = written + 1
            /\ written \in 0 .. 7 /\ verdict' = verdict
            /\ pc' = "save" <=> written = 7
        BY <3>6, BundleWritten, BundleNames DEF WriteBundleFile, Goto
      <4>2. files'["report"] = files["report"] /\ files'["split_plan"] = files["split_plan"]
        BY <3>6, <4>1, WritesOnly DEF CommandStep, WriteReport, WritePlan, Goto
      <4>3. Write(Bundle[written + 1])
        BY <3>6 DEF WriteBundleFile
      <4>4. /\ files'[Bundle[written + 1]] = Len(runs)
            /\ \A i \in 1 .. written : files'[Bundle[i]] = files[Bundle[i]]
        <5>1. written + 1 \in 1 .. 8 /\ \A i \in 1 .. written : i \in 1 .. 8 /\ i # written + 1
          BY <4>1
        <5>2. /\ Bundle[written + 1] \in Files
              /\ \A i \in 1 .. written : Bundle[i] \in Files \ {Bundle[written + 1]}
          BY <5>1, BundleNames
        <5> QED BY <4>3, <5>2, Written
      <4>5. \A i \in 1 .. written + 1 : files'[Bundle[i]] = Len(runs)
        BY <4>1, <4>4
      <4> QED BY <4>1, <4>2, <4>5 DEF WithManifest
    <3>7. CASE SaveExperiment
      <4>1. /\ files'["report"] = files["report"] /\ files'["split_plan"] = files["split_plan"]
            /\ files'["experiment"] = Len(runs)
            /\ \A i \in 1 .. 7 : files'[Bundle[i]] = files[Bundle[i]]
        <5>1. \A g \in Files \ {"experiment"} : files'[g] = files[g]
          BY <3>7, Written, NamedFiles DEF SaveExperiment
        <5>2. files'["experiment"] = Len(runs)
          BY <3>7, Written, NamedFiles DEF SaveExperiment
        <5>3. \A i \in 1 .. 7 : Bundle[i] \in Files \ {"experiment"}
          BY BundleNames
        <5> QED BY <5>1, <5>2, <5>3, NamedFiles
      <4> QED BY <3>7, <4>1 DEF SaveExperiment, Goto, WithManifest
    <3>8. CASE TruncateReport
      BY <3>8 DEF TruncateReport, Goto, WithManifest
    <3>9. CASE WriteReport
      <4>1. /\ files'["report"] = Len(runs) /\ files'["split_plan"] = files["split_plan"]
            /\ files'["experiment"] = files["experiment"]
            /\ \A i \in 1 .. 7 : files'[Bundle[i]] = files[Bundle[i]]
        <5>1. \A g \in Files \ {"report"} : files'[g] = files[g]
          BY <3>9, Written, NamedFiles DEF WriteReport
        <5>2. files'["report"] = Len(runs)
          BY <3>9, Written, NamedFiles DEF WriteReport
        <5>3. \A i \in 1 .. 7 : Bundle[i] \in Files \ {"report"}
          BY BundleNames
        <5> QED BY <5>1, <5>2, <5>3, NamedFiles
      <4> QED BY <3>9, <4>1 DEF WriteReport, Goto, WithManifest
    <3> QED BY <1>4, <3>1, <3>2, <3>3, <3>4, <3>5, <3>6, <3>7, <3>8, <3>9 DEF CommandStep, Stop
  <2> QED BY <2>2, <2>3
<1> QED BY <1>2, <1>3, <1>4 DEF DirectoryNext

-----------------------------------------------------------------------------
(* Which files are whole.                                                  *)

\* File f has been torn by the command under way, at step at.
LeftAt(f, at) ==
  /\ torn'[f] = Len(runs)
  /\ pc = at
  /\ pc' = IF at = "truncate" THEN "report" ELSE "idle"
  /\ UNCHANGED << runs, files, saved, reported >>

\* The files that reports rest on are torn at one step each.
LEMMA LeftTorn ==
  ASSUME IInv, DirectoryNext \/ UNCHANGED runVars
  PROVE  /\ torn'["split_plan"] \in {torn["split_plan"], 0} \/ LeftAt("split_plan", "plan")
         /\ torn'["report"] \in {torn["report"], 0} \/ LeftAt("report", "truncate")
         /\ \A i \in 1 .. 7 :
              torn'[Bundle[i]] \in {torn[Bundle[i]], 0} \/ LeftAt(Bundle[i], "bundle")
<1>1. RunTypeOK /\ LocalsAgree
  BY DEF IInv
<1>2. ASSUME NEW f \in Files
      PROVE  torn'[f] \in {torn[f], 0} \/ LeftByCommand(f) \/ LeftByChecker(f)
  BY <1>1, TornChanges DEF TornTurns
<1>3. Stop => pc' = "idle" /\ UNCHANGED << runs, files, saved, reported >>
  BY DEF Stop, ManifestImmutabilityError, Raise, Kill, LeaveFiles, diskVars
<1>4. CASE \A f \in Files : ~LeftByCommand(f)
  BY <1>2, <1>4, NamedFiles, BundleNames DEF LeftByChecker
<1>5. ASSUME NEW f \in InHand, Stop, f = "split_plan", LeftByCommand(f)
      PROVE  LeftAt("split_plan", "plan")
  BY <1>1, <1>3, <1>5, FileInHand, BundleNames DEF LeftAt, LeftByCommand
<1>6. ASSUME LeftByCommand("split_plan") PROVE LeftAt("split_plan", "plan")
  BY <1>5, <1>6 DEF LeftByCommand
<1>7. ASSUME LeftByCommand("report") PROVE LeftAt("report", "truncate")
  <2>1. "report" \notin InHand
    BY <1>1, FileInHand, BundleNames
  <2> QED BY <1>7, <2>1 DEF LeftByCommand, LeftAt, TruncateReport, Goto
<1>8. ASSUME NEW i \in 1 .. 7, LeftByCommand(Bundle[i]) PROVE LeftAt(Bundle[i], "bundle")
  <2>1. Bundle[i] \notin {"split_plan", "model_card", "repro", "report"}
    BY BundleNames
  <2>2. Bundle[i] \in InHand /\ Stop /\ torn'[Bundle[i]] = Len(runs)
    BY <1>8, <2>1 DEF LeftByCommand
  <2>3. pc = "bundle"
    BY <1>1, <2>1, <2>2, FileInHand
  <2> QED BY <1>3, <2>2, <2>3 DEF LeftAt
<1> QED
  <2>1. \A i \in 1 .. 7 : Bundle[i] \in Files /\ Bundle[i] \notin {"parity_report", "parity_status"}
    BY BundleNames
  <2> QED BY <1>2, <1>6, <1>7, <1>8, <2>1, NamedFiles DEF LeftByChecker

\* A written file is whole.
LEMMA WrittenWhole ==
  ASSUME IInv, NEW f \in Files, Write(f)
  PROVE  torn'[f] = 0
BY DEF IInv, RunTypeOK, Write

LEMMA WholeStep ==
  ASSUME IInv, DirectoryNext \/ UNCHANGED runVars
  PROVE  OwnAreWhole'
<1> USE DEF OwnAreWhole
<1>1. \A f \in Files : torn'[f] <= Len(runs)
  <2>1. ASSUME NEW f \in Files PROVE torn'[f] <= Len(runs)
    <3>1. torn'[f] \in {torn[f], 0, Len(runs), checker.of}
      BY TornChanges DEF TornTurns, LeftByCommand, LeftByChecker, IInv
    <3>2. torn[f] \in 0 .. Len(runs) /\ Len(runs) \in Nat /\ checker.of <= Len(runs)
      BY Sizes, TornSizes DEF IInv, LocalsAgree
    <3> QED BY <3>1, <3>2
  <2> QED BY <2>1
<1>2. CASE ShellStarts
  <2> PICK c \in Commands : Start(c.kind, c.data)
    BY <1>2 DEF ShellStarts
  <2>1. pc' = "load" /\ Len(runs') = Len(runs) + 1
    BY Started DEF Start
  <2>2. \A f \in Files : torn'[f] <= Len(runs')
    <3>1. Len(runs) \in Nat /\ torn' = torn /\ \A f \in Files : torn[f] \in 0 .. Len(runs)
      BY Sizes, TornSizes DEF Start, diskVars
    <3> QED BY <2>1, <3>1
  <2> QED BY <2>1, <2>2 DEF WithManifest
<1>3. CASE CommandStep \/ Kill \/ CheckerStep \/ UNCHANGED runVars
  <2>1. runs' = runs /\ Command' = Command
    BY <1>3, CommandStays
  <2> DEFINE WholeOfPc ==
        /\ pc \in WithManifest \ {"plan"} => torn["split_plan"] = 0
        /\ pc = "card" => torn["report"] = 0
        /\ pc = "bundle" => \A i \in 1 .. written : torn[Bundle[i]] = 0
        /\ (pc \in {"save", "truncate", "report"} /\ Command.kind = "run"
             /\ verdict \in Decided) => \A i \in 1 .. 7 : torn[Bundle[i]] = 0
  <2>2. WholeOfPc
    BY DEF IInv
  <2>3. WholeOfPc'
    <3>1. pc' \in WithManifest \ {"plan"} => torn'["split_plan"] = 0
      <4>1. CASE WritePlan
        BY <4>1, WrittenWhole, NamedFiles DEF WritePlan
      <4>2. CASE ~WritePlan /\ pc' \in WithManifest \ {"plan"}
        <5>1. pc \in WithManifest \ {"plan"}
          BY <1>3, <4>2, CheckerWrites DEF CommandStep, Load, WriteManifest,
             ManifestImmutabilityError, Seal, Characterize, NoChampion, Champion, Validate,
             WriteBundleFile, SaveExperiment, TruncateReport, WriteReport, WriteModelCard,
             WriteRepro, Raise, Return, Kill, Goto, WithManifest, commandVars, runVars
        <5> QED BY <2>2, <5>1, LeftTorn DEF LeftAt
      <4> QED BY <4>1, <4>2
    <3>2. pc' = "card" => torn'["report"] = 0
      <4>1. CASE WriteReport
        BY <4>1, WrittenWhole, NamedFiles DEF WriteReport
      <4>2. CASE ~WriteReport /\ pc' = "card"
        <5>1. pc = "card"
          BY <1>3, <4>2, CheckerWrites DEF CommandStep, Load, WriteManifest,
             ManifestImmutabilityError, WritePlan, Seal, Characterize, NoChampion, Champion, Validate,
             WriteBundleFile, SaveExperiment, TruncateReport, WriteModelCard,
             WriteRepro, Raise, Return, Kill, Goto, commandVars, runVars
        <5> QED BY <2>2, <4>2, <5>1, LeftTorn DEF LeftAt
      <4> QED BY <4>1, <4>2
    <3>3. CASE WriteBundleFile
      <4>1. /\ pc = "bundle" /\ pc' \in {"bundle", "save"} /\ written' = written + 1
            /\ written \in 0 .. 7 /\ verdict' = verdict
            /\ pc' = "save" <=> written = 7
        BY <3>3, BundleWritten, BundleNames DEF WriteBundleFile, Goto, IInv
      <4>2. \A i \in 1 .. 7 : torn'[Bundle[i]] \in {torn[Bundle[i]], 0}
        BY <4>1, LeftTorn DEF LeftAt
      <4>3. torn'[Bundle[written + 1]] = 0
        BY <3>3, BundleWritten, WrittenWhole DEF WriteBundleFile, IInv
      <4>4. \A i \in 1 .. written : torn'[Bundle[i]] = 0
        <5>1. \A i \in 1 .. written : i \in 1 .. 7 /\ torn[Bundle[i]] = 0
          BY <2>2, <4>1
        <5> QED BY <4>2, <5>1
      <4>5. \A i \in 1 .. written + 1 : torn'[Bundle[i]] = 0
        BY <4>1, <4>3, <4>4
      <4> QED BY <3>1, <3>2, <4>1, <4>4, <4>5
    <3>4. CASE ~WriteBundleFile
      <4>1. pc' = "bundle" => \A i \in 1 .. written' : torn'[Bundle[i]] = 0
        <5> SUFFICES ASSUME pc' = "bundle", NEW i \in 1 .. written' PROVE torn'[Bundle[i]] = 0
          OBVIOUS
        <5>1. CASE Validate
          <6>1. written' = 0
            BY <5>1 DEF Validate, Goto, IInv, LocalsAgree
          <6> QED BY <6>1
        <5>2. CASE ~Validate
          <6>1. pc = "bundle" /\ written' = written
            BY <1>3, <3>4, <5>2, CheckerWrites DEF CommandStep, Load, WriteManifest,
               ManifestImmutabilityError, WritePlan, Seal, Characterize, NoChampion, Champion,
               SaveExperiment, TruncateReport, WriteReport, WriteModelCard,
               WriteRepro, Raise, Return, Kill, Goto, commandVars, runVars
          <6>2. written \in 0 .. Len(Bundle) /\ written < Len(Bundle) /\ Len(Bundle) = 8
            BY <6>1, BundleNames DEF IInv, RunTypeOK, LocalsAgree
          <6>3. i \in 1 .. written /\ i \in 1 .. 7
            BY <6>1, <6>2
          <6> QED BY <2>2, <6>1, <6>3, LeftTorn DEF LeftAt
        <5> QED BY <5>1, <5>2
      <4>2. (pc' \in {"save", "truncate", "report"} /\ Command'.kind = "run"
             /\ verdict' \in Decided) => \A i \in 1 .. 7 : torn'[Bundle[i]] = 0
        <5> SUFFICES ASSUME pc' \in {"save", "truncate", "report"}, Command.kind = "run",
                            verdict' \in Decided, NEW i \in 1 .. 7
                     PROVE  torn'[Bundle[i]] = 0
          BY <2>1
        <5>1. pc \in {"save", "truncate", "report"} /\ verdict' = verdict
          BY <1>3, <3>4, CheckerWrites DEF CommandStep, Load, WriteManifest,
             ManifestImmutabilityError, WritePlan, Seal, Characterize, NoChampion, Champion, Validate,
             SaveExperiment, TruncateReport, WriteReport, WriteModelCard, Decided,
             WriteRepro, Raise, Return, Kill, Goto, commandVars, runVars
        <5> QED BY <2>2, <5>1, LeftTorn DEF LeftAt
      <4> QED BY <3>1, <3>2, <4>1, <4>2
    <3> QED BY <3>3, <3>4
  <2> QED BY <1>1, <2>1, <2>3
<1> QED BY <1>2, <1>3 DEF DirectoryNext

-----------------------------------------------------------------------------
(* Reports and parity.                                                     *)

\* The bundle is written in its order, so it stays ordered by age.
LEMMA BundleStep ==
  ASSUME IInv, DirectoryNext \/ UNCHANGED runVars,
         NEW i \in 1 .. 8, NEW j \in 1 .. 8, i < j
  PROVE  files'[Bundle[i]] >= files'[Bundle[j]]
<1> USE DEF IInv
<1>1. /\ files[Bundle[i]] \in 0 .. Len(runs) /\ files[Bundle[j]] \in 0 .. Len(runs)
      /\ files[Bundle[i]] >= files[Bundle[j]]
      /\ Len(runs) \in Nat
  BY Sizes, BundleNames DEF ReportsRestOnArtifacts
<1>2. CASE files'[Bundle[i]] = files[Bundle[i]] /\ files'[Bundle[j]] = files[Bundle[j]]
  BY <1>1, <1>2
<1>3. CASE ShellStarts \/ Kill \/ UNCHANGED runVars
  <2>1. files' = files
    BY <1>3 DEF ShellStarts, Start, Kill, LeaveFiles, diskVars, runVars
  <2> QED BY <1>2, <2>1
<1>4. CASE CheckerStep
  <2>1. i \in 1 .. 7
    OBVIOUS
  <2>2. files'[Bundle[i]] = files[Bundle[i]]
    BY <1>4, <2>1, CheckerWrites, BundleNames
  <2>3. files'[Bundle[j]] \in {files[Bundle[j]], checker.of}
    BY <1>4, CheckerWrites, BundleNames
  <2>4. checker.of <= files["trades"] /\ checker.of \in Nat
    BY DEF FilesAreOwn, LocalsAgree, Checkers
  <2>5. files["trades"] \in 0 .. Len(runs) /\ Bundle[7] = "trades"
    BY Sizes, BundleNames, NamedFiles
  <2>6. files[Bundle[i]] >= files["trades"]
    <3>1. CASE i = 7
      BY <3>1, <2>5
    <3>2. CASE i < 7
      BY <3>2, <2>5, BundleNames DEF ReportsRestOnArtifacts
    <3> QED BY <2>1, <3>1, <3>2
  <2> QED BY <1>1, <2>2, <2>3, <2>4, <2>5, <2>6
<1>5. CASE WriteBundleFile
  <2>1. pc = "bundle" /\ written \in 0 .. 7
    BY <1>5, BundleWritten
  <2>2. i \in 1 .. written => files[Bundle[i]] = Len(runs)
    BY <2>1 DEF FilesAreOwn
  <2>3. \A k \in 1 .. 8 : k # written + 1 => files'[Bundle[k]] = files[Bundle[k]]
    BY <1>5, WritesOnly DEF CommandStep
  <2>4. files'[Bundle[written + 1]] = Len(runs)
    <3>1. Bundle[written + 1] \in Files
      BY <2>1, BundleNames
    <3> QED BY <1>5, <3>1, Written DEF WriteBundleFile
  <2>5. CASE i = written + 1
    <3>1. files'[Bundle[i]] = Len(runs)
      BY <2>4, <2>5
    <3>2. files'[Bundle[j]] = files[Bundle[j]]
      <4>1. j \in 1 .. 8 /\ j # written + 1
        BY <2>5
      <4> QED BY <4>1, <2>3
    <3> HIDE DEF IInv
    <3> QED BY <1>1, <3>1, <3>2
  <2>6. CASE j = written + 1
    <3>1. i \in 1 .. written /\ i # written + 1
      BY <2>1, <2>6
    <3>2. files'[Bundle[j]] = Len(runs)
      BY <2>4, <2>6
    <3>3. files'[Bundle[i]] = files[Bundle[i]]
      BY <2>3, <3>1
    <3>4. files[Bundle[i]] = Len(runs)
      BY <2>2, <3>1
    <3> HIDE DEF IInv
    <3> QED BY <1>1, <3>2, <3>3, <3>4
  <2> QED BY <1>2, <2>3, <2>5, <2>6
<1>6. CASE CommandStep /\ ~WriteBundleFile
  BY <1>2, <1>6, WritesOnly
<1> QED BY <1>3, <1>4, <1>5, <1>6 DEF DirectoryNext

\* What a command does to the run's locals, in one list.
LEMMA Stepping ==
  ASSUME CommandStep
  PROVE  /\ pc # "idle" /\ runs' = runs
         /\ \/ pc' # "idle" /\ outcome' = outcome
            \/ pc' = "idle" /\ outcome' = "raised"
            \/ pc' = "idle" /\ outcome' = "returned" /\ (WriteModelCard \/ WriteRepro)
         /\ verdict' = verdict \/ pc \in {"search", "oos"}
         /\ reported' = reported \/ WriteReport
         /\ pc' = "repro" => SaveExperiment /\ Command.kind # "run"
<1> USE DEF Goto, diskVars
<1>1. CASE Load \/ WriteManifest \/ ManifestImmutabilityError \/ WritePlan \/ Seal
  BY <1>1 DEF Load, WriteManifest, ManifestImmutabilityError, WritePlan, Seal
<1>2. CASE Characterize \/ NoChampion \/ Champion \/ Validate
  BY <1>2 DEF Characterize, NoChampion, Champion, Validate
<1>3. CASE WriteBundleFile \/ SaveExperiment \/ TruncateReport \/ WriteReport
  BY <1>3 DEF WriteBundleFile, SaveExperiment, TruncateReport, WriteReport
<1>4. CASE WriteModelCard \/ WriteRepro \/ Raise
  BY <1>4 DEF WriteModelCard, WriteRepro, Return, Raise, LeaveFiles
<1> QED BY <1>1, <1>2, <1>3, <1>4 DEF CommandStep

\* What a report rests on is whole, or torn by a later run.
ReportsWhole ==
  /\ TornAfter("split_plan", "experiment")
  /\ TornAfter("report", "model_card")
  /\ files["report"] # 0 /\ reported \in Decided =>
       \A i \in 1 .. 7 : TornAfter(Bundle[i], "report")

LEMMA WholeReportsStep ==
  ASSUME IInv, DirectoryNext \/ UNCHANGED runVars
  PROVE  ReportsWhole'
<1>0. /\ files["experiment"] \in 0 .. Len(runs) /\ files["model_card"] \in 0 .. Len(runs)
      /\ files["report"] \in 0 .. Len(runs) /\ files["report"] >= files["model_card"]
      /\ Len(runs) \in Nat
  BY Sizes, NamedFiles DEF IInv, ReportsRestOnArtifacts
<1>1. ReportsWhole
  <2>1. \A i \in 1 .. 7 : Bundle[i] \in ToSet(Bundle) \ {"parity_status"}
    BY BundleNames
  <2> QED BY <2>1 DEF IInv, ReportsRestOnArtifacts, ReportsWhole, Decided
<1>2. /\ files'["experiment"] = files["experiment"] \/ SaveExperiment
      /\ files'["model_card"] = files["model_card"] \/ WriteModelCard
      /\ (files'["report"] = files["report"] /\ reported' = reported) \/ WriteReport
  <2>1. CASE ShellStarts \/ Kill \/ UNCHANGED runVars
    BY <2>1 DEF ShellStarts, Start, Kill, LeaveFiles, diskVars, runVars
  <2>2. CASE CheckerStep
    BY <2>2, CheckerWrites, NamedFiles
  <2>3. CASE CommandStep
    BY <2>3, WritesOnly, Stepping
  <2> QED BY <2>1, <2>2, <2>3 DEF DirectoryNext
<1>3. TornAfter("split_plan", "experiment")'
  <2>1. CASE LeftAt("split_plan", "plan")
    BY <1>0, <2>1 DEF LeftAt, IInv, FilesAreOwn, TornAfter
  <2>2. CASE torn'["split_plan"] \in {torn["split_plan"], 0} /\ ~SaveExperiment
    BY <1>1, <1>2, <2>2 DEF ReportsWhole, TornAfter
  <2>3. CASE torn'["split_plan"] \in {torn["split_plan"], 0} /\ SaveExperiment
    BY <2>3 DEF SaveExperiment, Goto, IInv, OwnAreWhole, WithManifest, TornAfter
  <2> QED BY <2>1, <2>2, <2>3, LeftTorn
<1>4. TornAfter("report", "model_card")'
  <2>1. CASE LeftAt("report", "truncate")
    BY <1>0, <2>1 DEF LeftAt, IInv, FilesAreOwn, TornAfter
  <2>2. CASE torn'["report"] \in {torn["report"], 0} /\ ~WriteModelCard
    BY <1>1, <1>2, <2>2 DEF ReportsWhole, TornAfter
  <2>3. CASE torn'["report"] \in {torn["report"], 0} /\ WriteModelCard
    BY <2>3 DEF WriteModelCard, IInv, OwnAreWhole, TornAfter
  <2> QED BY <2>1, <2>2, <2>3, LeftTorn
<1>5. ASSUME files'["report"] # 0, reported' \in Decided, NEW i \in 1 .. 7
      PROVE  TornAfter(Bundle[i], "report")'
  <2>1. CASE LeftAt(Bundle[i], "bundle")
    BY <1>0, <2>1 DEF LeftAt, IInv, FilesAreOwn, TornAfter
  <2>2. CASE torn'[Bundle[i]] \in {torn[Bundle[i]], 0} /\ ~WriteReport
    BY <1>1, <1>2, <1>5, <2>2 DEF ReportsWhole, TornAfter
  <2>3. CASE torn'[Bundle[i]] \in {torn[Bundle[i]], 0} /\ WriteReport
    <3>1. verdict \in Decided /\ pc = "report" /\ Command.kind = "run"
      BY <1>5, <2>3 DEF WriteReport, Goto, IInv, LocalsAgree
    <3>2. torn[Bundle[i]] = 0
      BY <3>1 DEF IInv, OwnAreWhole
    <3> QED BY <2>3, <3>2 DEF TornAfter
  <2> QED BY <2>1, <2>2, <2>3, LeftTorn
<1> QED BY <1>3, <1>4, <1>5 DEF ReportsWhole

LEMMA ReportsStep ==
  ASSUME IInv, DirectoryNext \/ UNCHANGED runVars
  PROVE  ReportsRestOnArtifacts'
<1> USE DEF IInv
<1>0. /\ files["split_plan"] \in 0 .. Len(runs) /\ files["experiment"] \in 0 .. Len(runs)
      /\ files["report"] \in 0 .. Len(runs) /\ files["model_card"] \in 0 .. Len(runs)
      /\ Len(runs) \in Nat
  BY Sizes, NamedFiles
<1>1. /\ \A i, j \in DOMAIN Bundle : i < j => files'[Bundle[i]] >= files'[Bundle[j]]
      /\ ~WasDisclosed(saved') /\ TailMatchesState(saved')
  BY BundleStep, BundleNames, UnopenedStep DEF ExperimentsAreUnopened, Unopened, WasDisclosed,
     TailMatchesState
<1> DEFINE Ages ==
      /\ files["split_plan"] >= files["experiment"]
      /\ files["experiment"] >= files["report"]
      /\ files["report"] >= files["model_card"]
      /\ (files["report"] # 0 /\ files["report"] = files["experiment"]) =>
           saved.state = IF reported = "SHORTLISTED" THEN "SHORTLISTED" ELSE "CLOSED_NO_EDGE"
    Backed ==
      (files["report"] # 0 /\ reported \in Decided) =>
        \A i \in 1 .. 7 : files[Bundle[i]] >= files["report"]
<1>2. Ages /\ Backed
  <2>1. \A i \in 1 .. 7 : Bundle[i] \in ToSet(Bundle) \ {"parity_status"}
    BY BundleNames
  <2> QED BY <2>1 DEF ReportsRestOnArtifacts, Decided
<1>3. Ages' /\ Backed'
  <2>1. CASE ShellStarts \/ Stop \/ UNCHANGED runVars
    <3>1. files' = files /\ saved' = saved /\ reported' = reported
      BY <2>1 DEF ShellStarts, Start, Stop, ManifestImmutabilityError, Raise, Kill, LeaveFiles, diskVars, runVars
    <3> QED BY <1>2, <3>1
  <2>2. CASE CheckerStep
    <3>1. /\ \A f \in {"report", "split_plan", "experiment", "model_card"} : files'[f] = files[f]
          /\ \A i \in 1 .. 7 : files'[Bundle[i]] = files[Bundle[i]]
          /\ saved' = saved /\ reported' = reported
      BY <2>2, CheckerWrites, NamedFiles, BundleNames
    <3> QED BY <1>2, <3>1
  <2>3. CASE CommandStep
    <3>0. ASSUME NEW i \in 1 .. 7
          PROVE  /\ files[Bundle[i]] \in 0 .. Len(runs)
                 /\ files'[Bundle[i]] = files[Bundle[i]] \/ files'[Bundle[i]] = Len(runs)
      <4>1. Bundle[i] \in Files \ {"manifest"}
        BY BundleNames
      <4> QED BY <2>3, <4>1, CommandWrites, Sizes
    <3>00. ASSUME files'["report"] = files["report"], reported' = reported
           PROVE  Backed'
      <4> SUFFICES ASSUME files["report"] # 0, reported \in Decided, NEW i \in 1 .. 7
                   PROVE  files'[Bundle[i]] >= files["report"]
        BY <3>00
      <4>1. files[Bundle[i]] >= files["report"]
        BY <1>2
      <4>2. /\ files[Bundle[i]] \in 0 .. Len(runs)
            /\ files'[Bundle[i]] = files[Bundle[i]] \/ files'[Bundle[i]] = Len(runs)
        BY <3>0
      <4> HIDE DEF Ages, Backed
      <4> QED BY <1>0, <4>1, <4>2
    <3>1. CASE WritePlan
      <4>1. /\ files'["split_plan"] = Len(runs)
            /\ \A f \in {"report", "experiment", "model_card"} : files'[f] = files[f]
            /\ saved' = saved /\ reported' = reported
        BY <3>1, Written, NamedFiles DEF WritePlan
      <4> QED BY <1>0, <1>2, <3>00, <4>1
    <3>2. CASE SaveExperiment
      <4>1. /\ files'["experiment"] = Len(runs)
            /\ \A f \in {"report", "split_plan", "model_card"} : files'[f] = files[f]
            /\ reported' = reported
        BY <3>2, Written, NamedFiles DEF SaveExperiment
      <4>2. files["split_plan"] = Len(runs) /\ files["report"] < Len(runs)
        BY <3>2 DEF SaveExperiment, Goto, FilesAreOwn, WithManifest
      <4> QED BY <1>0, <1>2, <3>00, <4>1, <4>2
    <3>3. CASE WriteReport
      <4>1. /\ files'["report"] = Len(runs)
            /\ \A f \in {"split_plan", "experiment", "model_card"} : files'[f] = files[f]
            /\ saved' = saved /\ reported' = verdict
        BY <3>3, Written, NamedFiles DEF WriteReport
      <4>2. /\ files["split_plan"] = Len(runs) /\ files["experiment"] = Len(runs)
            /\ verdict \in Verdicts /\ saved.state = FinalState(verdict)
            /\ verdict \in Decided => \A i \in 1 .. 7 : files[Bundle[i]] = Len(runs)
        BY <3>3 DEF WriteReport, Goto, FilesAreOwn, WithManifest, StateIsOfVerdict, LocalsAgree
      <4>3. Ages'
        BY <1>0, <4>1, <4>2 DEF FinalState
      <4>4. Backed'
        <5> SUFFICES ASSUME verdict \in Decided, NEW i \in 1 .. 7
                     PROVE  files'[Bundle[i]] >= Len(runs)
          BY <4>1
        <5>1. files[Bundle[i]] = Len(runs)
          BY <4>2
        <5>2. files'[Bundle[i]] = files[Bundle[i]] \/ files'[Bundle[i]] = Len(runs)
          BY <3>0
        <5> QED BY <1>0, <5>1, <5>2
      <4> QED BY <4>3, <4>4
    <3>4. CASE WriteModelCard
      <4>1. /\ files'["model_card"] = Len(runs)
            /\ \A f \in {"split_plan", "experiment", "report"} : files'[f] = files[f]
            /\ saved' = saved /\ reported' = reported
        BY <3>4, Written, NamedFiles DEF WriteModelCard, Return
      <4>2. files["report"] = Len(runs)
        BY <3>4 DEF WriteModelCard, FilesAreOwn
      <4> QED BY <1>0, <1>2, <3>00, <4>1, <4>2
    <3>5. CASE ~(WritePlan \/ SaveExperiment \/ WriteReport \/ WriteModelCard)
      <4>1. \A f \in {"split_plan", "experiment", "report", "model_card"} : files'[f] = files[f]
        BY <2>3, <3>5, WritesOnly
      <4>2. saved' = saved /\ reported' = reported
        BY <2>3, <3>5 DEF CommandStep, Load, WriteManifest, ManifestImmutabilityError, Seal,
           Characterize, NoChampion, Champion, Validate, WriteBundleFile, TruncateReport,
           WriteRepro, Raise, LeaveFiles, Return, diskVars
      <4> QED BY <1>0, <1>2, <3>00, <4>1, <4>2
    <3> QED BY <3>1, <3>2, <3>3, <3>4, <3>5
  <2> QED BY <2>1, <2>2, <2>3 DEF DirectoryNext, Stop
<1>4. \A f \in ToSet(Bundle) \ {"parity_status"} : \E i \in 1 .. 7 : f = Bundle[i]
  <2>1. \A i \in 1 .. 8 : Bundle[i] # "parity_status" => i \in 1 .. 7
    BY BundleNames
  <2> QED BY <2>1, BundleNames
<1>5. ReportsWhole'
  BY WholeReportsStep
<1> QED BY <1>1, <1>3, <1>4, <1>5 DEF ReportsRestOnArtifacts, ReportsWhole, Decided

\* A command decides no status, and replaces the one there is by an undecided.
LEMMA CommandDecidesNothing ==
  ASSUME IInv, ShellStarts \/ CommandStep \/ Kill \/ UNCHANGED runVars
  PROVE  /\ files'["parity_report"] = files["parity_report"]
         /\ parity' \in {"PASS", "FAIL"} =>
              parity' = parity /\ files'["parity_status"] = files["parity_status"]
<1>1. CASE ShellStarts
  BY <1>1 DEF ShellStarts, Start, diskVars
<1>2. CASE CommandStep \/ Kill \/ UNCHANGED runVars
  <2>1. files'["parity_report"] = files["parity_report"]
    BY <1>2, CommandWrites
  <2>2. CASE WriteBundleFile
    <3>1. written \in 0 .. 7
      BY <2>2, BundleWritten DEF IInv
    <3>2. CASE written = 7
      BY <2>1, <2>2, <3>2, BundleNames DEF WriteBundleFile, PendingAgain
    <3>3. CASE written # 7
      <4>1. parity' = parity /\ 8 # written + 1
        BY <2>2, <3>1, <3>3, BundleNames DEF WriteBundleFile
      <4>2. files'[Bundle[8]] = files[Bundle[8]]
        BY <2>2, <4>1, WritesOnly DEF CommandStep
      <4> QED BY <2>1, <4>1, <4>2, BundleNames
    <3> QED BY <3>2, <3>3
  <2>3. CASE CommandStep /\ ~WriteBundleFile
    <3>1. files'[Bundle[8]] = files[Bundle[8]]
      BY <2>3, WritesOnly
    <3>2. parity' = parity
      BY <2>3 DEF CommandStep, Load, WriteManifest, ManifestImmutabilityError, WritePlan, Seal,
         Characterize, NoChampion, Champion, Validate, SaveExperiment, TruncateReport, WriteReport,
         WriteModelCard, WriteRepro, Raise, LeaveFiles, Return, diskVars
    <3> QED BY <2>1, <3>1, <3>2, BundleNames
  <2>4. CASE Kill \/ UNCHANGED runVars
    BY <2>4 DEF Kill, LeaveFiles, diskVars, runVars
  <2> QED BY <1>2, <2>2, <2>3, <2>4
<1> QED BY <1>1, <1>2

LEMMA EarnedStep ==
  ASSUME IInv, DirectoryNext \/ UNCHANGED runVars
  PROVE  CheckerHasEarned' /\ StatusIsEarned'
<1> USE DEF IInv, CheckerHasEarned, StatusIsEarned
<1>1. checker \in Checkers /\ files \in [Files -> 0 .. MaxRuns]
  BY Sizes DEF LocalsAgree
<1>2. CASE ShellStarts \/ CommandStep \/ Kill \/ UNCHANGED runVars
  <2>1. checker' = checker /\ compared' = compared
    BY <1>2, CheckerStays DEF ShellStarts, Start, checkerVars
  <2> QED BY <1>2, <2>1, CommandDecidesNothing
<1>3. CASE ReadStatus
  BY <1>3 DEF ReadStatus, diskVars
<1>4. CASE Compare
  <2> PICK result \in {"PASS", "FAIL"} :
        /\ checker' = [checker EXCEPT !.at = "report", !.result = result]
        /\ compared' = compared \cup { << checker.of, result >> }
    BY <1>4 DEF Compare
  <2>1. checker'.at = "report" /\ checker'.result = result /\ checker'.of = checker.of
    BY <1>1 DEF Checkers
  <2> QED BY <1>4, <2>1 DEF Compare, diskVars
<1>5. CASE WriteParityReport
  <2>1. checker'.at = "status" /\ checker'.result = checker.result /\ checker'.of = checker.of
    BY <1>1, <1>5 DEF WriteParityReport, Checkers
  <2>2. /\ files'["parity_report"] = checker.of
        /\ files'["parity_status"] = files["parity_status"]
    BY <1>1, <1>5, NamedFiles DEF WriteParityReport
  <2>3. checker.of \in Nat
    BY <1>1 DEF Checkers
  <2> QED BY <1>5, <2>1, <2>2, <2>3 DEF WriteParityReport
<1>6. CASE WriteParityStatus
  <2>1. files'["parity_status"] = checker.of /\ files'["parity_report"] = files["parity_report"]
    BY <1>1, <1>6, NamedFiles DEF WriteParityStatus
  <2>2. checker'.at = "idle" /\ checker.of \in Nat
    BY <1>1, <1>6 DEF WriteParityStatus, IdleChecker, Checkers
  <2> QED BY <1>6, <2>1, <2>2 DEF WriteParityStatus
<1>7. CASE KillChecker
  BY <1>7 DEF KillChecker, IdleChecker, diskVars
<1> QED BY <1>2, <1>3, <1>4, <1>5, <1>6, <1>7 DEF DirectoryNext, CheckerStep

LEMMA NextIInv == IInv /\ [DirectoryNext]_runVars => IInv'
<1> SUFFICES ASSUME IInv, DirectoryNext \/ UNCHANGED runVars PROVE IInv'
  OBVIOUS
<1> QED BY TypeStep, LocalsStep, ManifestStep, UnopenedStep, VerdictStep, OwnStep, WholeStep,
           EarnedStep, DatasetStep, ReportsStep DEF IInv

-----------------------------------------------------------------------------
(* The three hosts.                                                        *)

\* Every step of the command line, the dashboard or the Gradio app is a step
\* of the directory or none at all.
LEMMA HostsStep == [StudioNext]_studioVars => [DirectoryNext]_runVars
<1> SUFFICES ASSUME [StudioNext]_studioVars PROVE DirectoryNext \/ UNCHANGED runVars
  OBVIOUS
<1>1. ASSUME NEW d \in Datas, Start("run", d) PROVE ShellStarts
  <2>1. [kind |-> "run", data |-> d] \in Commands
    BY DEF Commands
  <2> QED BY <1>1, <2>1 DEF ShellStarts
<1>2. CASE ShellNext
  BY <1>2 DEF ShellNext, DirectoryNext
<1>3. CASE DashboardNext
  BY <1>1, <1>3 DEF DashboardNext, DashNext, Post, MakeRunDir, RefuseConfig, WriteRunning, StartThread,
     WorkerRuns, WriteEnd, ServerDies, Get, ListRuns, DetailNotFound, DetailStatus, DetailEvents,
     GetReport, ReplyWith, DirectoryNext
<1>4. CASE GradioNext
  BY <1>1, <1>4 DEF GradioNext, StreamNext, AskForPair, Submit, StreamWorkerRuns, PutDone, GetEvent,
     GetDone, ClosePage, DirectoryNext
<1>5. CASE UNCHANGED studioVars
  BY <1>5 DEF studioVars
<1> QED BY <1>2, <1>3, <1>4, <1>5 DEF StudioNext

-----------------------------------------------------------------------------
(* Theorems.                                                               *)

\* Whichever host runs it, a directory is one of RunDirectory's: dashboard
\* and Gradio threads do to its files what the command line does (server.py:141-181,
\* gradio_app.py:142-157, cli.py:100-118).
THEOREM StudioRunsDirectories == StudioSpec => DirectorySpec
<1>1. StudioInit => RunInit
  BY DEF StudioInit
<1> QED BY <1>1, HostsStep, PTL DEF StudioSpec, DirectorySpec

LEMMA Invariance == DirectorySpec => []IInv
BY InitIInv, NextIInv, PTL DEF DirectorySpec

\* The locals of the commands and the files keep their types.
THEOREM DirectoryTypeCorrect == StudioSpec => []RunTypeOK
<1>1. IInv => RunTypeOK
  BY DEF IInv
<1> QED BY <1>1, StudioRunsDirectories, Invariance, PTL

\* Every file of a directory rests on the data of its manifest, after any
\* number of reruns and crashes (manifest.py:131-140, orchestrator.py:122 and
\* 421).
THEOREM DirectoryAlwaysHasOneDataset == StudioSpec => []DirectoryHasOneDataset
<1>1. IInv => DirectoryHasOneDataset
  BY DEF IInv
<1> QED BY <1>1, StudioRunsDirectories, Invariance, PTL

\* A report comes with the experiment and the bundle it rests on
\* (orchestrator.py:346-424, bundle.py:42-90).
THEOREM ReportsAlwaysRest == StudioSpec => []ReportsRestOnArtifacts
<1>1. IInv => ReportsRestOnArtifacts
  BY DEF IInv
<1> QED BY <1>1, StudioRunsDirectories, Invariance, PTL

\* A decided parity status was earned by a comparison, and its report is
\* there (bundle.py:90, parity.py:232 and 248-254).
THEOREM StatusAlwaysEarned == StudioSpec => []StatusIsEarned
<1>1. IInv => StatusIsEarned
  BY DEF IInv
<1> QED BY <1>1, StudioRunsDirectories, Invariance, PTL

-----------------------------------------------------------------------------
(* The pages.  A web host runs at most one command in a directory of its   *)
(* own, so what its files hold is that run's.                              *)

StageNames == {"loading_data", "data_ready", "experiment_sealed", "characterized",
               "search_generation", "fold_done", "oos_evaluated", "validated", "finished"}

SingleRun ==
  /\ Len(runs) <= 1
  /\ runs # << >> => Command.kind = "run"
  /\ pc # "repro"
  /\ stages \in Seq(StageNames)
  /\ outcome = "running" <=> pc # "idle"
  /\ outcome = "none" <=> runs = << >>
  /\ files["report"] # 0 => reported = verdict /\ torn["report"] = 0
  /\ outcome = "returned" =>
       /\ files["report"] = 1 /\ files["model_card"] = 1 /\ torn["model_card"] = 0
       /\ stages # << >> /\ Last(stages) = "finished"

\* The thread of the dashboard, the status file, a GET under way and what the
\* latest reply has said.
DashboardAgrees ==
  /\ post \in {"none", "created", "refused", "running"} => runs = << >> /\ worker = "none"
  /\ worker = "run" => post = "started" /\ outcome \in {"running", "returned", "raised"}
  /\ worker = "done" => post = "started" /\ pc = "idle"
  /\ pc # "idle" => worker = "run"
  /\ status = "FINISHED" => worker = "done" /\ outcome = "returned"
  /\ request = NoRequest \/ request.at = "events"
  /\ request.status = "FINISHED" => status = "FINISHED"
  /\ reply.kind = "detail" /\ reply.status = "FINISHED" =>
       reply.events # << >> /\ Last(reply.events) = "finished"
  /\ reply.kind = "report" /\ reply.code = 200 =>
       files["report"] # 0 /\ reply.verdict = reported

\* The worker of the Gradio app, its queue and what the page shows.
StreamAgrees ==
  /\ ui \in {"none", "select_a_pair"} => runs = << >> /\ taken = 0
  /\ taken \in 0 .. Len(stages)
  /\ done => outcome \in {"returned", "raised"}
  /\ ui \in {"finished", "error"} => done /\ taken = Len(stages)
  /\ ui = "finished" => outcome = "returned" /\ download

PagesAgree ==
  /\ host \in {"cli", "dashboard", "gradio"}
  /\ host # "cli" => SingleRun
  /\ IF host = "dashboard" THEN DashboardAgrees ELSE DashInit
  /\ IF host = "gradio" THEN StreamAgrees ELSE StreamInit

LEMMA PagesInit == StudioInit => PagesAgree
<1> SUFFICES ASSUME StudioInit PROVE PagesAgree
  OBVIOUS
<1> USE DEF StudioInit
<1>1. SingleRun
  BY NamedFiles DEF RunInit, SingleRun
<1>2. DashboardAgrees
  BY DEF RunInit, DashInit, DashboardAgrees, NoRequest, NoReply
<1>3. StreamAgrees
  BY DEF RunInit, StreamInit, StreamAgrees
<1> QED BY <1>1, <1>2, <1>3 DEF PagesAgree

\* Events are only added.
LEMMA StagesGrow ==
  ASSUME CommandStep, stages \in Seq(StageNames)
  PROVE  /\ stages' \in Seq(StageNames) /\ Len(stages') >= Len(stages)
         /\ WriteModelCard => stages' # << >> /\ Last(stages') = "finished"
<1>1. ASSUME NEW new \in Seq(StageNames)
      PROVE  stages \o new \in Seq(StageNames) /\ Len(stages \o new) >= Len(stages)
  BY <1>1
<1>2. CASE UNCHANGED stages
  <2>1. ~WriteModelCard \/ stages' = stages \o << "finished" >>
    BY DEF WriteModelCard, Progress
  <2>2. stages' # stages \o << "finished" >>
    <3>1. Len(stages \o << "finished" >>) = Len(stages) + 1 /\ Len(stages) \in Nat
      OBVIOUS
    <3> QED BY <1>2, <3>1
  <2> QED BY <1>2, <2>1, <2>2
<1>3. CASE \E new \in {<< "data_ready" >>, << "experiment_sealed" >>, << "characterized" >>,
                       << "search_generation" >>, << "search_generation", "fold_done" >>,
                       << "oos_evaluated", "validated" >>, << "finished" >>} : Progress(new)
  <2>1. stages' \in Seq(StageNames) /\ Len(stages') >= Len(stages)
    <3>1. PICK new \in {<< "data_ready" >>, << "experiment_sealed" >>, << "characterized" >>,
                        << "search_generation" >>, << "search_generation", "fold_done" >>,
                        << "oos_evaluated", "validated" >>, << "finished" >>} : stages' = stages \o new
      BY <1>3 DEF Progress
    <3>2. \A a, b \in StageNames : << a >> \in Seq(StageNames) /\ << a, b >> \in Seq(StageNames)
      OBVIOUS
    <3>3. \E a, b \in StageNames : new = << a >> \/ new = << a, b >>
      BY DEF StageNames
    <3>4. new \in Seq(StageNames)
      BY <3>2, <3>3
    <3> QED BY <1>1, <3>1, <3>4
  <2>2. ASSUME WriteModelCard
        PROVE  stages' # << >> /\ Last(stages') = "finished"
    <3>1. stages' = stages \o << "finished" >>
      BY <2>2 DEF WriteModelCard, Progress
    <3>2. Len(stages') = Len(stages) + 1 /\ stages'[Len(stages) + 1] = "finished" /\ Len(stages) \in Nat
      BY <3>1
    <3> QED BY <3>2 DEF Last
  <2> QED BY <2>1, <2>2
<1> QED BY <1>2, <1>3 DEF CommandStep, Load, WriteManifest, ManifestImmutabilityError, WritePlan, Seal,
           Characterize, NoChampion, Champion, Validate, WriteBundleFile, SaveExperiment,
           TruncateReport, WriteReport, WriteModelCard, WriteRepro, Raise

\* A report of the command under way that is whole stays so.
LEMMA WholeReport ==
  ASSUME IInv, DirectoryNext \/ UNCHANGED runVars, files["report"] = Len(runs),
         torn["report"] = 0
  PROVE  torn'["report"] = 0
<1>1. ~LeftAt("report", "truncate")
  BY Sizes DEF LeftAt, IInv, FilesAreOwn
<1> QED BY <1>1, LeftTorn

\* A report that is on disk stays as it is, with the verdict of its run.
LEMMA SingleStep ==
  ASSUME IInv, SingleRun,
         \/ runs = << >> /\ \E d \in Datas : Start("run", d)
         \/ CommandStep \/ Kill \/ UNCHANGED runVars
  PROVE  /\ SingleRun'
         /\ files["report"] # 0 => files'["report"] = files["report"] /\ reported' = reported
<1>1. /\ Len(runs) \in {0, 1} /\ files["report"] \in 0 .. Len(runs)
      /\ files["model_card"] \in 0 .. Len(runs) /\ runs \in Seq(Commands)
  <2>1. Len(runs) <= 1
    BY DEF SingleRun
  <2>2. "report" \in Files /\ "model_card" \in Files
    BY NamedFiles
  <2>3. Len(runs) \in Nat /\ runs \in Seq(Commands) /\ \A f \in Files : files[f] \in 0 .. Len(runs)
    BY Sizes
  <2>4. Len(runs) \in {0, 1}
    <3>1. \A n \in Nat : n <= 1 => n \in {0, 1}
      OBVIOUS
    <3> QED BY <2>1, <2>3, <3>1
  <2>5. files["report"] \in 0 .. Len(runs) /\ files["model_card"] \in 0 .. Len(runs)
    BY <2>2, <2>3
  <2> QED BY <2>3, <2>4, <2>5
<1>2. CASE UNCHANGED runVars
  BY <1>2 DEF SingleRun, runVars, commandVars, diskVars, Command
<1>3. CASE Kill
  <2>1. /\ pc # "idle" /\ pc' = "idle" /\ outcome' = "killed"
        /\ UNCHANGED << runs, verdict, stages, files, reported >>
    BY <1>3 DEF Kill, LeaveFiles
  <2>2. files["report"] # 0 => torn'["report"] = 0
    BY <1>1, <1>3, <2>1, WholeReport DEF SingleRun, DirectoryNext, IInv, LocalsAgree
  <2> QED BY <2>1, <2>2 DEF SingleRun, Command
<1>4. CASE runs = << >> /\ \E d \in Datas : Start("run", d)
  <2> PICK d \in Datas : Start("run", d)
    BY <1>4
  <2>1. /\ runs' = Append(runs, [kind |-> "run", data |-> d]) /\ pc' = "load"
        /\ outcome' = "running" /\ stages' = << "loading_data" >>
        /\ UNCHANGED << files, torn, reported >>
    BY DEF Start, diskVars
  <2>2. Len(runs') = 1 /\ runs'[1].kind = "run" /\ runs' # << >> /\ Len(runs) = 0
    BY <1>4, <2>1
  <2>3. files["report"] = 0
    BY <1>1, <2>2
  <2>4. Command'.kind = "run"
    BY <2>2 DEF Command, Last
  <2>5. stages' \in Seq(StageNames) /\ files'["report"] = 0
    BY <2>1, <2>3 DEF StageNames
  <2>6. /\ Len(runs') <= 1 /\ runs' # << >> /\ pc' = "load" /\ outcome' = "running"
    BY <2>1, <2>2
  <2> HIDE DEF IInv
  <2> QED BY <2>3, <2>4, <2>5, <2>6 DEF SingleRun
<1>5. CASE CommandStep
  <2>1. /\ pc # "idle" /\ runs' = runs /\ Len(runs) = 1 /\ outcome = "running" /\ Command' = Command
        /\ Command.kind = "run" /\ pc # "repro"
    <3>1. pc # "idle" /\ runs' = runs
      BY <1>5, Stepping
    <3>2. Len(runs) > 0
      BY <3>1 DEF IInv, LocalsAgree
    <3> QED BY <1>1, <3>1, <3>2 DEF SingleRun, Command
  <2>2. stages' \in Seq(StageNames) /\ (WriteModelCard => stages' # << >> /\ Last(stages') = "finished")
    BY <1>5, StagesGrow DEF SingleRun
  <2>3. pc # "card" => files["report"] = 0
    BY <1>1, <2>1 DEF IInv, FilesAreOwn
  <2>4. pc = "card" => files["report"] = 1
    BY <2>1 DEF IInv, FilesAreOwn
  <2>5. files'["report"] = files["report"] \/ WriteReport
    BY <1>5, WritesOnly
  <2>6. pc' # "repro"
    BY <1>5, <2>1, Stepping
  <2>7. ~WriteRepro
    BY <2>1 DEF WriteRepro
  <2>8. WriteReport => pc # "card"
    BY DEF WriteReport, Goto
  <2>9. files["report"] # 0 =>
          files'["report"] = files["report"] /\ reported' = reported /\ verdict' = verdict
    <3> SUFFICES ASSUME pc = "card"
                 PROVE files'["report"] = files["report"] /\ reported' = reported /\ verdict' = verdict
      BY <2>3
    <3>1. ~WriteReport
      BY DEF WriteReport, Goto
    <3> QED BY <1>5, <2>5, <3>1, Stepping
  <2>10. files'["report"] # 0 => reported' = verdict' /\ torn'["report"] = 0
    <3>1. CASE WriteReport
      BY <3>1, WrittenWhole, NamedFiles DEF WriteReport
    <3>2. CASE ~WriteReport /\ files'["report"] # 0
      <4>1. files["report"] # 0 /\ files["report"] = Len(runs)
        BY <2>1, <2>3, <2>4, <2>5, <3>2
      <4>2. torn'["report"] = 0
        BY <1>5, <4>1, WholeReport DEF SingleRun, DirectoryNext
      <4> QED BY <2>9, <4>1, <4>2 DEF SingleRun
    <3> QED BY <3>1, <3>2
  <2>11. outcome' = "returned" =>
           /\ files'["report"] = 1 /\ files'["model_card"] = 1 /\ torn'["model_card"] = 0
           /\ stages' # << >> /\ Last(stages') = "finished"
    <3> SUFFICES ASSUME outcome' = "returned"
                 PROVE /\ files'["report"] = 1 /\ files'["model_card"] = 1
                       /\ torn'["model_card"] = 0
                       /\ stages' # << >> /\ Last(stages') = "finished"
      OBVIOUS
    <3>1. WriteModelCard
      BY <1>5, <2>1, <2>7, Stepping
    <3>2. pc = "card" /\ Write("model_card")
      BY <3>1 DEF WriteModelCard
    <3>3. files'["model_card"] = 1 /\ torn'["model_card"] = 0
      BY <2>1, <3>2, Written, WrittenWhole, NamedFiles DEF IInv
    <3>4. files'["report"] = 1
      BY <2>4, <2>9, <3>2
    <3> QED BY <2>2, <3>1, <3>3, <3>4
  <2>12. (outcome' = "running" <=> pc' # "idle") /\ outcome' # "none" /\ runs' # << >>
    BY <1>5, <2>1, Stepping
  <2> QED BY <2>1, <2>2, <2>6, <2>9, <2>10, <2>11, <2>12 DEF SingleRun
<1> QED BY <1>2, <1>3, <1>4, <1>5

LEMMA DashboardStep ==
  ASSUME IInv, SingleRun, DashboardAgrees, DashNext
  PROVE  SingleRun' /\ DashboardAgrees'
<1> USE DEF DashboardAgrees
<1>0. worker = "run" => post = "started" /\ status # "FINISHED"
  OBVIOUS
<1>1. CASE MakeRunDir \/ RefuseConfig \/ WriteRunning
  <2>1. /\ UNCHANGED << worker, request, reply, runVars >>
        /\ post' \in {"created", "refused", "running"} /\ post \in {"none", "created"}
        /\ status' \in {status, "RUNNING"} /\ (status' = status \/ post' = "running")
    BY <1>1 DEF MakeRunDir, RefuseConfig, WriteRunning
  <2>2. SingleRun'
    BY <2>1, SingleStep
  <2>3. UNCHANGED << runs, pc, outcome, files, reported >>
    BY <2>1 DEF runVars, commandVars, diskVars
  <2>4. status # "FINISHED" /\ status' # "FINISHED"
    BY <2>1
  <2> QED BY <2>1, <2>2, <2>3, <2>4
<1>2. CASE StartThread
  <2>1. PICK d \in Datas : Start("run", d)
    BY <1>2 DEF StartThread
  <2>2. /\ runs = << >> /\ worker = "none" /\ post' = "started" /\ worker' = "run"
        /\ UNCHANGED << status, request, reply, restarted >>
    BY <1>2 DEF StartThread
  <2>3. SingleRun' /\ outcome' = "running" /\ files' = files /\ reported' = reported
    BY <2>1, <2>2, SingleStep DEF Start, diskVars
  <2> QED BY <2>2, <2>3
<1>3. CASE WorkerRuns
  <2>1. worker = "run" /\ CommandStep /\ UNCHANGED dashVars
    BY <1>3 DEF WorkerRuns
  <2>2. SingleRun' /\ (files["report"] # 0 => files'["report"] = files["report"] /\ reported' = reported)
    BY <2>1, SingleStep
  <2>3. outcome' \in {"running", "returned", "raised"}
    BY <2>1, Stepping
  <2> QED BY <2>1, <2>2, <2>3 DEF dashVars
<1>4. CASE WriteEnd
  <2>1. /\ worker = "run" /\ pc = "idle" /\ worker' = "done" /\ status' = EndState
        /\ UNCHANGED << post, request, reply, restarted, runVars >>
    BY <1>4 DEF WriteEnd
  <2>2. SingleRun'
    BY <2>1, SingleStep
  <2>3. status' = "FINISHED" => outcome = "returned"
    BY <2>1 DEF EndState
  <2> QED BY <2>1, <2>2, <2>3 DEF runVars, commandVars, diskVars
<1>5. CASE ServerDies
  <2>1. /\ worker # "done" /\ post' = "gone" /\ worker' = "none" /\ request' = NoRequest
        /\ UNCHANGED << status, reply >>
        /\ UNCHANGED runVars \/ Kill
        /\ pc' = "idle" /\ files' = files /\ reported' = reported
    BY <1>5 DEF ServerDies, Kill, LeaveFiles, runVars, commandVars, diskVars
  <2>2. SingleRun'
    BY <2>1, SingleStep
  <2> QED BY <2>1, <2>2 DEF NoRequest
<1>6. CASE Get
  <2>1. UNCHANGED << post, worker, status, restarted, runVars >>
    BY <1>6 DEF Get, ListRuns, DetailNotFound, DetailStatus, DetailEvents, GetReport, ReplyWith
  <2>2. SingleRun' /\ UNCHANGED << runs, pc, outcome, files, reported, stages >>
    BY <2>1, SingleStep DEF runVars, commandVars, diskVars
  <2>3. CASE DetailStatus
    <3>1. reply' = reply /\ request'.at = "events" /\ request'.status = status
      BY <2>3 DEF DetailStatus
    <3> QED BY <2>1, <2>2, <3>1
  <2>6. CASE ListRuns \/ DetailNotFound
    <3>1. reply'.kind \in {"runs", "detail"} /\ request' = request
      BY <2>6 DEF ListRuns, DetailNotFound, ReplyWith, NoReply
    <3>2. reply'.kind = "detail" => reply'.status = "none"
      BY <2>6 DEF ListRuns, DetailNotFound, ReplyWith, NoReply
    <3> QED BY <2>1, <2>2, <3>1, <3>2
  <2>4. CASE DetailEvents
    <3>1. /\ request' = NoRequest /\ reply' = DetailReply(stages)
      BY <2>4 DEF DetailEvents, ReplyWith
    <3>2. reply'.kind = "detail" /\ reply'.status = request.status /\ reply'.events = stages
      BY <3>1 DEF DetailReply, NoReply
    <3>3. request.status = "FINISHED" => stages # << >> /\ Last(stages) = "finished"
      BY DEF SingleRun
    <3> QED BY <2>1, <2>2, <3>1, <3>2, <3>3 DEF NoRequest
  <2>5. CASE GetReport
    <3>1. request' = request
      BY <2>5 DEF GetReport
    <3>2. /\ reply'.kind = "report"
          /\ reply'.code = 200 => files["report"] # 0 /\ reply'.verdict = reported
      BY <2>5 DEF GetReport, ReplyWith, NoReply
    <3> QED BY <2>1, <2>2, <3>1, <3>2
  <2> QED BY <1>6, <2>3, <2>4, <2>5, <2>6 DEF Get
<1> QED BY <1>1, <1>2, <1>3, <1>4, <1>5, <1>6 DEF DashNext, Post

LEMMA StreamStep ==
  ASSUME IInv, SingleRun, StreamAgrees, StreamNext
  PROVE  SingleRun' /\ StreamAgrees'
<1> USE DEF StreamAgrees
<1>1. CASE AskForPair \/ PutDone \/ GetEvent \/ GetDone \/ ClosePage
  <2>1. UNCHANGED runVars
    BY <1>1 DEF AskForPair, PutDone, GetEvent, GetDone, ClosePage
  <2>2. SingleRun' /\ UNCHANGED << runs, outcome, stages, files >>
    BY <2>1, SingleStep DEF runVars, commandVars, diskVars
  <2>3. Len(stages) \in Nat
    BY DEF SingleRun
  <2>4. CASE AskForPair \/ PutDone \/ ClosePage
    BY <2>2, <2>4 DEF AskForPair, PutDone, ClosePage
  <2>5. CASE GetEvent
    BY <2>2, <2>3, <2>5 DEF GetEvent
  <2>6. CASE GetDone
    <3>1. outcome = "returned" => files["report"] # 0
      BY DEF SingleRun
    <3> QED BY <2>2, <2>6, <3>1 DEF GetDone
  <2> QED BY <1>1, <2>4, <2>5, <2>6
<1>2. CASE Submit
  <2>1. PICK d \in Datas : Start("run", d)
    BY <1>2 DEF Submit
  <2>2. runs = << >> /\ ui' = "streaming" /\ UNCHANGED << taken, done, download >>
    BY <1>2 DEF Submit
  <2>3. outcome = "none" /\ ~done
    BY <2>2 DEF SingleRun
  <2>4. SingleRun'
    BY <2>1, <2>2, SingleStep
  <2>5. taken = 0 /\ ui' = "streaming" /\ UNCHANGED << taken, done >>
    BY <1>2, <2>2 DEF Submit
  <2>6. Len(stages') \in Nat
    BY <2>4 DEF SingleRun
  <2> QED BY <2>3, <2>4, <2>5, <2>6
<1>3. CASE StreamWorkerRuns
  <2>1. CommandStep /\ UNCHANGED << ui, taken, done, download >>
    BY <1>3 DEF StreamWorkerRuns, streamVars
  <2>2. SingleRun'
    BY <2>1, SingleStep
  <2>3. /\ stages \in Seq(StageNames) /\ stages' \in Seq(StageNames)
        /\ Len(stages') >= Len(stages) /\ outcome = "running" /\ runs' = runs
    BY <2>1, StagesGrow, Stepping DEF SingleRun
  <2>4. taken' \in 0 .. Len(stages')
    BY <2>1, <2>3
  <2> QED BY <2>1, <2>2, <2>3, <2>4
<1> QED BY <1>1, <1>2, <1>3 DEF StreamNext

LEMMA PagesStep == IInv /\ PagesAgree /\ [StudioNext]_studioVars => PagesAgree'
<1> SUFFICES ASSUME IInv, PagesAgree, [StudioNext]_studioVars PROVE PagesAgree'
  OBVIOUS
<1> USE DEF PagesAgree
<1>1. CASE ShellNext
  BY <1>1 DEF ShellNext, dashVars, streamVars, DashInit, StreamInit
<1>2. CASE DashboardNext
  BY <1>2, DashboardStep DEF DashboardNext, streamVars, StreamInit
<1>3. CASE GradioNext
  BY <1>3, StreamStep DEF GradioNext, dashVars, DashInit
<1>4. CASE UNCHANGED studioVars
  <2>1. UNCHANGED << host, runVars, dashVars, streamVars >>
    BY <1>4 DEF studioVars
  <2>2. SingleRun => SingleRun'
    BY <2>1, SingleStep
  <2>3. DashboardAgrees' <=> DashboardAgrees
    BY <2>1 DEF DashboardAgrees, dashVars, runVars, commandVars, diskVars
  <2>4. StreamAgrees' <=> StreamAgrees
    BY <2>1 DEF StreamAgrees, streamVars, runVars, commandVars
  <2> QED BY <2>1, <2>2, <2>3, <2>4 DEF dashVars, streamVars, DashInit, StreamInit
<1> QED BY <1>1, <1>2, <1>3, <1>4 DEF StudioNext

LEMMA PagesTell == PagesAgree => PagesTellTheRun
<1> SUFFICES ASSUME PagesAgree PROVE RepliesTellTheRun /\ PageShowsTheRun
  BY DEF PagesTellTheRun
<1>1. CASE host = "dashboard"
  <2>1. SingleRun /\ DashboardAgrees /\ StreamInit
    BY <1>1 DEF PagesAgree
  <2> QED BY <2>1 DEF SingleRun, DashboardAgrees, StreamInit, RepliesTellTheRun, PageShowsTheRun
<1>2. CASE host = "gradio"
  <2>1. SingleRun /\ StreamAgrees /\ DashInit
    BY <1>2 DEF PagesAgree
  <2> QED BY <2>1 DEF SingleRun, StreamAgrees, DashInit, NoReply, RepliesTellTheRun, PageShowsTheRun
<1>3. CASE host = "cli"
  BY <1>3 DEF PagesAgree, DashInit, StreamInit, NoReply, RepliesTellTheRun, PageShowsTheRun
<1> QED BY <1>1, <1>2, <1>3 DEF PagesAgree

\* What the dashboard replies and what the Gradio page shows is true of the
\* run, at whatever moment a file is read and wherever the server dies
\* (server.py:155-170 and 194-205, gradio_app.py:156-193).
THEOREM PagesAlwaysTell == StudioSpec => []PagesTellTheRun
<1>1. StudioInit => RunInit
  BY DEF StudioInit
<1>2. StudioSpec => []IInv
  BY StudioRunsDirectories, Invariance, PTL
<1> QED BY <1>2, PagesInit, PagesStep, PagesTell, PTL DEF StudioSpec
=============================================================================
