--------------------------- MODULE LockboxLedger ---------------------------
(***************************************************************************)
(* One experiment, the processes that hold it as an object, the file that  *)
(* persists it and the lockbox guard: experiment/state.py together with    *)
(* experiment/lockbox.py.                                                  *)
(*                                                                         *)
(* A holder is a Python process (or a second object in the same process)   *)
(* with the experiment in memory.  Holders share nothing but the file      *)
(* experiment.json and the one temporary name experiment.json.tmp, through *)
(* which save() replaces it.  save() takes no lock: the saves of two       *)
(* holders may overlap, and then write into each other's files.  A holder  *)
(* may crash at any point and lose its object.                             *)
(* The history variables "releases", "sealings", "stale" and "overlapped"  *)
(* only record; no action reads them except for the bound MaxReleases.     *)
(***************************************************************************)
EXTENDS ExperimentState, FiniteSets, SequencesExt

CONSTANTS
  Holders,      \* processes (or objects) that may hold the experiment
  EditTargets,  \* the states somebody may write into the file by hand
  MaxReleases   \* bound: how many lockbox views a behaviour may hand out

ASSUME EditAssumption == EditTargets \subseteq States
ASSUME ReleasesAssumption == MaxReleases \in Nat

VARIABLES
  alive,      \* the holders that have the experiment in memory
  obj,        \* obj[h]: the experiment object of holder h, if alive
  saving,     \* saving[h]: how far holder h has come inside save()
  file,       \* experiment.json
  tmp,        \* experiment.json.tmp
  born,       \* has the experiment been created
  releases,   \* history: the seals whose lockbox rows open() returned, in order
  sealings,   \* history: every binding seal() ever made
  stale,      \* history: holders whose last load or save another save followed
  overlapped  \* history: holders inside a save() that met the save of another

vars == << alive, obj, saving, file, tmp, born, releases, sealings, stale, overlapped >>
memory == << alive, obj, born >>
disk == << file, tmp, saving, overlapped >>
history == << releases, sealings, stale >>

\* What a path holds: nothing; an opened, truncated file; a mixture of the
\* texts of two saves, which json.loads refuses; or a whole experiment.
Kinds == {"absent", "empty", "mixed", "whole"}
Files == [kind : Kinds, exp : Experiments]
Unreadable(k) == [kind |-> k, exp |-> Created]
Whole(e) == [kind |-> "whole", exp |-> e]

\* Where the file lies that a holder inside save() has open: under the
\* temporary name; under experiment.json, when another save renamed it
\* meanwhile; nowhere, when a later one replaced that.  Then it is written
\* and closed, and the rename is next.
Phases == {"no", "tmp", "file", "unlinked", "written"}

Saving == {h \in Holders : saving[h] # "no"}

Init ==
  /\ alive = {}
  /\ obj = [h \in Holders |-> Created]
  /\ saving = [h \in Holders |-> "no"]
  /\ file = Unreadable("absent")
  /\ tmp = Unreadable("absent")
  /\ born = FALSE
  /\ releases = << >>
  /\ sealings = {}
  /\ stale = {}
  /\ overlapped = {}

\* Holder h runs code of its own object: it holds one and is not inside save().
Running(h) == h \in alive /\ saving[h] = "no"

\* Experiment.create.  Experiment ids are unique, so it happens once.
Create(h) ==
  /\ ~born /\ h \notin alive
  /\ born' = TRUE
  /\ alive' = alive \cup {h}
  /\ obj' = [obj EXCEPT ![h] = Created]
  /\ stale' = stale \ {h}
  /\ UNCHANGED << releases, sealings, disk >>

\* Experiment.seal, which ends with the transition to SEALED.
Seal(h, s) ==
  /\ Running(h)
  /\ MaySeal(obj[h])
  /\ obj' = [obj EXCEPT ![h] = Sealed(@, s)]
  /\ sealings' = sealings \cup {s}
  /\ UNCHANGED << alive, born, releases, stale, disk >>

\* Experiment.transition, the public entry point: any legal edge but the one
\* to DISCLOSED, in the name of any actor, the guard's included.  (SEALED too
\* may be reached through it, without a seal.)
Transition(h, to, actor) ==
  /\ Running(h)
  /\ to # "DISCLOSED"
  /\ MayTransition(obj[h], to, actor)
  /\ obj' = [obj EXCEPT ![h] = Transitioned(@, to, actor)]
  /\ UNCHANGED << alive, born, history, disk >>

\* Mutant of Open: the presented plan is not compared with the sealed one.
OpenUnverified(h, p, d) ==
  /\ Running(h)
  /\ ~WasDisclosed(obj[h])
  /\ obj[h].state = "FROZEN"
  /\ \E s \in obj[h].seals : s.data = d
  /\ MayTransition(obj[h], "DISCLOSED", GuardActor)
  /\ Len(releases) < MaxReleases
  /\ obj' = [obj EXCEPT ![h] = Transitioned(@, "DISCLOSED", GuardActor)]
  /\ releases' = Append(releases, [plan |-> p, data |-> d])
  /\ UNCHANGED << alive, born, sealings, stale, disk >>

\* LockboxGuard.open with plan p and bars whose content hash is d.
Open(h, p, d) ==
  /\ Running(h)
  /\ ~WasDisclosed(obj[h])
  /\ obj[h].state = "FROZEN"
  /\ \E s \in obj[h].seals : s.plan = p /\ s.data = d
  /\ MayTransition(obj[h], "DISCLOSED", GuardActor)
  /\ Len(releases) < MaxReleases
  /\ obj' = [obj EXCEPT ![h] = Transitioned(@, "DISCLOSED", GuardActor)]
  /\ releases' = Append(releases, [plan |-> p, data |-> d])
  /\ UNCHANGED << alive, born, sealings, stale, disk >>

\* Mutant of SaveBegin: the text is written straight into experiment.json.
SaveInPlace(h) ==
  /\ Running(h)
  /\ saving' = [saving EXCEPT ![h] = "file"]
  /\ file' = Unreadable("empty")
  /\ overlapped' = IF Saving = {} THEN overlapped
                   ELSE overlapped \cup Saving \cup {h}
  /\ UNCHANGED << tmp, memory, history >>

\* Experiment.save, first step: open the temporary file for writing, which
\* creates or truncates it.
SaveBegin(h) ==
  /\ Running(h)
  /\ saving' = [saving EXCEPT ![h] = "tmp"]
  /\ tmp' = Unreadable("empty")
  /\ overlapped' = IF Saving = {} THEN overlapped
                   ELSE overlapped \cup Saving \cup {h}
  /\ UNCHANGED << file, memory, history >>

\* What a file holds once the text of e is written over it, from its start:
\* that text, or a mixture when the end of a longer text sticks out.
Overwritten(f, e) ==
  {Whole(e)} \cup IF f \in {Unreadable("empty"), Whole(e)} THEN {}
                  ELSE {Unreadable("mixed")}

\* Experiment.save, second step: the holder writes its text into the file it
\* opened, wherever that lies by now, and closes it.
SaveWrite(h) ==
  /\ saving[h] \in {"tmp", "file", "unlinked"}
  /\ saving' = [saving EXCEPT ![h] = "written"]
  /\ IF saving[h] = "tmp" THEN tmp' \in Overwritten(tmp, obj[h]) ELSE tmp' = tmp
  /\ IF saving[h] = "file"
     THEN file' \in Overwritten(file, obj[h]) /\ stale' = alive
     ELSE UNCHANGED << file, stale >>
  /\ UNCHANGED << overlapped, memory, releases, sealings >>

\* Experiment.save, last step: the rename puts whatever is under the temporary
\* name in the place of experiment.json; open files move along.
SaveRename(h) ==
  /\ saving[h] = "written"
  /\ tmp.kind # "absent"
  /\ file' = tmp
  /\ tmp' = Unreadable("absent")
  /\ saving' = [g \in Holders |->
                  CASE g = h                -> "no"
                    [] saving[g] = "tmp"    -> "file"
                    [] saving[g] = "file"   -> "unlinked"
                    [] OTHER                -> saving[g]]
  /\ stale' = IF h \in overlapped THEN alive ELSE alive \ {h}
  /\ overlapped' = overlapped \ {h}
  /\ UNCHANGED << memory, releases, sealings >>

\* ... or fails: another save has renamed the temporary file away.
SaveFails(h) ==
  /\ saving[h] = "written"
  /\ tmp.kind = "absent"
  /\ saving' = [saving EXCEPT ![h] = "no"]
  /\ overlapped' = overlapped \ {h}
  /\ UNCHANGED << file, tmp, memory, history >>

\* Mutant of Load: only the last event of the log is restored.
LoadTail(h) ==
  /\ h \notin alive
  /\ file.kind = "whole"
  /\ TailMatchesState(file.exp)
  /\ alive' = alive \cup {h}
  /\ obj' = [obj EXCEPT ![h] = [file.exp EXCEPT !.events = << Last(@) >>]]
  /\ stale' = stale \ {h}
  /\ UNCHANGED << born, releases, sealings, disk >>

\* Experiment.load: a whole file whose log tail agrees with its state.  Any
\* other file raises and leaves everything as it is.
Load(h) ==
  /\ h \notin alive
  /\ file.kind = "whole"
  /\ TailMatchesState(file.exp)
  /\ alive' = alive \cup {h}
  /\ obj' = [obj EXCEPT ![h] = file.exp]
  /\ stale' = stale \ {h}
  /\ UNCHANGED << born, releases, sealings, disk >>

\* The process ends or crashes, possibly inside save(): its object is lost,
\* and what it left under the temporary name stays behind.
Crash(h) ==
  /\ h \in alive
  /\ alive' = alive \ {h}
  /\ obj' = [obj EXCEPT ![h] = Created]
  /\ saving' = [saving EXCEPT ![h] = "no"]
  /\ stale' = stale \ {h}
  /\ overlapped' = overlapped \ {h}
  /\ UNCHANGED << file, tmp, born, releases, sealings >>

\* Somebody edits the state field of experiment.json, the tampering load()
\* looks for.
EditState(s) ==
  /\ file.kind = "whole"
  /\ file' = [file EXCEPT !.exp.state = s]
  /\ UNCHANGED << tmp, saving, overlapped, memory, history >>

Next ==
  \/ \E h \in Holders :
       \/ Create(h)
       \/ \E s \in Seals : Seal(h, s)
       \/ \E to \in States, actor \in Callers : Transition(h, to, actor)
       \/ \E p \in Plans, d \in Datas : Open(h, p, d)
       \/ SaveBegin(h)
       \/ SaveWrite(h)
       \/ SaveRename(h)
       \/ SaveFails(h)
       \/ Load(h)
       \/ Crash(h)
  \/ \E s \in EditTargets : EditState(s)

Spec == Init /\ [][Next]_vars

-----------------------------------------------------------------------------
(***************************************************************************)
(* Properties                                                              *)
(***************************************************************************)

TypeOK ==
  /\ alive \subseteq Holders
  /\ obj \in [Holders -> Experiments]
  /\ saving \in [Holders -> Phases]
  /\ Saving \subseteq alive
  /\ file \in Files
  /\ tmp \in Files
  /\ born \in BOOLEAN
  /\ releases \in Seq(Seals)
  /\ sealings \subseteq Seals
  /\ stale \subseteq alive
  /\ overlapped \subseteq Saving

\* A log that tells a legal life: it starts with the creation, every later
\* event leaves the state the previous one entered along an edge of
\* ALLOWED_TRANSITIONS, and nobody but the guard disclosed.
IsLifeLog(log) ==
  /\ log # << >>
  /\ log[1] = [from |-> "None", to |-> "CREATED", actor |-> "system"]
  /\ \A i \in 2 .. Len(log) :
       /\ log[i].from = log[i-1].to
       /\ log[i].to \in Allowed(log[i].from)
       /\ log[i].to = "DISCLOSED" => log[i].actor = GuardActor

\* Every log a holder or a file carries is a legal life, and every object in
\* memory is in the state its log ends with, however the files were reloaded,
\* overwritten by another holder, or had their state field edited (load()).
LogsAreLives ==
  /\ \A h \in alive :
       /\ IsLifeLog(obj[h].events)
       /\ Last(obj[h].events).to = obj[h].state
  /\ IsLifeLog(file.exp.events)

Disclosures(log) == {i \in DOMAIN log : log[i].to = "DISCLOSED"}

\* The audit trail is truthful: wherever a log claims that the lockbox was
\* opened, in memory or on disk, the rows of exactly the plan and data that
\* experiment was sealed with were handed out; and no rows are ever handed
\* out for a plan or data that seal() never bound (LockboxGuard.open).
DisclosuresAreReal ==
  /\ \A e \in {obj[h] : h \in alive} \cup {file.exp} :
       Disclosures(e.events) # {} => \E i \in DOMAIN releases : e.seals = {releases[i]}
  /\ Range(releases) \subseteq sealings

\* A save is one step for whoever reads the file, wherever it is cut off: as
\* long as no save meets another one, experiment.json changes only when a save
\* ends, and then to the whole experiment of its holder, so that it is never
\* torn (the tmp-and-rename of Experiment.save).  Only a hand edit does more.
SavesAreAtomic ==
  [][ overlapped = {} =>
        \/ file' = [file EXCEPT !.exp.state = file'.exp.state]
        \/ \E h \in Holders : /\ saving[h] # "no" /\ saving'[h] = "no"
                              /\ file' = Whole(obj[h]) ]_vars

\* A save only replaces what its holder knows: when no other holder saved
\* since h last read or wrote the file, the file's log is extended, never
\* shortened or rewritten (Experiment.save after Experiment.load).
SaveKeepsKnownLog ==
  [][ \A h \in Holders :
        (/\ saving[h] # "no" /\ saving'[h] = "no" /\ h \in alive'
         /\ file.kind = "whole" /\ h \notin stale \cup overlapped)
        => IsPrefix(file.exp.events, file'.exp.events) ]_vars

\* Seals are immutable once bound: as long as a holder keeps its object, no
\* operation changes seals that are there (state.py, "Seals are immutable
\* afterwards"), and it is bound to at most one plan and one data set.
SealsAreBoundOnce ==
  [][ \A h \in alive \cap alive' :
        /\ obj[h].seals # {} => obj'[h].seals = obj[h].seals
        /\ Cardinality(obj'[h].seals) <= 1 ]_vars

-----------------------------------------------------------------------------
(***************************************************************************)
(* Each holder's object implements the one-shot box.                       *)
(***************************************************************************)

PhaseOf(e) ==
  CASE e.state = "FROZEN"         -> "frozen"
    [] e.state = "DISCLOSED"      -> "open"
    [] e.state \in {"CLOSED_ACCEPTED", "CLOSED_REJECTED"} -> "judged"
    [] e.state = "CLOSED_NO_EDGE" -> "abandoned"
    [] OTHER                      -> "blind"

BoxPhase == [h \in Holders |-> IF h \in alive THEN PhaseOf(obj[h]) ELSE "absent"]

BoxOpens ==
  [h \in Holders |->
     IF h \in alive THEN Cardinality(Disclosures(obj[h].events)) ELSE 0]

Boxes == INSTANCE OneShotBoxes WITH phase <- BoxPhase, opens <- BoxOpens

\* Every object, from the moment a process holds it until it is dropped, goes
\* through the one-shot protocol: blind, frozen, opened once, judged, with no
\* way back (state.py: "the state machine has no path back").
ObjectsAreOneShot == Boxes!Spec

-----------------------------------------------------------------------------
(***************************************************************************)
(* What the documentation says and the code does not do.                   *)
(***************************************************************************)

\* state.py: the transition to DISCLOSED "is recorded in the append-only event
\* log, so a lockbox open is permanent and auditable".  At the least, saves that
\* do not meet keep an open the file records.
RecordedOpensStay ==
  [][ overlapped = {} /\ Disclosures(file.exp.events) # {}
        => Disclosures(file'.exp.events) # {} ]_vars

\* lockbox.py: open "transitions the experiment to DISCLOSED permanently, and
\* can therefore succeed at most once per experiment".
OpensAtMostOnce == Len(releases) <= 1
=============================================================================
