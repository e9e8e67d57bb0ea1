-------------------------- MODULE ExperimentState --------------------------
(***************************************************************************)
(* The experiment lifecycle of evoquant/experiment/state.py, as operators  *)
(* on experiment records.  An experiment is one Experiment object: its     *)
(* state, the seals bound to it and its append-only event log.             *)
(*                                                                         *)
(* Abstracted: identifiers, timestamps, metadata and event details.  Of    *)
(* the four required seals only the two that LockboxGuard.open verifies    *)
(* are kept (split_plan_hash and data_content_hash); config_hash and seed  *)
(* are bound by the same assignment and never read again.                  *)
(***************************************************************************)
EXTENDS Naturals, Sequences

CONSTANTS
  Plans,    \* split plan hashes
  Datas,    \* data content hashes
  Callers   \* the actor names callers of transition() pass, any string

States == {"CREATED", "SEALED", "SEARCH_ACTIVE", "SHORTLISTED", "FROZEN",
           "DISCLOSED", "CLOSED_ACCEPTED", "CLOSED_REJECTED", "CLOSED_NO_EDGE"}

\* Mutant of Allowed: a disclosed experiment may be frozen again.
AllowedWithRedesign(s) ==
  CASE s = "CREATED"       -> {"SEALED"}
    [] s = "SEALED"        -> {"SEARCH_ACTIVE"}
    [] s = "SEARCH_ACTIVE" -> {"SHORTLISTED", "CLOSED_NO_EDGE"}
    [] s = "SHORTLISTED"   -> {"FROZEN", "CLOSED_NO_EDGE"}
    [] s = "FROZEN"        -> {"DISCLOSED"}
    [] s = "DISCLOSED"     -> {"CLOSED_ACCEPTED", "CLOSED_REJECTED", "FROZEN"}
    [] OTHER               -> {}

\* ALLOWED_TRANSITIONS: the states reachable in one transition from s.
Allowed(s) ==
  CASE s = "CREATED"       -> {"SEALED"}
    [] s = "SEALED"        -> {"SEARCH_ACTIVE"}
    [] s = "SEARCH_ACTIVE" -> {"SHORTLISTED", "CLOSED_NO_EDGE"}
    [] s = "SHORTLISTED"   -> {"FROZEN", "CLOSED_NO_EDGE"}
    [] s = "FROZEN"        -> {"DISCLOSED"}
    [] s = "DISCLOSED"     -> {"CLOSED_ACCEPTED", "CLOSED_REJECTED"}
    [] OTHER               -> {}

GuardActor == "lockbox_guard"

\* The actors of a log: the default, the guard and whatever callers say.
Actors == Callers \cup {"system", GuardActor}

\* The dictionary of seals: empty, or the one binding made by seal().
Seals == [plan : Plans, data : Datas]

\* A logged transition.  The creation event has no "from" state (None).
Events == [from : States \cup {"None"}, to : States, actor : Actors]

\* An Experiment: at most one binding of seals, and a log that starts with the
\* creation and is never empty.
Bindings == {{}} \cup {{s} : s \in Seals}
Experiments == [state : States, seals : Bindings, events : Seq(Events) \ {<< >>}]

\* Experiment.create: a fresh object whose log records its creation.
Created ==
  [ state  |-> "CREATED",
    seals  |-> {},
    events |-> << [from |-> "None", to |-> "CREATED", actor |-> "system"] >> ]

\* The checks of _transition: a legal edge, and DISCLOSED for the guard alone.
MayTransition(e, to, actor) ==
  /\ to \in Allowed(e.state)
  /\ to = "DISCLOSED" => actor = GuardActor

\* The effect of _transition: the new state and its event, in one log.
Transitioned(e, to, actor) ==
  [ e EXCEPT !.state  = to,
             !.events = Append(@, [from |-> e.state, to |-> to, actor |-> actor]) ]

\* seal(): only from CREATED and only when nothing is sealed yet.
MaySeal(e) == e.state = "CREATED" /\ e.seals = {}

Sealed(e, s) == Transitioned([e EXCEPT !.seals = {s}], "SEALED", "system")

\* The part of LockboxGuard.open that refuses an opened lockbox: the state, or
\* any DISCLOSED event in the log.
WasDisclosed(e) ==
  \/ e.state = "DISCLOSED"
  \/ \E i \in 1 .. Len(e.events) : e.events[i].to = "DISCLOSED"

\* Mutant of TailMatchesState: load() without its consistency check.
TailUnchecked(e) == e.events # << >>

\* The consistency check of Experiment.load.
TailMatchesState(e) ==
  e.events # << >> => e.events[Len(e.events)].to = e.state
=============================================================================
