---------------------------- MODULE EventMemory -----------------------------
(***************************************************************************)
(* The evolutionary memory: the append-only event log (memory/store.py),   *)
(* the operator selector fed by the search (memory/bandit.py and           *)
(* _next_generation of search/island.py), the index of lessons             *)
(* (memory/lessons.py) and the digest made of the three                    *)
(* (memory/retrieval.py, memory/failures.py).                              *)
(*                                                                         *)
(* The log survives a crash; the selector and the index live in a session. *)
(* Which operator Thompson sampling selects is left open.  The digest's    *)
(* cut to MAX_OPERATORS cuts nothing: there are as many operator names.    *)
(***************************************************************************)
EXTENDS Integers, FiniteSetsExt, SequencesExt

CONSTANTS
  None,
  Contexts,      \* context keys
  Operators,     \* the selector's operators, crossover not among them
  Evaluations,   \* what failure_labels reads of an evaluation
  LessonIds,     \* numbers, in the order of the ids
  Confidences,   \* of the lessons that are added, with their evidence, as one number
  MaxLessons,    \* MAX_LESSONS of retrieval.py
  MaxFailureLabels,  \* MAX_FAILURE_LABELS of retrieval.py
  MaxEvents      \* bound on the log

VARIABLES
  events,    \* the events table, in the order of its ids
  session,   \* the context of the open session, or None
  step,      \* "idle", or what an operation under way has done: "rewarded", "logged"
  pending,   \* the event of the operation under way
  counts,    \* counts of the selector
  lessons,   \* _lessons of the LessonStore
  opened     \* operator_outcomes when the session was opened (history)

memoryVars == << events, session, step, pending, counts, lessons, opened >>

Mutations == Operators \cup {"crossover"}

\* None is nobody's name; OPERATOR_NAMES does not hold crossover; confidences
\* are compared, trades are counted.
ASSUME MemoryAssumption ==
  /\ "crossover" \notin Operators
  /\ None \notin Mutations /\ None \notin Contexts /\ None \notin LessonIds
  /\ None \notin {"won", "lost"}
  /\ LessonIds \subseteq Nat /\ Confidences \subseteq Nat
  /\ MaxLessons \in Nat /\ MaxFailureLabels \in Nat /\ MaxEvents \in Nat
  /\ \A ev \in Evaluations : ev.trades \in Nat

Zero == [ok |-> 0, ko |-> 0]

NoOutcomes == [c \in Contexts |-> [o \in Mutations |-> Zero]]

-----------------------------------------------------------------------------
(* Derived state.                                                          *)

\* Logs are read by index, so that a count is the number of rows it counts.
Candidates(log) == { i \in DOMAIN log : log[i].kind = "candidate_evaluated" }

Decided(e) == e.operator # None /\ e.reward # None

Outcomes(log, c, o, won) ==
  { i \in Candidates(log) :
      /\ Decided(log[i])
      /\ log[i].context = c /\ log[i].operator = o /\ (log[i].reward = "won") = won }

OperatorOutcomes(log) ==
  [c \in Contexts |-> [o \in Mutations |->
     [ok |-> Cardinality(Outcomes(log, c, o, TRUE)),
      ko |-> Cardinality(Outcomes(log, c, o, FALSE))]]]

KnownLabels == {"NO_SIGNAL", "INSUFFICIENT_TRADES", "OVERFIRE", "FOLD_INSTABILITY",
                "STOP_GAP_RISK", "NO_EDGE_UNDER_REALISTIC_COSTS", "EXCESS_COMPLEXITY"}

FailureLabels(ev) ==
  { l \in KnownLabels :
      CASE l = "NO_SIGNAL" -> ev.trades = 0
        [] l = "INSUFFICIENT_TRADES" -> ev.trades > 0 /\ "min_trades_total" \in ev.violations
        [] l = "OVERFIRE" -> ev.churns
        [] l = "FOLD_INSTABILITY" -> "max_fold_dispersion" \in ev.violations
        [] l = "STOP_GAP_RISK" -> "max_drawdown" \in ev.violations
        [] l = "NO_EDGE_UNDER_REALISTIC_COSTS" ->
             /\ ev.trades > 0
             /\ \/ {"min_profit_factor", "min_median_fold_return"} \cap ev.violations # {}
                \/ ev.losing
        [] l = "EXCESS_COMPLEXITY" -> "max_complexity" \in ev.violations }

FailureLabelCounts(log, c) ==
  [l \in KnownLabels |->
     Cardinality({ i \in Candidates(log) : log[i].context = c /\ l \in log[i].labels })]

\* failure_labels lists the labels of a row in this order.
LabelOrder == << "NO_SIGNAL", "INSUFFICIENT_TRADES", "OVERFIRE", "FOLD_INSTABILITY",
                 "STOP_GAP_RISK", "NO_EDGE_UNDER_REALISTIC_COSTS", "EXCESS_COMPLEXITY" >>

\* The counts' dictionary has its keys in the order they were first met.
MetBefore(log, c, l, m) ==
  LET first(x) == Min({ i \in Candidates(log) : log[i].context = c /\ x \in log[i].labels })
  IN \/ first(l) < first(m)
     \/ first(l) = first(m) /\ \E i, j \in DOMAIN LabelOrder :
                                 i < j /\ LabelOrder[i] = l /\ LabelOrder[j] = m

\* The labels met, by count and, where counts are equal, as met; then the cut.
Outweighs(log, c, l, m) ==
  LET counted == FailureLabelCounts(log, c)
  IN counted[l] > counted[m] \/ (counted[l] = counted[m] /\ MetBefore(log, c, l, m))

TopFailures(log, c) ==
  { l \in KnownLabels :
      /\ FailureLabelCounts(log, c)[l] > 0
      /\ Cardinality({ m \in KnownLabels : Outweighs(log, c, m, l) }) < MaxFailureLabels }

\* A lesson joins the index and retires the one it supersedes.
WithLesson(index, e) ==
  [l \in DOMAIN index \cup {e.lesson} |->
     LET known == IF l = e.lesson THEN [said |-> e, active |-> TRUE, by |-> None] ELSE index[l]
     IN IF l = e.supersedes THEN [said |-> known.said, active |-> FALSE, by |-> e.lesson]
        ELSE known]

\* LessonStore.__init__, for one row and for the log.
WithRow(index, e) == IF e.kind = "lesson_added" THEN WithLesson(index, e) ELSE index

Replayed(log) == FoldLeft(WithRow, << >>, log)

Better(l, m) ==
  \/ lessons[l].said.confidence > lessons[m].said.confidence
  \/ lessons[l].said.confidence = lessons[m].said.confidence /\ l < m

Hits(c) == { l \in DOMAIN lessons : lessons[l].active /\ c \in lessons[l].said.contexts }

\* The hits, sorted and cut: the k-th has k - 1 better ones.
ActiveForContext(c) ==
  LET before(l) == Cardinality({ m \in Hits(c) : Better(m, l) })
  IN [k \in 1 .. Min({MaxLessons, Cardinality(Hits(c))}) |->
        CHOOSE l \in Hits(c) : before(l) = k - 1]

\* build_llm_context
Digest(c) ==
  [failures |-> [l \in TopFailures(events, c) |-> FailureLabelCounts(events, c)[l]],
   outcomes |-> OperatorOutcomes(events)[c],
   lessons |-> ActiveForContext(c)]

-----------------------------------------------------------------------------
(* Operations.                                                             *)

MemoryInit ==
  /\ events = << >>
  /\ session = None
  /\ step = "idle"
  /\ pending = None
  /\ counts = [o \in Operators |-> Zero]
  /\ lessons = << >>
  /\ opened = NoOutcomes

\* A fresh selector; the index is replayed.
Open(c) ==
  /\ session = None
  /\ session' = c
  /\ lessons' = Replayed(events)
  /\ opened' = OperatorOutcomes(events)
  /\ UNCHANGED << events, step, pending, counts >>

\* ThompsonOperatorSelector.update
SelectorUpdate(o, won) ==
  counts' = IF o \notin Operators THEN counts
            ELSE IF won THEN [counts EXCEPT ![o].ok = @ + 1] ELSE [counts EXCEPT ![o].ko = @ + 1]

\* Mutant of Rewarded: crossover children are rewarded like the others.
RewardedAll(o) == o # None

Rewarded(o) == o # None /\ o # "crossover"

Busy(e) == step' = "rewarded" /\ pending' = e

\* A child of a generation: the operator that was applied, if any, is
\* rewarded before the event is written.
EvaluateChild(o, ev, won) ==
  /\ session # None
  /\ step = "idle"
  /\ Len(events) < MaxEvents
  /\ IF Rewarded(o) THEN SelectorUpdate(o, won) ELSE UNCHANGED counts
  /\ Busy([kind |-> "candidate_evaluated", context |-> session, operator |-> o,
           reward |-> IF Rewarded(o) THEN (IF won THEN "won" ELSE "lost") ELSE None,
           labels |-> FailureLabels(ev)])
  /\ UNCHANGED << events, session, lessons, opened >>

RecordEvent ==
  /\ step = "rewarded"
  /\ events' = Append(events, pending)
  /\ step' = "idle"
  /\ pending' = None
  /\ UNCHANGED << session, counts, lessons, opened >>

\* LessonStore.add, up to the append; an unknown lesson cannot be superseded.
Learn(l, confidence, contexts, supersedes) ==
  /\ session # None
  /\ step = "idle"
  /\ Len(events) < MaxEvents
  /\ \A i \in DOMAIN events : events[i].kind = "lesson_added" => events[i].lesson # l
  /\ supersedes \in DOMAIN lessons \cup {None}
  /\ pending' = [kind |-> "lesson_added", lesson |-> l, confidence |-> confidence,
                 contexts |-> contexts, supersedes |-> supersedes]
  /\ events' = Append(events, pending')
  /\ step' = "logged"
  /\ UNCHANGED << session, counts, lessons, opened >>

IndexLesson ==
  /\ step = "logged"
  /\ lessons' = WithLesson(lessons, pending)
  /\ step' = "idle"
  /\ pending' = None
  /\ UNCHANGED << events, session, counts, opened >>

\* The process ends or dies, between two operations or inside one.
EndSession ==
  /\ session # None
  /\ session' = None
  /\ step' = "idle"
  /\ pending' = None
  /\ counts' = [o \in Operators |-> Zero]
  /\ lessons' = << >>
  /\ opened' = NoOutcomes
  /\ UNCHANGED events

MemoryNext ==
  \/ \E c \in Contexts : Open(c)
  \/ \E o \in Mutations \cup {None}, ev \in Evaluations, won \in BOOLEAN : EvaluateChild(o, ev, won)
  \/ RecordEvent
  \/ \E l \in LessonIds, confidence \in Confidences, contexts \in SUBSET Contexts,
        s \in DOMAIN lessons \cup {None} : Learn(l, confidence, contexts, s)
  \/ IndexLesson
  \/ EndSession

MemorySpec == MemoryInit /\ [][MemoryNext]_memoryVars

-----------------------------------------------------------------------------
(* Safety.                                                                 *)

LessonEvents == { i \in DOMAIN events : events[i].kind = "lesson_added" }

Superseding(i) == { j \in LessonEvents : events[j].supersedes = events[i].lesson }

\* The index while no lesson is being added: every lesson of the log, retired
\* by the last one that supersedes it.
IndexIsTheLog ==
  session # None /\ step # "logged" =>
    /\ DOMAIN lessons = { events[i].lesson : i \in LessonEvents }
    /\ \A i \in LessonEvents :
         LET s == Superseding(i) IN
         lessons[events[i].lesson] =
           [said |-> events[i], active |-> s = {},
            by |-> IF s = {} THEN None ELSE events[Max(s)].lesson]

\* The selector is what this session's events say, ahead by the one reward
\* whose event is not written yet.
SelectorIsTheLog ==
  session # None =>
    \A o \in Mutations :
      LET now == OperatorOutcomes(events)[session][o]
          was == opened[session][o]
          own == IF o \in Operators THEN counts[o] ELSE Zero
          early == IF step = "rewarded" /\ pending.operator = o THEN pending.reward ELSE None
      IN /\ own.ok = now.ok - was.ok + (IF early = "won" THEN 1 ELSE 0)
         /\ own.ko = now.ko - was.ko + (IF early = "lost" THEN 1 ELSE 0)

\* The digest names only lessons nothing supersedes, the best first, and
\* leaves none out that is better than one it names; no failure label that it
\* leaves out is more frequent than one it tells, and a candidate that never
\* traded is not counted as a losing one.
DigestIsCurrent ==
  session # None /\ step = "idle" =>
    \A c \in Contexts :
      LET digest == Digest(c)
          told == digest.lessons
          failures == DOMAIN digest.failures
          counted == FailureLabelCounts(events, c)
          live == { i \in LessonEvents : Superseding(i) = {} /\ c \in events[i].contexts }
          ids == { events[i].lesson : i \in live }
      IN /\ ToSet(told) \subseteq ids
         /\ Len(told) = Min({MaxLessons, Cardinality(ids)})
         /\ \A k \in DOMAIN told : \A l \in ids \ ToSet(SubSeq(told, 1, k)) : Better(told[k], l)
         /\ \A l \in failures, m \in KnownLabels \ failures : counted[m] <= counted[l]
         /\ {"NO_SIGNAL", "NO_EDGE_UNDER_REALISTIC_COSTS"} \subseteq failures =>
              digest.failures["NO_SIGNAL"] + digest.failures["NO_EDGE_UNDER_REALISTIC_COSTS"]
                <= Cardinality({ i \in Candidates(events) : events[i].context = c })

\* Replaying the log gives the derived state: whatever the crashes between a
\* reward and its event, or an event and the index, a session's selector and
\* index agree with the log, and so does what the digest tells
\* (store.py:112-130, lessons.py:43-55 and 86-95, island.py:271-277,
\* retrieval.py:33-65).
MemoryIsRebuilt == IndexIsTheLog /\ SelectorIsTheLog /\ DigestIsCurrent
=============================================================================
