---------------------------- MODULE GradioStream ----------------------------
(***************************************************************************)
(* A run of the Gradio app (webui/gradio_app.py, _run_streaming): a worker *)
(* thread runs the experiment with on_progress = q.put, and a generator    *)
(* yields what it takes from the queue until the sentinel "__done__".      *)
(* The queue is what the run has emitted and the generator has not taken.  *)
(* Each run has a directory of its own here; the run id has a resolution   *)
(* of one second, so two runs of one second would share theirs.            *)
(***************************************************************************)
EXTENDS RunDirectory

VARIABLES
  ui,      \* what the page shows
  taken,   \* events taken from the queue
  done,    \* the sentinel is in the queue
  download \* the report is offered for download

streamVars == << ui, taken, done, download >>

StreamInit == ui = "none" /\ taken = 0 /\ done = FALSE /\ download = FALSE

\* Without a pair the generator only asks for one.
AskForPair ==
  /\ ui = "none"
  /\ ui' = "select_a_pair"
  /\ UNCHANGED << taken, done, download, runVars >>

Submit ==
  /\ ui \in {"none", "select_a_pair"}
  /\ ui' = "streaming"
  /\ \E d \in Datas : Start("run", d)
  /\ UNCHANGED << taken, done, download >>

StreamWorkerRuns ==
  /\ CommandStep
  /\ UNCHANGED streamVars

\* The finally clause of the worker.
PutDone ==
  /\ pc = "idle"
  /\ outcome \in {"returned", "raised"}
  /\ ~done
  /\ done' = TRUE
  /\ UNCHANGED << ui, taken, download, runVars >>

GetEvent ==
  /\ ui = "streaming"
  /\ taken < Len(stages)
  /\ taken' = taken + 1
  /\ UNCHANGED << ui, done, download, runVars >>

\* Mutant of GetDone: the sentinel overtakes the events.
GetDoneEarly ==
  /\ ui = "streaming"
  /\ done
  /\ ui' = IF outcome = "raised" THEN "error" ELSE "finished"
  /\ download' = (outcome = "returned" /\ files["report"] # 0)
  /\ UNCHANGED << taken, done, runVars >>

\* The sentinel comes out of the queue last.
GetDone ==
  /\ ui = "streaming"
  /\ taken = Len(stages) /\ done
  /\ ui' = IF outcome = "raised" THEN "error" ELSE "finished"
  /\ download' = (outcome = "returned" /\ files["report"] # 0)
  /\ UNCHANGED << taken, done, runVars >>

\* The page is closed at a yield; the worker is not told.
ClosePage ==
  /\ ui = "streaming"
  /\ ui' = "closed"
  /\ UNCHANGED << taken, done, download, runVars >>

StreamNext ==
  AskForPair \/ Submit \/ StreamWorkerRuns \/ PutDone \/ GetEvent \/ GetDone \/ ClosePage

-----------------------------------------------------------------------------
(* Properties.                                                             *)

\* A page that says finished has shown every event, the last one included,
\* and offers the report of this very run (gradio_app.py:156-193).
PageShowsTheRun ==
  /\ ui \in {"finished", "error"} => taken = Len(stages)
  /\ ui = "finished" => /\ Last(stages) = "finished"
                        /\ download
                        /\ reported = verdict

\* A page that streams does not stream for ever (gradio_app.py:156-174).
StreamsEnd == ui = "streaming" ~> ui \in {"finished", "error", "closed"}
=============================================================================
