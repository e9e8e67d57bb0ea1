------------------------------- MODULE Studio -------------------------------
(***************************************************************************)
(* The three hosts of run_experiment, each on a directory of its own.  The *)
(* command line runs command after command in the directory, killed or     *)
(* not, with parity commands between and beside them; the dashboard and    *)
(* the Gradio app make a new directory for their run.                      *)
(***************************************************************************)
EXTENDS Dashboard, GradioStream

VARIABLES host

studioVars == << host, runVars, dashVars, streamVars >>

StudioInit ==
  /\ host \in {"cli", "dashboard", "gradio"}
  /\ RunInit
  /\ DashInit
  /\ StreamInit

ShellStarts == \E c \in Commands : Start(c.kind, c.data)

ShellNext ==
  /\ host = "cli"
  /\ ShellStarts \/ CommandStep \/ Kill \/ CheckerStep
  /\ UNCHANGED << host, dashVars, streamVars >>

DashboardNext ==
  /\ host = "dashboard"
  /\ DashNext
  /\ UNCHANGED << host, streamVars >>

GradioNext ==
  /\ host = "gradio"
  /\ StreamNext
  /\ UNCHANGED << host, dashVars >>

StudioNext == ShellNext \/ DashboardNext \/ GradioNext

\* Threads are scheduled: the POST that created a directory goes on, the
\* worker runs to its end, and the generator takes what is in its queue.
StudioFairness ==
  /\ WF_studioVars(host = "dashboard" /\ (WriteRunning \/ StartThread) /\ UNCHANGED << host, streamVars >>)
  /\ WF_studioVars(host = "dashboard" /\ (WorkerRuns \/ WriteEnd) /\ UNCHANGED << host, streamVars >>)
  /\ WF_studioVars(host = "gradio" /\ (StreamWorkerRuns \/ PutDone) /\ UNCHANGED << host, dashVars >>)
  /\ WF_studioVars(host = "gradio" /\ (GetEvent \/ GetDone) /\ UNCHANGED << host, dashVars >>)

StudioSpec == StudioInit /\ [][StudioNext]_studioVars /\ StudioFairness

\* What the pages of either host show is true of their run: see the
\* conjuncts.
PagesTellTheRun == RepliesTellTheRun /\ PageShowsTheRun

\* No page waits for ever for a run that was started: see the conjuncts.
StartedRunsEnd == DashboardRunsEnd /\ StreamsEnd
=============================================================================
