------------------------------ MODULE Dashboard ------------------------------
(***************************************************************************)
(* A run of the web dashboard (webui/server.py, WebUIState) in a directory *)
(* of its own: the POST that starts it, its worker thread, and a client    *)
(* whose GET requests read its files without the lock while it works.      *)
(*                                                                         *)
(* events.jsonl is the run's stages: on_progress appends a line, under the *)
(* lock, before the run goes on; a line is shorter than a buffer, so it is *)
(* there or not.  status.json is replaced by a rename.  Settings, secrets, *)
(* the pair list and the requests' wording are left out.                   *)
(***************************************************************************)
EXTENDS RunDirectory

VARIABLES
  post,      \* progress of the POST that starts the run
  worker,    \* the run's thread
  status,    \* state in status.json, "none" before it exists
  request,   \* the GET under way: its step and the status it has read
  reply,     \* the latest reply
  restarted  \* history: the server died while the run was under way

dashVars == << post, worker, status, request, reply, restarted >>

NoRequest == [at |-> "idle", status |-> "none"]

NoReply == [kind |-> "none", code |-> 0, status |-> "none", events |-> << >>,
            verdict |-> "none"]

DashInit ==
  /\ post = "none"
  /\ worker = "none"
  /\ status = "none"
  /\ request = NoRequest
  /\ reply = NoReply
  /\ restarted = FALSE

-----------------------------------------------------------------------------
(* start_run.                                                              *)

MakeRunDir ==
  /\ post = "none"
  /\ post' = "created"
  /\ UNCHANGED << worker, status, request, reply, restarted, runVars >>

\* RunConfig refuses the overrides: the directory stays, without a status.
RefuseConfig ==
  /\ post = "created"
  /\ post' = "refused"
  /\ UNCHANGED << worker, status, request, reply, restarted, runVars >>

WriteRunning ==
  /\ post = "created"
  /\ post' = "running"
  /\ status' = "RUNNING"
  /\ UNCHANGED << worker, request, reply, restarted, runVars >>

StartThread ==
  /\ post = "running"
  /\ post' = "started"
  /\ worker' = "run"
  /\ \E d \in Datas : Start("run", d)
  /\ UNCHANGED << status, request, reply, restarted >>

-----------------------------------------------------------------------------
(* worker.                                                                 *)

WorkerRuns ==
  /\ worker = "run"
  /\ CommandStep
  /\ UNCHANGED dashVars

EndState == IF outcome = "returned" THEN "FINISHED" ELSE "ERROR"

\* Mutant of WriteEnd: the last status is written after a result only.
WriteEndOfResult ==
  /\ worker = "run"
  /\ pc = "idle"
  /\ outcome = "returned"
  /\ worker' = "done"
  /\ status' = EndState
  /\ UNCHANGED << post, request, reply, restarted, runVars >>

\* The finally clause: the last status is written whatever happened.
WriteEnd ==
  /\ worker = "run"
  /\ pc = "idle"
  /\ worker' = "done"
  /\ status' = EndState
  /\ UNCHANGED << post, request, reply, restarted, runVars >>

\* The server dies: its daemon threads and requests with it.  A new server
\* finds the files and starts no thread for them.
ServerDies ==
  /\ post \in {"created", "running", "started"}
  /\ worker # "done"
  /\ ~restarted
  /\ restarted' = TRUE
  /\ post' = "gone"
  /\ worker' = "none"
  /\ request' = NoRequest
  /\ IF pc = "idle" THEN UNCHANGED runVars ELSE Kill
  /\ UNCHANGED << status, reply >>

-----------------------------------------------------------------------------
(* GET requests.                                                           *)

ReplyWith(r) == reply' = r /\ UNCHANGED << post, worker, status, restarted, runVars >>

ListRuns ==
  /\ request = NoRequest
  /\ ReplyWith([NoReply EXCEPT !.kind = "runs", !.code = 200, !.status = status])
  /\ UNCHANGED request

DetailNotFound ==
  /\ request = NoRequest
  /\ status = "none"
  /\ ReplyWith([NoReply EXCEPT !.kind = "detail", !.code = 404])
  /\ UNCHANGED request

\* run_detail reads the status and then the events.
DetailStatus ==
  /\ request = NoRequest
  /\ status # "none"
  /\ request' = [at |-> "events", status |-> status]
  /\ UNCHANGED << post, worker, status, reply, restarted, runVars >>

DetailReply(events) ==
  [NoReply EXCEPT !.kind = "detail", !.code = 200, !.status = request.status,
                  !.events = events]

DetailEvents ==
  /\ request.at = "events"
  /\ request' = NoRequest
  /\ ReplyWith(DetailReply(stages))

\* run_report: a missing file is a 404, a truncated one a 500.
GetReport ==
  /\ request = NoRequest
  /\ ReplyWith(
       IF torn["report"] # 0 THEN [NoReply EXCEPT !.kind = "report", !.code = 500]
       ELSE IF files["report"] = 0 THEN [NoReply EXCEPT !.kind = "report", !.code = 404]
       ELSE [NoReply EXCEPT !.kind = "report", !.code = 200, !.verdict = reported])
  /\ UNCHANGED request

Post == MakeRunDir \/ RefuseConfig \/ WriteRunning \/ StartThread
Get == ListRuns \/ DetailNotFound \/ DetailStatus \/ DetailEvents \/ GetReport

DashNext == Post \/ WorkerRuns \/ WriteEnd \/ ServerDies \/ Get

-----------------------------------------------------------------------------
(* Properties.                                                             *)

\* What a client is told is true of the run: a reply that shows FINISHED
\* shows the run's last event too, because the status is read before the
\* events and written after them; a FINISHED status has its report on disk,
\* whole and with the run's verdict; a report once served is that verdict
\* (server.py:155-170, 194-205).
RepliesTellTheRun ==
  /\ reply.kind = "detail" /\ reply.status = "FINISHED" =>
       reply.events # << >> /\ Last(reply.events) = "finished"
  /\ status = "FINISHED" => /\ files["report"] = 1 /\ torn["report"] = 0
                            /\ reported = verdict
                            /\ files["model_card"] = 1 /\ torn["model_card"] = 0
  /\ reply.kind = "report" /\ reply.code = 200 => reply.verdict = verdict

\* A run that was started is not RUNNING for ever, unless its server died
\* (server.py:166-170).
DashboardRunsEnd == status = "RUNNING" ~> (status # "RUNNING" \/ restarted)
=============================================================================
