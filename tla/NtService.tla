----------------------------- MODULE NtService -----------------------------
(***************************************************************************)
(* A KS server as a Windows service (ntservice.cpp).  Three threads share  *)
(* the service status: the one in serviceMain(), which creates and deletes *)
(* the server object, the workhorse in serviceRun(), which starts, runs    *)
(* and stops it again and again, and the one in which the service manager  *)
(* calls serviceController() with one request after the other.             *)
(***************************************************************************)
EXTENDS Naturals

CONSTANTS
    EarlyControls,   \* whether requests also come while the server is being started
    StopsByItself    \* whether the server object may end its run() of its own accord

VARIABLES
    dwCurrentState,  \* what the service manager was last told
    _my_server,          \* the server object: "none", "idle", "started" or "deleted"
    shutdown_flag,
    service_done,    \* the two events, which reset themselves
    one_shot,
    serviceMain,     \* where each thread is; the controller with its request,
    serviceRun,      \* the workhorse with the state it read
    controller

serviceVars == <<dwCurrentState, _my_server, shutdown_flag, service_done, one_shot,
                 serviceMain, serviceRun, controller>>

myServerVars == <<_my_server, shutdown_flag>>
signalVars == <<service_done, one_shot>>

Standing(pc) == [at |-> pc, state |-> "none"]
ServiceRequests == {"STOP", "PAUSE", "CONTINUE"}
NoControl == [at |-> "idle", request |-> "none"]

ServiceInit ==
    /\ dwCurrentState = "START_PENDING"
    /\ _my_server = "none" /\ shutdown_flag = FALSE
    /\ service_done = FALSE /\ one_shot = FALSE
    /\ serviceMain = "create" /\ serviceRun = Standing("none") /\ controller = NoControl

reportServiceStatus(state) == dwCurrentState' = state

-----------------------------------------------------------------------------
\* serviceMain()

MainGoes(from, to) ==
    /\ serviceMain = from /\ serviceMain' = to
    /\ UNCHANGED controller

\* Neither a failure here nor one to start the thread is reported.
mainCreates ==
    /\ UNCHANGED <<dwCurrentState, shutdown_flag, signalVars, serviceRun>>
    /\ \/ MainGoes("create", "begin") /\ _my_server' = "idle"
       \/ MainGoes("create", "failed") /\ UNCHANGED _my_server

mainBegins ==
    /\ UNCHANGED <<dwCurrentState, myServerVars, signalVars>>
    /\ \/ MainGoes("begin", "report") /\ serviceRun' = Standing("spinup")
       \/ MainGoes("begin", "failed") /\ UNCHANGED serviceRun

mainReports ==
    /\ MainGoes("report", "wait")
    /\ reportServiceStatus("RUNNING")
    /\ UNCHANGED <<myServerVars, signalVars, serviceRun>>

mainWaits ==
    /\ MainGoes("wait", "terminate")
    /\ service_done /\ service_done' = FALSE
    /\ UNCHANGED <<dwCurrentState, myServerVars, one_shot, serviceRun>>

mainTerminates ==
    /\ MainGoes("terminate", "delete")
    /\ serviceRun' = Standing("terminated")
    /\ UNCHANGED <<dwCurrentState, myServerVars, signalVars>>

mainDeletes ==
    /\ MainGoes("delete", "stopped")
    /\ _my_server' = "deleted"
    /\ UNCHANGED <<dwCurrentState, shutdown_flag, signalVars, serviceRun>>

mainEnds ==
    /\ MainGoes("stopped", "ended")
    /\ reportServiceStatus("STOPPED")
    /\ UNCHANGED <<myServerVars, signalVars, serviceRun>>

MainStep == mainCreates \/ mainBegins \/ mainReports \/ mainWaits \/ mainTerminates
        \/ mainDeletes \/ mainEnds

-----------------------------------------------------------------------------
\* serviceRun()

RunGoes(from, to) ==
    /\ serviceRun.at = from /\ serviceRun' = Standing(to)
    /\ UNCHANGED <<serviceMain, controller>>

\* reportServiceStatus(currentServiceStatus(), ...): reads first, then writes.
ReadState(from, to) ==
    /\ serviceRun.at = from
    /\ serviceRun' = [at |-> to, state |-> dwCurrentState]
    /\ UNCHANGED <<dwCurrentState, myServerVars, signalVars, serviceMain, controller>>

WriteState(from, to) ==
    /\ RunGoes(from, to)
    /\ reportServiceStatus(serviceRun.state)
    /\ UNCHANGED <<myServerVars, signalVars>>

runStarts ==
    /\ RunGoes("start", "started")
    /\ _my_server' = "started"
    /\ UNCHANGED <<dwCurrentState, shutdown_flag, signalVars>>

runReports ==
    /\ RunGoes("started", "run")
    /\ reportServiceStatus("RUNNING")
    /\ UNCHANGED <<myServerVars, signalVars>>

runResets ==
    /\ RunGoes("run", "running")
    /\ shutdown_flag' = FALSE
    /\ UNCHANGED <<dwCurrentState, _my_server, signalVars>>

runEnds ==
    /\ RunGoes("running", "spindown")
    /\ shutdown_flag \/ StopsByItself
    /\ UNCHANGED <<dwCurrentState, myServerVars, signalVars>>

runStops ==
    /\ RunGoes("stop", "down")
    /\ _my_server' = "idle"
    /\ UNCHANGED <<dwCurrentState, shutdown_flag, signalVars>>

\* Slip: only the event, or nobody waits for it.
runReportsDown_Sleep ==
    /\ RunGoes("down", "sleep")
    /\ reportServiceStatus(IF dwCurrentState = "STOP_PENDING" THEN "STOP_PENDING" ELSE "PAUSED")
    /\ UNCHANGED <<myServerVars, signalVars>>

\* The service manager has no state SERVICE_STOP: it is one of its access rights.
runReportsDown ==
    /\ RunGoes("down", IF dwCurrentState = "STOP_PENDING" THEN "done" ELSE "sleep")
    /\ reportServiceStatus(CASE dwCurrentState = "STOP_PENDING" -> "STOP_PENDING"
                             [] dwCurrentState = "PAUSE_PENDING" -> "PAUSED"
                             [] OTHER -> "SERVICE_STOP")
    /\ UNCHANGED <<myServerVars, signalVars>>

runSignals ==
    /\ RunGoes("done", "sleep")
    /\ service_done' = TRUE
    /\ UNCHANGED <<dwCurrentState, myServerVars, one_shot>>

runWakes ==
    /\ RunGoes("sleep", "spinup")
    /\ one_shot /\ one_shot' = FALSE
    /\ UNCHANGED <<dwCurrentState, myServerVars, service_done>>

RunStep == \/ ReadState("spinup", "report") \/ WriteState("report", "start")
       \/ runStarts \/ runReports \/ runResets \/ runEnds
       \/ ReadState("spindown", "reportdown") \/ WriteState("reportdown", "stop")
       \/ runStops \/ runReportsDown \/ runSignals \/ runWakes

-----------------------------------------------------------------------------
\* serviceController()

ControllerGoes(to) ==
    /\ controller' = to
    /\ UNCHANGED <<serviceMain, serviceRun>>

\* No thread is about to report a server as running, or to forget a shutdown.
UpOrDown ==
    /\ serviceMain # "report"
    /\ serviceRun.at \notin {"none", "spinup", "report", "start", "started", "run"}

\* Nothing is accepted in START_PENDING, and a stopped service is not asked.
controlArrives(r) ==
    /\ controller.at = "idle"
    /\ dwCurrentState \notin {"START_PENDING", "STOPPED"}
    /\ EarlyControls \/ UpOrDown
    /\ ControllerGoes([at |-> "look", request |-> r])
    /\ UNCHANGED <<dwCurrentState, myServerVars, signalVars>>

\* What is reported and then done about a request in a state; nothing, mostly.
ControlAnswer(r, state) ==
    CASE r = "STOP" /\ state = "RUNNING" -> <<"STOP_PENDING", "down">>
      [] r = "STOP" /\ state = "PAUSED" -> <<"STOP_PENDING", "done">>
      [] r = "PAUSE" /\ state = "RUNNING" -> <<"PAUSE_PENDING", "down">>
      [] r = "CONTINUE" /\ state = "PAUSED" -> <<"CONTINUE_PENDING", "shot">>
      [] OTHER -> <<state, "idle">>

controlLooks ==
    /\ controller.at = "look" /\ (EarlyControls \/ UpOrDown)
    /\ LET answer == ControlAnswer(controller.request, dwCurrentState) IN
       /\ reportServiceStatus(answer[1])
       /\ ControllerGoes([controller EXCEPT !.at = answer[2]])
    /\ UNCHANGED <<myServerVars, signalVars>>

controlDowns ==
    /\ controller.at = "down" /\ (EarlyControls \/ UpOrDown)
    /\ shutdown_flag' = TRUE
    /\ ControllerGoes(NoControl)
    /\ UNCHANGED <<dwCurrentState, _my_server, signalVars>>

controlSignals ==
    /\ controller.at \in {"done", "shot"}
    /\ service_done' = (service_done \/ controller.at = "done")
    /\ one_shot' = (one_shot \/ controller.at = "shot")
    /\ ControllerGoes(NoControl)
    /\ UNCHANGED <<dwCurrentState, myServerVars>>

ControlStep == controlLooks \/ controlDowns \/ controlSignals

ServiceNext == MainStep \/ RunStep \/ ControlStep \/ \E r \in ServiceRequests : controlArrives(r)

\* The operating system runs every thread; nobody has to ask anything.
ServiceFairness == WF_serviceVars(MainStep) /\ WF_serviceVars(RunStep) /\ WF_serviceVars(ControlStep)
ServiceSpec == ServiceInit /\ [][ServiceNext]_serviceVars /\ ServiceFairness

-----------------------------------------------------------------------------
\* Properties

\* The server object is not used after it was deleted, and the workhorse is
\* killed only while it sleeps, when the server object is not started.
ServerIsSafe ==
    /\ _my_server = "deleted" => controller.at # "down" /\ serviceRun.at = "terminated"
    /\ serviceMain = "terminate" => serviceRun.at = "sleep" /\ _my_server = "idle"

\* A request that was taken is carried out: a pending state ends in the state it
\* announces, in whatever order the threads go on.
RequestsAreCarriedOut ==
    /\ [] ServerIsSafe
    /\ dwCurrentState = "STOP_PENDING" ~> dwCurrentState = "STOPPED"
    /\ dwCurrentState = "PAUSE_PENDING" ~> dwCurrentState = "PAUSED"
    /\ dwCurrentState = "CONTINUE_PENDING" ~> dwCurrentState = "RUNNING"
=============================================================================
