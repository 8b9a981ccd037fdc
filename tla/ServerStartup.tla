---------------------------- MODULE ServerStartup ----------------------------
(***************************************************************************)
(* bench_server_startup.py: launch a server in a process group of its own, *)
(* poll /health and /v1/models until it is ready, it exits or the time is  *)
(* up, stop it, and report. The server runs, and may crash or hang, on its *)
(* own, and so does another one that may listen at the same URL; clocks    *)
(* are reduced to the choice of which timeout passes.                      *)
(***************************************************************************)

VARIABLES server,     \* the launched process, which leads its process group
          workers,    \* other processes of its group run
          reached,    \* the farthest the launched server got
          stranger,   \* another server at the same URL
          pc,         \* where the program is
          healthSeen, \* health_ns is set
          modelsSeen, \* models_ns is set
          error,      \* why the server did not become ready
          graceful,   \* graceful_shutdown
          outcome     \* "running", or how the program ended

worldVars == <<server, workers, reached, stranger>>
startupVars == <<worldVars, pc, healthSeen, modelsSeen, error, graceful, outcome>>

Alive == {"loading", "healthy", "ready", "hung"}

StartupInit ==
    /\ server = "none" /\ workers = FALSE /\ reached = "nothing"
    /\ stranger \in {"absent", "silent", "answering"}
    /\ pc = "precheck" /\ outcome = "running"
    /\ healthSeen = FALSE /\ modelsSeen = FALSE
    /\ error = "none" /\ graceful = "unset"

\* The server loads, listens, serves its models, hangs or exits; a signal is
\* only acted on in StopProcessGroup.
ServerStep ==
    /\ outcome = "running"
    /\ \/ server = "loading" /\ server' = "healthy" /\ reached' = "healthy"
       \/ server = "healthy" /\ server' = "ready" /\ reached' = "ready"
       \/ /\ server \in {"loading", "healthy", "ready"} /\ server' = "hung"
          /\ UNCHANGED reached
       \/ server \in Alive /\ server' = "exited" /\ UNCHANGED reached
    /\ UNCHANGED <<workers, stranger, pc, healthSeen, modelsSeen, error, graceful, outcome>>

\* It starts processes in its group; they end, or outlive it.
WorkersStep ==
    /\ outcome = "running"
    /\ \/ ~workers /\ server \in Alive /\ workers' = TRUE
       \/ workers /\ workers' = FALSE
    /\ UNCHANGED <<server, reached, stranger, pc, healthSeen, modelsSeen, error, graceful,
                   outcome>>

\* Another server at the URL may load, be overloaded, come and go.
StrangerStep ==
    /\ outcome = "running"
    /\ \/ stranger = "silent" /\ stranger' = "answering"
       \/ stranger = "answering" /\ stranger' = "silent"
    /\ UNCHANGED <<server, workers, reached, pc, healthSeen, modelsSeen, error, graceful,
                   outcome>>

Goto(where) ==
    /\ pc' = where
    /\ UNCHANGED <<worldVars, healthSeen, modelsSeen, error, graceful, outcome>>

EndAs(how) ==
    /\ pc' = "ended" /\ outcome' = how
    /\ UNCHANGED <<worldVars, healthSeen, modelsSeen, error, graceful>>

\* A cold start is refused when the URL answers; a server there that does not
\* answer in time, or not with a 2xx yet, goes unnoticed. Popen raises if there
\* is no such command.
Precheck ==
    /\ pc = "precheck"
    /\ \/ EndAs("refused")
       \/ /\ stranger # "answering"
          /\ pc' = "top" /\ server' = "loading"
          /\ UNCHANGED <<workers, reached, stranger, healthSeen, modelsSeen, error, graceful,
                         outcome>>

\* Mutant of LoopHead: the deadline ends the loop without an error.
LoopHeadForgettingDeadline ==
    /\ pc = "top"
    /\ \/ Goto("stop")
       \/ /\ server = "exited"
          /\ pc' = "stop" /\ error' = "exited"
          /\ UNCHANGED <<worldVars, healthSeen, modelsSeen, graceful, outcome>>
       \/ server # "exited" /\ Goto("health")

\* The head of the loop: the deadline (the while's else), then poll().
LoopHead ==
    /\ pc = "top"
    /\ \/ /\ pc' = "stop" /\ error' = "timeout"
          /\ UNCHANGED <<worldVars, healthSeen, modelsSeen, graceful, outcome>>
       \/ /\ server = "exited"
          /\ pc' = "stop" /\ error' = "exited"
          /\ UNCHANGED <<worldVars, healthSeen, modelsSeen, graceful, outcome>>
       \/ server # "exited" /\ Goto("health")

\* probe(): an answer, or False if the connection is refused or times out;
\* anything else, such as a connection reset, escapes. Whoever listens at the URL
\* answers: the launched server, a process of its group that serves for it, or
\* another server.
Answers(stages) ==
    \/ server \in stages
    \/ workers /\ reached \in stages
    \/ stranger = "answering"

ProbeEscapes == pc' = "abandon"

ProbeHealth ==
    /\ pc = "health"
    /\ \/ healthSeen' = TRUE /\ (healthSeen \/ Answers({"healthy", "ready"}))
          /\ pc' = "models"
       \/ ~healthSeen /\ pc' = "top" /\ UNCHANGED healthSeen
       \/ ~healthSeen /\ ProbeEscapes /\ UNCHANGED healthSeen
    /\ UNCHANGED <<worldVars, modelsSeen, error, graceful, outcome>>

ProbeModels ==
    /\ pc = "models"
    /\ \/ Answers({"ready"}) /\ modelsSeen' = TRUE /\ pc' = "stop"
       \/ pc' = "top" /\ UNCHANGED modelsSeen
       \/ ProbeEscapes /\ UNCHANGED modelsSeen
    /\ UNCHANGED <<worldVars, healthSeen, error, graceful, outcome>>

\* The finally clause stops the server, whether the loop ended or raised
\* ("abandon"). A leader that has exited gets no signal, nor does what is left of
\* its group. SIGTERM ends the leader, and whom it ends of the others is up to
\* them; SIGKILL, when the grace is over, ends all.
Stopping == pc \in {"stop", "abandon"}

StopProcessGroup ==
    /\ Stopping
    /\ \/ server = "exited" /\ graceful' = "yes" /\ UNCHANGED <<server, workers>>
       \/ /\ server \in Alive \ {"hung"} /\ server' = "exited" /\ graceful' = "yes"
          /\ \/ UNCHANGED workers
             \/ workers' = FALSE
       \/ server \in Alive /\ server' = "exited" /\ graceful' = "no" /\ workers' = FALSE
    /\ pc' = IF pc = "stop" THEN "report" ELSE "raise"
    /\ UNCHANGED <<reached, stranger, healthSeen, modelsSeen, error, outcome>>

\* A process that outlives SIGKILL by ten seconds makes wait() raise.
Unkillable ==
    /\ Stopping /\ server = "hung"
    /\ EndAs("raised")

\* The report is written whole, or the file cannot be written; an exception
\* that escaped a probe is raised again without a report.
WriteReport ==
    \/ pc = "report" /\ EndAs(IF error = "none" THEN "clean" ELSE "reported")
    \/ pc \in {"report", "raise"} /\ EndAs("raised")

StartupNext ==
    \/ ServerStep \/ WorkersStep \/ StrangerStep
    \/ Precheck \/ LoopHead \/ ProbeHealth \/ ProbeModels
    \/ StopProcessGroup \/ Unkillable \/ WriteReport

\* A report of a cold start says ready exactly if the models were seen, and only
\* after the health was, and has an error otherwise. It is about the server that
\* was started only if no other one listens at the URL: then that server, or its
\* group, did serve its models. However the program ends, the process it launched
\* is gone unless not even SIGKILL ended it, and a shutdown that was not graceful
\* leaves nothing of its group behind; after a graceful one, or the server's own
\* exit, the group's other processes may still run (main and stop_process_group
\* of bench_server_startup.py).
StartupIsHonest ==
    /\ outcome \in {"clean", "reported"} =>
          /\ server = "exited" /\ graceful # "unset"
          /\ (error = "none") <=> modelsSeen
          /\ modelsSeen => healthSeen
          /\ outcome = "clean" <=> modelsSeen
    /\ modelsSeen /\ stranger = "absent" => reached = "ready"
    /\ outcome # "running" => server \in {"none", "exited", "hung"}
    /\ graceful = "no" => server = "exited" /\ ~workers
=============================================================================
