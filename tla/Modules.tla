------------------------------ MODULE Modules ------------------------------
(***************************************************************************)
(* The life of the modules of the manager process.  Every service is a     *)
(* server object with up to two further timers, a worker and a monitoring; *)
(* a timer runs its job from a detached thread until its stop source is    *)
(* set.  The main thread boots all modules, then the threads of the HTTP   *)
(* server start, stop and restart modules on request, and after a signal   *)
(* the main thread stops what is running and leaves.  The module table of  *)
(* the database is the only thing these threads synchronise on.            *)
(*                                                                         *)
(* What a server does when it is constructed, initialised and shut down is *)
(* data: a script of commands.  A thread that executes server code is an   *)
(* actor with the list of commands it still has to carry out.              *)
(***************************************************************************)
EXTENDS Naturals, Sequences, SequencesExt

CONSTANTS
    Module,       \* the modules modelled, by name
    Client,       \* the threads of the manager's HTTP server
    RequestLists, \* the lists of modules a request may name
    MaxRequests   \* bound: how many requests the manager gets

VARIABLES
    row,      \* module table: name -> state and status ("none": no row yet)
    stopped,  \* timer -> has its stop source been requested to stop
    threads,  \* timer -> how many threads it has in each stage of DoWork
    todo,     \* actor -> the commands it still has to execute
    phase,    \* of the main thread: "init", "boot", "serve", "halt", "done"
    requests  \* how many requests have been accepted so far

vars == <<row, stopped, threads, todo, phase, requests>>

-----------------------------------------------------------------------------
(* The servers.  Commands: "spawn" starts a timer's thread, "stop" sets its *)
(* stop source, "state" writes the module's row.                            *)

spawn(timer) == <<"spawn", timer>>
stop(timer)  == <<"stop", timer>>
set(state)   == <<"state", state>>

S3Server == [construct  |-> <<spawn("monitoring")>>,
             initialize |-> <<spawn("worker"), set("RUNNING")>>,
             shutdown   |-> <<stop("monitoring"), set("STOPPED")>>]

SQSServer == [construct  |-> <<spawn("monitoring")>>,
              initialize |-> <<spawn("worker"), set("RUNNING")>>,
              shutdown   |-> <<stop("monitoring"), stop("worker"), set("STOPPED")>>]

SNSServer == [construct  |-> <<spawn("monitoring")>>,
              initialize |-> <<spawn("worker"), set("RUNNING")>>,
              shutdown   |-> <<stop("worker"), stop("monitoring"), set("STOPPED")>>]

LambdaServer == [construct  |-> <<set("RUNNING")>>,
                 initialize |-> <<spawn("monitoring"), spawn("worker")>>,
                 shutdown   |-> <<stop("monitoring"), stop("worker")>>]

TransferServer == [construct  |-> <<>>,
                   initialize |-> <<spawn("monitoring"), set("RUNNING")>>,
                   shutdown   |-> <<stop("monitoring"), set("STOPPED")>>]

CognitoServer == [construct  |-> <<>>,
                  initialize |-> <<spawn("monitoring"), set("RUNNING")>>,
                  shutdown   |-> <<stop("monitoring"), set("STOPPED")>>]

DynamoDbServer == [construct  |-> <<spawn("monitoring"), spawn("worker")>>,
                   initialize |-> <<set("RUNNING")>>,
                   shutdown   |-> <<stop("monitoring"), set("STOPPED")>>]

KMSServer == [construct  |-> <<spawn("monitoring"), spawn("worker")>>,
              initialize |-> <<set("RUNNING")>>,
              shutdown   |-> <<stop("worker"), stop("monitoring"), set("STOPPED")>>]

SecretsManagerServer == [construct  |-> <<>>,
                         initialize |-> <<spawn("monitoring"), set("RUNNING")>>,
                         shutdown   |-> <<set("STOPPED"), stop("monitoring")>>]

Server == [s3 |-> S3Server, sqs |-> SQSServer, sns |-> SNSServer, lambda |-> LambdaServer,
           transfer |-> TransferServer, cognito |-> CognitoServer,
           dynamodb |-> DynamoDbServer, kms |-> KMSServer,
           secretsmanager |-> SecretsManagerServer]

ASSUME ModulesAssumption ==
    /\ Module \subseteq DOMAIN Server
    /\ RequestLists \subseteq Seq(Module)
    /\ "manager" \notin Client
    /\ MaxRequests \in Nat

Part  == {"server", "worker", "monitoring"}
Timer == Module \X Part
Stage == {"sleep", "due", "run"}

(* The timers a server ever starts: its own thread and those of its scripts. *)
Parts(m) == {"server"} \cup
            {p \in Part : \/ Contains(Server[m].construct, spawn(p))
                          \/ Contains(Server[m].initialize, spawn(p))}

-----------------------------------------------------------------------------
(* Scripts, with the module they are about: lists of <<module, op, arg>>.   *)

For(m, script) == [i \in DOMAIN script |-> <<m>> \o script[i]]

(* KMSServer::Initialize asks for the status of "sns" instead of its own;    *)
(* every row has the status "ACTIVE", so the answer is the same.             *)
IsActive(m) == row[m].status = "ACTIVE"

(* Shutdown of the servers; before it, the mutants that forget a timer, as   *)
(* S3Server does with its worker.                                            *)
ForgetsWorker(m) == For(m, SelectSeq(Server[m].shutdown, LAMBDA c : c # stop("worker")))
ForgetsMonitoring(m) == For(m, SelectSeq(Server[m].shutdown, LAMBDA c : c # stop("monitoring")))
Shutdown(m) == For(m, Server[m].shutdown)

(* Timer::Start: Initialize, then a detached thread on the timer's one and   *)
(* only stop source.                                                         *)
ForgetsSetRunning(m) == For(m, SelectSeq(Server[m].initialize, LAMBDA c : c # set("RUNNING")))
Initialize(m) == For(m, Server[m].initialize)

Start(m) == Initialize(m) \o <<<<m, "spawn", "server">>>>

(* Timer::Stop. *)
Stop(m) == Shutdown(m) \o <<<<m, "stop", "server">>>>

(* The requests of the manager's PUT handler, one command per module and    *)
(* list; ModuleService reads the row when it gets there.                    *)
ForEach(list, op) == [i \in DOMAIN list |-> <<list[i], op, "module">>]
Kind == {"start-modules", "stop-modules", "restart-modules"}
Request(kind, list) ==
    CASE kind = "start-modules"   -> ForEach(list, "start")
      [] kind = "stop-modules"    -> ForEach(list, "halt")
      [] kind = "restart-modules" -> ForEach(list, "halt") \o ForEach(list, "start")

-----------------------------------------------------------------------------
Actor == Client \cup {"manager"}

Idle(a) == todo[a] = <<>>

Init ==
    /\ row = [m \in Module |-> [state |-> "none", status |-> "none"]]
    /\ stopped = [t \in Timer |-> FALSE]
    /\ threads = [t \in Timer |-> [s \in Stage |-> 0]]
    /\ todo = [a \in Actor |-> <<>>]
    /\ phase = "init"
    /\ requests = 0

(* Manager::StartModules.  ModuleDatabase::Initialize is never called, so in *)
(* a fresh database no row exists: all of them are created, with the status  *)
(* ACTIVE, whatever the configuration says; the configuration can only set   *)
(* the same status again.  The table is ordered by a random id.              *)
CreatesInactive(m) == "INACTIVE"
StatusAtBoot(m) == "ACTIVE"
Boot ==
    /\ phase = "init"
    /\ row' = [m \in Module |-> [state |-> "STOPPED", status |-> StatusAtBoot(m)]]
    /\ \E modules \in SetToSeqs(Module) :
           todo' = [todo EXCEPT !["manager"] = ForEach(modules, "boot")]
    /\ phase' = "boot"
    /\ UNCHANGED <<stopped, threads, requests>>

(* The loop body of Manager::StartModules: construct the server, start it.   *)
BootModule(a, m, rest) ==
    /\ todo' = [todo EXCEPT ![a] =
           (IF IsActive(m) THEN For(m, Server[m].construct) \o Start(m) ELSE <<>>) \o rest]
    /\ UNCHANGED <<row, stopped, threads>>

(* The loop body of ModuleService::StartModules.  The row is read, then      *)
(* written; there is no branch for the secrets manager.                      *)
StartsAnyState(m) == TRUE
NeedsStart(m) == row[m].state # "RUNNING"
StartBranch(m) == IF m = "secretsmanager" THEN <<>> ELSE Start(m)
StartModule(a, m, rest) ==
    /\ todo' = [todo EXCEPT ![a] =
           (IF NeedsStart(m) THEN <<<<m, "state", "RUNNING">>>> \o StartBranch(m) ELSE <<>>) \o rest]
    /\ UNCHANGED <<row, stopped, threads>>

(* The loop body of ModuleService::StopModules.                              *)
Halt(m) == <<<<m, "state", "STOPPED">>>> \o Stop(m)
StopModule(a, m, rest) ==
    /\ todo' = [todo EXCEPT ![a] = (IF row[m].state = "RUNNING" THEN Halt(m) ELSE <<>>) \o rest]
    /\ UNCHANGED <<row, stopped, threads>>

(* The loop body of Manager::StopModules, for a module the list says is      *)
(* running; nobody reads its row again.                                      *)
CloseModule(a, m, rest) ==
    /\ todo' = [todo EXCEPT ![a] = Halt(m) \o rest]
    /\ UNCHANGED <<row, stopped, threads>>

(* ModuleMemoryDb::SetState, under the mutex of the module table.            *)
SetState(a, m, state, rest) ==
    /\ row' = [row EXCEPT ![m].state = state]
    /\ todo' = [todo EXCEPT ![a] = rest]
    /\ UNCHANGED <<stopped, threads>>

(* The end of Timer::Start: a new thread enters DoWork.                      *)
Spawn(a, t, rest) ==
    /\ threads' = [threads EXCEPT ![t]["sleep"] = @ + 1]
    /\ todo' = [todo EXCEPT ![a] = rest]
    /\ UNCHANGED <<row, stopped>>

(* The end of Timer::Stop.  Nothing ever takes this back.                    *)
RequestStop(a, t, rest) ==
    /\ stopped' = [stopped EXCEPT ![t] = TRUE]
    /\ todo' = [todo EXCEPT ![a] = rest]
    /\ UNCHANGED <<row, threads>>

(* One step of an actor.                                                     *)
Step(a) ==
    /\ ~Idle(a)
    /\ LET m == Head(todo[a])[1]
           op == Head(todo[a])[2]
           arg == Head(todo[a])[3]
           rest == Tail(todo[a])
       IN \/ op = "boot"  /\ BootModule(a, m, rest)
          \/ op = "start" /\ StartModule(a, m, rest)
          \/ op = "halt"  /\ StopModule(a, m, rest)
          \/ op = "close" /\ CloseModule(a, m, rest)
          \/ op = "state" /\ SetState(a, m, arg, rest)
          \/ op = "spawn" /\ Spawn(a, <<m, arg>>, rest)
          \/ op = "stop"  /\ RequestStop(a, <<m, arg>>, rest)
    /\ UNCHANGED <<phase, requests>>

(* Manager::Run: the listener accepts requests only when the boot is over.   *)
Serve ==
    /\ phase = "boot" /\ Idle("manager")
    /\ phase' = "serve"
    /\ UNCHANGED <<row, stopped, threads, todo, requests>>

Accept(c) ==
    /\ phase = "serve" /\ Idle(c) /\ requests < MaxRequests
    /\ \E kind \in Kind, list \in RequestLists :
           todo' = [todo EXCEPT ![c] = Request(kind, list)]
    /\ requests' = requests + 1
    /\ UNCHANGED <<row, stopped, threads, phase>>

(* SIGINT or SIGTERM stops the io_context: no further handler starts.  The   *)
(* main thread lists the modules and stops those the list says are running,  *)
(* while the other threads finish the handlers they are in.                  *)
Signal ==
    /\ phase = "serve"
    /\ \E modules \in SetToSeqs({m \in Module : row[m].state = "RUNNING"}) :
           todo' = [todo EXCEPT !["manager"] = ForEach(modules, "close")]
    /\ phase' = "halt"
    /\ UNCHANGED <<row, stopped, threads, requests>>

(* The main thread joins the threads of the HTTP server and returns, which   *)
(* destroys the servers and with them the timers.                            *)
LeavesAtOnce == TRUE
Joined == \A c \in Client : Idle(c)
Leave ==
    /\ phase = "halt" /\ Idle("manager") /\ Joined
    /\ phase' = "done"
    /\ UNCHANGED <<row, stopped, threads, todo, requests>>

-----------------------------------------------------------------------------
(* Timer::DoWork.  A thread sleeps a second at a time; when it wakes it ends *)
(* if the stop source is set, and when enough seconds have passed it runs    *)
(* the timer's job.                                                          *)

move(t, from, to) == [threads EXCEPT ![t][from] = @ - 1, ![t][to] = @ + 1]

NeverLooks(t) == FALSE
StopSeen(t) == stopped[t]

End(t) ==
    /\ threads[t]["sleep"] > 0 /\ StopSeen(t)
    /\ threads' = [threads EXCEPT ![t]["sleep"] = @ - 1]
    /\ UNCHANGED <<row, stopped, todo, phase, requests>>

Awake(t) ==
    /\ threads[t]["sleep"] > 0 /\ ~StopSeen(t)
    /\ threads' = move(t, "sleep", "due")
    /\ UNCHANGED <<row, stopped, todo, phase, requests>>

Run(t) ==
    /\ threads[t]["due"] > 0
    /\ threads' = move(t, "due", "run")
    /\ UNCHANGED <<row, stopped, todo, phase, requests>>

RunEnds(t) ==
    /\ threads[t]["run"] > 0
    /\ threads' = move(t, "run", "sleep")
    /\ UNCHANGED <<row, stopped, todo, phase, requests>>

-----------------------------------------------------------------------------
Next ==
    \/ Boot
    \/ Serve
    \/ Signal
    \/ Leave
    \/ \E c \in Client : Accept(c)
    \/ \E a \in Actor : Step(a)
    \/ \E t \in Timer : End(t) \/ Awake(t) \/ Run(t) \/ RunEnds(t)

Spec == Init /\ [][Next]_vars

(* The operating system runs every thread that can run, and every job ends.  *)
(* No client has to send anything and no signal has to come.                 *)
FairSpec ==
    /\ Spec
    /\ WF_vars(Boot) /\ WF_vars(Serve) /\ WF_vars(Leave)
    /\ \A a \in Actor : WF_vars(Step(a))
    /\ \A t \in Timer : WF_vars(End(t)) /\ WF_vars(Awake(t)) /\ WF_vars(Run(t)) /\ WF_vars(RunEnds(t))

-----------------------------------------------------------------------------
(* Properties.                                                               *)

Total(t) == threads[t]["sleep"] + threads[t]["due"] + threads[t]["run"]

(* No actor has a command about the module left.                             *)
Settled(m) == \A a \in Actor : \A i \in DOMAIN todo[a] : todo[a][i][1] # m

Command == (Module \X {"boot", "start", "halt", "close"} \X {"module"})
           \cup (Module \X {"spawn", "stop"} \X Part)
           \cup (Module \X {"state"} \X {"RUNNING", "STOPPED"})

TypeOK ==
    /\ row \in [Module -> [state : {"none", "STOPPED", "RUNNING"}, status : {"none", "ACTIVE"}]]
    /\ stopped \in [Timer -> BOOLEAN]
    /\ threads \in [Timer -> [Stage -> Nat]]
    /\ todo \in [Actor -> Seq(Command)]
    /\ phase \in {"init", "boot", "serve", "halt", "done"}
    /\ requests \in 0..MaxRequests

(* When the manager begins to accept requests every module is RUNNING in the *)
(* table and each of its timers has its thread (Manager::StartModules with   *)
(* the constructors and Initialize of all servers).                          *)
BootBringsModulesUp ==
    [][phase = "boot" /\ phase' = "serve" =>
           \A m \in Module : /\ row'[m].state = "RUNNING"
                             /\ \A p \in Parts(m) : Total(<<m, p>>) = 1]_vars

(* Whatever requests overlapped, a module that is settled and has never been *)
(* stopped has exactly one thread per timer: starting what is RUNNING does   *)
(* nothing, and two starts can only meet on a module somebody stopped        *)
(* (ModuleService::StartModules).                                            *)
OneThreadWhileUp ==
    \A m \in Module :
        phase # "boot" /\ phase # "init" /\ Settled(m) /\ ~stopped[<<m, "server">>] =>
            \A p \in Parts(m) : ~stopped[<<m, p>>] /\ Total(<<m, p>>) = 1

(* A settled module whose row says STOPPED has every timer stopped, although *)
(* the row is written before the timers are stopped, by several threads      *)
(* (ModuleService::StopModules, the Shutdown of the servers).                *)
StoppedModuleIsQuiet ==
    \A m \in Module :
        phase # "boot" /\ Settled(m) /\ row[m].state = "STOPPED" =>
            \A p \in Parts(m) : stopped[<<m, p>>]

(* When the process leaves, no timer was forgotten: although the list of     *)
(* running modules may be old when it is used, what it misses is being       *)
(* stopped by a request the main thread waits for (Manager::StopModules and  *)
(* the join in Manager::Run).                                                *)
HaltStopsEveryTimer ==
    phase = "done" => \A m \in Module : \A p \in Parts(m) : stopped[<<m, p>>]

(* All threads of a timer whose stop source is set end (Timer::DoWork), also *)
(* those that were started after the stop.                                   *)
StoppedTimersEnd == \A t \in Timer : stopped[t] ~> Total(t) = 0

(* What the documentation says and the code does not do. *)

(* "restarts the given module": a settled module whose row says RUNNING has  *)
(* timers that have not been stopped.                                        *)
RunningModuleWorks ==
    \A m \in Module :
        phase = "serve" /\ Settled(m) /\ row[m].state = "RUNNING" =>
            \A p \in Parts(m) : ~stopped[<<m, p>>]
=============================================================================
