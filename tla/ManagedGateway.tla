--------------------------- MODULE ManagedGateway ---------------------------
(***************************************************************************)
(* `vartma start` and `vartma stop` (apps/cli/src/process-manager.ts) and  *)
(* the detached gateway they manage: `vartma serve` (index.ts), which      *)
(* builds the adapters (runtime.ts), opens the database and takes the port *)
(* (server.ts).                                                            *)
(*                                                                         *)
(* The state file names a process ID and an instance token.  Each step of  *)
(* a command that waits for a file, for the health endpoint or for time is *)
(* an action, so commands, processes and the reuse of process IDs          *)
(* interleave between them.  `serve` has no handler for SIGTERM: a         *)
(* signalled process is dying until the system has ended it.               *)
(*                                                                         *)
(* disturbed and lapsed are history variables.                             *)
(***************************************************************************)
EXTENDS Naturals

CONSTANTS
    Command,    \* processes of the command line that may overlap
    Pid,        \* process IDs the system gives out
    Missing,    \* no state file
    MaxSpawns,  \* bound on the gateways that are spawned
    MaxOthers   \* bound on the processes of other programs

VARIABLES
    state,     \* the state file beside the configuration
    proc,      \* what runs under each process ID
    cmd,       \* where each command is
    spawned,   \* instance tokens given out; 0 is no token
    others,    \* processes of other programs so far
    disturbed, \* a start overlapped another command, a command crashed, or the
               \* health endpoint of a live gateway did not answer in time
    lapsed     \* commands about to signal a process that ended after it answered

vars == <<state, proc, cmd, spawned, others, disturbed, lapsed>>

Token == 0 .. MaxSpawns

Named == [pid : Pid, id : Token]

ASSUME GatewayAssumption ==
    /\ MaxSpawns \in Nat
    /\ MaxOthers \in Nat
    /\ Missing \notin Named

Booting == {"boot", "database", "listen"}

Gateway == [is : {"gateway"}, id : Token, phase : Booting \cup {"serving"}, dying : BOOLEAN]

Dead == [is |-> "dead"]

Stranger == [is |-> "stranger"]

Fresh(id) == [is |-> "gateway", id |-> id, phase |-> "boot", dying |-> FALSE]

Idle == [at |-> "idle"]

StartPhase == {"read", "probe", "unlink", "spawn", "write", "wait", "cleanup", "forget"}

StopPhase == {"stopRead", "gone", "ask", "kill", "poll", "done"}

(* The phases of a command that looks at no process. *)
Alone == {"idle", "read", "unlink", "spawn", "stopRead"}

Cmd ==
    [at : Alone] \cup [at : (StartPhase \cup StopPhase) \ Alone, pid : Pid, id : Token]

TypeOK ==
    /\ state \in Named \cup {Missing}
    /\ proc \in [Pid -> Gateway \cup {Dead, Stranger}]
    /\ cmd \in [Command -> Cmd]
    /\ spawned \in Token
    /\ others \in 0 .. MaxOthers
    /\ disturbed \in BOOLEAN
    /\ lapsed \subseteq Command

Init ==
    /\ state = Missing
    /\ proc = [p \in Pid |-> Dead]
    /\ cmd = [c \in Command |-> Idle]
    /\ spawned = 0
    /\ others = 0
    /\ disturbed = FALSE
    /\ lapsed = {}

-----------------------------------------------------------------------------
processExists(p) == proc[p] # Dead

IsGateway(p) == proc[p].is = "gateway"

(* The processes that may hold the port. *)
Bound == {p \in Pid : IsGateway(p) /\ proc[p].phase = "serving"}

Serving == {p \in Bound : ~proc[p].dying}

(* What the health endpoint may answer about an instance.  One process has *)
(* the port; a signalled one may still answer or not, a slow one time out. *)
Answers(id) == {FALSE} \cup {proc[p].id = id : p \in Bound}

(* The answer to a question about the process that command c looks at.     *)
Owns(c, answer) ==
    /\ answer \in Answers(cmd[c].id)
    /\ disturbed' = (disturbed \/ (~answer /\ \E p \in Serving : proc[p].id = cmd[c].id))

Go(c, phase) == cmd' = [cmd EXCEPT ![c].at = phase]

End(c) == cmd' = [cmd EXCEPT ![c] = Idle]

(* The system may give out any process ID that nothing has, the one of a   *)
(* gateway that has just answered too.                                     *)
Free(p) == ~processExists(p)

(* SIGTERM to whatever runs under p. *)
Signalled(p) ==
    IF IsGateway(p) THEN [proc EXCEPT ![p].dying = TRUE] ELSE [proc EXCEPT ![p] = Dead]

-----------------------------------------------------------------------------
(* start *)

Starting == {c \in Command : cmd[c].at \in StartPhase}

Begin(c, phase) ==
    /\ cmd[c] = Idle
    /\ cmd' = [cmd EXCEPT ![c] = [at |-> phase]]
    /\ disturbed' =
        (\/ disturbed
         \/ Starting # {}
         \/ phase \in StartPhase /\ \E d \in Command : cmd[d] # Idle)
    /\ UNCHANGED <<state, proc, spawned, others>>

Start(c) == spawned < MaxSpawns /\ Begin(c, "read")

(* A state whose process is gone is stale at once. *)
ReadStart(c) ==
    /\ cmd[c].at = "read"
    /\ cmd' = [cmd EXCEPT ![c] =
                  IF state = Missing THEN [at |-> "spawn"]
                  ELSE IF ~processExists(state.pid) THEN [at |-> "unlink"]
                  ELSE [at |-> "probe", pid |-> state.pid, id |-> state.id]]
    /\ UNCHANGED <<state, proc, spawned, others, disturbed>>

(* The gateway runs already, or the state is not its own. *)
Probe(c) ==
    /\ cmd[c].at = "probe"
    /\ \E answer \in BOOLEAN :
        /\ Owns(c, answer)
        /\ IF answer THEN End(c) ELSE cmd' = [cmd EXCEPT ![c] = [at |-> "unlink"]]
    /\ UNCHANGED <<state, proc, spawned, others>>

Unlink(c) ==
    /\ cmd[c].at = "unlink"
    /\ state' = Missing
    /\ Go(c, "spawn")
    /\ UNCHANGED <<proc, spawned, others, disturbed>>

Spawn(c) ==
    /\ cmd[c].at = "spawn"
    /\ IF spawned < MaxSpawns /\ \E p \in Pid : Free(p)
       THEN \E p \in {q \in Pid : Free(q)} :
              /\ proc' = [proc EXCEPT ![p] = Fresh(spawned + 1)]
              /\ spawned' = spawned + 1
              /\ cmd' = [cmd EXCEPT ![c] = [at |-> "write", pid |-> p, id |-> spawned + 1]]
       ELSE End(c) /\ UNCHANGED <<proc, spawned>>
    /\ UNCHANGED <<state, others, disturbed>>

(* The state file is only created: one that exists ends the command, and   *)
(* the child is left to itself.                                            *)
WriteState(c) ==
    /\ cmd[c].at = "write"
    /\ IF state = Missing
       THEN state' = [pid |-> cmd[c].pid, id |-> cmd[c].id] /\ Go(c, "wait")
       ELSE End(c) /\ UNCHANGED state
    /\ UNCHANGED <<proc, spawned, others, disturbed>>

(* One turn of waitForInstance.                                            *)
Wait(c) ==
    /\ cmd[c].at = "wait"
    /\ IF ~processExists(cmd[c].pid)
       THEN Go(c, "cleanup") /\ UNCHANGED disturbed
       ELSE \E answer \in BOOLEAN :
              Owns(c, answer) /\ IF answer THEN End(c) ELSE UNCHANGED cmd
    /\ UNCHANGED <<state, proc, spawned, others>>

StartTimeout(c) ==
    /\ cmd[c].at = "wait"
    /\ Go(c, "cleanup")
    /\ UNCHANGED <<state, proc, spawned, others, disturbed>>

(* Mutant: a start that gives up leaves the process. *)
CleanupStateOnly(c) ==
    /\ cmd[c].at = "cleanup"
    /\ Go(c, "forget")
    /\ UNCHANGED <<state, proc, spawned, others, disturbed>>

Cleanup(c) ==
    /\ cmd[c].at = "cleanup"
    /\ proc' = IF processExists(cmd[c].pid) THEN Signalled(cmd[c].pid) ELSE proc
    /\ Go(c, "forget")
    /\ UNCHANGED <<state, spawned, others, disturbed>>

(* start and stop remove the state file whatever it names by then.         *)
Forget(c) ==
    /\ cmd[c].at \in {"forget", "gone", "done"}
    /\ state' = Missing
    /\ End(c)
    /\ UNCHANGED <<proc, spawned, others, disturbed>>

-----------------------------------------------------------------------------
(* stop *)

Stop(c) == Begin(c, "stopRead")

(* Mutant: a process that exists is taken for the gateway. *)
ReadStopTrusting(c) ==
    /\ cmd[c].at = "stopRead"
    /\ cmd' = [cmd EXCEPT ![c] =
                  IF state = Missing THEN Idle
                  ELSE [at  |-> IF processExists(state.pid) THEN "kill" ELSE "gone",
                        pid |-> state.pid, id |-> state.id]]
    /\ UNCHANGED <<state, proc, spawned, others, disturbed>>

ReadStop(c) ==
    /\ cmd[c].at = "stopRead"
    /\ cmd' = [cmd EXCEPT ![c] =
                  IF state = Missing THEN Idle
                  ELSE [at  |-> IF processExists(state.pid) THEN "ask" ELSE "gone",
                        pid |-> state.pid, id |-> state.id]]
    /\ UNCHANGED <<state, proc, spawned, others, disturbed>>

(* A token that does not match ends the command; the state stays.          *)
Ask(c) ==
    /\ cmd[c].at = "ask"
    /\ \E answer \in BOOLEAN :
        Owns(c, answer) /\ IF answer THEN Go(c, "kill") ELSE End(c)
    /\ UNCHANGED <<state, proc, spawned, others>>

(* A process that has gone since makes kill throw; one that has its        *)
(* process ID since is signalled in its place.                             *)
Kill(c) ==
    /\ cmd[c].at = "kill"
    /\ IF processExists(cmd[c].pid)
       THEN proc' = Signalled(cmd[c].pid) /\ Go(c, "poll")
       ELSE End(c) /\ UNCHANGED proc
    /\ UNCHANGED <<state, spawned, others, disturbed>>

Poll(c) ==
    /\ cmd[c].at = "poll"
    /\ ~processExists(cmd[c].pid)
    /\ Go(c, "done")
    /\ UNCHANGED <<state, proc, spawned, others, disturbed>>

(* Mutant: the state keeps the command waiting for its process. *)
NeverTimeout(c) == FALSE /\ UNCHANGED <<state, proc, cmd, spawned, others, disturbed>>

(* The process that does not end keeps its state file.                     *)
StopTimeout(c) ==
    /\ cmd[c].at = "poll"
    /\ processExists(cmd[c].pid)
    /\ End(c)
    /\ UNCHANGED <<state, proc, spawned, others, disturbed>>

-----------------------------------------------------------------------------
(* The gateway. *)

In(p, phase) == IsGateway(p) /\ proc[p].phase = phase /\ ~proc[p].dying

Becomes(p, phase) ==
    /\ proc' = [proc EXCEPT ![p].phase = phase]
    /\ UNCHANGED <<state, cmd, spawned, others, disturbed>>

Ends(p) ==
    /\ proc' = [proc EXCEPT ![p] = Dead]
    /\ UNCHANGED <<state, cmd, spawned, others, disturbed>>

(* Adapters are created for the enabled providers; a missing credential or *)
(* default model ends the process.                                         *)
CreateRuntime(p) == In(p, "boot") /\ (Becomes(p, "database") \/ Ends(p))

(* A database that does not answer ends the process only when the          *)
(* configuration requires it.                                              *)
OpenDatabase(p) == In(p, "database") /\ (Becomes(p, "listen") \/ Ends(p))

Listen(p) ==
    /\ In(p, "listen")
    /\ \/ Serving = {} /\ Becomes(p, "serving")
       \/ Bound # {} /\ Ends(p)

(* The system ends a signalled process, any process may die.               *)
Die(p) == processExists(p) /\ Ends(p)

-----------------------------------------------------------------------------
Crash(c) ==
    /\ cmd[c] # Idle
    /\ End(c)
    /\ disturbed' = TRUE
    /\ UNCHANGED <<state, proc, spawned, others>>

(* Another program, or a gateway that `vartma serve` runs in a terminal.   *)
Other(p) ==
    /\ others < MaxOthers
    /\ Free(p)
    /\ \E q \in {Stranger, Fresh(0)} :
        proc' = [proc EXCEPT ![p] = q]
    /\ others' = others + 1
    /\ UNCHANGED <<state, cmd, spawned, disturbed>>

StartStep(c) ==
    \/ ReadStart(c) \/ Probe(c) \/ Unlink(c) \/ Spawn(c) \/ WriteState(c) \/ Wait(c)
    \/ Cleanup(c) \/ Forget(c)

StopStep(c) == ReadStop(c) \/ Ask(c) \/ Kill(c) \/ Poll(c)

Timeout(c) == StartTimeout(c) \/ StopTimeout(c)

(* The process ends in whose place something else may be signalled.        *)
Lapses ==
    lapsed' = {c \in Command : /\ cmd'[c].at = "kill"
                               /\ c \in lapsed \/ proc'[cmd'[c].pid] = Dead}

Move ==
    \/ \E c \in Command :
        Start(c) \/ Stop(c) \/ StartStep(c) \/ StopStep(c) \/ Timeout(c) \/ Crash(c)
    \/ \E p \in Pid : CreateRuntime(p) \/ OpenDatabase(p) \/ Listen(p) \/ Die(p) \/ Other(p)

Next == Move /\ Lapses

(* A command goes on with its next step and its deadlines pass; nothing    *)
(* makes a process boot, end or answer in time.                            *)
Fairness ==
    \A c \in Command :
        /\ WF_vars(StartStep(c) /\ cmd[c].at # "wait" /\ Lapses)
        /\ WF_vars(StopStep(c) /\ Lapses)
        /\ WF_vars(Timeout(c) /\ Lapses)

Spec == Init /\ [][Next]_vars /\ Fairness

-----------------------------------------------------------------------------
(* A gateway that start spawned and nobody signalled, once no command      *)
(* works, is the one the state file names, so that stop finds it; unless a *)
(* start overlapped, a command crashed, or a health check timed out.       *)
RunningIsRecorded ==
    ~disturbed /\ (\A c \in Command : cmd[c] = Idle) =>
        \A p \in Pid :
            IsGateway(p) /\ proc[p].id # 0 /\ ~proc[p].dying =>
                state = [pid |-> p, id |-> proc[p].id]

(* stop signals the gateway whose token answered, however often process    *)
(* IDs were given out before, and whatever the state file names.  Only if  *)
(* that gateway ends between its answer and the signal may what has its    *)
(* process ID by then be signalled: process-manager.ts:101-107 looks at    *)
(* nothing in between.                                                     *)
StopHitsOwnGateway ==
    [][\A c \in Command :
        cmd[c].at = "kill" /\ cmd'[c].at = "poll" =>
            LET p == proc[cmd[c].pid]
            IN  (p.is = "gateway" /\ p.id = cmd[c].id) \/ c \in lapsed]_vars

(* Every command ends, whatever becomes of the process it waits for.       *)
CommandsEnd == \A c \in Command : (cmd[c] # Idle) ~> (cmd[c] = Idle)

=============================================================================
