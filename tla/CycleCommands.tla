---------------------------- MODULE CycleCommands ----------------------------
(***************************************************************************)
(* The command queue v3_system_commands and the life of a research cycle.  *)
(*                                                                         *)
(* A worker process polls the queue, one command at a time, and starts,    *)
(* stops or resets THE cycle: an asyncio task whose handle, status and     *)
(* stop flag are class attributes of PipelineService, mirrored in the one  *)
(* document of pipeline_state.  The order-trigger sweep of the same        *)
(* process calls start_cycle directly.                                     *)
(*                                                                         *)
(* Each process has one event loop.  Code between two awaits runs alone in *)
(* its process, but interleaves with the other processes at every access   *)
(* to the database, and a crash may fall between any two of those.         *)
(* save_state and get_state swallow the exceptions of the database, and    *)
(* the cycle goes on over a document that tells less than the truth.       *)
(***************************************************************************)
EXTENDS Integers, FiniteSets

CONSTANTS
    Workers,       \* processes polling the shared database
    Cycles,        \* bound: the cycles that can be started
    MaxCommands,   \* bound: the commands enqueued, numbered by created_at
    Kinds,         \* the command types the producers send
    Triggers,      \* does the order-trigger sweep run?
    MaxCrashes,    \* bound: processes killed
    MaxFaults,     \* bound: steps in which a call of the cycle service fails
    NoCycle,
    Trigger        \* the cause of a cycle started by the sweep

ASSUME KindsAssumption == Kinds \subseteq {"START", "STOP", "FAST_STOP", "FORCE_RESET"}
ASSUME TriggersAssumption == Triggers \in BOOLEAN
ASSUME CountAssumption == MaxCommands \in Nat /\ MaxCrashes \in Nat /\ MaxFaults \in Nat
ASSUME NoneAssumption == NoCycle \notin Cycles /\ Trigger \notin Nat

Commands == 1 .. MaxCommands

VARIABLES
    kind,      \* kind[k]: type of command k
    command,   \* command[k]: its status, "none" before it is enqueued
    db,        \* the pipeline_state document: status and cycle_id
    stale,     \* is its updated_at more than 15 minutes old?
    lapse,     \* history: why the document may not tell the truth, see Lapses
    faults,
    step,      \* step[w]: where the poller of worker w is
    current,   \* current[w]: the command it executes, 0 for none
    result,    \* result[w]: the status it will give that command
    awaited,   \* awaited[w]: the cycle whose end it waits for
    trigger,   \* trigger[w]: a start_cycle of the sweep is past its checks
    mem,       \* mem[w]: PipelineService._state, its status and cycle_id
    handle,    \* handle[w]: PipelineService._cycle_task
    stopFlag,  \* stopFlag[w]: PipelineService._stop_requested
    killed,    \* killed[w]: the kill switch of the LLM client
    phase,     \* phase[c]: how far the task of cycle c is
    owner,     \* owner[c]: the worker that runs it
    cause,     \* cause[c]: the command that started it, or Trigger
    cancelled, \* tasks with a cancellation to deliver
    crashes

queue == <<kind, command>>
state == <<db, stale, lapse, faults>>
poller == <<step, current, result, awaited>>
service == <<mem, handle, stopFlag, killed>>
tasks == <<phase, owner, cause, cancelled>>
vars == <<queue, state, poller, trigger, service, tasks, crashes>>

Ended == {"idle", "done", "error", "stopped"}
Active == {"running", "starting", "stopping"}
States == [status : Ended \cup Active, cycle : Cycles \cup {NoCycle}]
DefaultState == [status |-> "idle", cycle |-> NoCycle]

\* The last write of the document was lost; or it was made by a start that
\* then failed; or by a stop that returned over a cycle the sweep had started
\* while it waited.  A reset that does so forgets that cycle for good.
Lapses == {"none", "lost", "launch", "stop", "reset"}

TypeOK ==
    /\ kind \in [Commands -> Kinds \cup {"none"}]
    /\ command \in [Commands -> {"none", "pending", "running", "completed", "skipped", "error"}]
    /\ db \in States
    /\ stale \in BOOLEAN
    /\ lapse \in Lapses
    /\ faults \in 0 .. MaxFaults
    /\ step \in [Workers -> {"down", "idle", "exec", "launch", "settle", "stopWait", "resetWait"}]
    /\ current \in [Workers -> Commands \cup {0}]
    /\ result \in [Workers -> {"none", "completed", "skipped", "error"}]
    /\ awaited \in [Workers -> Cycles \cup {NoCycle}]
    /\ trigger \in [Workers -> BOOLEAN]
    /\ mem \in [Workers -> States]
    /\ handle \in [Workers -> Cycles \cup {NoCycle}]
    /\ stopFlag \in [Workers -> BOOLEAN]
    /\ killed \in [Workers -> BOOLEAN]
    /\ phase \in [Cycles -> {"none", "queued", "preflight", "discover", "work", "tail", "over"}]
    /\ owner \in [Cycles -> Workers]
    /\ cause \in [Cycles -> Commands \cup {0, Trigger}]
    /\ cancelled \subseteq Cycles
    /\ crashes \in 0 .. MaxCrashes

Init ==
    /\ kind = [k \in Commands |-> "none"]
    /\ command = [k \in Commands |-> "none"]
    /\ db = DefaultState
    /\ stale = FALSE
    /\ lapse = "none"
    /\ faults = 0
    /\ step = [w \in Workers |-> "down"]
    /\ current = [w \in Workers |-> 0]
    /\ result = [w \in Workers |-> "none"]
    /\ awaited = [w \in Workers |-> NoCycle]
    /\ trigger = [w \in Workers |-> FALSE]
    /\ mem = [w \in Workers |-> DefaultState]
    /\ handle = [w \in Workers |-> NoCycle]
    /\ stopFlag = [w \in Workers |-> FALSE]
    /\ killed = [w \in Workers |-> FALSE]
    /\ phase = [c \in Cycles |-> "none"]
    /\ owner \in {[c \in Cycles |-> w] : w \in Workers}
    /\ cause = [c \in Cycles |-> 0]
    /\ cancelled = {}
    /\ crashes = 0

-----------------------------------------------------------------------------
Live(c) == phase[c] \notin {"none", "over"}

\* _cycle_task and not _cycle_task.done()
TaskAlive(w) == handle[w] # NoCycle /\ Live(handle[w])

\* The event loop of w is free to run another of its coroutines.
LoopFree(w) == step[w] \in {"idle", "stopWait", "resetWait"} /\ ~trigger[w]

\* The task the poller waits for is over and the poller is about to resume.
ResumeDue(w) == step[w] \in {"stopWait", "resetWait"} /\ ~Live(awaited[w])

\* The live task is not the one the poller waited for: the sweep started it.
Overrun(w) == TaskAlive(w) /\ handle[w] # awaited[w]

Fault == faults < MaxFaults /\ faults' = faults + 1

Note(l) == lapse' = IF lapse = "reset" THEN lapse ELSE l

\* save_state: a write stamps updated_at; one that fails is logged and goes
\* unnoticed.  l says what is wrong with s.
SaveAs(s, l) ==
    \/ db' = s /\ stale' = FALSE /\ Note(l) /\ UNCHANGED faults
    \/ Fault /\ Note(IF l = "reset" THEN l ELSE "lost") /\ UNCHANGED <<db, stale>>

Save(s) == SaveAs(s, "none")

SetStatus(w, s) == mem' = [mem EXCEPT ![w].status = s]

Record(w, outcome) ==
    /\ step' = [step EXCEPT ![w] = "settle"]
    /\ result' = [result EXCEPT ![w] = outcome]
    /\ UNCHANGED <<current, awaited>>

Await(w, s) ==
    /\ step' = [step EXCEPT ![w] = s]
    /\ awaited' = [awaited EXCEPT ![w] = handle[w]]
    /\ UNCHANGED <<current, result>>

-----------------------------------------------------------------------------
(* The queue                                                               *)

Pending == {k \in Commands : command[k] = "pending"}

\* Some producer inserts the next command.
Enqueue(k) ==
    /\ command[k] = "none"
    /\ \A j \in 1 .. k - 1 : command[j] # "none"
    /\ kind' \in {[kind EXCEPT ![k] = t] : t \in Kinds}
    /\ command' = [command EXCEPT ![k] = "pending"]
    /\ UNCHANGED <<state, poller, trigger, service, tasks, crashes>>

\* The oldest pending command, taken by one atomic find_one_and_update.
Claim(w, k) ==
    /\ step[w] = "idle"
    /\ LoopFree(w)
    /\ k \in Pending
    /\ \A j \in Pending : k <= j
    /\ command' = [command EXCEPT ![k] = "running"]
    /\ step' = [step EXCEPT ![w] = "exec"]
    /\ current' = [current EXCEPT ![w] = k]
    /\ UNCHANGED <<kind, state, result, awaited, trigger, service, tasks, crashes>>

\* The upsert of the outcome; it does not look at the status it replaces.
Settle(w) ==
    /\ step[w] = "settle"
    /\ command' = [command EXCEPT ![current[w]] = result[w]]
    /\ step' = [step EXCEPT ![w] = "idle"]
    /\ current' = [current EXCEPT ![w] = 0]
    /\ result' = [result EXCEPT ![w] = "none"]
    /\ UNCHANGED <<kind, state, awaited, trigger, service, tasks, crashes>>

Executes(w, t) == step[w] = "exec" /\ kind[current[w]] = t

-----------------------------------------------------------------------------
(* start_cycle                                                             *)

\* Neither deduplicated against a live task nor refused as stuck.
Startable(w) == ~TaskAlive(w) /\ (db.status \in Active => stale)

\* The rest of force_reset: everything back to idle.
Reset(w, l) ==
    /\ handle' = [handle EXCEPT ![w] = NoCycle]
    /\ stopFlag' = [stopFlag EXCEPT ![w] = FALSE]
    /\ killed' = [killed EXCEPT ![w] = FALSE]
    /\ mem' = [mem EXCEPT ![w] = DefaultState]
    /\ SaveAs(DefaultState, l)

\* An active status without a task here, and stale: an orphan, reset.
ClearOrphan(w) == IF db.status \in Active THEN Reset(w, "none") ELSE UNCHANGED <<service, state>>

\* The checks let a start pass.  After a failed read the status is "unknown",
\* and the task handle alone is checked.
PassChecks(w) ==
    \/ Startable(w) /\ ClearOrphan(w)
    \/ ~TaskAlive(w) /\ Fault /\ UNCHANGED <<service, db, stale, lapse>>

\* Bound: a cycle is left for every start under way and for one more.
Room ==
    Cardinality({c \in Cycles : phase[c] = "none"})
        > Cardinality({w \in Workers : step[w] = "launch" \/ trigger[w]})

\* Mutant of StartCommand: a refused start counts as completed.
StartCommandUnnoted(w) ==
    /\ Executes(w, "START")
    /\ \/ ~Startable(w) /\ Record(w, "completed") /\ UNCHANGED <<service, state>>
       \/ /\ PassChecks(w) /\ Room
          /\ step' = [step EXCEPT ![w] = "launch"]
          /\ UNCHANGED <<current, result, awaited>>
    /\ UNCHANGED <<queue, trigger, tasks, crashes>>

\* START_CYCLE: refused by the checks, deferred by admission, or going ahead.
StartCommand(w) ==
    /\ Executes(w, "START")
    /\ \/ ~Startable(w) /\ Record(w, "skipped") /\ UNCHANGED <<service, state>>
       \/ PassChecks(w) /\ Record(w, "skipped")
       \/ /\ PassChecks(w) /\ Room
          /\ step' = [step EXCEPT ![w] = "launch"]
          /\ UNCHANGED <<current, result, awaited>>
    /\ UNCHANGED <<queue, trigger, tasks, crashes>>

\* An order trigger fires; a refusal leaves the trigger active.
FireTrigger(w) ==
    /\ Triggers
    /\ LoopFree(w)
    /\ PassChecks(w)
    /\ trigger' = trigger \/ (Room /\ trigger' = [trigger EXCEPT ![w] = TRUE])
    /\ UNCHANGED <<queue, poller, tasks, crashes>>

\* Mutant of Launch: the kill switch of the LLM client is not reset.
LaunchArmed(w, c) ==
    /\ step[w] = "launch" \/ trigger[w]
    /\ phase[c] = "none"
    /\ mem' = [mem EXCEPT ![w] = [status |-> "starting", cycle |-> c]]
    /\ Save([status |-> "starting", cycle |-> c])
    /\ stopFlag' = [stopFlag EXCEPT ![w] = FALSE]
    /\ handle' = [handle EXCEPT ![w] = c]
    /\ phase' = [phase EXCEPT ![c] = "queued"]
    /\ owner' = [owner EXCEPT ![c] = w]
    /\ cause' = [cause EXCEPT ![c] = IF trigger[w] THEN Trigger ELSE current[w]]
    /\ IF trigger[w] THEN UNCHANGED poller ELSE Record(w, "completed")
    /\ trigger' = [trigger EXCEPT ![w] = FALSE]
    /\ UNCHANGED <<queue, killed, cancelled, crashes>>

\* The rest of start_cycle: publish the new cycle and create its task.
Launch(w, c) ==
    /\ step[w] = "launch" \/ trigger[w]
    /\ phase[c] = "none"
    /\ mem' = [mem EXCEPT ![w] = [status |-> "starting", cycle |-> c]]
    /\ Save([status |-> "starting", cycle |-> c])
    /\ stopFlag' = [stopFlag EXCEPT ![w] = FALSE]
    /\ killed' = [killed EXCEPT ![w] = FALSE]
    /\ handle' = [handle EXCEPT ![w] = c]
    /\ phase' = [phase EXCEPT ![c] = "queued"]
    /\ owner' = [owner EXCEPT ![c] = w]
    /\ \/ /\ trigger[w]
          /\ trigger' = [trigger EXCEPT ![w] = FALSE]
          /\ cause' = [cause EXCEPT ![c] = Trigger]
          /\ UNCHANGED poller
       \/ /\ ~trigger[w]
          /\ cause' = [cause EXCEPT ![c] = current[w]]
          /\ Record(w, "completed")
          /\ UNCHANGED trigger
    /\ UNCHANGED <<queue, cancelled, crashes>>

\* start_cycle raises after it published the new cycle: before its task is
\* created, or when that fails, which it publishes as an error.  Any of its
\* writes may be lost with it.  The command is recorded as failed.
LaunchFails(w, c) ==
    /\ step[w] = "launch" \/ trigger[w]
    /\ phase[c] = "none"
    /\ Fault
    /\ \E s \in {"starting", "error"} :
           /\ mem' = [mem EXCEPT ![w] = [status |-> s, cycle |-> c]]
           /\ db' \in {db, [status |-> "starting", cycle |-> c], [status |-> s, cycle |-> c]}
    /\ stale' = (stale /\ db' = db)
    /\ Note("launch")
    /\ stopFlag' = [stopFlag EXCEPT ![w] = FALSE]
    /\ killed' = [killed EXCEPT ![w] = FALSE]
    /\ phase' = [phase EXCEPT ![c] = "over"]
    /\ owner' = [owner EXCEPT ![c] = w]
    /\ \/ trigger[w] /\ trigger' = [trigger EXCEPT ![w] = FALSE] /\ UNCHANGED poller
       \/ ~trigger[w] /\ Record(w, "error") /\ UNCHANGED trigger
    /\ UNCHANGED <<queue, handle, cause, cancelled, crashes>>

-----------------------------------------------------------------------------
(* Stopping                                                                *)

\* Mutants of CancelTask: whatever the handle is; and not at all.
CancelUnchecked(w) == cancelled' = cancelled \cup {handle[w]}
CancelNothing(w) == cancelled' = cancelled

CancelTask(w) == cancelled' = IF TaskAlive(w) THEN cancelled \cup {handle[w]} ELSE cancelled

\* request_stop.
RequestStop(w) ==
    /\ stopFlag' = [stopFlag EXCEPT ![w] = TRUE]
    /\ killed' = [killed EXCEPT ![w] = TRUE]
    /\ SetStatus(w, "stopping")
    /\ Save([mem[w] EXCEPT !.status = "stopping"])
    /\ CancelTask(w)
    /\ UNCHANGED handle

MarkStopped(w, l) == SetStatus(w, "stopped") /\ SaveAs([mem[w] EXCEPT !.status = "stopped"], l)

\* STOP_CYCLE with "fast": request_stop alone.
FastStopCommand(w) ==
    /\ Executes(w, "FAST_STOP")
    /\ RequestStop(w)
    /\ Record(w, "completed")
    /\ UNCHANGED <<queue, trigger, phase, owner, cause, crashes>>

\* STOP_CYCLE with nothing to stop leaves the state alone; a returned status
\* "error" marks the command skipped.
StopNothing(w) ==
    /\ Executes(w, "STOP")
    /\ ~TaskAlive(w)
    /\ mem[w].status \in Ended
    /\ Record(w, IF mem[w].status = "error" THEN "skipped" ELSE "completed")
    /\ UNCHANGED <<queue, state, trigger, service, tasks, crashes>>

\* Mutant of StopLeftover: it does not ask whether the cycle has ended.
StopAlways(w) ==
    /\ Executes(w, "STOP")
    /\ ~TaskAlive(w)
    /\ stopFlag' = [stopFlag EXCEPT ![w] = TRUE]
    /\ killed' = [killed EXCEPT ![w] = TRUE]
    /\ MarkStopped(w, "none")
    /\ Record(w, "completed")
    /\ UNCHANGED <<queue, trigger, handle, tasks, crashes>>

\* STOP_CYCLE with a status left active by a task that is gone.
StopLeftover(w) ==
    /\ Executes(w, "STOP")
    /\ ~TaskAlive(w)
    /\ mem[w].status \notin Ended
    /\ stopFlag' = [stopFlag EXCEPT ![w] = TRUE]
    /\ killed' = [killed EXCEPT ![w] = TRUE]
    /\ MarkStopped(w, "none")
    /\ Record(w, "completed")
    /\ UNCHANGED <<queue, trigger, handle, tasks, crashes>>

StopCommand(w) ==
    /\ Executes(w, "STOP")
    /\ TaskAlive(w)
    /\ RequestStop(w)
    /\ Await(w, "stopWait")
    /\ UNCHANGED <<queue, trigger, phase, owner, cause, crashes>>

\* Mutant of FinishStop: it relies on the task to publish "stopped".
FinishStopSilently(w) ==
    /\ step[w] = "stopWait" /\ LoopFree(w) /\ ResumeDue(w)
    /\ step' = [step EXCEPT ![w] = "settle"]
    /\ result' = [result EXCEPT ![w] = "completed"]
    /\ awaited' = [awaited EXCEPT ![w] = NoCycle]
    /\ UNCHANGED <<queue, state, current, trigger, service, tasks, crashes>>

\* stop_cycle goes on when the task is over.
FinishStop(w) ==
    /\ step[w] = "stopWait" /\ LoopFree(w) /\ ResumeDue(w)
    /\ MarkStopped(w, IF Overrun(w) THEN "stop" ELSE "none")
    /\ step' = [step EXCEPT ![w] = "settle"]
    /\ result' = [result EXCEPT ![w] = "completed"]
    /\ awaited' = [awaited EXCEPT ![w] = NoCycle]
    /\ UNCHANGED <<queue, current, trigger, handle, stopFlag, killed, tasks, crashes>>

\* Mutant of ResetCommand: the task is cancelled and forgotten at once.
ResetAtOnce(w) ==
    /\ Executes(w, "FORCE_RESET")
    /\ CancelTask(w)
    /\ Reset(w, "none")
    /\ Record(w, "completed")
    /\ UNCHANGED <<queue, trigger, phase, owner, cause, crashes>>

ResetCommand(w) ==
    /\ Executes(w, "FORCE_RESET")
    /\ IF TaskAlive(w)
       THEN /\ stopFlag' = [stopFlag EXCEPT ![w] = TRUE]
            /\ CancelTask(w)
            /\ Await(w, "resetWait")
            /\ UNCHANGED <<state, mem, handle, killed>>
       ELSE Reset(w, "none") /\ Record(w, "completed") /\ UNCHANGED cancelled
    /\ UNCHANGED <<queue, trigger, phase, owner, cause, crashes>>

FinishReset(w) ==
    /\ step[w] = "resetWait" /\ LoopFree(w) /\ ResumeDue(w)
    /\ Reset(w, IF Overrun(w) THEN "reset" ELSE "none")
    /\ step' = [step EXCEPT ![w] = "settle"]
    /\ result' = [result EXCEPT ![w] = "completed"]
    /\ awaited' = [awaited EXCEPT ![w] = NoCycle]
    /\ UNCHANGED <<queue, current, trigger, tasks, crashes>>

-----------------------------------------------------------------------------
(* The task of a cycle: _run_all_v3                                        *)

\* A turn of c's task.  A resuming poller goes first: the awaits of a task
\* need more turns of the loop than the poller needs to wake up.
Turn(c, phases) == phase[c] \in phases /\ LoopFree(owner[c])
Advance(c, phases) == Turn(c, phases) /\ ~ResumeDue(owner[c])

MoveTo(c, p) == phase' = [phase EXCEPT ![c] = p] /\ UNCHANGED <<owner, cause>>

\* Mutant of Leave: the last status is not saved.
LeaveUnsaved(c, s) ==
    /\ mem' = [mem EXCEPT ![owner[c]].status = s]
    /\ handle' = [handle EXCEPT ![owner[c]] = NoCycle]
    /\ MoveTo(c, "over")
    /\ cancelled' = cancelled \ {c}
    /\ UNCHANGED <<state, stopFlag, killed>>

\* Leaving through `finally': save the state and forget the task.
Leave(c, s) ==
    /\ mem' = [mem EXCEPT ![owner[c]].status = s]
    /\ Save([mem[owner[c]] EXCEPT !.status = s])
    /\ handle' = [handle EXCEPT ![owner[c]] = NoCycle]
    /\ MoveTo(c, "over")
    /\ cancelled' = cancelled \ {c}
    /\ UNCHANGED <<stopFlag, killed>>

Begin(c) ==
    /\ Turn(c, {"queued"})
    /\ c \notin cancelled
    /\ MoveTo(c, "preflight")
    /\ UNCHANGED <<queue, state, poller, trigger, service, cancelled, crashes>>

\* Cancelled before the `try': neither `except' nor `finally' runs.
CancelEarly(c) ==
    /\ Turn(c, {"queued", "preflight"})
    /\ c \in cancelled
    /\ MoveTo(c, "over")
    /\ cancelled' = cancelled \ {c}
    /\ UNCHANGED <<queue, state, poller, trigger, service, crashes>>

PreflightPasses(c) ==
    /\ Advance(c, {"preflight"})
    /\ c \notin cancelled
    /\ MoveTo(c, "discover")
    /\ UNCHANGED <<queue, state, poller, trigger, service, cancelled, crashes>>

\* No model answers: the cycle ends before the `try'.
PreflightFails(c) ==
    /\ Advance(c, {"preflight"})
    /\ c \notin cancelled
    /\ SetStatus(owner[c], "error")
    /\ Save([mem[owner[c]] EXCEPT !.status = "error"])
    /\ MoveTo(c, "over")
    /\ UNCHANGED <<queue, poller, trigger, handle, stopFlag, killed, cancelled, crashes>>

\* Progress of discovery and of the tickers, and the hand-over between them.
Progress(c) ==
    /\ Advance(c, {"discover", "work"})
    /\ c \notin cancelled
    /\ phase[c] = "work" => mem[owner[c]].status \notin Ended
    /\ SetStatus(owner[c], "running")
    /\ Save([mem[owner[c]] EXCEPT !.status = "running"])
    /\ MoveTo(c, phase[c]) \/ MoveTo(c, "work")
    /\ UNCHANGED <<queue, poller, trigger, handle, stopFlag, killed, cancelled, crashes>>

\* The gatekeeper chose no ticker.
ChooseNone(c) ==
    /\ Advance(c, {"discover"})
    /\ c \notin cancelled
    /\ Leave(c, "idle")
    /\ UNCHANGED <<queue, poller, trigger, crashes>>

Finish(c) ==
    /\ Advance(c, {"work"})
    /\ c \notin cancelled
    /\ Leave(c, "done")
    /\ UNCHANGED <<queue, poller, trigger, crashes>>

\* The cancellation is delivered, or a check sees the stop flag.
Interrupt(c) ==
    /\ Advance(c, {"discover", "work"})
    /\ c \in cancelled \/ (phase[c] = "work" /\ stopFlag[owner[c]])
    /\ SetStatus(owner[c], "stopped")
    /\ MoveTo(c, "tail")
    /\ cancelled' = cancelled \ {c}
    /\ UNCHANGED <<queue, state, poller, trigger, handle, stopFlag, killed, crashes>>

Fail(c) ==
    /\ Advance(c, {"discover", "work"})
    /\ c \notin cancelled
    /\ SetStatus(owner[c], "error")
    /\ MoveTo(c, "tail")
    /\ UNCHANGED <<queue, state, poller, trigger, handle, stopFlag, killed, cancelled, crashes>>

\* The handler has reported the run, or was cancelled while it did.
LeaveTail(c) ==
    /\ Advance(c, {"tail"})
    /\ Leave(c, mem[owner[c]].status)
    /\ UNCHANGED <<queue, poller, trigger, crashes>>

-----------------------------------------------------------------------------
(* Processes and time                                                      *)

\* The updates of _reset_app_state, for the whole database whoever wrote it.
ResetState ==
    /\ db' = [db EXCEPT !.status = IF @ \in {"running", "starting"} THEN "error" ELSE @]
    /\ Note("none")

ResetQueue ==
    command' = [k \in Commands |->
                  IF command[k] \in {"running", "pending"} THEN "error" ELSE command[k]]

\* A process starts; an update that fails skips the rest.
Boot(w) ==
    /\ step[w] = "down"
    /\ step' = [step EXCEPT ![w] = "idle"]
    /\ \/ ResetState /\ ResetQueue /\ UNCHANGED faults
       \/ ResetState /\ Fault /\ UNCHANGED command
       \/ Note("lost") /\ Fault /\ UNCHANGED <<db, command>>
    /\ UNCHANGED <<kind, stale, current, result, awaited, trigger, service, tasks, crashes>>

Crash(w) ==
    /\ crashes < MaxCrashes
    /\ step[w] # "down"
    /\ step' = [step EXCEPT ![w] = "down"]
    /\ current' = [current EXCEPT ![w] = 0]
    /\ result' = [result EXCEPT ![w] = "none"]
    /\ awaited' = [awaited EXCEPT ![w] = NoCycle]
    /\ trigger' = [trigger EXCEPT ![w] = FALSE]
    /\ mem' = [mem EXCEPT ![w] = DefaultState]
    /\ handle' = [handle EXCEPT ![w] = NoCycle]
    /\ stopFlag' = [stopFlag EXCEPT ![w] = FALSE]
    /\ killed' = [killed EXCEPT ![w] = FALSE]
    /\ phase' = [c \in Cycles |-> IF owner[c] = w /\ Live(c) THEN "over" ELSE phase[c]]
    /\ cancelled' = {c \in cancelled : owner[c] # w}
    /\ crashes' = crashes + 1
    /\ UNCHANGED <<queue, state, owner, cause>>

\* Fifteen minutes without a write.  A live cycle never lets them pass, nor
\* does a coroutine that can run.
Age ==
    /\ db.status \in Active
    /\ \A c \in Cycles : ~Live(c)
    /\ \A w \in Workers : step[w] \in {"down", "idle"} /\ ~trigger[w]
    /\ stale' = TRUE
    /\ UNCHANGED <<queue, db, lapse, faults, poller, trigger, service, tasks, crashes>>

-----------------------------------------------------------------------------
Poll(w) ==
    \/ \E k \in Commands : Claim(w, k)
    \/ StartCommand(w) \/ FastStopCommand(w) \/ StopCommand(w)
    \/ StopNothing(w) \/ StopLeftover(w) \/ ResetCommand(w)
    \/ FinishStop(w) \/ FinishReset(w)
    \/ Settle(w)

Unwind(c) == CancelEarly(c) \/ Interrupt(c) \/ LeaveTail(c)

Run(c) ==
    \/ Begin(c) \/ PreflightPasses(c) \/ PreflightFails(c)
    \/ Progress(c) \/ ChooseNone(c) \/ Finish(c) \/ Fail(c)

Next ==
    \/ \E k \in Commands : Enqueue(k)
    \/ \E w \in Workers : Poll(w) \/ FireTrigger(w) \/ Boot(w) \/ Crash(w)
    \/ \E w \in Workers, c \in Cycles : Launch(w, c) \/ LaunchFails(w, c)
    \/ \E c \in Cycles : Unwind(c) \/ Run(c)
    \/ Age

Spec == Init /\ [][Next]_vars

-----------------------------------------------------------------------------
(* What a worker does whatever the cycle does: it polls, it boots, and a   *)
(* cancelled task unwinds.  No cycle is assumed to end by itself.          *)
Fairness ==
    /\ \A w \in Workers : WF_vars(Poll(w)) /\ WF_vars(Boot(w))
    /\ \A w \in Workers : WF_vars(\E c \in Cycles : Launch(w, c))
    /\ \A c \in Cycles : WF_vars(Unwind(c))

FairSpec == Spec /\ Fairness

-----------------------------------------------------------------------------
(* Properties                                                              *)

\* A process never has two live cycles: start_cycle deduplicates against its
\* task handle, so a task must never be live without being that handle.  The
\* one exception: a reset forgets a cycle the sweep started while it waited.
AtMostOneLive ==
    lapse # "reset" =>
        \A c, d \in Cycles : Live(c) /\ Live(d) /\ owner[c] = owner[d] => c = d

\* What the deploy interlocks rely on: a status that says no cycle is running
\* is only ever published when none is.
IdleMeansNoCycle == db.status \in Ended => \A c \in Cycles : ~Live(c)

\* A published cycle that is starting or running is there, unless its process
\* died or is about to write a reset: whatever else ends it publishes another
\* status first.
RunningIsAlive ==
    /\ db.status \in {"starting", "running"}
    /\ db.cycle \in Cycles
    /\ step[owner[db.cycle]] \notin {"down", "resetWait"}
    => Live(db.cycle)

\* The published status and the tasks agree, through every wait, cancellation
\* and failure of a cycle, as soon as the last write took effect: a lost write,
\* a failed start and a stop overtaken by the sweep are healed by the next.
StatusMatchesCycle == lapse = "none" => IdleMeansNoCycle /\ RunningIsAlive

\* The kill switch of one cycle never carries over to the next: while it is
\* armed, the cycle that runs is one that was told to stop.
FreshCycleNotKilled ==
    lapse # "reset" =>
        \A c \in Cycles : phase[c] \in {"queued", "preflight", "discover", "work"} /\ killed[owner[c]]
                          => c \in cancelled

Caused(k) == {c \in Cycles : cause[c] = k}

\* Status truth: a START command is completed only if its cycle was started,
\* and is skipped only if it was not.
StatusTruth ==
    \A k \in Commands :
        /\ kind[k] = "START" /\ command[k] = "completed" => Caused(k) # {}
        /\ command[k] = "skipped" => Caused(k) = {}

\* However many processes poll and crash, a command starts at most one cycle.
OneCyclePerCommand ==
    \A c, d \in Cycles : cause[c] \in Commands /\ cause[c] = cause[d] => c = d

\* A command tells the truth about the one cycle it may have started.
CommandTruth == StatusTruth /\ OneCyclePerCommand

\* A cycle that ran and ended done or in error is never relabelled as stopped,
\* unless a cycle that a reset has forgotten publishes under its name.
OutcomeKept ==
    [][\A c \in Cycles :
           /\ lapse # "reset" /\ cause[c] # 0
           /\ db.status \in {"done", "error"} /\ db.cycle = c /\ db'.cycle = c
           => db'.status \notin {"stopping", "stopped"}]_vars

\* A claimed command that no process executes any more, and that the boot after
\* the crash could not reset.
Abandoned(k) ==
    /\ command[k] = "running" /\ crashes > 0 /\ faults > 0
    /\ \A w \in Workers : step[w] # "down" /\ current[w] # k

\* Every command enqueued is settled: the poller never waits for ever.
CommandSettles ==
    \A k \in Commands :
        command[k] = "pending" ~> command[k] \in {"completed", "skipped", "error"} \/ Abandoned(k)

\* A stop that died with its process: a boot resets a status "starting" or
\* "running", but not "stopping".
StopOrphaned == crashes > 0 /\ \A w \in Workers : mem[w].status # "stopping"

\* A stop comes to an end: "stopping" does not stay while writes take effect,
\* unless the process that was stopping died.
StoppingEnds == []<>(db.status # "stopping" \/ lapse # "none" \/ StopOrphaned)
=============================================================================
