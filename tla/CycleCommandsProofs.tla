------------------------ MODULE CycleCommandsProofs ------------------------
(* What holds of the command queue and the cycles for every instance.      *)
EXTENDS CycleCommands, TLAPS

-----------------------------------------------------------------------------
(* Typing of the pieces the actions are built from.                        *)

\* Every status is a state's status, and a new status keeps a state a state.
LEMMA StatusTyped ==
    ASSUME NEW m \in States, NEW s \in Ended \cup Active
    PROVE  [m EXCEPT !.status = s] \in States
BY DEF States

\* A fault is counted within its bound.
LEMMA FaultTyped == TypeOK /\ Fault => faults' \in 0 .. MaxFaults
BY CountAssumption DEF TypeOK, Fault

\* Saving a state, whether or not the write takes effect.
LEMMA SaveAsTyped ==
    ASSUME TypeOK, NEW s \in States, NEW l \in Lapses, SaveAs(s, l)
    PROVE  db' \in States /\ stale' \in BOOLEAN /\ lapse' \in Lapses /\ faults' \in 0 .. MaxFaults
<1>1. CASE Fault
  BY <1>1, FaultTyped DEF TypeOK, SaveAs, Note, Lapses, Fault
<1>2. CASE ~Fault
  BY <1>2 DEF TypeOK, SaveAs, Note, Lapses
<1>3. QED
  BY <1>1, <1>2

\* Saving the state of a worker with another status.
LEMMA SaveTyped ==
    ASSUME TypeOK, NEW w \in Workers, NEW s \in Ended \cup Active, NEW l \in Lapses,
           SaveAs([mem[w] EXCEPT !.status = s], l)
    PROVE  db' \in States /\ stale' \in BOOLEAN /\ lapse' \in Lapses /\ faults' \in 0 .. MaxFaults
<1>1. mem[w] \in States
  BY DEF TypeOK
<1>2. [mem[w] EXCEPT !.status = s] \in States
  BY <1>1, StatusTyped
<1>3. QED
  BY <1>2, SaveAsTyped

\* The same, for a write that would tell the truth.
LEMMA SaveNoneTyped ==
    ASSUME TypeOK, NEW w \in Workers, NEW s \in Ended \cup Active, Save([mem[w] EXCEPT !.status = s])
    PROVE  db' \in States /\ stale' \in BOOLEAN /\ lapse' \in Lapses /\ faults' \in 0 .. MaxFaults
<1>1. "none" \in Lapses /\ SaveAs([mem[w] EXCEPT !.status = s], "none")
  BY DEF Save, Lapses
<1>2. QED
  BY <1>1, SaveTyped

\* Giving the state of a worker another status.
LEMMA SetStatusTyped ==
    ASSUME TypeOK, NEW w \in Workers, NEW s \in Ended \cup Active, SetStatus(w, s)
    PROVE  mem' \in [Workers -> States]
<1>1. mem \in [Workers -> States] /\ mem[w] \in States
  BY DEF TypeOK
<1>2. [mem[w] EXCEPT !.status = s] \in States
  BY <1>1, StatusTyped
<1>3. mem' = [mem EXCEPT ![w] = [mem[w] EXCEPT !.status = s]]
  BY DEF SetStatus
<1>4. QED
  BY <1>1, <1>2, <1>3

\* The state after a reset is a state.
LEMMA DefaultTyped == DefaultState \in States
BY DEF DefaultState, States, Ended

\* A reset.
LEMMA ResetTyped ==
    ASSUME TypeOK, NEW w \in Workers, NEW l \in Lapses, Reset(w, l)
    PROVE  /\ db' \in States /\ stale' \in BOOLEAN /\ lapse' \in Lapses /\ faults' \in 0 .. MaxFaults
           /\ mem' \in [Workers -> States]
           /\ handle' \in [Workers -> Cycles \cup {NoCycle}]
           /\ stopFlag' \in [Workers -> BOOLEAN]
           /\ killed' \in [Workers -> BOOLEAN]
<1>1. db' \in States /\ stale' \in BOOLEAN /\ lapse' \in Lapses /\ faults' \in 0 .. MaxFaults
  BY DefaultTyped, SaveAsTyped DEF Reset
<1>2. QED
  BY <1>1, DefaultTyped DEF TypeOK, Reset

\* The checks of a start that let it pass.
LEMMA PassTyped ==
    ASSUME TypeOK, NEW w \in Workers, PassChecks(w)
    PROVE  /\ db' \in States /\ stale' \in BOOLEAN /\ lapse' \in Lapses /\ faults' \in 0 .. MaxFaults
           /\ mem' \in [Workers -> States]
           /\ handle' \in [Workers -> Cycles \cup {NoCycle}]
           /\ stopFlag' \in [Workers -> BOOLEAN]
           /\ killed' \in [Workers -> BOOLEAN]
<1>1. CASE Reset(w, "none")
  <2>1. "none" \in Lapses
    BY DEF Lapses
  <2>2. QED
    BY <1>1, <2>1, ResetTyped
<1>2. CASE UNCHANGED <<service, state>>
  BY <1>2 DEF TypeOK, service, state
<1>3. CASE Fault /\ UNCHANGED <<service, db, stale, lapse>>
  <2>1. faults' \in 0 .. MaxFaults
    BY <1>3, FaultTyped
  <2>2. QED
    BY <1>3, <2>1 DEF TypeOK, service
<1>4. QED
  BY <1>1, <1>2, <1>3 DEF PassChecks, ClearOrphan

\* The task of a cycle leaves through `finally'.
LEMMA LeaveTyped ==
    ASSUME TypeOK, NEW c \in Cycles, NEW s \in Ended \cup Active, Leave(c, s)
    PROVE  /\ db' \in States /\ stale' \in BOOLEAN /\ lapse' \in Lapses /\ faults' \in 0 .. MaxFaults
           /\ mem' \in [Workers -> States]
           /\ handle' \in [Workers -> Cycles \cup {NoCycle}]
           /\ stopFlag' \in [Workers -> BOOLEAN]
           /\ killed' \in [Workers -> BOOLEAN]
           /\ phase' \in [Cycles -> {"none", "queued", "preflight", "discover", "work", "tail", "over"}]
           /\ owner' \in [Cycles -> Workers]
           /\ cause' \in [Cycles -> Commands \cup {0, Trigger}]
           /\ cancelled' \subseteq Cycles
<1>1. owner[c] \in Workers
  BY DEF TypeOK
<1>2. SetStatus(owner[c], s) /\ Save([mem[owner[c]] EXCEPT !.status = s])
  BY DEF Leave, SetStatus
<1>3. /\ mem' \in [Workers -> States]
      /\ db' \in States /\ stale' \in BOOLEAN /\ lapse' \in Lapses /\ faults' \in 0 .. MaxFaults
  BY <1>1, <1>2, SetStatusTyped, SaveNoneTyped
<1>4. QED
  BY <1>1, <1>3 DEF TypeOK, Leave, MoveTo

-----------------------------------------------------------------------------
\* Every variable keeps its type.
THEOREM TypeCorrect == Spec => []TypeOK
<1>1. Init => TypeOK
  <2> SUFFICES ASSUME Init PROVE TypeOK
    OBVIOUS
  <2>1. PICK v \in Workers : owner = [c \in Cycles |-> v]
    BY DEF Init
  <2>2. owner \in [Cycles -> Workers] /\ crashes \in 0 .. MaxCrashes
    BY <2>1, CountAssumption DEF Init
  <2>3. /\ db \in States /\ mem \in [Workers -> States]
        /\ lapse \in Lapses /\ faults \in 0 .. MaxFaults
    BY DefaultTyped, CountAssumption DEF Init, Lapses
  <2>4. QED
    BY <2>2, <2>3 DEF Init, TypeOK
<1>2. TypeOK /\ [Next]_vars => TypeOK'
  <2> SUFFICES ASSUME TypeOK, [Next]_vars PROVE TypeOK'
    OBVIOUS
  <2> USE DEF queue, state, poller, service, tasks
  <2>0. \A s \in {"idle", "done", "error", "stopped", "running", "starting", "stopping"} : s \in Ended \cup Active
    BY DEF Ended, Active
  <2>1. ASSUME NEW k \in Commands, Enqueue(k) PROVE TypeOK'
    <3>1. PICK t \in Kinds : kind' = [kind EXCEPT ![k] = t]
      BY <2>1 DEF Enqueue
    <3>2. QED
      BY <2>1, <3>1 DEF TypeOK, Enqueue
  <2>2. ASSUME NEW w \in Workers, NEW k \in Commands, Claim(w, k) PROVE TypeOK'
    BY <2>2 DEF TypeOK, Claim, Pending
  <2>3. ASSUME NEW w \in Workers, NEW c \in Cycles, Launch(w, c) PROVE TypeOK'
    <3>1. [status |-> "starting", cycle |-> c] \in States
      BY DEF States, Active
    <3>0. "none" \in Lapses /\ SaveAs([status |-> "starting", cycle |-> c], "none")
      BY <2>3 DEF Lapses, Launch, Save
    <3>2. /\ mem' \in [Workers -> States]
          /\ db' \in States /\ stale' \in BOOLEAN /\ lapse' \in Lapses /\ faults' \in 0 .. MaxFaults
      BY <2>3, <3>1, <3>0, SaveAsTyped DEF TypeOK, Launch
    <3>3. cause' \in [Cycles -> Commands \cup {0, Trigger}]
      BY <2>3 DEF TypeOK, Launch
    <3>4. CASE trigger[w]
      BY <2>3, <3>2, <3>3, <3>4 DEF TypeOK, Launch
    <3>5. CASE ~trigger[w]
      BY <2>3, <3>2, <3>3, <3>5 DEF TypeOK, Launch, Record
    <3>6. QED
      BY <3>4, <3>5
  <2>4. ASSUME NEW w \in Workers, StartCommand(w) PROVE TypeOK'
    BY <2>4, PassTyped DEF TypeOK, StartCommand, Record
  <2>5. ASSUME NEW w \in Workers, FastStopCommand(w) PROVE TypeOK'
    <3>1. w \in Workers
      BY DEF TypeOK
    <3>2. mem' \in [Workers -> States]
      BY <2>5, <2>0, <3>1, SetStatusTyped DEF FastStopCommand, RequestStop, CancelTask, TaskAlive, Record
    <3>3. db' \in States /\ stale' \in BOOLEAN /\ lapse' \in Lapses /\ faults' \in 0 .. MaxFaults
      BY <2>5, <2>0, <3>1, SaveNoneTyped DEF FastStopCommand, RequestStop, CancelTask, TaskAlive, Record
    <3>4. QED
      BY <2>5, <3>1, <3>2, <3>3 DEF TypeOK, FastStopCommand, RequestStop, CancelTask, TaskAlive, Record
  <2>6. ASSUME NEW w \in Workers, StopCommand(w) PROVE TypeOK'
    <3>1. w \in Workers
      BY DEF TypeOK
    <3>2. mem' \in [Workers -> States]
      BY <2>6, <2>0, <3>1, SetStatusTyped DEF StopCommand, RequestStop, CancelTask, TaskAlive, Await
    <3>3. db' \in States /\ stale' \in BOOLEAN /\ lapse' \in Lapses /\ faults' \in 0 .. MaxFaults
      BY <2>6, <2>0, <3>1, SaveNoneTyped DEF StopCommand, RequestStop, CancelTask, TaskAlive, Await
    <3>4. QED
      BY <2>6, <3>1, <3>2, <3>3 DEF TypeOK, StopCommand, RequestStop, CancelTask, TaskAlive, Await
  <2>7. ASSUME NEW w \in Workers, StopNothing(w) PROVE TypeOK'
    BY <2>7 DEF TypeOK, StopNothing, Record
  <2>8. ASSUME NEW w \in Workers, StopLeftover(w) PROVE TypeOK'
    <3>1. w \in Workers
      BY DEF TypeOK
    <3>2. mem' \in [Workers -> States]
      BY <2>8, <2>0, <3>1, SetStatusTyped DEF StopLeftover, MarkStopped, Record
    <3>3. db' \in States /\ stale' \in BOOLEAN /\ lapse' \in Lapses /\ faults' \in 0 .. MaxFaults
      BY <2>8, <2>0, <3>1, SaveTyped DEF StopLeftover, MarkStopped, Record, Lapses
    <3>4. QED
      BY <2>8, <3>1, <3>2, <3>3 DEF TypeOK, StopLeftover, MarkStopped, Record
  <2>9. ASSUME NEW w \in Workers, ResetCommand(w) PROVE TypeOK'
    <3>1. CASE TaskAlive(w)
      <4>1. handle[w] \in Cycles /\ cancelled' = cancelled \cup {handle[w]}
        BY <2>9, <3>1 DEF TypeOK, ResetCommand, CancelTask, TaskAlive
      <4>2. /\ UNCHANGED <<kind, command, state, mem, handle, killed, current, result, trigger>>
            /\ UNCHANGED <<phase, owner, cause, crashes>>
            /\ stopFlag' = [stopFlag EXCEPT ![w] = TRUE]
            /\ step' = [step EXCEPT ![w] = "resetWait"]
            /\ awaited' = [awaited EXCEPT ![w] = handle[w]]
        BY <2>9, <3>1 DEF ResetCommand, Await
      <4>3. QED
        BY <4>1, <4>2 DEF TypeOK
    <3>2. CASE ~TaskAlive(w)
      BY <2>9, <3>2, ResetTyped DEF TypeOK, ResetCommand, Record, Lapses
    <3>3. QED
      BY <3>1, <3>2
  <2>10. ASSUME NEW w \in Workers, FinishStop(w) PROVE TypeOK'
    <3>1. w \in Workers
      BY DEF TypeOK
    <3>2. mem' \in [Workers -> States]
      BY <2>10, <2>0, <3>1, SetStatusTyped DEF FinishStop, MarkStopped
    <3>3. db' \in States /\ stale' \in BOOLEAN /\ lapse' \in Lapses /\ faults' \in 0 .. MaxFaults
      BY <2>10, <2>0, <3>1, SaveTyped DEF FinishStop, MarkStopped, Lapses
    <3>4. QED
      BY <2>10, <3>1, <3>2, <3>3 DEF TypeOK, FinishStop, MarkStopped
  <2>11. ASSUME NEW w \in Workers, FinishReset(w) PROVE TypeOK'
    <3>0. PICK l \in Lapses : Reset(w, l)
      BY <2>11 DEF FinishReset, Lapses
    <3>1. /\ db' \in States /\ stale' \in BOOLEAN /\ lapse' \in Lapses /\ faults' \in 0 .. MaxFaults
          /\ mem' \in [Workers -> States]
          /\ handle' \in [Workers -> Cycles \cup {NoCycle}]
          /\ stopFlag' \in [Workers -> BOOLEAN]
          /\ killed' \in [Workers -> BOOLEAN]
      BY <3>0, ResetTyped
    <3>2. QED
      BY <2>11, <3>1 DEF TypeOK, FinishReset
  <2>12. ASSUME NEW w \in Workers, Settle(w) PROVE TypeOK'
    BY <2>12 DEF TypeOK, Settle, Commands
  <2>13. ASSUME NEW w \in Workers, FireTrigger(w) PROVE TypeOK'
    BY <2>13, PassTyped DEF TypeOK, FireTrigger
  <2>14. ASSUME NEW w \in Workers, Boot(w) PROVE TypeOK'
    <3>1. [db EXCEPT !.status = IF @ \in {"running", "starting"} THEN "error" ELSE @] \in States
      BY DEF TypeOK, States, Ended
    <3>2. db' \in States /\ lapse' \in Lapses
      BY <2>14, <3>1 DEF TypeOK, Boot, ResetState, Note, Lapses
    <3>3. faults' \in 0 .. MaxFaults
      BY <2>14, FaultTyped DEF TypeOK, Boot
    <3>4. command' \in [Commands -> {"none", "pending", "running", "completed", "skipped", "error"}]
      BY <2>14 DEF TypeOK, Boot, ResetQueue
    <3>5. QED
      BY <2>14, <3>2, <3>3, <3>4 DEF TypeOK, Boot
  <2>15. ASSUME NEW w \in Workers, Crash(w) PROVE TypeOK'
    BY <2>15, CountAssumption, DefaultTyped DEF TypeOK, Crash
  <2>16. ASSUME NEW c \in Cycles, CancelEarly(c) PROVE TypeOK'
    BY <2>16 DEF TypeOK, CancelEarly, MoveTo
  <2>17. ASSUME NEW c \in Cycles, Interrupt(c) PROVE TypeOK'
    <3>1. owner[c] \in Workers
      BY DEF TypeOK
    <3>2. mem' \in [Workers -> States]
      BY <2>17, <2>0, <3>1, SetStatusTyped DEF Interrupt, MoveTo
    <3>3. QED
      BY <2>17, <3>1, <3>2 DEF TypeOK, Interrupt, MoveTo
  <2>18. ASSUME NEW c \in Cycles, LeaveTail(c) PROVE TypeOK'
    <3>1. mem[owner[c]].status \in Ended \cup Active
      BY <2>0 DEF TypeOK, States
    <3>2. Leave(c, mem[owner[c]].status)
      BY <2>18 DEF LeaveTail
    <3>3. QED
      BY <2>18, <3>1, <3>2, LeaveTyped DEF TypeOK, LeaveTail
  <2>19. ASSUME NEW c \in Cycles, Begin(c) PROVE TypeOK'
    BY <2>19 DEF TypeOK, Begin, MoveTo
  <2>20. ASSUME NEW c \in Cycles, PreflightPasses(c) PROVE TypeOK'
    BY <2>20 DEF TypeOK, PreflightPasses, MoveTo
  <2>21. ASSUME NEW c \in Cycles, PreflightFails(c) PROVE TypeOK'
    <3>1. owner[c] \in Workers
      BY DEF TypeOK
    <3>2. mem' \in [Workers -> States]
      BY <2>21, <2>0, <3>1, SetStatusTyped DEF PreflightFails, MoveTo
    <3>3. db' \in States /\ stale' \in BOOLEAN /\ lapse' \in Lapses /\ faults' \in 0 .. MaxFaults
      BY <2>21, <2>0, <3>1, SaveNoneTyped DEF PreflightFails, MoveTo
    <3>4. QED
      BY <2>21, <3>1, <3>2, <3>3 DEF TypeOK, PreflightFails, MoveTo
  <2>22. ASSUME NEW c \in Cycles, Progress(c) PROVE TypeOK'
    <3>1. owner[c] \in Workers
      BY DEF TypeOK
    <3>2. mem' \in [Workers -> States]
      BY <2>22, <2>0, <3>1, SetStatusTyped DEF Progress, MoveTo
    <3>3. db' \in States /\ stale' \in BOOLEAN /\ lapse' \in Lapses /\ faults' \in 0 .. MaxFaults
      BY <2>22, <2>0, <3>1, SaveNoneTyped DEF Progress, MoveTo
    <3>4. QED
      BY <2>22, <3>1, <3>2, <3>3 DEF TypeOK, Progress, MoveTo
  <2>23. ASSUME NEW c \in Cycles, ChooseNone(c) PROVE TypeOK'
    <3>1. "idle" \in Ended \cup Active
      BY <2>0 DEF TypeOK, States
    <3>2. Leave(c, "idle")
      BY <2>23 DEF ChooseNone
    <3>3. QED
      BY <2>23, <3>1, <3>2, LeaveTyped DEF TypeOK, ChooseNone
  <2>24. ASSUME NEW c \in Cycles, Finish(c) PROVE TypeOK'
    <3>1. "done" \in Ended \cup Active
      BY <2>0 DEF TypeOK, States
    <3>2. Leave(c, "done")
      BY <2>24 DEF Finish
    <3>3. QED
      BY <2>24, <3>1, <3>2, LeaveTyped DEF TypeOK, Finish
  <2>25. ASSUME NEW c \in Cycles, Fail(c) PROVE TypeOK'
    <3>1. owner[c] \in Workers
      BY DEF TypeOK
    <3>2. mem' \in [Workers -> States]
      BY <2>25, <2>0, <3>1, SetStatusTyped DEF Fail, MoveTo
    <3>3. QED
      BY <2>25, <3>1, <3>2 DEF TypeOK, Fail, MoveTo
  <2>26. CASE Age
    BY <2>26 DEF TypeOK, Age
  <2>27. CASE UNCHANGED vars
    BY <2>27 DEF TypeOK, vars
  <2>28. ASSUME NEW w \in Workers, NEW c \in Cycles, LaunchFails(w, c) PROVE TypeOK'
    <3>1. PICK s \in {"starting", "error"} :
             /\ mem' = [mem EXCEPT ![w] = [status |-> s, cycle |-> c]]
             /\ db' \in {db, [status |-> "starting", cycle |-> c], [status |-> s, cycle |-> c]}
      BY <2>28 DEF LaunchFails
    <3>2. [status |-> s, cycle |-> c] \in States /\ [status |-> "starting", cycle |-> c] \in States
      BY DEF States, Active, Ended
    <3>3. db' \in States /\ mem' \in [Workers -> States]
      BY <3>1, <3>2 DEF TypeOK
    <3>4. lapse' \in Lapses /\ stale' \in BOOLEAN /\ faults' \in 0 .. MaxFaults
      BY <2>28, FaultTyped DEF TypeOK, LaunchFails, Note, Lapses
    <3>5. CASE trigger[w]
      BY <2>28, <3>3, <3>4, <3>5 DEF TypeOK, LaunchFails
    <3>6. CASE ~trigger[w]
      BY <2>28, <3>3, <3>4, <3>6 DEF TypeOK, LaunchFails, Record
    <3>7. QED
      BY <3>5, <3>6
  <2>29. QED
    BY <2>1, <2>2, <2>3, <2>4, <2>5, <2>6, <2>7, <2>8, <2>9, <2>10, <2>11, <2>12, <2>13, <2>14, <2>15, <2>16, <2>17, <2>18, <2>19, <2>20, <2>21, <2>22, <2>23, <2>24, <2>25, <2>26, <2>27, <2>28 DEF Next, Poll, Unwind, Run
<1>3. QED
  BY <1>1, <1>2, PTL DEF Spec

-----------------------------------------------------------------------------
(* At most one live cycle: while it lives it is the handle of its process, *)
(* and no start goes past its checks while the handle is alive.            *)

\* A handle names a task of this process.
HandleKnown ==
    \A w \in Workers : handle[w] # NoCycle => owner[handle[w]] = w /\ phase[handle[w]] # "none"

\* A live task is forgotten only by a reset that the sweep ran into.
LiveIsHandle == lapse # "reset" => \A c \in Cycles : Live(c) => handle[owner[c]] = c

\* A start past its checks holds the event loop and has no live task.
StartClear ==
    \A w \in Workers :
        /\ trigger[w] => Triggers /\ step[w] \in {"idle", "stopWait", "resetWait"}
        /\ step[w] = "launch" \/ trigger[w] => ~TaskAlive(w)

ExecutesSome == \A w \in Workers : step[w] = "exec" => current[w] \in Commands

LiveInv == HandleKnown /\ LiveIsHandle /\ StartClear /\ ExecutesSome

\* LiveInv is inductive.
LEMMA LiveStep == TypeOK /\ LiveInv /\ [Next]_vars => LiveInv'
<1> SUFFICES ASSUME TypeOK, LiveInv, [Next]_vars PROVE LiveInv'
  OBVIOUS
<1>1. /\ kind \in [Commands -> Kinds \cup {"none"}]
      /\ current \in [Workers -> Commands \cup {0}]
      /\ trigger \in [Workers -> BOOLEAN]
      /\ awaited \in [Workers -> Cycles \cup {NoCycle}]
      /\ handle \in [Workers -> Cycles \cup {NoCycle}]
      /\ owner \in [Cycles -> Workers]
      /\ step \in [Workers -> {"down", "idle", "exec", "launch", "settle", "stopWait", "resetWait"}]
      /\ phase \in [Cycles -> {"none", "queued", "preflight", "discover", "work", "tail", "over"}]
  BY DEF TypeOK
<1>2. QED
  <2> USE <1>1, NoneAssumption DEF LiveInv, HandleKnown, LiveIsHandle, StartClear, ExecutesSome, Live, TaskAlive, queue, state, poller, service, tasks
  <2>1. ASSUME NEW k \in Commands, Enqueue(k) PROVE LiveInv'
    BY <2>1 DEF Enqueue
  <2>2. ASSUME NEW w \in Workers, NEW k \in Commands, Claim(w, k) PROVE LiveInv'
    BY <2>2 DEF Claim, LoopFree
  <2>3. ASSUME NEW w \in Workers, NEW c \in Cycles, Launch(w, c) PROVE LiveInv'
    <3>1. HandleKnown'
      BY <2>3 DEF Launch, Record, Save, SaveAs, Note, Fault
    <3>2. LiveIsHandle'
      BY <2>3 DEF Launch, Record, Save, SaveAs, Note, Fault
    <3>3. StartClear'
      BY <2>3 DEF Launch, Record, Save, SaveAs, Note, Fault
    <3>4. ExecutesSome'
      BY <2>3 DEF Launch, Record, Save, SaveAs, Note, Fault
    <3>5. QED
      BY <3>1, <3>2, <3>3, <3>4 DEF LiveInv
  <2>4. ASSUME NEW w \in Workers, StartCommand(w) PROVE LiveInv'
    <3>1. HandleKnown'
      BY <2>4 DEF StartCommand, Executes, PassChecks, Startable, ClearOrphan, Reset, Record, SaveAs, Note, Fault
    <3>2. LiveIsHandle'
      BY <2>4 DEF StartCommand, Executes, PassChecks, Startable, ClearOrphan, Reset, Record, SaveAs, Note, Fault
    <3>3. StartClear'
      BY <2>4 DEF StartCommand, Executes, PassChecks, Startable, ClearOrphan, Reset, Record, SaveAs, Note, Fault
    <3>4. ExecutesSome'
      BY <2>4 DEF StartCommand, Executes, PassChecks, Startable, ClearOrphan, Reset, Record, SaveAs, Note, Fault
    <3>5. QED
      BY <3>1, <3>2, <3>3, <3>4 DEF LiveInv
  <2>5. ASSUME NEW w \in Workers, FastStopCommand(w) PROVE LiveInv'
    BY <2>5 DEF FastStopCommand, Executes, RequestStop, Save, SaveAs, Note, Fault, Record
  <2>6. ASSUME NEW w \in Workers, StopCommand(w) PROVE LiveInv'
    BY <2>6 DEF StopCommand, Executes, RequestStop, Save, SaveAs, Note, Fault, Await
  <2>7. ASSUME NEW w \in Workers, StopNothing(w) PROVE LiveInv'
    BY <2>7 DEF StopNothing, Executes, Record
  <2>8. ASSUME NEW w \in Workers, StopLeftover(w) PROVE LiveInv'
    BY <2>8 DEF StopLeftover, Executes, MarkStopped, SaveAs, Note, Fault, Record
  <2>9. ASSUME NEW w \in Workers, ResetCommand(w) PROVE LiveInv'
    <3>1. HandleKnown'
      BY <2>9 DEF ResetCommand, Executes, Await, Reset, SaveAs, Note, Fault, Record
    <3>2. LiveIsHandle'
      BY <2>9 DEF ResetCommand, Executes, Await, Reset, SaveAs, Note, Fault, Record
    <3>3. StartClear'
      BY <2>9 DEF ResetCommand, Executes, Await, Reset, SaveAs, Note, Fault, Record
    <3>4. ExecutesSome'
      BY <2>9 DEF ResetCommand, Executes, Await, Reset, SaveAs, Note, Fault, Record
    <3>5. QED
      BY <3>1, <3>2, <3>3, <3>4 DEF LiveInv
  <2>10. ASSUME NEW w \in Workers, FinishStop(w) PROVE LiveInv'
    BY <2>10 DEF FinishStop, LoopFree, ResumeDue, Overrun, MarkStopped, SaveAs, Note, Fault
  <2>11. ASSUME NEW w \in Workers, FinishReset(w) PROVE LiveInv'
    <3>1. HandleKnown'
      BY <2>11 DEF FinishReset, LoopFree, ResumeDue, Overrun, Reset, SaveAs, Note, Fault
    <3>2. LiveIsHandle'
      BY <2>11 DEF FinishReset, LoopFree, ResumeDue, Overrun, Reset, SaveAs, Note, Fault
    <3>3. StartClear'
      BY <2>11 DEF FinishReset, LoopFree, ResumeDue, Overrun, Reset, SaveAs, Note, Fault
    <3>4. ExecutesSome'
      BY <2>11 DEF FinishReset, LoopFree, ResumeDue, Overrun, Reset, SaveAs, Note, Fault
    <3>5. QED
      BY <3>1, <3>2, <3>3, <3>4 DEF LiveInv
  <2>12. ASSUME NEW w \in Workers, Settle(w) PROVE LiveInv'
    BY <2>12 DEF Settle
  <2>13. ASSUME NEW w \in Workers, FireTrigger(w) PROVE LiveInv'
    <3>1. HandleKnown'
      BY <2>13 DEF FireTrigger, LoopFree, PassChecks, Startable, ClearOrphan, Reset, SaveAs, Note, Fault
    <3>2. LiveIsHandle'
      BY <2>13 DEF FireTrigger, LoopFree, PassChecks, Startable, ClearOrphan, Reset, SaveAs, Note, Fault
    <3>3. StartClear'
      BY <2>13 DEF FireTrigger, LoopFree, PassChecks, Startable, ClearOrphan, Reset, SaveAs, Note, Fault
    <3>4. ExecutesSome'
      BY <2>13 DEF FireTrigger, LoopFree, PassChecks, Startable, ClearOrphan, Reset, SaveAs, Note, Fault
    <3>5. QED
      BY <3>1, <3>2, <3>3, <3>4 DEF LiveInv
  <2>14. ASSUME NEW w \in Workers, Boot(w) PROVE LiveInv'
    BY <2>14 DEF Boot, ResetState, ResetQueue, Note, Fault
  <2>15. ASSUME NEW w \in Workers, Crash(w) PROVE LiveInv'
    <3>1. HandleKnown'
      BY <2>15 DEF Crash
    <3>2. LiveIsHandle'
      BY <2>15 DEF Crash
    <3>3. StartClear'
      BY <2>15 DEF Crash
    <3>4. ExecutesSome'
      BY <2>15 DEF Crash
    <3>5. QED
      BY <3>1, <3>2, <3>3, <3>4 DEF LiveInv
  <2>16. ASSUME NEW c \in Cycles, CancelEarly(c) PROVE LiveInv'
    BY <2>16 DEF CancelEarly, Turn, LoopFree, MoveTo
  <2>17. ASSUME NEW c \in Cycles, Interrupt(c) PROVE LiveInv'
    BY <2>17 DEF Interrupt, Advance, Turn, LoopFree, MoveTo
  <2>18. ASSUME NEW c \in Cycles, LeaveTail(c) PROVE LiveInv'
    BY <2>18 DEF LeaveTail, Advance, Turn, LoopFree, Leave, Save, SaveAs, Note, Fault, MoveTo
  <2>19. ASSUME NEW c \in Cycles, Begin(c) PROVE LiveInv'
    BY <2>19 DEF Begin, Turn, LoopFree, MoveTo
  <2>20. ASSUME NEW c \in Cycles, PreflightPasses(c) PROVE LiveInv'
    BY <2>20 DEF PreflightPasses, Advance, Turn, LoopFree, MoveTo
  <2>21. ASSUME NEW c \in Cycles, PreflightFails(c) PROVE LiveInv'
    BY <2>21 DEF PreflightFails, Advance, Turn, LoopFree, Save, SaveAs, Note, Fault, MoveTo
  <2>22. ASSUME NEW c \in Cycles, Progress(c) PROVE LiveInv'
    BY <2>22 DEF Progress, Advance, Turn, LoopFree, Save, SaveAs, Note, Fault, MoveTo
  <2>23. ASSUME NEW c \in Cycles, ChooseNone(c) PROVE LiveInv'
    BY <2>23 DEF ChooseNone, Advance, Turn, LoopFree, Leave, Save, SaveAs, Note, Fault, MoveTo
  <2>24. ASSUME NEW c \in Cycles, Finish(c) PROVE LiveInv'
    BY <2>24 DEF Finish, Advance, Turn, LoopFree, Leave, Save, SaveAs, Note, Fault, MoveTo
  <2>25. ASSUME NEW c \in Cycles, Fail(c) PROVE LiveInv'
    BY <2>25 DEF Fail, Advance, Turn, LoopFree, MoveTo
  <2>26. ASSUME NEW w \in Workers, NEW c \in Cycles, LaunchFails(w, c) PROVE LiveInv'
    <3>1. HandleKnown'
      BY <2>26 DEF LaunchFails, Record, Note, Fault
    <3>2. LiveIsHandle'
      BY <2>26 DEF LaunchFails, Record, Note, Fault
    <3>3. StartClear'
      BY <2>26 DEF LaunchFails, Record, Note, Fault
    <3>4. ExecutesSome'
      BY <2>26 DEF LaunchFails, Record, Note, Fault
    <3>5. QED
      BY <3>1, <3>2, <3>3, <3>4 DEF LiveInv
  <2>27. CASE Age
    BY <2>27 DEF Age
  <2>28. CASE UNCHANGED vars
    BY <2>28 DEF vars
  <2>29. QED
    BY <2>1, <2>2, <2>3, <2>4, <2>5, <2>6, <2>7, <2>8, <2>9, <2>10, <2>11, <2>12, <2>13, <2>14, <2>15, <2>16, <2>17, <2>18, <2>19, <2>20, <2>21, <2>22, <2>23, <2>24, <2>25, <2>26, <2>27, <2>28 DEF Next, Poll, Unwind, Run

\* A process has one live cycle, unless a reset forgot one that the sweep had
\* started while the reset waited.
THEOREM OneLiveCycle == Spec => []AtMostOneLive
<1>1. Init => LiveInv
  BY NoneAssumption DEF Init, LiveInv, HandleKnown, LiveIsHandle, StartClear, ExecutesSome, Live, TaskAlive
<1>2. LiveInv => AtMostOneLive
  BY DEF LiveInv, LiveIsHandle, AtMostOneLive
<1>3. QED
  BY <1>1, <1>2, LiveStep, TypeCorrect, PTL DEF Spec

-----------------------------------------------------------------------------
(* The kill switch.  It is armed only by a stop, which cancels the live    *)
(* task; a cancellation is used up only by a cycle that leaves its work.   *)

LEMMA KillStep ==
    TypeOK /\ LiveInv /\ FreshCycleNotKilled /\ [Next]_vars => FreshCycleNotKilled'
<1> SUFFICES ASSUME TypeOK, LiveInv, FreshCycleNotKilled, [Next]_vars PROVE FreshCycleNotKilled'
  OBVIOUS
<1>1. /\ handle \in [Workers -> Cycles \cup {NoCycle}]
      /\ owner \in [Cycles -> Workers]
      /\ killed \in [Workers -> BOOLEAN]
      /\ phase \in [Cycles -> {"none", "queued", "preflight", "discover", "work", "tail", "over"}]
      /\ cancelled \subseteq Cycles
      /\ lapse # "reset" => \A c \in Cycles : Live(c) => handle[owner[c]] = c
  BY DEF TypeOK, LiveInv, LiveIsHandle
<1>2. QED
  <2> USE <1>1, NoneAssumption DEF FreshCycleNotKilled, Live, TaskAlive, queue, state, poller, service, tasks
  <2>1. ASSUME NEW k \in Commands, Enqueue(k) PROVE FreshCycleNotKilled'
    BY <2>1 DEF Enqueue
  <2>2. ASSUME NEW w \in Workers, NEW k \in Commands, Claim(w, k) PROVE FreshCycleNotKilled'
    BY <2>2 DEF Claim, LoopFree
  <2>3. ASSUME NEW w \in Workers, NEW c \in Cycles, Launch(w, c) PROVE FreshCycleNotKilled'
    BY <2>3 DEF Launch, Record, Save, SaveAs, Note, Fault
  <2>4. ASSUME NEW w \in Workers, StartCommand(w) PROVE FreshCycleNotKilled'
    BY <2>4 DEF StartCommand, Executes, PassChecks, Startable, ClearOrphan, Reset, Record, SaveAs, Note, Fault
  <2>5. ASSUME NEW w \in Workers, FastStopCommand(w) PROVE FreshCycleNotKilled'
    BY <2>5 DEF FastStopCommand, Executes, RequestStop, CancelTask, Save, SaveAs, Note, Fault, Record
  <2>6. ASSUME NEW w \in Workers, StopCommand(w) PROVE FreshCycleNotKilled'
    BY <2>6 DEF StopCommand, Executes, RequestStop, CancelTask, Save, SaveAs, Note, Fault, Await
  <2>7. ASSUME NEW w \in Workers, StopNothing(w) PROVE FreshCycleNotKilled'
    BY <2>7 DEF StopNothing, Executes, Record
  <2>8. ASSUME NEW w \in Workers, StopLeftover(w) PROVE FreshCycleNotKilled'
    BY <2>8 DEF StopLeftover, Executes, MarkStopped, SaveAs, Note, Fault, Record
  <2>9. ASSUME NEW w \in Workers, ResetCommand(w) PROVE FreshCycleNotKilled'
    BY <2>9 DEF ResetCommand, Executes, CancelTask, Await, Reset, SaveAs, Note, Fault, Record
  <2>10. ASSUME NEW w \in Workers, FinishStop(w) PROVE FreshCycleNotKilled'
    BY <2>10 DEF FinishStop, LoopFree, ResumeDue, Overrun, MarkStopped, SaveAs, Note, Fault
  <2>11. ASSUME NEW w \in Workers, FinishReset(w) PROVE FreshCycleNotKilled'
    BY <2>11 DEF FinishReset, LoopFree, ResumeDue, Overrun, Reset, SaveAs, Note, Fault
  <2>12. ASSUME NEW w \in Workers, Settle(w) PROVE FreshCycleNotKilled'
    BY <2>12 DEF Settle
  <2>13. ASSUME NEW w \in Workers, FireTrigger(w) PROVE FreshCycleNotKilled'
    BY <2>13 DEF FireTrigger, LoopFree, PassChecks, Startable, ClearOrphan, Reset, SaveAs, Note, Fault
  <2>14. ASSUME NEW w \in Workers, Boot(w) PROVE FreshCycleNotKilled'
    BY <2>14 DEF Boot, ResetState, ResetQueue, Note, Fault
  <2>15. ASSUME NEW w \in Workers, Crash(w) PROVE FreshCycleNotKilled'
    BY <2>15 DEF Crash
  <2>16. ASSUME NEW c \in Cycles, CancelEarly(c) PROVE FreshCycleNotKilled'
    BY <2>16 DEF CancelEarly, Turn, LoopFree, MoveTo
  <2>17. ASSUME NEW c \in Cycles, Interrupt(c) PROVE FreshCycleNotKilled'
    BY <2>17 DEF Interrupt, Advance, Turn, LoopFree, MoveTo
  <2>18. ASSUME NEW c \in Cycles, LeaveTail(c) PROVE FreshCycleNotKilled'
    BY <2>18 DEF LeaveTail, Advance, Turn, LoopFree, Leave, Save, SaveAs, Note, Fault, MoveTo
  <2>19. ASSUME NEW c \in Cycles, Begin(c) PROVE FreshCycleNotKilled'
    BY <2>19 DEF Begin, Turn, LoopFree, MoveTo
  <2>20. ASSUME NEW c \in Cycles, PreflightPasses(c) PROVE FreshCycleNotKilled'
    BY <2>20 DEF PreflightPasses, Advance, Turn, LoopFree, MoveTo
  <2>21. ASSUME NEW c \in Cycles, PreflightFails(c) PROVE FreshCycleNotKilled'
    BY <2>21 DEF PreflightFails, Advance, Turn, LoopFree, Save, SaveAs, Note, Fault, MoveTo
  <2>22. ASSUME NEW c \in Cycles, Progress(c) PROVE FreshCycleNotKilled'
    BY <2>22 DEF Progress, Advance, Turn, LoopFree, Save, SaveAs, Note, Fault, MoveTo
  <2>23. ASSUME NEW c \in Cycles, ChooseNone(c) PROVE FreshCycleNotKilled'
    BY <2>23 DEF ChooseNone, Advance, Turn, LoopFree, Leave, Save, SaveAs, Note, Fault, MoveTo
  <2>24. ASSUME NEW c \in Cycles, Finish(c) PROVE FreshCycleNotKilled'
    BY <2>24 DEF Finish, Advance, Turn, LoopFree, Leave, Save, SaveAs, Note, Fault, MoveTo
  <2>25. ASSUME NEW c \in Cycles, Fail(c) PROVE FreshCycleNotKilled'
    BY <2>25 DEF Fail, Advance, Turn, LoopFree, MoveTo
  <2>26. ASSUME NEW w \in Workers, NEW c \in Cycles, LaunchFails(w, c) PROVE FreshCycleNotKilled'
    BY <2>26 DEF LaunchFails, Record, Note, Fault
  <2>27. CASE Age
    BY <2>27 DEF Age
  <2>28. CASE UNCHANGED vars
    BY <2>28 DEF vars
  <2>29. QED
    BY <2>1, <2>2, <2>3, <2>4, <2>5, <2>6, <2>7, <2>8, <2>9, <2>10, <2>11, <2>12, <2>13, <2>14, <2>15, <2>16, <2>17, <2>18, <2>19, <2>20, <2>21, <2>22, <2>23, <2>24, <2>25, <2>26, <2>27, <2>28 DEF Next, Poll, Unwind, Run

\* Whatever process runs it, a cycle at work with its kill switch armed is one
\* that was told to stop: a stop of an earlier cycle does not reach it.
THEOREM FreshCycles == Spec => []FreshCycleNotKilled
<1>1. Init => LiveInv /\ FreshCycleNotKilled
  BY NoneAssumption DEF Init, LiveInv, HandleKnown, LiveIsHandle, StartClear, ExecutesSome, Live, TaskAlive, FreshCycleNotKilled
<1>2. QED
  BY <1>1, LiveStep, KillStep, TypeCorrect, PTL DEF Spec

-----------------------------------------------------------------------------
(* One process, as it is deployed: the published status follows the live   *)
(* cycle.                                                                  *)

DownEmpty(w) == step[w] = "down" => mem[w] = DefaultState /\ \A c \in Cycles : ~Live(c)

CancelledLive == \A c \in cancelled : Live(c)

\* A live cycle is the one the process knows.
LiveMem(w) == lapse # "reset" => \A c \in Cycles : Live(c) => mem[w].cycle = c

\* A cycle that winds up has its last status, unless a stop came over it.
TailEnds(w) ==
    lapse # "reset" =>
        \A c \in Cycles : phase[c] = "tail" => mem[w].status \in {"stopped", "error", "stopping"}

\* A task cancelled before its `try' leaves no status: the stop or the reset
\* that cancelled it has published one, or will.
CancelShown(w) ==
    lapse = "none" =>
        \A c \in cancelled :
            phase[c] \in {"queued", "preflight"} => db.status = "stopping" \/ step[w] = "resetWait"

IdleTrue == lapse = "none" => IdleMeansNoCycle
RunningTrue == lapse = "none" => RunningIsAlive

StatusInv(w) ==
    /\ DownEmpty(w) /\ CancelledLive /\ LiveMem(w) /\ TailEnds(w) /\ CancelShown(w)
    /\ IdleTrue /\ RunningTrue

\* StatusInv is inductive for one process.
LEMMA StatusStep ==
    ASSUME NEW W, Workers = {W}
    PROVE  TypeOK /\ LiveInv /\ StatusInv(W) /\ [Next]_vars => StatusInv(W)'
<1> SUFFICES ASSUME TypeOK, LiveInv, StatusInv(W), [Next]_vars PROVE StatusInv(W)'
  OBVIOUS
<1>1. /\ db \in States /\ mem \in [Workers -> States]
      /\ step \in [Workers -> {"down", "idle", "exec", "launch", "settle", "stopWait", "resetWait"}]
      /\ awaited \in [Workers -> Cycles \cup {NoCycle}]
      /\ handle \in [Workers -> Cycles \cup {NoCycle}]
      /\ owner \in [Cycles -> Workers] /\ (\A c \in Cycles : owner[c] = W)
      /\ phase \in [Cycles -> {"none", "queued", "preflight", "discover", "work", "tail", "over"}]
      /\ cancelled \subseteq Cycles
  BY DEF TypeOK
<1>2. /\ lapse # "reset" => \A c \in Cycles : Live(c) => handle[W] = c
      /\ step[W] = "launch" \/ trigger[W] => ~TaskAlive(W)
      /\ trigger[W] => step[W] \in {"idle", "stopWait", "resetWait"}
  BY <1>1 DEF LiveInv, LiveIsHandle, StartClear
<1>3. /\ Ended = {"idle", "done", "error", "stopped"} /\ Active = {"running", "starting", "stopping"}
      /\ States = [status : Ended \cup Active, cycle : Cycles \cup {NoCycle}]
      /\ DefaultState = [status |-> "idle", cycle |-> NoCycle]
  BY DEF Ended, Active, States, DefaultState
<1>4. QED
  <2> USE <1>1, <1>2, <1>3, NoneAssumption DEF StatusInv, DownEmpty, CancelledLive, LiveMem, TailEnds, CancelShown, IdleTrue, RunningTrue, IdleMeansNoCycle, RunningIsAlive, Live, TaskAlive, queue, state, poller, service, tasks
  <2>1. ASSUME NEW k \in Commands, Enqueue(k) PROVE StatusInv(W)'
    BY <2>1 DEF Enqueue
  <2>2. ASSUME NEW w \in Workers, NEW k \in Commands, Claim(w, k) PROVE StatusInv(W)'
    BY <2>2 DEF Claim, LoopFree
  <2>3. ASSUME NEW w \in Workers, NEW c \in Cycles, Launch(w, c) PROVE StatusInv(W)'
    BY <2>3 DEF Launch, Record, Save, SaveAs, Note, Fault
  <2>4. ASSUME NEW w \in Workers, StartCommand(w) PROVE StatusInv(W)'
    BY <2>4 DEF StartCommand, Executes, PassChecks, Startable, ClearOrphan, Reset, Record, SaveAs, Note, Fault
  <2>5. ASSUME NEW w \in Workers, FastStopCommand(w) PROVE StatusInv(W)'
    BY <2>5 DEF FastStopCommand, Executes, RequestStop, CancelTask, SetStatus, Save, SaveAs, Note, Fault, Record
  <2>6. ASSUME NEW w \in Workers, StopCommand(w) PROVE StatusInv(W)'
    BY <2>6 DEF StopCommand, Executes, RequestStop, CancelTask, SetStatus, Save, SaveAs, Note, Fault, Await
  <2>7. ASSUME NEW w \in Workers, StopNothing(w) PROVE StatusInv(W)'
    BY <2>7 DEF StopNothing, Executes, Record
  <2>8. ASSUME NEW w \in Workers, StopLeftover(w) PROVE StatusInv(W)'
    BY <2>8 DEF StopLeftover, Executes, MarkStopped, SetStatus, SaveAs, Note, Fault, Record
  <2>9. ASSUME NEW w \in Workers, ResetCommand(w) PROVE StatusInv(W)'
    BY <2>9 DEF ResetCommand, Executes, CancelTask, Await, Reset, SaveAs, Note, Fault, Record
  <2>10. ASSUME NEW w \in Workers, FinishStop(w) PROVE StatusInv(W)'
    BY <2>10 DEF FinishStop, LoopFree, ResumeDue, Overrun, MarkStopped, SetStatus, SaveAs, Note, Fault
  <2>11. ASSUME NEW w \in Workers, FinishReset(w) PROVE StatusInv(W)'
    BY <2>11 DEF FinishReset, LoopFree, ResumeDue, Overrun, Reset, SaveAs, Note, Fault
  <2>12. ASSUME NEW w \in Workers, Settle(w) PROVE StatusInv(W)'
    BY <2>12 DEF Settle
  <2>13. ASSUME NEW w \in Workers, FireTrigger(w) PROVE StatusInv(W)'
    BY <2>13 DEF FireTrigger, LoopFree, PassChecks, Startable, ClearOrphan, Reset, SaveAs, Note, Fault
  <2>14. ASSUME NEW w \in Workers, Boot(w) PROVE StatusInv(W)'
    BY <2>14 DEF Boot, ResetState, ResetQueue, Note, Fault
  <2>15. ASSUME NEW w \in Workers, Crash(w) PROVE StatusInv(W)'
    BY <2>15 DEF Crash
  <2>16. ASSUME NEW c \in Cycles, CancelEarly(c) PROVE StatusInv(W)'
    BY <2>16 DEF CancelEarly, Turn, LoopFree, MoveTo
  <2>17. ASSUME NEW c \in Cycles, Interrupt(c) PROVE StatusInv(W)'
    BY <2>17 DEF Interrupt, Advance, Turn, LoopFree, SetStatus, MoveTo
  <2>18. ASSUME NEW c \in Cycles, LeaveTail(c) PROVE StatusInv(W)'
    BY <2>18 DEF LeaveTail, Advance, Turn, LoopFree, Leave, Save, SaveAs, Note, Fault, MoveTo
  <2>19. ASSUME NEW c \in Cycles, Begin(c) PROVE StatusInv(W)'
    BY <2>19 DEF Begin, Turn, LoopFree, MoveTo
  <2>20. ASSUME NEW c \in Cycles, PreflightPasses(c) PROVE StatusInv(W)'
    BY <2>20 DEF PreflightPasses, Advance, Turn, LoopFree, MoveTo
  <2>21. ASSUME NEW c \in Cycles, PreflightFails(c) PROVE StatusInv(W)'
    BY <2>21 DEF PreflightFails, Advance, Turn, LoopFree, SetStatus, Save, SaveAs, Note, Fault, MoveTo
  <2>22. ASSUME NEW c \in Cycles, Progress(c) PROVE StatusInv(W)'
    BY <2>22 DEF Progress, Advance, Turn, LoopFree, SetStatus, Save, SaveAs, Note, Fault, MoveTo
  <2>23. ASSUME NEW c \in Cycles, ChooseNone(c) PROVE StatusInv(W)'
    BY <2>23 DEF ChooseNone, Advance, Turn, LoopFree, Leave, Save, SaveAs, Note, Fault, MoveTo
  <2>24. ASSUME NEW c \in Cycles, Finish(c) PROVE StatusInv(W)'
    BY <2>24 DEF Finish, Advance, Turn, LoopFree, Leave, Save, SaveAs, Note, Fault, MoveTo
  <2>25. ASSUME NEW c \in Cycles, Fail(c) PROVE StatusInv(W)'
    BY <2>25 DEF Fail, Advance, Turn, LoopFree, SetStatus, MoveTo
  <2>26. ASSUME NEW w \in Workers, NEW c \in Cycles, LaunchFails(w, c) PROVE StatusInv(W)'
    BY <2>26 DEF LaunchFails, Record, Note, Fault
  <2>27. CASE Age
    BY <2>27 DEF Age
  <2>28. CASE UNCHANGED vars
    BY <2>28 DEF vars
  <2>29. QED
    BY <2>1, <2>2, <2>3, <2>4, <2>5, <2>6, <2>7, <2>8, <2>9, <2>10, <2>11, <2>12, <2>13, <2>14, <2>15, <2>16, <2>17, <2>18, <2>19, <2>20, <2>21, <2>22, <2>23, <2>24, <2>25, <2>26, <2>27, <2>28 DEF Next, Poll, Unwind, Run

\* It holds at first.
LEMMA InitInv ==
    ASSUME NEW W, Workers = {W}
    PROVE  Init => LiveInv /\ StatusInv(W)
<1> SUFFICES ASSUME Init PROVE LiveInv /\ StatusInv(W)
  OBVIOUS
<1>1. LiveInv
  BY NoneAssumption DEF Init, LiveInv, HandleKnown, LiveIsHandle, StartClear, ExecutesSome, Live, TaskAlive
<1>2. StatusInv(W)
  BY NoneAssumption DEF Init, StatusInv, DownEmpty, CancelledLive, LiveMem, TailEnds, CancelShown, IdleTrue, RunningTrue, IdleMeansNoCycle, RunningIsAlive, Live, DefaultState, Ended
<1>3. QED
  BY <1>1, <1>2

\* For one process, whatever stops, resets, sweep, crashes and failing calls
\* come together: once the last write took effect, the published status is
\* never an ended one over a live cycle, and "starting" or "running" without
\* one only while the process is down or about to write a reset.
THEOREM PublishedStatusTrue ==
    ASSUME NEW W, Workers = {W}
    PROVE  Spec => []StatusMatchesCycle
<1>1. Init => LiveInv /\ StatusInv(W)
  BY InitInv
<1>2. TypeOK /\ LiveInv /\ StatusInv(W) /\ [Next]_vars => StatusInv(W)'
  BY StatusStep
<1>3. StatusInv(W) => StatusMatchesCycle
  BY DEF StatusInv, IdleTrue, RunningTrue, StatusMatchesCycle
<1>4. QED
  BY <1>1, <1>2, <1>3, LiveStep, TypeCorrect, PTL DEF Spec

-----------------------------------------------------------------------------
(* Outcomes: one process, no sweep and no fast stop.                       *)

\* A published and a known cycle were launched, or failed to be.
CyclesKnown(w) ==
    \A c \in Cycles : db.cycle = c \/ mem[w].cycle = c => phase[c] # "none"

LiveNotEnded ==
    lapse # "reset" => \A c \in Cycles : Live(c) /\ db.cycle = c => db.status \notin {"done", "error"}

\* Over a published outcome, the process neither works nor stops.
EndKept(w) ==
    lapse # "reset" =>
        \A c \in Cycles :
            cause[c] # 0 /\ db.status \in {"done", "error"} /\ db.cycle = c /\ mem[w].cycle = c
            => mem[w].status \notin Active /\ step[w] # "stopWait"

\* While a stop waits, nothing else can end the cycle.
StopWaits(w) ==
    lapse # "reset" /\ step[w] = "stopWait" =>
        /\ mem[w].status \in {"stopping", "stopped"}
        /\ handle[w] \in {awaited[w], NoCycle}
        /\ \A c \in Cycles : Live(c) /\ phase[c] # "tail" => c \in cancelled

OutcomeInv(w) == CyclesKnown(w) /\ LiveNotEnded /\ EndKept(w) /\ StopWaits(w)

\* OutcomeInv is inductive, and no step relabels an outcome.
LEMMA OutcomeStep ==
    ASSUME NEW W, Workers = {W}, ~Triggers, "FAST_STOP" \notin Kinds
    PROVE  TypeOK /\ LiveInv /\ StatusInv(W) /\ OutcomeInv(W) /\ [Next]_vars =>
             /\ OutcomeInv(W)'
             /\ \A c \in Cycles :
                    /\ lapse # "reset" /\ cause[c] # 0
                    /\ db.status \in {"done", "error"} /\ db.cycle = c /\ db'.cycle = c
                    => db'.status \notin {"stopping", "stopped"}
<1> SUFFICES ASSUME TypeOK, LiveInv, StatusInv(W), OutcomeInv(W), [Next]_vars
             PROVE  /\ OutcomeInv(W)'
                    /\ \A c \in Cycles :
                           /\ lapse # "reset" /\ cause[c] # 0
                           /\ db.status \in {"done", "error"} /\ db.cycle = c /\ db'.cycle = c
                           => db'.status \notin {"stopping", "stopped"}
  OBVIOUS
<1>1. /\ kind \in [Commands -> Kinds \cup {"none"}]
      /\ current \in [Workers -> Commands \cup {0}]
      /\ db \in States /\ mem \in [Workers -> States]
      /\ step \in [Workers -> {"down", "idle", "exec", "launch", "settle", "stopWait", "resetWait"}]
      /\ awaited \in [Workers -> Cycles \cup {NoCycle}]
      /\ handle \in [Workers -> Cycles \cup {NoCycle}]
      /\ owner \in [Cycles -> Workers] /\ (\A c \in Cycles : owner[c] = W)
      /\ trigger \in [Workers -> BOOLEAN] /\ ~trigger[W]
      /\ phase \in [Cycles -> {"none", "queued", "preflight", "discover", "work", "tail", "over"}]
      /\ cause \in [Cycles -> Commands \cup {0, Trigger}]
      /\ cancelled \subseteq Cycles
  BY DEF TypeOK, LiveInv, StartClear
<1>2. /\ lapse # "reset" => \A c \in Cycles : Live(c) => handle[W] = c /\ mem[W].cycle = c
      /\ handle[W] # NoCycle => phase[handle[W]] # "none"
      /\ step[W] = "launch" => ~TaskAlive(W)
      /\ step[W] = "exec" => current[W] \in Commands
      /\ step[W] = "down" => mem[W] = DefaultState /\ \A c \in Cycles : ~Live(c)
      /\ \A c \in cancelled : Live(c)
  BY <1>1 DEF LiveInv, LiveIsHandle, HandleKnown, StartClear, ExecutesSome, StatusInv, LiveMem, DownEmpty, CancelledLive
<1>3. /\ Ended = {"idle", "done", "error", "stopped"} /\ Active = {"running", "starting", "stopping"}
      /\ States = [status : Ended \cup Active, cycle : Cycles \cup {NoCycle}]
      /\ DefaultState = [status |-> "idle", cycle |-> NoCycle]
      /\ \A k \in Commands : k \in Nat
  BY DEF Ended, Active, States, DefaultState, Commands
<1> DEFINE Kept == \A c \in Cycles :
                       /\ lapse # "reset" /\ cause[c] # 0
                       /\ db.status \in {"done", "error"} /\ db.cycle = c /\ db'.cycle = c
                       => db'.status \notin {"stopping", "stopped"}
<1>4. OutcomeInv(W)' /\ Kept
  <2> USE <1>1, <1>2, <1>3, NoneAssumption DEF OutcomeInv, CyclesKnown, LiveNotEnded, EndKept, StopWaits, Live, TaskAlive, queue, state, poller, service, tasks
  <2>1. ASSUME NEW k \in Commands, Enqueue(k) PROVE OutcomeInv(W)' /\ Kept
    BY <2>1 DEF Enqueue
  <2>2. ASSUME NEW w \in Workers, NEW k \in Commands, Claim(w, k) PROVE OutcomeInv(W)' /\ Kept
    BY <2>2 DEF Claim, LoopFree
  <2>3. ASSUME NEW w \in Workers, NEW c \in Cycles, Launch(w, c) PROVE OutcomeInv(W)' /\ Kept
    BY <2>3 DEF Launch, Record, Save, SaveAs, Note, Fault
  <2>4. ASSUME NEW w \in Workers, StartCommand(w) PROVE OutcomeInv(W)' /\ Kept
    BY <2>4 DEF StartCommand, Executes, PassChecks, Startable, ClearOrphan, Reset, Record, SaveAs, Note, Fault
  <2>5. ASSUME NEW w \in Workers, FastStopCommand(w) PROVE OutcomeInv(W)' /\ Kept
    BY <2>5 DEF FastStopCommand, Executes, RequestStop, CancelTask, SetStatus, Save, SaveAs, Note, Fault, Record
  <2>6. ASSUME NEW w \in Workers, StopCommand(w) PROVE OutcomeInv(W)' /\ Kept
    BY <2>6 DEF StopCommand, Executes, RequestStop, CancelTask, SetStatus, Save, SaveAs, Note, Fault, Await
  <2>7. ASSUME NEW w \in Workers, StopNothing(w) PROVE OutcomeInv(W)' /\ Kept
    BY <2>7 DEF StopNothing, Executes, Record
  <2>8. ASSUME NEW w \in Workers, StopLeftover(w) PROVE OutcomeInv(W)' /\ Kept
    BY <2>8 DEF StopLeftover, Executes, MarkStopped, SetStatus, SaveAs, Note, Fault, Record
  <2>9. ASSUME NEW w \in Workers, ResetCommand(w) PROVE OutcomeInv(W)' /\ Kept
    BY <2>9 DEF ResetCommand, Executes, CancelTask, Await, Reset, SaveAs, Note, Fault, Record
  <2>10. ASSUME NEW w \in Workers, FinishStop(w) PROVE OutcomeInv(W)' /\ Kept
    BY <2>10 DEF FinishStop, LoopFree, ResumeDue, Overrun, MarkStopped, SetStatus, SaveAs, Note, Fault
  <2>11. ASSUME NEW w \in Workers, FinishReset(w) PROVE OutcomeInv(W)' /\ Kept
    BY <2>11 DEF FinishReset, LoopFree, ResumeDue, Overrun, Reset, SaveAs, Note, Fault
  <2>12. ASSUME NEW w \in Workers, Settle(w) PROVE OutcomeInv(W)' /\ Kept
    BY <2>12 DEF Settle
  <2>13. ASSUME NEW w \in Workers, FireTrigger(w) PROVE OutcomeInv(W)' /\ Kept
    BY <2>13 DEF FireTrigger, LoopFree, PassChecks, Startable, ClearOrphan, Reset, SaveAs, Note, Fault
  <2>14. ASSUME NEW w \in Workers, Boot(w) PROVE OutcomeInv(W)' /\ Kept
    BY <2>14 DEF Boot, ResetState, ResetQueue, Note, Fault
  <2>15. ASSUME NEW w \in Workers, Crash(w) PROVE OutcomeInv(W)' /\ Kept
    BY <2>15 DEF Crash
  <2>16. ASSUME NEW c \in Cycles, CancelEarly(c) PROVE OutcomeInv(W)' /\ Kept
    BY <2>16 DEF CancelEarly, Turn, LoopFree, MoveTo
  <2>17. ASSUME NEW c \in Cycles, Interrupt(c) PROVE OutcomeInv(W)' /\ Kept
    BY <2>17 DEF Interrupt, Advance, Turn, LoopFree, SetStatus, MoveTo
  <2>18. ASSUME NEW c \in Cycles, LeaveTail(c) PROVE OutcomeInv(W)' /\ Kept
    BY <2>18 DEF LeaveTail, Advance, Turn, LoopFree, Leave, Save, SaveAs, Note, Fault, MoveTo
  <2>19. ASSUME NEW c \in Cycles, Begin(c) PROVE OutcomeInv(W)' /\ Kept
    BY <2>19 DEF Begin, Turn, LoopFree, MoveTo
  <2>20. ASSUME NEW c \in Cycles, PreflightPasses(c) PROVE OutcomeInv(W)' /\ Kept
    BY <2>20 DEF PreflightPasses, Advance, Turn, LoopFree, MoveTo
  <2>21. ASSUME NEW c \in Cycles, PreflightFails(c) PROVE OutcomeInv(W)' /\ Kept
    BY <2>21 DEF PreflightFails, Advance, Turn, LoopFree, SetStatus, Save, SaveAs, Note, Fault, MoveTo
  <2>22. ASSUME NEW c \in Cycles, Progress(c) PROVE OutcomeInv(W)' /\ Kept
    BY <2>22 DEF Progress, Advance, Turn, LoopFree, SetStatus, Save, SaveAs, Note, Fault, MoveTo
  <2>23. ASSUME NEW c \in Cycles, ChooseNone(c) PROVE OutcomeInv(W)' /\ Kept
    BY <2>23 DEF ChooseNone, Advance, Turn, LoopFree, Leave, Save, SaveAs, Note, Fault, MoveTo
  <2>24. ASSUME NEW c \in Cycles, Finish(c) PROVE OutcomeInv(W)' /\ Kept
    BY <2>24 DEF Finish, Advance, Turn, LoopFree, Leave, Save, SaveAs, Note, Fault, MoveTo
  <2>25. ASSUME NEW c \in Cycles, Fail(c) PROVE OutcomeInv(W)' /\ Kept
    BY <2>25 DEF Fail, Advance, Turn, LoopFree, SetStatus, MoveTo
  <2>26. ASSUME NEW w \in Workers, NEW c \in Cycles, LaunchFails(w, c) PROVE OutcomeInv(W)' /\ Kept
    BY <2>26 DEF LaunchFails, Record, Note, Fault
  <2>27. CASE Age
    BY <2>27 DEF Age
  <2>28. CASE UNCHANGED vars
    BY <2>28 DEF vars
  <2>29. QED
    BY <2>1, <2>2, <2>3, <2>4, <2>5, <2>6, <2>7, <2>8, <2>9, <2>10, <2>11, <2>12, <2>13, <2>14, <2>15, <2>16, <2>17, <2>18, <2>19, <2>20, <2>21, <2>22, <2>23, <2>24, <2>25, <2>26, <2>27, <2>28 DEF Next, Poll, Unwind, Run
<1>5. QED
  BY <1>4

\* For one process without sweep and fast stop: a stop that comes too late does
\* not relabel a cycle that ended done or in error, whatever calls fail.
THEOREM OutcomeStands ==
    ASSUME NEW W, Workers = {W}, ~Triggers, "FAST_STOP" \notin Kinds
    PROVE  Spec => OutcomeKept
<1>1. Init => LiveInv /\ StatusInv(W)
  BY InitInv
<1>2. Init => OutcomeInv(W)
  BY NoneAssumption DEF Init, OutcomeInv, CyclesKnown, LiveNotEnded, EndKept, StopWaits, DefaultState, Active
<1>3. TypeOK /\ LiveInv /\ StatusInv(W) /\ [Next]_vars => StatusInv(W)'
  BY StatusStep
<1>4. TypeOK /\ LiveInv /\ StatusInv(W) /\ OutcomeInv(W) /\ [Next]_vars => OutcomeInv(W)'
  BY OutcomeStep
<1>5. TypeOK /\ LiveInv /\ StatusInv(W) /\ OutcomeInv(W) /\ [Next]_vars =>
        [\A c \in Cycles :
             /\ lapse # "reset" /\ cause[c] # 0
             /\ db.status \in {"done", "error"} /\ db.cycle = c /\ db'.cycle = c
             => db'.status \notin {"stopping", "stopped"}]_vars
  BY OutcomeStep
<1>6. QED
  BY <1>1, <1>2, <1>3, <1>4, <1>5, LiveStep, TypeCorrect, PTL DEF Spec, OutcomeKept

-----------------------------------------------------------------------------
(* Commands: each is executed by one process at a time, and once claimed   *)
(* never again; its cycle is there exactly when the poller says so.        *)

\* The command of a busy poller: claimed, its own, perhaps failed by a boot.
ClaimHeld ==
    /\ \A w \in Workers : current[w] = 0 <=> step[w] \in {"down", "idle"}
    /\ \A w \in Workers : current[w] # 0 => command[current[w]] \in {"running", "error"}
    /\ \A w, v \in Workers : current[w] # 0 /\ current[w] = current[v] => w = v

\* No cycle before the launch; none without a launch.
NotYetCaused ==
    /\ \A c \in Cycles : phase[c] = "none" => cause[c] = 0
    /\ \A k \in Commands : command[k] \in {"none", "pending"} => Caused(k) = {}
    /\ \A w \in Workers :
        step[w] \in {"exec", "launch", "stopWait", "resetWait"} => Caused(current[w]) = {}

\* The outcome about to be recorded is true.
OutcomeTrue ==
    \A w \in Workers :
        /\ step[w] \in {"stopWait", "resetWait"} => kind[current[w]] # "START"
        /\ step[w] = "settle" => result[w] \in {"completed", "skipped", "error"}
        /\ step[w] = "settle" /\ result[w] = "completed" /\ kind[current[w]] = "START"
            => Caused(current[w]) # {}
        /\ step[w] = "settle" /\ result[w] = "skipped" => Caused(current[w]) = {}

CommandInv == ClaimHeld /\ NotYetCaused /\ OutcomeTrue /\ StatusTruth /\ OneCyclePerCommand

\* CommandInv is inductive: a claim is exclusive, and only a launch gives the
\* command it executes a cycle.
LEMMA CommandStep == TypeOK /\ CommandInv /\ [Next]_vars => CommandInv'
<1> SUFFICES ASSUME TypeOK, CommandInv, [Next]_vars PROVE CommandInv'
  OBVIOUS
<1>1. /\ kind \in [Commands -> Kinds \cup {"none"}]
      /\ command \in [Commands -> {"none", "pending", "running", "completed", "skipped", "error"}]
      /\ current \in [Workers -> Commands \cup {0}]
      /\ result \in [Workers -> {"none", "completed", "skipped", "error"}]
      /\ trigger \in [Workers -> BOOLEAN]
      /\ cause \in [Cycles -> Commands \cup {0, Trigger}]
      /\ step \in [Workers -> {"down", "idle", "exec", "launch", "settle", "stopWait", "resetWait"}]
      /\ phase \in [Cycles -> {"none", "queued", "preflight", "discover", "work", "tail", "over"}]
  BY DEF TypeOK
<1>2. Commands \subseteq Nat /\ 0 \notin Commands /\ Trigger \notin Commands
  BY CountAssumption, NoneAssumption DEF Commands
<1>3. QED
  <2> USE <1>1, <1>2 DEF CommandInv, ClaimHeld, NotYetCaused, OutcomeTrue, StatusTruth, OneCyclePerCommand, Caused, queue, state, poller, service, tasks
  <2>1. ASSUME NEW k \in Commands, Enqueue(k) PROVE CommandInv'
    <3>0. PICK t \in Kinds : kind' = [kind EXCEPT ![k] = t]
      BY <2>1 DEF Enqueue
    <3>1. ClaimHeld'
      BY <2>1, <3>0 DEF Enqueue
    <3>2. NotYetCaused'
      BY <2>1, <3>0 DEF Enqueue
    <3>3. OutcomeTrue'
      BY <2>1, <3>0 DEF Enqueue
    <3>4. StatusTruth'
      BY <2>1, <3>0 DEF Enqueue
    <3>5. OneCyclePerCommand'
      BY <2>1, <3>0 DEF Enqueue
    <3>6. QED
      BY <3>1, <3>2, <3>3, <3>4, <3>5 DEF CommandInv
  <2>2. ASSUME NEW w \in Workers, NEW k \in Commands, Claim(w, k) PROVE CommandInv'
    <3>1. ClaimHeld'
      BY <2>2 DEF Claim, Pending, LoopFree
    <3>2. NotYetCaused'
      BY <2>2 DEF Claim, Pending, LoopFree
    <3>3. OutcomeTrue'
      BY <2>2 DEF Claim, Pending, LoopFree
    <3>4. StatusTruth'
      BY <2>2 DEF Claim, Pending, LoopFree
    <3>5. OneCyclePerCommand'
      BY <2>2 DEF Claim, Pending, LoopFree
    <3>6. QED
      BY <3>1, <3>2, <3>3, <3>4, <3>5 DEF CommandInv
  <2>3. ASSUME NEW w \in Workers, NEW c \in Cycles, Launch(w, c) PROVE CommandInv'
    <3>1. ClaimHeld'
      BY <2>3 DEF Launch, Record
    <3>2. NotYetCaused'
      BY <2>3 DEF Launch, Record
    <3>3. OutcomeTrue'
      BY <2>3 DEF Launch, Record
    <3>4. StatusTruth'
      BY <2>3 DEF Launch, Record
    <3>5. OneCyclePerCommand'
      BY <2>3 DEF Launch, Record
    <3>6. QED
      BY <3>1, <3>2, <3>3, <3>4, <3>5 DEF CommandInv
  <2>4. ASSUME NEW w \in Workers, StartCommand(w) PROVE CommandInv'
    <3>1. ClaimHeld'
      BY <2>4 DEF StartCommand, Executes, Record
    <3>2. NotYetCaused'
      BY <2>4 DEF StartCommand, Executes, Record
    <3>3. OutcomeTrue'
      BY <2>4 DEF StartCommand, Executes, Record
    <3>4. StatusTruth'
      BY <2>4 DEF StartCommand, Executes, Record
    <3>5. OneCyclePerCommand'
      BY <2>4 DEF StartCommand, Executes, Record
    <3>6. QED
      BY <3>1, <3>2, <3>3, <3>4, <3>5 DEF CommandInv
  <2>5. ASSUME NEW w \in Workers, FastStopCommand(w) PROVE CommandInv'
    BY <2>5 DEF FastStopCommand, Executes, Record
  <2>6. ASSUME NEW w \in Workers, StopCommand(w) PROVE CommandInv'
    BY <2>6 DEF StopCommand, Executes, Await
  <2>7. ASSUME NEW w \in Workers, StopNothing(w) PROVE CommandInv'
    <3>1. ClaimHeld'
      BY <2>7 DEF StopNothing, Executes, Record
    <3>2. NotYetCaused'
      BY <2>7 DEF StopNothing, Executes, Record
    <3>3. OutcomeTrue'
      BY <2>7 DEF StopNothing, Executes, Record
    <3>4. StatusTruth'
      BY <2>7 DEF StopNothing
    <3>5. OneCyclePerCommand'
      BY <2>7 DEF StopNothing
    <3>6. QED
      BY <3>1, <3>2, <3>3, <3>4, <3>5 DEF CommandInv
  <2>8. ASSUME NEW w \in Workers, StopLeftover(w) PROVE CommandInv'
    BY <2>8 DEF StopLeftover, Executes, Record
  <2>9. ASSUME NEW w \in Workers, ResetCommand(w) PROVE CommandInv'
    BY <2>9 DEF ResetCommand, Executes, Await, Record
  <2>10. ASSUME NEW w \in Workers, FinishStop(w) PROVE CommandInv'
    BY <2>10 DEF FinishStop
  <2>11. ASSUME NEW w \in Workers, FinishReset(w) PROVE CommandInv'
    BY <2>11 DEF FinishReset
  <2>12. ASSUME NEW w \in Workers, Settle(w) PROVE CommandInv'
    <3>1. ClaimHeld'
      BY <2>12 DEF Settle
    <3>2. NotYetCaused'
      BY <2>12 DEF Settle
    <3>3. OutcomeTrue'
      BY <2>12 DEF Settle
    <3>4. StatusTruth'
      BY <2>12 DEF Settle
    <3>5. OneCyclePerCommand'
      BY <2>12 DEF Settle
    <3>6. QED
      BY <3>1, <3>2, <3>3, <3>4, <3>5 DEF CommandInv
  <2>13. ASSUME NEW w \in Workers, FireTrigger(w) PROVE CommandInv'
    BY <2>13 DEF FireTrigger
  <2>14. ASSUME NEW w \in Workers, Boot(w) PROVE CommandInv'
    <3>0. /\ step[w] = "down" /\ step' = [step EXCEPT ![w] = "idle"]
          /\ UNCHANGED <<kind, current, result, phase, cause>>
          /\ \A k \in Commands :
                 \/ command'[k] = command[k]
                 \/ command[k] \in {"running", "pending"} /\ command'[k] = "error"
      BY <2>14 DEF Boot, ResetQueue
    <3>1. ClaimHeld'
      <4>1. \A v \in Workers : current'[v] = 0 <=> step'[v] \in {"down", "idle"}
        BY <3>0
      <4>2. \A v \in Workers : current'[v] # 0 => command'[current'[v]] \in {"running", "error"}
        <5> SUFFICES ASSUME NEW v \in Workers, current[v] # 0
                     PROVE  command'[current[v]] \in {"running", "error"}
          BY <3>0
        <5>1. current[v] \in Commands /\ command[current[v]] \in {"running", "error"}
          OBVIOUS
        <5>2. QED
          BY <3>0, <5>1
      <4>3. \A v, u \in Workers : current'[v] # 0 /\ current'[v] = current'[u] => v = u
        BY <3>0
      <4>4. QED
        BY <4>1, <4>2, <4>3
    <3>2. NotYetCaused'
      BY <3>0
    <3>3. OutcomeTrue'
      BY <3>0
    <3>4. StatusTruth'
      BY <3>0
    <3>5. OneCyclePerCommand'
      BY <3>0
    <3>6. QED
      BY <3>1, <3>2, <3>3, <3>4, <3>5 DEF CommandInv
  <2>15. ASSUME NEW w \in Workers, Crash(w) PROVE CommandInv'
    BY <2>15 DEF Crash
  <2>16. ASSUME NEW c \in Cycles, CancelEarly(c) PROVE CommandInv'
    BY <2>16 DEF CancelEarly, Turn, LoopFree, MoveTo
  <2>17. ASSUME NEW c \in Cycles, Interrupt(c) PROVE CommandInv'
    BY <2>17 DEF Interrupt, Advance, Turn, LoopFree, MoveTo
  <2>18. ASSUME NEW c \in Cycles, LeaveTail(c) PROVE CommandInv'
    BY <2>18 DEF LeaveTail, Advance, Turn, LoopFree, Leave, MoveTo
  <2>19. ASSUME NEW c \in Cycles, Begin(c) PROVE CommandInv'
    BY <2>19 DEF Begin, Turn, LoopFree, MoveTo
  <2>20. ASSUME NEW c \in Cycles, PreflightPasses(c) PROVE CommandInv'
    BY <2>20 DEF PreflightPasses, Advance, Turn, LoopFree, MoveTo
  <2>21. ASSUME NEW c \in Cycles, PreflightFails(c) PROVE CommandInv'
    BY <2>21 DEF PreflightFails, Advance, Turn, LoopFree, MoveTo
  <2>22. ASSUME NEW c \in Cycles, Progress(c) PROVE CommandInv'
    BY <2>22 DEF Progress, Advance, Turn, LoopFree, MoveTo
  <2>23. ASSUME NEW c \in Cycles, ChooseNone(c) PROVE CommandInv'
    BY <2>23 DEF ChooseNone, Advance, Turn, LoopFree, Leave, MoveTo
  <2>24. ASSUME NEW c \in Cycles, Finish(c) PROVE CommandInv'
    BY <2>24 DEF Finish, Advance, Turn, LoopFree, Leave, MoveTo
  <2>25. ASSUME NEW c \in Cycles, Fail(c) PROVE CommandInv'
    BY <2>25 DEF Fail, Advance, Turn, LoopFree, MoveTo
  <2>26. ASSUME NEW w \in Workers, NEW c \in Cycles, LaunchFails(w, c) PROVE CommandInv'
    <3>1. ClaimHeld'
      BY <2>26 DEF LaunchFails, Record
    <3>2. NotYetCaused'
      BY <2>26 DEF LaunchFails, Record
    <3>3. OutcomeTrue'
      BY <2>26 DEF LaunchFails, Record
    <3>4. StatusTruth'
      BY <2>26 DEF LaunchFails, Record
    <3>5. OneCyclePerCommand'
      BY <2>26 DEF LaunchFails, Record
    <3>6. QED
      BY <3>1, <3>2, <3>3, <3>4, <3>5 DEF CommandInv
  <2>27. CASE Age
    BY <2>27 DEF Age
  <2>28. CASE UNCHANGED vars
    BY <2>28 DEF vars
  <2>29. QED
    BY <2>1, <2>2, <2>3, <2>4, <2>5, <2>6, <2>7, <2>8, <2>9, <2>10, <2>11, <2>12, <2>13, <2>14, <2>15, <2>16, <2>17, <2>18, <2>19, <2>20, <2>21, <2>22, <2>23, <2>24, <2>25, <2>26, <2>27, <2>28 DEF Next, Poll, Unwind, Run

\* The outcome recorded for a START command is true, and however many
\* processes poll and crash, a command starts one cycle at most.
THEOREM CommandsTrue == Spec => []CommandTruth
<1>1. Init => CommandInv
  BY DEF Init, CommandInv, ClaimHeld, NotYetCaused, OutcomeTrue, StatusTruth, OneCyclePerCommand, Caused, Commands
<1>2. CommandInv => CommandTruth
  BY DEF CommandInv, CommandTruth
<1>3. QED
  BY <1>1, <1>2, CommandStep, TypeCorrect, PTL DEF Spec
=============================================================================
