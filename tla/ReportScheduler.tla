-------------------------- MODULE ReportScheduler --------------------------
(***************************************************************************)
(* The scheduled reports: the rows of the schedules, the periodic task and *)
(* the triggered tasks that run them one after the other, each run in one  *)
(* transaction with a copy of the schedule it loaded when it began, and    *)
(* the owners' requests meanwhile.  A time is the number of ticks until    *)
(* then: next_run 0 is due.                                                *)
(***************************************************************************)
EXTENDS Integers, Sequences, SequencesExt, FiniteSets

CONSTANTS
    Schedules,      \* the schedules
    Tasks,          \* the triggered tasks that may run at a time
    MaxWait,        \* the farthest next_run
    Keep,           \* keep_runs of each schedule
    MaxEdits,       \* bound: requests of the owners
    MaxFailures     \* bound: runs whose transaction fails

Periodic == "periodic"
Runners == {Periodic} \cup Tasks

ASSUME ReportSchedulerAssumption ==
    /\ Periodic \notin Tasks /\ IsFiniteSet(Tasks) /\ IsFiniteSet(Schedules)
    /\ {MaxWait, Keep} \subseteq Nat \ {0} /\ {MaxEdits, MaxFailures} \subseteq Nat

VARIABLES
    schedule,   \* the rows of the schedules
    kept,       \* how many runs of each schedule are stored
    todo,       \* the schedules each runner still has to run
    run,        \* the run a runner has under way
    stored,     \* how many runs of each schedule the triggered tasks have stored
    raced,      \* how many edits of each schedule were stored during a run of it
    edits, failures     \* what the bounds have used

scheduleVars == <<schedule, kept, todo, run, stored, raced, edits, failures>>

NoNext == -1
ScheduleRow == [exists : BOOLEAN, active : BOOLEAN, trigger : {"time", "event"}, next : NoNext..MaxWait]
NoRun == [of |-> "none"]
Run == [of : Schedules, copy : ScheduleRow]

SchedulesTypeOK ==
    /\ schedule \in [Schedules -> ScheduleRow] /\ kept \in [Schedules -> 0..Keep]
    /\ \A r \in Runners : todo[r] \in Seq(Schedules) /\ (run[r] = NoRun \/ run[r] \in Run)
    /\ stored \in [Schedules -> Nat] /\ raced \in [Schedules -> Nat]
    /\ edits \in 0..MaxEdits /\ failures \in 0..MaxFailures

\* compute_next_run: some time after now; an event schedule has none.
NextOf(trigger) == IF trigger = "time" THEN 1..MaxWait ELSE {NoNext}

\* Some owners make no more requests.
SchedulesInit ==
    /\ schedule \in [Schedules -> {[exists |-> TRUE, active |-> TRUE, trigger |-> "time", next |-> MaxWait],
                                   [exists |-> TRUE, active |-> TRUE, trigger |-> "event", next |-> NoNext]}]
    /\ kept = [s \in Schedules |-> 0]
    /\ todo = [r \in Runners |-> <<>>] /\ run = [r \in Runners |-> NoRun]
    /\ stored = [s \in Schedules |-> 0] /\ raced = [s \in Schedules |-> 0]
    /\ edits \in {0, MaxEdits} /\ failures = 0

-----------------------------------------------------------------------------
IdleRunner(r) == todo[r] = <<>> /\ run[r] = NoRun
Matches(s) == schedule[s].exists /\ schedule[s].active /\ schedule[s].trigger = "event"
Due(s) == schedule[s].exists /\ schedule[s].active /\ schedule[s].trigger = "time" /\ schedule[s].next = 0

\* periodic_schedule_task and trigger_report_schedules_for_alert: the schedules
\* to run are read once, then run one after the other.
FindDue ==
    /\ IdleRunner(Periodic) /\ \E s \in Schedules : Due(s)
    /\ \E list \in SetToSeqs({s \in Schedules : Due(s)}) : todo' = [todo EXCEPT ![Periodic] = list]
    /\ UNCHANGED <<schedule, kept, run, stored, raced, edits, failures>>

Trigger(r) ==
    /\ IdleRunner(r)
    /\ \E list \in SetToSeqs({s \in Schedules : Matches(s)}) : todo' = [todo EXCEPT ![r] = list]
    /\ UNCHANGED <<schedule, kept, run, stored, raced, edits, failures>>

\* _execute loads the schedule again, whatever it has become; a deleted one is
\* passed over.
StartRun(r) ==
    /\ run[r] = NoRun /\ todo[r] # <<>> /\ todo' = [todo EXCEPT ![r] = Tail(@)]
    /\ LET s == Head(todo[r])
       IN run' = IF schedule[s].exists
                 THEN [run EXCEPT ![r] = [of |-> s, copy |-> schedule[s]]] ELSE run
    /\ UNCHANGED <<schedule, kept, stored, raced, edits, failures>>

\* The end of a run: the run is stored, the oldest are pruned, and next_run is
\* written by what the schedule was, if that differs from what it had.
WrittenAnyway(s, copy) == {[schedule[s] EXCEPT !.next = n] : n \in NextOf(copy.trigger)}
NotMovedOn(s, copy) == {schedule[s]}
Written(s, copy) ==
    {[schedule[s] EXCEPT !.next = IF n = copy.next THEN @ ELSE n] : n \in NextOf(copy.trigger)}
FinishRun(r) ==
    /\ run[r] # NoRun /\ schedule[run[r].of].exists /\ run' = [run EXCEPT ![r] = NoRun]
    /\ LET s == run[r].of
       IN /\ \E row \in Written(s, run[r].copy) : schedule' = [schedule EXCEPT ![s] = row]
          /\ kept' = [kept EXCEPT ![s] = IF @ = Keep THEN Keep ELSE @ + 1]
          /\ stored' = IF r = Periodic THEN stored ELSE [stored EXCEPT ![s] = @ + 1]
    /\ UNCHANGED <<todo, raced, edits, failures>>

\* The transaction fails, for one because the schedule was deleted: what was
\* still to be run is given up.
FailRun(r) ==
    /\ run[r] # NoRun /\ todo' = [todo EXCEPT ![r] = <<>>] /\ run' = [run EXCEPT ![r] = NoRun]
    /\ IF schedule[run[r].of].exists THEN failures < MaxFailures /\ failures' = failures + 1
       ELSE UNCHANGED failures
    /\ UNCHANGED <<schedule, kept, stored, raced, edits>>

-----------------------------------------------------------------------------
\* update_schedule and delete_schedule.
Edit(s, row) ==
    /\ schedule[s].exists /\ edits < MaxEdits /\ edits' = edits + 1
    /\ schedule' = [schedule EXCEPT ![s] = row]
    /\ raced' = [raced EXCEPT ![s] = IF \E r \in Runners : run[r].of = s THEN @ + 1 ELSE @]
    /\ UNCHANGED <<todo, run, stored, failures>>

Timed(s, trigger, n) == [schedule[s] EXCEPT !.trigger = trigger, !.next = n]
EditTiming(s, trigger) ==
    (\E n \in NextOf(trigger) : Edit(s, Timed(s, trigger, n))) /\ UNCHANGED kept
ToggleActive(s) == Edit(s, [schedule[s] EXCEPT !.active = ~@]) /\ UNCHANGED kept
Delete(s) == Edit(s, [schedule[s] EXCEPT !.exists = FALSE]) /\ kept' = [kept EXCEPT ![s] = 0]

Sooner(row) == [row EXCEPT !.next = IF @ > 0 THEN @ - 1 ELSE @]
TickSchedules ==
    /\ \E s \in Schedules : schedule[s].next > 0
    /\ schedule' = [s \in Schedules |-> Sooner(schedule[s])]
    /\ run' = [r \in Runners |-> IF run[r] = NoRun THEN NoRun ELSE [run[r] EXCEPT !.copy = Sooner(@)]]
    /\ UNCHANGED <<kept, todo, stored, raced, edits, failures>>

RestartSchedules ==
    /\ todo' = [r \in Runners |-> <<>>] /\ run' = [r \in Runners |-> NoRun]
    /\ UNCHANGED <<schedule, kept, stored, raced, edits, failures>>

Advance(r) == StartRun(r) \/ FinishRun(r)
Own(s) == ToggleActive(s) \/ Delete(s) \/ \E t \in {"time", "event"} : EditTiming(s, t)
SchedulesNext ==
    \/ FindDue \/ TickSchedules
    \/ \E r \in Runners : Advance(r) \/ FailRun(r)
    \/ \E s \in Schedules : Own(s)

-----------------------------------------------------------------------------
\* A schedule by time always has a next run, unless two edits of it were stored
\* in the middle of runs of it: one late write of next_run does no lasting harm
\* ("daily, weekly, or monthly": routes/report_schedules.py).
OneRaceIsHarmless ==
    \A s \in Schedules :
        schedule[s].exists /\ schedule[s].trigger = "time" /\ raced[s] < 2 => schedule[s].next # NoNext

\* No more runs are stored than there are schedules to own them.
RunsAreOwned == \A s \in Schedules : ~schedule[s].exists => kept[s] = 0

\* A schedule that is due is run, or no longer due, in the end, whichever
\* schedule before it in the list fails or is deleted.
DueIsRun == \A s \in Schedules : Due(s) ~> ~Due(s)
=============================================================================
