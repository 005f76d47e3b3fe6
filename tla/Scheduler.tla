------------------------------ MODULE Scheduler ------------------------------
(***************************************************************************)
(* TSimpleThreadedScheduler and TPeriodicTask (src/src/scheduler.cpp): one *)
(* thread runs periodic tasks; another thread adds them and, in the end,   *)
(* destroys the scheduler.                                                 *)
(*                                                                         *)
(* TasksMutex protects the list and is held for one look at it or one      *)
(* insertion, so each is one step.  Sleeping is under another mutex, which *)
(* nobody who notifies takes: between the look and the sleep the thread    *)
(* holds no lock, and a notification that falls there wakes nobody.        *)
(***************************************************************************)
EXTENDS Integers, Sequences, FiniteSets

CONSTANTS
  TaskIds,     \* the tasks that may be added, each once
  Period,      \* GetPeriod of each
  RunTime,     \* bound: what Fn may take, a blocking Send
  Urgent,      \* TRUE: only sleeping and Fn take time
  MaxTime,     \* bound: the clock stops here
  NoTask

\* TTaskDescription.
Description == [NextRun : Nat, Task : TaskIds]

ASSUME SchedulerAssumption ==
  /\ IsFiniteSet(TaskIds) /\ NoTask \notin Description
  /\ Period \in [TaskIds -> Nat \ {0}]
  /\ RunTime \in Nat /\ MaxTime \in Nat \ {0} /\ Urgent \in BOOLEAN

\* The default time point AddTask uses, and the time the process starts at.
EPOCH == 0
START == 1

VARIABLES
  now,
  Tasks,       \* the vector of task descriptions
  pc,          \* the thread's control point in MakeIteration
  iteration,   \* the local now of MakeIteration
  running,     \* the description taken out of the list, or NoTask
  until,       \* end of the sleep, or of Fn
  woken,       \* the sleeping thread has been notified
  Enabled,
  owner,       \* the owner: "up", or how far the destructor has got
  added,       \* the tasks handed to AddTask
  lastRun      \* history: the iteration that last ran each task, or EPOCH

vars == <<now, Tasks, pc, iteration, running, until, woken, Enabled, owner,
          added, lastRun>>

Asleep == pc \in {"sleep", "sleepUntil"}

TypeOK ==
  /\ now \in START .. MaxTime
  /\ Tasks \in Seq(Description)
  /\ pc \in {"top", "look", "goSleep", "sleep", "goSleepUntil", "sleepUntil",
             "run", "stopped"}
  /\ iteration \in 0 .. MaxTime
  /\ running \in Description \cup {NoTask}
  /\ until \in 0 .. MaxTime
  /\ woken \in BOOLEAN /\ Enabled \in BOOLEAN
  /\ owner \in {"up", "notify", "join"}
  /\ added \subseteq TaskIds
  /\ lastRun \in [TaskIds -> 0 .. MaxTime]

Init ==
  /\ now = START
  /\ Tasks = << >>
  /\ pc = "top" /\ iteration = 0 /\ running = NoTask
  /\ until = 0 /\ woken = FALSE
  /\ Enabled = TRUE /\ owner = "up"
  /\ added = {}
  /\ lastRun = [t \in TaskIds |-> EPOCH]

-----------------------------------------------------------------------------
\* The owner's thread.

\* The new task goes to the front of the list, due at once.
AddTask(t) ==
  /\ owner = "up" /\ t \notin added
  /\ Tasks' = <<[NextRun |-> EPOCH, Task |-> t]>> \o Tasks
  /\ added' = added \cup {t}
  /\ woken' = (woken \/ Asleep)
  /\ UNCHANGED <<now, pc, iteration, running, until, Enabled, owner, lastRun>>

\* The destructor: clear the flag, notify, join.
Disable ==
  /\ owner = "up"
  /\ Enabled' = FALSE /\ owner' = "notify"
  /\ UNCHANGED <<now, Tasks, pc, iteration, running, until, woken, added,
                 lastRun>>

NotifyStop ==
  /\ owner = "notify"
  /\ owner' = "join"
  /\ woken' = (woken \/ Asleep)
  /\ UNCHANGED <<now, Tasks, pc, iteration, running, until, Enabled, added,
                 lastRun>>

-----------------------------------------------------------------------------
\* The scheduler's thread.

\* Waiting is given an end; the model's clock cannot pass MaxTime.
Deadline(time) == IF time <= MaxTime THEN time ELSE MaxTime

BeginIteration ==
  /\ pc = "top"
  /\ \/ Enabled /\ pc' = "look" /\ iteration' = now
     \/ ~Enabled /\ pc' = "stopped" /\ UNCHANGED iteration
  /\ UNCHANGED <<now, Tasks, running, until, woken, Enabled, owner, added,
                 lastRun>>

LookEmpty ==
  /\ pc = "look" /\ Tasks = << >>
  /\ pc' = "goSleep"
  /\ UNCHANGED <<now, Tasks, iteration, running, until, woken, Enabled, owner,
                 added, lastRun>>

\* Mutant: the description stays in the list while its task runs.
TakeFirst_copy == UNCHANGED Tasks

TakeFirst == Tasks' = Tail(Tasks)

LookDue ==
  /\ pc = "look" /\ Tasks # << >> /\ Head(Tasks).NextRun <= iteration
  /\ running' = Head(Tasks)
  /\ TakeFirst
  /\ lastRun' = [lastRun EXCEPT ![Head(Tasks).Task] = iteration]
  /\ pc' = "run" /\ until' = Deadline(now + RunTime)
  /\ UNCHANGED <<now, iteration, woken, Enabled, owner, added>>

\* Mutant: the list is not sorted.
StableSort_none(s) == s

\* std::stable_sort by NextRun: every element after the earlier ones and the
\* equal ones that precede it.
StableSort(s) ==
  LET before(i) == {j \in DOMAIN s :
                      \/ s[j].NextRun < s[i].NextRun
                      \/ s[j].NextRun = s[i].NextRun /\ j < i}
  IN [k \in DOMAIN s |->
        s[CHOOSE i \in DOMAIN s : Cardinality(before(i)) = k - 1]]

LookLater ==
  /\ pc = "look" /\ Tasks # << >> /\ Head(Tasks).NextRun > iteration
  /\ Tasks' = StableSort(Tasks)
  /\ until' = Deadline(Head(StableSort(Tasks)).NextRun)
  /\ pc' = "goSleepUntil"
  /\ UNCHANGED <<now, iteration, running, woken, Enabled, owner, added,
                 lastRun>>

\* Only from here on can a notification be heard.
FallAsleep ==
  /\ \/ pc = "goSleep" /\ pc' = "sleep"
     \/ pc = "goSleepUntil" /\ pc' = "sleepUntil"
  /\ woken' = FALSE
  /\ UNCHANGED <<now, Tasks, iteration, running, until, Enabled, owner, added,
                 lastRun>>

\* Mutant: the sleep before the next task has no time-out.
SleepOver_untimed == Asleep /\ woken

SleepOver ==
  \/ Asleep /\ woken
  \/ pc = "sleepUntil" /\ now >= until

Wake ==
  /\ SleepOver
  /\ pc' = "top" /\ woken' = FALSE /\ until' = 0
  /\ UNCHANGED <<now, Tasks, iteration, running, Enabled, owner, added,
                 lastRun>>

\* Condition variables may wake for no reason: the wait has no predicate.
WakeSpuriously ==
  /\ Asleep
  /\ pc' = "top" /\ woken' = FALSE /\ until' = 0
  /\ UNCHANGED <<now, Tasks, iteration, running, Enabled, owner, added,
                 lastRun>>

\* Mutant: the next run is a period after the present one was due.
NextRunOf_catchUp(td) == td.NextRun + Period[td.Task]

\* Mutant: the period is subtracted.
NextRunOf_past(td) == iteration - Period[td.Task]

NextRunOf(td) == iteration + Period[td.Task]

\* TPeriodicTask::Run returns the task itself, which goes to the end.
RunDone ==
  /\ pc = "run"
  /\ Tasks' = Append(Tasks, [NextRun |-> NextRunOf(running),
                             Task |-> running.Task])
  /\ running' = NoTask
  /\ pc' = "top" /\ until' = 0
  /\ UNCHANGED <<now, iteration, woken, Enabled, owner, added, lastRun>>

-----------------------------------------------------------------------------
\* With Urgent, time passes only while the thread sleeps or Fn runs.
Idle ==
  \/ pc = "stopped"
  \/ pc = "sleep" /\ ~woken
  \/ pc = "sleepUntil" /\ ~woken /\ now < until
  \/ pc = "run" /\ now < until

Tick ==
  /\ now < MaxTime
  /\ Urgent => Idle /\ owner # "notify"
  /\ now' = now + 1
  /\ UNCHANGED <<Tasks, pc, iteration, running, until, woken, Enabled, owner,
                 added, lastRun>>

Owner == Disable \/ NotifyStop \/ \E t \in TaskIds : AddTask(t)

Thread ==
  \/ BeginIteration \/ LookEmpty \/ LookDue \/ LookLater \/ FallAsleep
  \/ Wake \/ RunDone

Next == Owner \/ Thread \/ WakeSpuriously \/ Tick

Spec == Init /\ [][Next]_vars

\* The threads are scheduled and the clock advances; nothing makes the owner
\* add a task or begin to stop, and nothing makes the thread wake for no reason.
FairSpec == Spec /\ WF_vars(Thread) /\ WF_vars(NotifyStop) /\ WF_vars(Tick)

-----------------------------------------------------------------------------
\* Properties.

\* How often a task is in the scheduler's hands.
Copies(t) ==
  Cardinality({i \in DOMAIN Tasks : Tasks[i].Task = t})
  + IF running # NoTask /\ running.Task = t THEN 1 ELSE 0

\* No task is lost or doubled while the list is unlocked for its run, whatever
\* AddTask puts in front meanwhile (MakeIteration's copy, erase, run, append).
Conserved == \A t \in TaskIds : Copies(t) = IF t \in added THEN 1 ELSE 0

\* Two runs of a task are at least its period apart, even after a run that took
\* longer than the period: a backlog is never caught up with, and the bus is
\* polled at most once per poll_interval_ms (TTaskDescription's NextRun).
RateBounded ==
  [][\A t \in TaskIds :
       lastRun'[t] # lastRun[t] /\ lastRun[t] # EPOCH
         => lastRun'[t] >= lastRun[t] + Period[t]]_vars

\* A task that has been run is run again in time: it waits no longer than for
\* the other tasks to run once, although the list is kept unsorted.
OnTime ==
  pc # "stopped" =>
    \A i \in DOMAIN Tasks :
      Tasks[i].NextRun # EPOCH
        => now <= Tasks[i].NextRun + Cardinality(TaskIds) * RunTime

\* Once a task has been run the destructor's join returns, even if its
\* notification falls between the look and the sleep.
StopsEventually ==
  (~Enabled /\ \E t \in TaskIds : lastRun[t] # EPOCH) ~> pc = "stopped"

\* A task that is added is run, unless the scheduler is destroyed before.
AddedIsRun ==
  \A t \in TaskIds : t \in added ~> (lastRun[t] # EPOCH \/ ~Enabled)
=============================================================================
