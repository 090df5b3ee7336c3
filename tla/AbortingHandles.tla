--------------------------- MODULE AbortingHandles ---------------------------
(***************************************************************************)
(* The vector behind the set `aborts` of SessionTasks: handles of aborted  *)
(* tasks, some of which have finished meanwhile. A push that finds it full *)
(* throws those out before it grows. Tasks are numbered in the order they  *)
(* are pushed; each finishes when it likes, before it is pushed or after.  *)
(***************************************************************************)
EXTENDS Naturals, Sequences, FiniteSetsExt

CONSTANT MaxTasks   \* bound: tasks that are ever pushed

ASSUME MaxTasksAssumption == MaxTasks \in Nat

VARIABLES
  handles,   \* the Vec
  capacity,  \* its capacity
  pushed,    \* how many tasks were pushed
  finished,  \* is_finished
  popped,    \* handles given to a call of wait
  peak       \* the most handles of running tasks there ever were

handleVars == <<handles, capacity, pushed, finished, popped, peak>>

Running(t) == t \notin finished
Listed(hs) == {hs[i] : i \in DOMAIN hs}

\* Vec::reserve, which Vec::push calls for one: at least doubles, at least 4
Reserve(cap, len, additional) ==
  IF len + additional <= cap THEN cap ELSE Max({2 * cap, len + additional, 4})

\* Vec::retain: hs less the handles in `out`
Without(hs, out) ==
  LET kept[i \in 0..Len(hs)] ==
        IF i = 0 THEN <<>>
        ELSE IF hs[i] \in out THEN kept[i - 1]
        ELSE Append(kept[i - 1], hs[i])
  IN  kept[Len(hs)]

HandlesInit ==
  /\ handles = <<>> /\ capacity = 0 /\ pushed = 0
  /\ finished = {} /\ popped = {} /\ peak = 0

\* Mutant: a full vector grows, whatever is in it.
PushRunningGrows(t) ==
  /\ handles' = Append(handles, t)
  /\ capacity' = Reserve(capacity, Len(handles), 1)

\* Mutant: the wrong ones are thrown out.
PushRunningRetainsFinished(t) ==
  LET kept == IF capacity = Len(handles)
              THEN Without(handles, 1..MaxTasks \ finished) ELSE handles
  IN  /\ handles' = Append(kept, t)
      /\ capacity' = Reserve(capacity, Len(kept), 1)

\* AbortingHandles::push of a task that runs
PushRunning(t) ==
  LET full == capacity = Len(handles)
      kept == IF full THEN Without(handles, finished) ELSE handles
      reserved == IF full /\ Len(kept) >= capacity \div 2
                  THEN Reserve(capacity, Len(kept), 2 * capacity - Len(kept))
                  ELSE capacity
  IN  /\ handles' = Append(kept, t)
      /\ capacity' = Reserve(reserved, Len(kept), 1)

\* AbortingHandles::push. A finished task is not kept.
Push ==
  LET t == pushed + 1
  IN  /\ t <= MaxTasks /\ pushed' = t
      /\ \/ Running(t) /\ PushRunning(t)
         \/ ~Running(t) /\ UNCHANGED <<handles, capacity>>
      /\ peak' = Max({peak} \union {Cardinality({u \in Listed(handles') : Running(u)})})
      /\ UNCHANGED <<finished, popped>>

\* AbortingHandles::pop: the last one that runs, or None
Pop ==
  LET running == {i \in DOMAIN handles : Running(handles[i])}
  IN  /\ handles # <<>>
      /\ \/ /\ running # {}
            /\ handles' = SubSeq(handles, 1, Max(running) - 1)
            /\ popped' = popped \union {handles[Max(running)]}
         \/ /\ running = {}
            /\ handles' = <<>> /\ UNCHANGED popped
      /\ UNCHANGED <<capacity, pushed, finished, peak>>

\* A task in the vector, or about to be pushed, comes to its end. How those
\* that were popped end is nothing to the vector.
TaskFinishes ==
  /\ \E t \in 1..(pushed + 1) \ popped :
       t <= MaxTasks /\ Running(t) /\ finished' = finished \union {t}
  /\ UNCHANGED <<handles, capacity, pushed, popped, peak>>

\* Every task was pushed, and is popped or has finished.
Emptied ==
  /\ pushed = MaxTasks /\ handles = <<>> /\ 1..MaxTasks = finished \union popped
  /\ UNCHANGED handleVars

HandlesNext == Push \/ Pop \/ TaskFinishes \/ Emptied

HandlesSpec == HandlesInit /\ [][HandlesNext]_handleVars
-----------------------------------------------------------------------------
\* Throwing handles out loses none of a running task: each that was pushed
\* is in the vector once, or was popped. (retain and pop, lib.rs:1029, 1036)
NoneLost ==
  /\ \A t \in 1..pushed : Running(t) => t \in Listed(handles) \union popped
  /\ Listed(handles) \intersect popped = {}
  /\ \A i, j \in DOMAIN handles : handles[i] = handles[j] => i = j

\* However many tasks a session aborts, the vector stays in proportion to how
\* many of them ran at the same time. (lib.rs:1027-1033)
MemoryBounded == capacity <= 4 * peak
=============================================================================
