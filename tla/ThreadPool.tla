----------------------------- MODULE ThreadPool -----------------------------
(***************************************************************************)
(* The thread pool (rts/System/Threading/ThreadPool.h, ThreadPool.cpp):    *)
(* for_mt, nested or not, parallel, and Enqueue of asynchronous tasks.     *)
(*                                                                         *)
(* A thread is a stack of frames; the first one runs.  An "owner" frame is *)
(* a call of for_mt, "parent" one of parallel, "pusher" one of Enqueue;    *)
(* "helper" is ExecuteLoop called by DoTask.  Group objects are read and   *)
(* written by all threads, each store or fetch_add of an atomic is a step  *)
(* of its own; from, to and func of a for_mt group, which are not atomic,  *)
(* are one more.  Two steps are coarser: Step reads ctr and `to` at once,  *)
(* and GetTaskGroup joins the fetch_add on pos with the stores of          *)
(* ResetState.  Memory is sequentially consistent here, while the code     *)
(* reads the flags of a task relaxed (ThreadPool.h:168-175).               *)
(*                                                                         *)
(* Thread 0 is the main thread; thread t is sync worker t, or async worker *)
(* t - (NumThreads - 1).  Abstracted: iterations are 0, 1, ... with step   *)
(* 1, and there is one at least (fewer run in the caller, without a        *)
(* group); sleeping (workers wake up by themselves, wait_for has a         *)
(* timeout); starting and stopping threads; the group of parallel itself,  *)
(* which only its caller sees.  Nothing is pushed to the queue of all      *)
(* threads: wantedThread is always set.                                    *)
(***************************************************************************)
EXTENDS Integers, Sequences

CONSTANTS
  NumThreads,   \* GetNumThreads: the main thread and the sync workers
  PoolSize,     \* groups of a TaskPool, 256
  Program       \* calls of the main thread, one at least: [kind, size, inner], where
                \* inner is the number of iterations of the for_mt nested in each of size

ASSUME ThreadsAssumption == NumThreads \in Nat \ {0, 1} /\ PoolSize \in Nat \ {0}
ASSUME ProgramAssumption ==
  Program # <<>> /\ Program \in Seq([kind : {"for"}, size : Nat \ {0}, inner : Nat] \cup
                  [kind : {"parallel", "async"}, size : {1}, inner : {0}])

VARIABLES
  group,      \* the task groups
  queue,      \* taskQueues: what thread t may take, and how often it is there
  pos,        \* TaskPool::pos of the outer and of the inner loops
  stack,      \* frames of each thread
  next,       \* main thread: its next call
  ran,        \* history: how often each iteration was run
  returned    \* history: the calls that have returned

vars == <<group, queue, pos, stack, next, ran, returned>>

Workers == 1..(NumThreads - 1)
AsyncWorkers == NumThreads..(2 * NumThreads - 2)
Threads == {0} \cup Workers \cup AsyncWorkers

\* calls: <<k>> is the main thread's k-th, <<k, i>> the one nested in iteration i
Calls == {<<k>> : k \in 1..Len(Program)} \cup
         UNION {{<<k, i>> : i \in 0..(Program[k].size - 1)} :
                k \in {n \in 1..Len(Program) : Program[n].inner > 0}}
Kind(c) == Program[c[1]].kind
Size(c) == IF Len(c) = 2 THEN Program[c[1]].inner ELSE Program[c[1]].size
HasNested(c) == Len(c) = 1 /\ Program[c[1]].inner > 0
Items == [c \in Calls |-> IF Kind(c) = "parallel" THEN Workers ELSE 0..(Size(c) - 1)]

\* one pool for each loop body: TaskPool is static in for_mt<F>
PoolOf(c) == IF Len(c) = 1 THEN "outer" ELSE "inner"
Child(w) == <<"child", w>>
Async(k) == <<"async", k>>
Groups == ({"outer", "inner"} \X (0..(PoolSize - 1))) \cup
          {Child(w) : w \in Workers} \cup {Async(k) : k \in 1..Len(Program)}
IsSliceTask(g) == g[1] \in {"outer", "inner"}

-----------------------------------------------------------------------------
(* Frames and queues *)

\* work: the call and the iteration the thread is at
Frame(role, pc, g, c) == [role |-> role, pc |-> pc, group |-> g, call |-> c, work |-> <<c, 0>>]
Top(t) == Head(stack[t])
At(t, pc) == stack[t] # <<>> /\ Top(t).pc = pc
Set(t, f) == stack' = [stack EXCEPT ![t] = <<f>> \o Tail(@)]
Goto(t, pc) == Set(t, [Top(t) EXCEPT !.pc = pc])
Pop(t) == stack' = [stack EXCEPT ![t] = Tail(@)]

\* ITaskGroup(), and TTaskGroup::Enqueue or AsyncTask() with one task
NewGroup(c) == [remaining |-> 1, ctr |-> 0, to |-> 1, func |-> c,
                inTaskQueue |-> TRUE, execLoopDone |-> FALSE, deleted |-> FALSE]

\* fault: wantedThread counts from 0, and nobody takes from the main thread's queue
EnqueuedFromZero(t, g) == IF t = 1 THEN queue ELSE [queue EXCEPT ![t - 1][g] = @ + 1]

\* PushTaskGroup: at the queue of the wanted thread
Enqueued(t, g) == [queue EXCEPT ![t][g] = @ + 1]

IsFinished(g) == group[g].remaining = 0

\* fault: a child may go as soon as it is out of the queue
AllowDeleteOnceRun(g) == IsFinished(g) /\ ~group[g].inTaskQueue

AllowDelete(g) == IsFinished(g) /\ ~group[g].inTaskQueue /\ group[g].execLoopDone

-----------------------------------------------------------------------------
(* The calls *)

\* the next group of the pool, reset and in use, for a call above other frames
GetTaskGroup(t, c, below) ==
  LET g == <<PoolOf(c), pos[PoolOf(c)] % PoolSize>>
  IN  /\ pos' = [pos EXCEPT ![PoolOf(c)] = @ + 1]
      /\ group' = [group EXCEPT ![g].remaining = 0, ![g].inTaskQueue = TRUE]
      /\ stack' = [stack EXCEPT ![t] = <<Frame("owner", "count", g, c)>> \o below]
      /\ UNCHANGED <<queue, ran, returned>>

\* the main thread's next call
Call(kind) ==
  /\ stack[0] = <<>> /\ next <= Len(Program) /\ Program[next].kind = kind
  /\ next' = next + 1

ForMT == Call("for") /\ GetTaskGroup(0, <<next>>, <<>>)

\* for_mt within for_mt
NestedForMT(t) ==
  /\ At(t, "inner")
  /\ GetTaskGroup(t, <<Top(t).work[1][1], Top(t).work[2]>>,
                  <<[Top(t) EXCEPT !.pc = "done"]>> \o Tail(stack[t]))
  /\ UNCHANGED next

Parallel ==
  /\ Call("parallel")
  /\ stack' = [stack EXCEPT ![0] = <<Frame("parent", "children", Child(1), <<next>>)>>]
  /\ UNCHANGED <<group, queue, pos, ran, returned>>

\* Enqueue: the task is on its way before the caller is done with it
Enqueue ==
  /\ Call("async")
  /\ group' = [group EXCEPT ![Async(next)] = NewGroup(<<next>>)]
  /\ \E w \in AsyncWorkers : queue' = Enqueued(w, Async(next))
  /\ stack' = [stack EXCEPT ![0] = <<Frame("pusher", "pushed", Async(next), <<next>>)>>]
  /\ UNCHANGED <<pos, ran, returned>>

\* PushTaskGroup asks the task whether it is asynchronous, after enqueueing it
Pushed ==
  /\ At(0, "pushed")
  /\ Pop(0)
  /\ returned' = returned \cup {Top(0).call}
  /\ UNCHANGED <<group, queue, pos, next, ran>>

\* ForTaskGroup::Enqueue, in three steps
Count(t) ==
  /\ At(t, "count")
  /\ group' = [group EXCEPT ![Top(t).group].remaining = Size(Top(t).call)]
  /\ Goto(t, "zero")
  /\ UNCHANGED <<queue, pos, next, ran, returned>>

Zero(t) ==
  /\ At(t, "zero")
  /\ group' = [group EXCEPT ![Top(t).group].ctr = 0]
  /\ Goto(t, "func")
  /\ UNCHANGED <<queue, pos, next, ran, returned>>

Func(t) ==
  /\ At(t, "func")
  /\ group' = [group EXCEPT ![Top(t).group].to = Size(Top(t).call),
                            ![Top(t).group].func = Top(t).call]
  /\ Set(t, [Top(t) EXCEPT !.pc = "push", !.work[2] = 1])
  /\ UNCHANGED <<queue, pos, next, ran, returned>>

\* the group goes into the queue of each worker
PushTaskGroup(t) ==
  LET w == Top(t).work[2]
  IN  /\ At(t, "push")
      /\ queue' = Enqueued(w, Top(t).group)
      /\ Set(t, IF w + 1 \in Workers THEN [Top(t) EXCEPT !.work[2] = w + 1]
                ELSE [Top(t) EXCEPT !.pc = "step"])
      /\ UNCHANGED <<group, pos, next, ran, returned>>

\* Parallel2TaskGroup::Enqueue: one child for each worker
PushChild ==
  LET w == Top(0).group[2]
  IN  /\ At(0, "children")
      /\ group' = [group EXCEPT ![Child(w)] = NewGroup(Top(0).call)]
      /\ queue' = Enqueued(w, Child(w))
      /\ Set(0, IF w + 1 \in Workers THEN [Top(0) EXCEPT !.group = Child(w + 1)]
                ELSE [Top(0) EXCEPT !.pc = "spin"])
      /\ UNCHANGED <<pos, next, ran, returned>>

-----------------------------------------------------------------------------
(* ExecuteLoop *)

\* fault: what fetch_add returns is not yet stored
Unclaimed(g) == group[g].ctr

\* fetch_add
Claimed(g) == group[g].ctr + 1

\* ExecuteStep: there is work as long as the counter is below the end
Step(t) ==
  LET g == Top(t).group
  IN  /\ At(t, "step")
      /\ group' = [group EXCEPT ![g].ctr = Claimed(g)]
      /\ Set(t, IF group[g].ctr < group[g].to
                THEN [Top(t) EXCEPT !.pc = "run", !.work[2] = group[g].ctr]
                ELSE [Top(t) EXCEPT !.pc = "end"])
      /\ UNCHANGED <<queue, pos, next, ran, returned>>

\* the item is that of the group's function; a child of parallel has one only
Run(t) ==
  LET g == Top(t).group
      c == group[g].func
      i == IF Kind(c) = "parallel" THEN g[2] ELSE Top(t).work[2]
  IN  /\ At(t, "run")
      /\ ran' = [ran EXCEPT ![c][i] = @ + 1]
      /\ Set(t, [Top(t) EXCEPT !.pc = IF HasNested(c) THEN "inner" ELSE "done", !.work = <<c, i>>])
      /\ UNCHANGED <<group, queue, pos, next, returned>>

\* an asynchronous task has no second step
Done(t) ==
  LET g == Top(t).group
  IN  /\ At(t, "done")
      /\ group' = [group EXCEPT ![g].remaining = @ - 1]
      /\ Goto(t, IF g[1] = "async" THEN "end" ELSE "step")
      /\ UNCHANGED <<queue, pos, next, ran, returned>>

\* of a group for_mt works on, only the owner says that it is out of the queues
EndOfSlice(t) ==
  LET g == Top(t).group
  IN  /\ At(t, "end") /\ IsSliceTask(g)
      /\ IF Top(t).role = "owner"
         THEN group' = [group EXCEPT ![g].inTaskQueue = FALSE] /\ Goto(t, "check")
         ELSE Pop(t) /\ UNCHANGED group
      /\ UNCHANGED <<queue, pos, next, ran, returned>>

EndOfTask(t) ==
  /\ At(t, "end") /\ ~IsSliceTask(Top(t).group)
  /\ group' = [group EXCEPT ![Top(t).group].inTaskQueue = FALSE]
  /\ Goto(t, "self")
  /\ UNCHANGED <<queue, pos, next, ran, returned>>

\* asynchronous tasks delete themselves
SelfDelete(t) ==
  LET g == Top(t).group
  IN  /\ At(t, "self")
      /\ group' = [group EXCEPT ![g].execLoopDone = TRUE, ![g].deleted = (g[1] = "async")]
      /\ Pop(t)
      /\ UNCHANGED <<queue, pos, next, ran, returned>>

-----------------------------------------------------------------------------
(* DoTask and WaitForFinished *)

\* a worker with nothing to do, or waiting, takes any task of its queue
DoTask(t) ==
  /\ t # 0 /\ (stack[t] # <<>> => Top(t).pc = "drain")
  /\ \E g \in Groups :
       /\ queue[t][g] > 0
       /\ queue' = [queue EXCEPT ![t][g] = @ - 1]
       /\ stack' = [stack EXCEPT ![t] =
            <<Frame("helper", IF g[1] = "async" THEN "run" ELSE "step", g, group[g].func)>> \o @]
  /\ UNCHANGED <<group, pos, next, ran, returned>>

\* nothing more in the queues this thread may take from
Drained(t) ==
  /\ At(t, "drain")
  /\ t # 0 => \A g \in Groups : queue[t][g] = 0
  /\ Goto(t, "check")
  /\ UNCHANGED <<group, queue, pos, next, ran, returned>>

Finished(g) == IsFinished(g) /\ ~group[g].inTaskQueue

WaitForFinished(t) ==
  LET g == Top(t).group
  IN  /\ At(t, "check")
      /\ IF Finished(g)
         THEN /\ group' = [group EXCEPT ![g].remaining = 0, ![g].inTaskQueue = FALSE]
              /\ Pop(t)
              /\ returned' = returned \cup {Top(t).call}
         ELSE Goto(t, "drain") /\ UNCHANGED <<group, returned>>
      /\ UNCHANGED <<queue, pos, next, ran>>

\* Parallel2TaskGroup::ExecuteStep: the children go when none of them is in use
Spin ==
  /\ At(0, "spin") /\ \A w \in Workers : AllowDelete(Child(w))
  /\ group' = [g \in Groups |-> IF g[1] = "child" THEN [group[g] EXCEPT !.deleted = TRUE] ELSE group[g]]
  /\ Pop(0)
  /\ returned' = returned \cup {Top(0).call}
  /\ UNCHANGED <<queue, pos, next, ran>>

Init ==
  /\ group = [g \in Groups |-> [NewGroup(<<1>>) EXCEPT !.remaining = 0, !.to = 0, !.inTaskQueue = FALSE]]
  /\ queue = [t \in Threads \ {0} |-> [g \in Groups |-> 0]]
  /\ pos = [p \in {"outer", "inner"} |-> 0]
  /\ stack = [t \in Threads |-> <<>>]
  /\ next = 1
  /\ ran = [c \in Calls |-> [i \in Items[c] |-> 0]]
  /\ returned = {}

Thread(t) ==
  \/ NestedForMT(t) \/ Count(t) \/ Zero(t) \/ Func(t) \/ PushTaskGroup(t)
  \/ Step(t) \/ Run(t) \/ Done(t) \/ EndOfSlice(t) \/ EndOfTask(t) \/ SelfDelete(t)
  \/ DoTask(t) \/ Drained(t) \/ WaitForFinished(t)

Main == ForMT \/ Parallel \/ Enqueue \/ Pushed \/ PushChild \/ Spin

Next == Main \/ \E t \in Threads : Thread(t)

Spec == Init /\ [][Next]_vars

\* threads are scheduled, tasks end, and the main thread goes on with its program
Fairness == WF_vars(Main) /\ \A t \in Threads : WF_vars(Thread(t))

FairSpec == Spec /\ Fairness

-----------------------------------------------------------------------------
(* Properties *)

\* Each iteration of a loop, each worker's part of a parallel section and each
\* task runs once ("should be executed exactly once by each worker", test/engine/
\* System/testThreadPool.cpp:106), and a caller who waits is let go only when all
\* of its work is done, whoever did it.
Loops == INSTANCE ParallelLoops WITH Waiting <- {c \in Calls : Kind(c) # "async"}
ImplementsLoops == Loops!Spec

\* A task lives until no worker is in its ExecuteLoop ("store *after* the check in
\* both branches, avoids UAF", ThreadPool.h:157) and its pointer has left the queue
\* (ThreadPool.cpp:301-304).  This speaks of queues and workers only: the thread
\* in Enqueue does use a deleted task, when PushTaskGroup asks what it has
\* enqueued whether it is asynchronous (ThreadPool.cpp:328) after a worker has run
\* the task and the task has deleted itself (Pushed after SelfDelete).
NoWorkerUsesDeleted ==
  \A g \in Groups : group[g].deleted =>
    /\ \A t \in Threads \ {0} : queue[t][g] = 0
    /\ \A t \in Threads : \A n \in 1..Len(stack[t]) :
         stack[t][n].group = g => stack[t][n].role # "helper"

\* The main thread gets through its program, and every task it enqueued is run:
\* no caller waits for work that nobody does.
AllReturn == <>[](returned = Calls /\ \A c \in Calls : \A i \in Items[c] : ran[c][i] = 1)
=============================================================================
