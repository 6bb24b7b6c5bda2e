----------------------------- MODULE AsyncUtils -----------------------------
(***************************************************************************)
(* The asynchronous helpers of starkware/python: a thread has the event    *)
(* loop run shell commands, async_subprocess.py, in chunks, gather_in_chunks *)
(* of utils.py, and waits for them, execute_coroutine_threadsafe; the      *)
(* process may be torn down meanwhile, cancel_futures.                     *)
(*                                                                         *)
(* The event loop, its tasks and asyncio.gather are external; they are     *)
(* modelled as the code relies on them.  gather fails with the first       *)
(* command that fails and leaves the others running; cancelling it while   *)
(* it is pending cancels those it waits for.                               *)
(***************************************************************************)
EXTENDS Integers, Sequences, FiniteSets

CONSTANTS
  N,            \* commands to run
  chunk_size,   \* how many at a time
  NSteps        \* bound: simple commands in a shell command

ASSUME ChunksAssumption == N \in Nat /\ chunk_size \in Nat \ {0} /\ NSteps \in Nat \ {0}

Commands == 1 .. N

VARIABLES
  thread,       \* of the caller: "main", "worker", or "loop", in which the loop runs
  caller,       \* "idle", "waiting", "returned", "raised"
  breaks_after, \* elements the consumer takes before it breaks; 0: it takes all
  job,          \* the task that gathers
  next,         \* the first command that is in no chunk yet
  chunk,        \* the commands of the current chunk
  results,      \* what the consumer took
  child,        \* the task of each command
  proc,         \* its process: simple commands to go, whether one failed, exit code
  service,      \* another task of the process
  teardown,     \* "off", "awaiting", "returned", "raised"
  futures,      \* those that teardown was given
  awaited       \* the future that teardown awaits

jobVars == <<job, next, chunk, results>>
vars == <<thread, caller, breaks_after, job, next, chunk, results, child, proc, service,
          teardown, futures, awaited>>

Settled == {"done", "failed", "cancelled"}
Live == {"scheduled", "running", "cancelling"}

NotStarted == [left |-> 0, failed |-> FALSE, returncode |-> -1]
Started == [NotStarted EXCEPT !.left = NSteps]
Exited(p) == p.returncode >= 0

Init ==
  /\ thread \in {"main", "worker", "loop"}
  /\ caller = "idle"
  /\ breaks_after \in 0 .. N
  /\ job = "unsubmitted" /\ next = 1 /\ chunk = {} /\ results = <<>>
  /\ child = [i \in Commands |-> "new"]
  /\ proc = [i \in Commands |-> NotStarted]
  /\ service = "running"
  /\ teardown = "off" /\ futures = <<>> /\ awaited = 1

\* A caller in the thread of the loop keeps the loop from running.
LoopRuns == ~(thread = "loop" /\ caller = "waiting")

----------------------------------------------------------------------------
(* execute_coroutine_threadsafe.                                            *)

\* The assertion is about the main thread alone.  A call may also come while the
\* process is torn down, or after that: the loop still runs.
execute_coroutine_threadsafe ==
  /\ caller = "idle"
  /\ IF thread = "main" THEN caller' = "raised" /\ UNCHANGED job
     ELSE caller' = "waiting" /\ job' = "scheduled"
  /\ UNCHANGED <<thread, breaks_after, next, chunk, results, child, proc, service, teardown,
                 futures, awaited>>

\* future.result()
CallerResult ==
  /\ caller = "waiting" /\ job \in Settled
  /\ caller' = IF job = "done" THEN "returned" ELSE "raised"
  /\ UNCHANGED <<thread, breaks_after, jobVars, child, proc, service, teardown, futures, awaited>>

----------------------------------------------------------------------------
(* gen_gather_in_chunks, consumed through aenumerate.                       *)

\* The next chunk_size elements of the iterator.
iter_blockify(first) ==
  [elements |-> {i \in Commands : i >= first /\ i < first + chunk_size},
   next |-> first + chunk_size]

\* gather wraps the coroutines of the chunk in tasks, or there is no chunk left.
GatherNextChunk ==
  LET block == iter_blockify(next)
  IN  /\ chunk' = block.elements
      /\ next' = block.next
      /\ job' = IF block.elements = {} THEN "done" ELSE "gathering"
      /\ child' = [i \in Commands |-> IF i \in block.elements THEN "scheduled" ELSE child[i]]
      /\ UNCHANGED results

\* mutant: a failure shows only once all the others have succeeded, so two never do
FailsAtTheEnd(c) ==
  \E i \in c : /\ child[i] \in {"failed", "cancelled"}
              /\ \A j \in c \ {i} : child[j] = "done"

GatherFails(c) == \E i \in c : child[i] \in {"failed", "cancelled"}

\* mutant: as soon as one is done
GatherSucceedsEarly(c) == \E i \in c : child[i] = "done"

GatherSucceeds(c) == \A i \in c : child[i] = "done"

GatherIsDone(c) == GatherFails(c) \/ GatherSucceeds(c)

Taken == Cardinality({k \in 1 .. Len(results) : results[k][2] \in chunk})
FirstOf(c) == CHOOSE i \in c : \A j \in c : i <= j

\* aenumerate numbers the elements; after a break aclosing closes the generator.
TakeElement ==
  LET i == FirstOf(chunk) + Taken
  IN  /\ results' = Append(results, <<Len(results), i>>)
      /\ job' = IF Len(results') = breaks_after THEN "done" ELSE "yielding"
      /\ UNCHANGED <<next, chunk, child>>

\* gather is left with the first failure; or it was cancelled.
GatherEnds ==
  /\ job' = CASE job = "cancelling" -> "cancelled"
              [] job = "gathering" /\ ~GatherFails(chunk) -> "yielding"
              [] \E i \in chunk : child[i] = "failed" -> "failed"
              [] OTHER -> "cancelled"
  /\ UNCHANGED <<next, chunk, results, child>>

JobStep ==
  /\ LoopRuns
  /\ \/ job = "scheduled" /\ GatherNextChunk
     \/ job \in {"gathering", "cancelling"} /\ GatherIsDone(chunk) /\ GatherEnds
     \/ job = "yielding" /\ Taken < Cardinality(chunk) /\ TakeElement
     \/ job = "yielding" /\ Taken = Cardinality(chunk) /\ GatherNextChunk
  /\ UNCHANGED <<thread, caller, breaks_after, proc, service, teardown, futures, awaited>>

----------------------------------------------------------------------------
(* async_check_output, in a shell.                                          *)

\* The process may fail to start, and its output, though it succeeded, be no ASCII.
ChildStep(i) ==
  /\ LoopRuns
  /\ \/ /\ child[i] = "scheduled"
        /\ child' = [child EXCEPT ![i] = "running"]
        /\ proc' = [proc EXCEPT ![i] = Started]
     \/ /\ child[i] = "scheduled"
        /\ child' = [child EXCEPT ![i] = "failed"]
        /\ UNCHANGED proc
     \/ /\ child[i] = "running" /\ Exited(proc[i])
        /\ \E decoded \in BOOLEAN :
             child' = [child EXCEPT ![i] = IF decoded /\ proc[i].returncode = 0 THEN "done"
                                          ELSE "failed"]
        /\ UNCHANGED proc
     \/ /\ child[i] = "cancelling"
        /\ child' = [child EXCEPT ![i] = "cancelled"]
        /\ UNCHANGED proc
  /\ UNCHANGED <<thread, caller, breaks_after, jobVars, service, teardown, futures, awaited>>

\* mutant: without -e
ShellGoesOn(p, ok) ==
  [left |-> p.left - 1, failed |-> p.failed \/ ~ok,
   returncode |-> IF p.left = 1 THEN IF ok THEN 0 ELSE 1 ELSE -1]

\* bash -e: the first simple command to fail ends the shell.
ShellStep(p, ok) ==
  [left |-> p.left - 1, failed |-> p.failed \/ ~ok,
   returncode |-> IF ~ok THEN 1 ELSE IF p.left = 1 THEN 0 ELSE -1]

\* The process runs outside of the loop, and goes on when its task is cancelled.
ProcessStep(i) ==
  /\ proc[i].left > 0 /\ ~Exited(proc[i])
  /\ \E ok \in BOOLEAN : proc' = [proc EXCEPT ![i] = ShellStep(@, ok)]
  /\ UNCHANGED <<thread, caller, breaks_after, jobVars, child, service, teardown, futures, awaited>>

----------------------------------------------------------------------------
(* cancel_futures.                                                          *)

State(f) == IF f = "job" THEN job ELSE service

\* future.cancel() of each, in one step of the loop: of those that there are by then.
StartTeardown ==
  /\ LoopRuns
  /\ teardown = "off" /\ teardown' = "awaiting"
  /\ futures' = IF job = "unsubmitted" THEN <<"service">> ELSE <<"service", "job">>
  /\ service' = IF service = "running" THEN "cancelling" ELSE service
  /\ job' = IF job \in Settled \union {"unsubmitted"} THEN job ELSE "cancelling"
  /\ child' = [i \in Commands |->
       IF job = "gathering" /\ ~GatherIsDone(chunk) /\ i \in chunk /\ child[i] \in Live
       THEN "cancelling" ELSE child[i]]
  /\ UNCHANGED <<thread, caller, breaks_after, next, chunk, results, proc, awaited>>

\* mutant: every exception of a future is passed over
AwaitPasses(state) == state \in Settled

\* Only the error of having been cancelled is passed over.
AwaitReturns(state) == state \in {"done", "cancelled"}

AwaitFuture ==
  /\ LoopRuns
  /\ teardown = "awaiting"
  /\ LET state == State(futures[awaited])
     IN  \/ /\ AwaitReturns(state)
            /\ teardown' = IF awaited = Len(futures) THEN "returned" ELSE "awaiting"
            /\ awaited' = awaited + 1
         \/ /\ state \in Settled /\ ~AwaitReturns(state)
            /\ teardown' = "raised"
            /\ UNCHANGED awaited
  /\ UNCHANGED <<thread, caller, breaks_after, jobVars, child, proc, service, futures>>

\* The service may fail at any time, in its own cleanup too.
ServiceFails ==
  /\ LoopRuns
  /\ service \in {"running", "cancelling"} /\ service' = "failed"
  /\ UNCHANGED <<thread, caller, breaks_after, jobVars, child, proc, teardown, futures, awaited>>

ServiceEnds ==
  /\ LoopRuns
  /\ service = "cancelling" /\ service' = "cancelled"
  /\ UNCHANGED <<thread, caller, breaks_after, jobVars, child, proc, teardown, futures, awaited>>

Next ==
  \/ execute_coroutine_threadsafe \/ CallerResult
  \/ JobStep
  \/ \E i \in Commands : ChildStep(i) \/ ProcessStep(i)
  \/ StartTeardown \/ AwaitFuture \/ ServiceFails \/ ServiceEnds

\* The loop runs every task that is ready, commands end, a cancelled service ends,
\* and result() returns when its future is settled.  No one has to call or to tear
\* down.
Fairness ==
  /\ WF_vars(JobStep) /\ WF_vars(CallerResult) /\ WF_vars(AwaitFuture) /\ WF_vars(ServiceEnds)
  /\ \A i \in Commands : WF_vars(ChildStep(i)) /\ WF_vars(ProcessStep(i))

Spec == Init /\ [][Next]_vars /\ Fairness

----------------------------------------------------------------------------

\* gather_in_chunks, aenumerate, async_check_output: the consumer gets the commands
\* in the order given, numbered from 0, none lost or twice, whichever ended first,
\* and no command of which a part failed; all of them when the call returns.
GatheredInOrder ==
  /\ \A k \in 1 .. Len(results) : results[k] = <<k - 1, k>> /\ ~proc[k].failed
  /\ caller = "returned" => Len(results) = IF breaks_after = 0 THEN N ELSE breaks_after

\* gen_gather_in_chunks: never are more than chunk_size commands under way, also when
\* one failed and left its chunk behind, and none starts before every command of the
\* chunks before its own succeeded.
ChunksOneByOne ==
  /\ Cardinality({i \in Commands : child[i] \in Live}) <= chunk_size
  /\ \A i \in Commands : child[i] # "new" =>
       \A j \in 1 .. ((i - 1) \div chunk_size) * chunk_size : child[j] = "done"

\* cancel_futures: a teardown that returns leaves no future running and hides no
\* failure of one; a teardown that raises does so for a future that failed, the first
\* to.  Nothing is said of those after it: the exception leaves the loop, and unlike
\* what the docstring says, utils.py:377, they are not awaited.
TeardownRevealsFailures ==
  /\ teardown = "returned" =>
       \A k \in DOMAIN futures : State(futures[k]) \in {"done", "cancelled"}
  /\ teardown = "raised" =>
       /\ State(futures[awaited]) = "failed"
       /\ \A k \in 1 .. awaited - 1 : State(futures[k]) \in {"done", "cancelled"}

\* execute_coroutine_threadsafe, cancel_futures: a thread that waits for a coroutine
\* gets an answer, though commands fail or the process is torn down, unless it is the
\* very thread of the loop (the NOTE in utils.py:592); so does a teardown come to an
\* end, unless that thread waits and holds up the loop it needs.
EveryWaitEnds ==
  /\ caller = "waiting" /\ thread # "loop" ~> caller \in {"returned", "raised"}
  /\ teardown = "awaiting" ~> teardown \in {"returned", "raised"} \/ ~LoopRuns
=============================================================================
