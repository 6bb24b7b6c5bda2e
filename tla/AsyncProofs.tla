---------------------------- MODULE AsyncProofs ----------------------------
(***************************************************************************)
(* Proofs about the asynchronous helpers, for any number of commands, of   *)
(* parts of a command, and any size of a chunk.                            *)
(***************************************************************************)
EXTENDS AsyncUtils, FiniteSetTheorems, TLAPS

-----------------------------------------------------------------------------
(* Chunks.                                                                 *)

\* Whole chunks were taken, the last of them is the current one; those before it
\* have succeeded, and so has the current one once its results are handed out.
ChunkInv ==
  /\ \E k \in Nat : next = k * chunk_size + 1
  /\ chunk = {i \in Commands : i < next /\ next <= i + chunk_size}
  /\ child \in [Commands -> {"new"} \union Live \union Settled]
  /\ \A i \in Commands : next <= i => child[i] = "new"
  /\ \A i \in Commands : i + chunk_size < next => child[i] = "done"
  /\ caller = "idle" => job = "unsubmitted"
  /\ job \in {"unsubmitted", "scheduled"} => next = 1
  /\ job = "yielding" => GatherSucceeds(chunk)

\* The chunk of a command that was started is the current one or one before.
LEMMA EarlierChunks ==
  ASSUME NEW c \in Nat \ {0}, NEW k \in Nat, NEW i \in Nat \ {0}, i < k * c + 1
  PROVE  ((i - 1) \div c) * c + c <= k * c
PROOF
  <1> DEFINE q == (i - 1) \div c
             r == (i - 1) % c
  <1>1. q \in Int /\ r \in 0 .. c - 1 /\ i - 1 = c * q + r
    BY SMT
  <1> HIDE DEF q, r
  <1>2. c * q < c * k
    BY <1>1
  <1>3. q < k
    <2>1. SUFFICES ASSUME k <= q PROVE FALSE
      BY <1>1
    <2>2. c * k <= c * q
      BY <1>1, <2>1
    <2> QED
      BY <1>1, <1>2, <2>2
  <1>4. c * (q + 1) <= c * k
    BY <1>1, <1>3
  <1>5. q * c + c = c * (q + 1) /\ k * c = c * k
    BY <1>1
  <1> QED
    BY <1>1, <1>4, <1>5 DEF q

\* ChunkInv limits the commands that are under way to the current chunk.
LEMMA ChunkInvImplies == ChunkInv => ChunksOneByOne
PROOF
  <1> SUFFICES ASSUME ChunkInv PROVE ChunksOneByOne
    OBVIOUS
  <1> USE ChunksAssumption
  <1>1. PICK k \in Nat : next = k * chunk_size + 1
    BY DEF ChunkInv
  <1>2. next \in Int /\ chunk_size \in Nat \ {0}
    BY <1>1
  <1> DEFINE live == {i \in Commands : child[i] \in Live}
  <1>3. Cardinality(live) <= chunk_size
    <2>1. live \subseteq (next - chunk_size) .. (next - 1)
      BY <1>2 DEF ChunkInv, Live, Commands
    <2>2. /\ IsFiniteSet((next - chunk_size) .. (next - 1))
          /\ Cardinality((next - chunk_size) .. (next - 1)) = chunk_size
      BY <1>2, FS_Interval
    <2>3. Cardinality(live) <= Cardinality((next - chunk_size) .. (next - 1))
      BY <2>1, <2>2, FS_Subset
    <2> QED
      BY <2>2, <2>3
  <1>4. ASSUME NEW i \in Commands, child[i] # "new",
               NEW j \in 1 .. ((i - 1) \div chunk_size) * chunk_size
        PROVE  child[j] = "done"
    <2>1. i < k * chunk_size + 1
      BY <1>1, <1>4 DEF ChunkInv, Commands
    <2>2. ((i - 1) \div chunk_size) * chunk_size + chunk_size <= k * chunk_size
      <3>1. i \in Nat \ {0}
        BY DEF Commands
      <3> QED
        BY <1>2, <2>1, <3>1, EarlierChunks
    <2>3. k * chunk_size \in Int /\ ((i - 1) \div chunk_size) * chunk_size \in Int
      BY <1>2 DEF Commands
    <2>4. j + chunk_size < next /\ j \in Int /\ 1 <= j
      BY <1>1, <1>2, <2>2, <2>3
    <2>5. j < i
      <3>1. i \in Nat /\ 1 <= i /\ i <= N
        BY DEF Commands
      <3>2. ((i - 1) \div chunk_size) * chunk_size <= i - 1
        BY <3>1, <1>2, SMT
      <3> QED
        BY <2>3, <3>1, <3>2
    <2>6. j \in Commands
      BY <2>4, <2>5 DEF Commands
    <2> QED
      BY <2>4, <2>6 DEF ChunkInv
  <1> QED
    BY <1>3, <1>4 DEF ChunksOneByOne
-----------------------------------------------------------------------------
(* Steps that keep ChunkInv.                                               *)

\* At first there is no chunk.
LEMMA InitChunkInv == Init => ChunkInv
PROOF
  <1> SUFFICES ASSUME Init PROVE ChunkInv
    OBVIOUS
  <1> USE ChunksAssumption
  <1>1. next = 0 * chunk_size + 1
    BY DEF Init
  <1>2. chunk = {i \in Commands : i < next /\ next <= i + chunk_size}
    BY DEF Init, Commands
  <1>3. \A i \in Commands : ~ (i + chunk_size < next)
    BY DEF Init, Commands
  <1> QED
    BY <1>1, <1>2, <1>3 DEF Init, ChunkInv

\* A chunk is taken only when the one before it has succeeded.
LEMMA GatherNextChunkInv ==
  ASSUME ChunkInv, GatherNextChunk, UNCHANGED caller, job \in {"scheduled", "yielding"}
  PROVE  ChunkInv'
PROOF
  <1> USE ChunksAssumption
  <1>1. PICK k \in Nat : next = k * chunk_size + 1
    BY DEF ChunkInv
  <1>2. next \in Nat \ {0}
    BY <1>1
  <1>3. /\ next' = next + chunk_size
        /\ chunk' = {i \in Commands : i >= next /\ i < next + chunk_size}
        /\ child' = [i \in Commands |-> IF i \in chunk' THEN "scheduled" ELSE child[i]]
        /\ job' \in {"done", "gathering"}
    BY DEF GatherNextChunk, iter_blockify
  <1>4. \E n \in Nat : next' = n * chunk_size + 1
    <2>1. next' = (k + 1) * chunk_size + 1
      BY <1>1, <1>3
    <2> QED
      BY <2>1
  <1>5. chunk' = {i \in Commands : i < next' /\ next' <= i + chunk_size}
    BY <1>2, <1>3 DEF Commands
  <1>6. child' \in [Commands -> {"new"} \union Live \union Settled]
    BY <1>3 DEF ChunkInv, Live
  <1>7. ASSUME NEW i \in Commands, next' <= i PROVE child'[i] = "new"
    <2>1. next <= i /\ i \notin chunk'
      BY <1>2, <1>3, <1>7 DEF Commands
    <2> QED
      BY <1>3, <2>1 DEF ChunkInv
  <1>8. ASSUME NEW i \in Commands, i + chunk_size < next' PROVE child'[i] = "done"
    <2>1. i < next /\ i \notin chunk'
      BY <1>2, <1>3, <1>8 DEF Commands
    <2>2. child[i] = "done"
      <3>1. CASE i + chunk_size < next
        BY <3>1 DEF ChunkInv
      <3>2. CASE ~ (i + chunk_size < next)
        <4>1. i \in chunk
          BY <1>2, <2>1, <3>2 DEF ChunkInv, Commands
        <4>2. job = "yielding"
          BY <1>2, <2>1 DEF ChunkInv, Commands
        <4> QED
          BY <4>1, <4>2 DEF ChunkInv, GatherSucceeds
      <3> QED
        BY <3>1, <3>2
    <2> QED
      BY <1>3, <2>1, <2>2
  <1>9. caller' = "idle" => FALSE
    BY DEF ChunkInv
  <1> QED
    BY <1>3, <1>4, <1>5, <1>6, <1>7, <1>8, <1>9 DEF ChunkInv

\* The task that gathers hands out results only of a chunk that succeeded.
LEMMA JobStepInv == ASSUME ChunkInv, JobStep PROVE ChunkInv'
PROOF
  <1>1. CASE job \in {"scheduled", "yielding"} /\ GatherNextChunk
    BY <1>1, GatherNextChunkInv DEF JobStep
  <1>2. CASE /\ job \in {"gathering", "cancelling"} /\ GatherIsDone(chunk) /\ GatherEnds
    <2>1. job' = "yielding" => GatherSucceeds(chunk)
      BY <1>2 DEF GatherEnds, GatherIsDone
    <2>2. job' \in {"cancelled", "yielding", "failed"}
      BY <1>2 DEF GatherEnds
    <2>3. UNCHANGED <<caller, next, chunk, child>>
      BY <1>2 DEF GatherEnds, JobStep
    <2> QED
      BY <1>2, <2>1, <2>2, <2>3 DEF ChunkInv, GatherSucceeds
  <1>3. CASE job = "yielding" /\ TakeElement
    <2>1. job' \in {"done", "yielding"}
      BY <1>3 DEF TakeElement
    <2>2. UNCHANGED <<caller, next, chunk, child>>
      BY <1>3 DEF TakeElement, JobStep
    <2> QED
      BY <1>3, <2>1, <2>2 DEF ChunkInv, GatherSucceeds
  <1> QED
    BY <1>1, <1>2, <1>3 DEF JobStep

\* A command that is done or not started stays so.
LEMMA ChildStepInv == ASSUME ChunkInv, NEW i \in Commands, ChildStep(i) PROVE ChunkInv'
PROOF
  <1>1. /\ child[i] \in {"scheduled", "running", "cancelling"}
        /\ \E state \in {"running", "done", "failed", "cancelled"} :
             child' = [child EXCEPT ![i] = state]
    BY DEF ChildStep
  <1>2. UNCHANGED <<caller, job, next, chunk>>
    BY DEF ChildStep, jobVars
  <1>3. child' \in [Commands -> {"new"} \union Live \union Settled]
    BY <1>1 DEF ChunkInv, Live, Settled
  <1>4. \A c \in Commands : child[c] \in {"new", "done"} => child'[c] = child[c]
    BY <1>1 DEF ChunkInv
  <1>5. chunk \subseteq Commands
    BY DEF ChunkInv
  <1> QED
    BY <1>2, <1>3, <1>4, <1>5 DEF ChunkInv, GatherSucceeds

\* A teardown cancels what is live, and so takes nothing back.
LEMMA StartTeardownInv == ASSUME ChunkInv, StartTeardown PROVE ChunkInv'
PROOF
  <1>1. UNCHANGED <<caller, next, chunk>>
    BY DEF StartTeardown
  <1>2. \/ job' = job /\ job \in Settled \union {"unsubmitted"}
        \/ job' = "cancelling" /\ job # "unsubmitted"
    BY DEF StartTeardown
  <1>3. child' \in [Commands -> {"new"} \union Live \union Settled]
    BY DEF StartTeardown, ChunkInv, Live
  <1>4. \A c \in Commands : child[c] \in {"new", "done"} => child'[c] = child[c]
    BY DEF StartTeardown, Live
  <1> QED
    BY <1>1, <1>2, <1>3, <1>4 DEF ChunkInv, Settled

\* All other steps leave the chunks alone.
LEMMA NextChunkInv == ChunkInv /\ [Next]_vars => ChunkInv'
PROOF
  <1> SUFFICES ASSUME ChunkInv, [Next]_vars PROVE ChunkInv'
    OBVIOUS
  <1>1. CASE execute_coroutine_threadsafe
    <2>1. UNCHANGED <<next, chunk, child>> /\ caller' # "idle"
      BY <1>1 DEF execute_coroutine_threadsafe
    <2>2. job = "unsubmitted" /\ job' \in {"unsubmitted", "scheduled"}
      BY <1>1 DEF execute_coroutine_threadsafe, ChunkInv
    <2> QED
      BY <2>1, <2>2 DEF ChunkInv
  <1>2. CASE JobStep
    BY <1>2, JobStepInv
  <1>3. ASSUME NEW i \in Commands, ChildStep(i) PROVE ChunkInv'
    BY <1>3, ChildStepInv
  <1>4. CASE StartTeardown
    BY <1>4, StartTeardownInv
  <1>5. CASE CallerResult
    <2>1. UNCHANGED <<job, next, chunk, child>> /\ caller' # "idle"
      BY <1>5 DEF CallerResult, jobVars
    <2> QED
      BY <2>1 DEF ChunkInv, GatherSucceeds
  <1>6. CASE \/ \E i \in Commands : ProcessStep(i)
             \/ AwaitFuture \/ ServiceFails \/ ServiceEnds \/ UNCHANGED vars
    <2>1. UNCHANGED <<caller, job, next, chunk, child>>
      BY <1>6 DEF ProcessStep, AwaitFuture, ServiceFails, ServiceEnds, vars, jobVars
    <2> QED
      BY <2>1 DEF ChunkInv, GatherSucceeds
  <1> QED
    BY <1>1, <1>2, <1>3, <1>4, <1>5, <1>6 DEF Next

\* utils.py, gen_gather_in_chunks: for any number of commands and size of a chunk,
\* never are more than chunk_size under way, and none before the chunks before its
\* own have succeeded.
THEOREM ChunksAreBounded == Spec => []ChunksOneByOne
PROOF
  BY InitChunkInv, NextChunkInv, ChunkInvImplies, PTL DEF Spec

-----------------------------------------------------------------------------
(* Teardown.                                                               *)

\* The futures awaited so far have ended in no failure, and no ended future runs again.
TeardownInv ==
  /\ futures \in {<<>>, <<"service">>, <<"service", "job">>}
  /\ awaited \in 1 .. Len(futures) + 1
  /\ teardown = "off" => futures = <<>>
  /\ futures = <<"service", "job">> => job # "unsubmitted" /\ caller # "idle"
  /\ awaited > 1 => service \in {"done", "cancelled"}
  /\ awaited > 2 => job \in {"done", "cancelled"}
  /\ teardown = "returned" => awaited = Len(futures) + 1
  /\ teardown \in {"awaiting", "raised"} => awaited \in 1 .. Len(futures)
  /\ teardown = "raised" /\ awaited = 1 => service = "failed"
  /\ teardown = "raised" /\ awaited = 2 => job = "failed"
  /\ caller = "idle" => job = "unsubmitted"

\* There are at most two futures, the job second.
LEMMA FuturesAre ==
  ASSUME TeardownInv
  PROVE  /\ Len(futures) \in 0 .. 2 /\ DOMAIN futures = 1 .. Len(futures)
         /\ Len(futures) >= 1 => State(futures[1]) = service
         /\ Len(futures) = 2 <=> futures = <<"service", "job">>
         /\ Len(futures) = 2 => State(futures[2]) = job
PROOF
  <1>1. CASE futures = <<>>
    BY <1>1
  <1>2. CASE futures = <<"service">>
    BY <1>2 DEF State
  <1>3. CASE futures = <<"service", "job">>
    BY <1>3 DEF State
  <1> QED
    BY <1>1, <1>2, <1>3 DEF TeardownInv

\* Nobody has torn down anything at first.
LEMMA InitTeardownInv == Init => TeardownInv
PROOF
  BY DEF Init, TeardownInv

\* A future that has ended stays as it ended, so what was awaited stays revealed.
LEMMA NextTeardownInv == TeardownInv /\ [Next]_vars => TeardownInv'
PROOF
  <1> SUFFICES ASSUME TeardownInv, [Next]_vars PROVE TeardownInv'
    OBVIOUS
  <1>1. CASE execute_coroutine_threadsafe
    <2>1. /\ UNCHANGED <<service, teardown, futures, awaited>> /\ caller' # "idle"
          /\ job = "unsubmitted" /\ futures # <<"service", "job">>
      BY <1>1 DEF execute_coroutine_threadsafe, TeardownInv
    <2>2. ~ (awaited > 2)
      BY <2>1 DEF TeardownInv
    <2> QED
      BY <2>1, <2>2 DEF TeardownInv
  <1>2. CASE CallerResult
    <2>1. UNCHANGED <<job, service, teardown, futures, awaited>> /\ caller' # "idle"
      BY <1>2 DEF CallerResult, jobVars
    <2> QED
      BY <2>1 DEF TeardownInv
  <1>3. CASE JobStep
    <2>1. job \in {"scheduled", "gathering", "cancelling", "yielding"}
          /\ UNCHANGED <<caller, service, teardown, futures, awaited>>
      BY <1>3 DEF JobStep
    <2>2. job' # "unsubmitted"
      BY <1>3 DEF JobStep, GatherNextChunk, GatherEnds, TakeElement
    <2> QED
      BY <2>1, <2>2 DEF TeardownInv
  <1>4. CASE StartTeardown
    <2>1. /\ teardown = "off" /\ futures = <<>> /\ awaited = 1
          /\ UNCHANGED <<caller, awaited>> /\ teardown' = "awaiting"
      BY <1>4 DEF StartTeardown, TeardownInv
    <2>2. CASE job = "unsubmitted"
      <3>1. job' = "unsubmitted" /\ futures' = <<"service">>
        BY <1>4, <2>2 DEF StartTeardown
      <3> QED
        BY <2>1, <3>1 DEF TeardownInv
    <2>3. CASE job # "unsubmitted"
      <3>1. job' # "unsubmitted" /\ caller # "idle" /\ futures' = <<"service", "job">>
        BY <1>4, <2>3 DEF StartTeardown, TeardownInv
      <3> QED
        BY <2>1, <3>1 DEF TeardownInv
    <2> QED
      BY <2>2, <2>3
  <1>5. CASE AwaitFuture
    <2>1. /\ UNCHANGED <<caller, job, service, futures>> /\ teardown = "awaiting"
          /\ awaited \in 1 .. Len(futures)
      BY <1>5 DEF AwaitFuture, TeardownInv, jobVars
    <2>2. CASE /\ AwaitReturns(State(futures[awaited])) /\ awaited' = awaited + 1
               /\ teardown' = IF awaited = Len(futures) THEN "returned" ELSE "awaiting"
      <3>1. awaited = 1 => service \in {"done", "cancelled"}
        BY <2>1, <2>2, FuturesAre DEF AwaitReturns
      <3>2. awaited = 2 => job \in {"done", "cancelled"}
        BY <2>1, <2>2, FuturesAre DEF AwaitReturns
      <3> QED
        BY <2>1, <2>2, <3>1, <3>2, FuturesAre DEF TeardownInv
    <2>3. CASE /\ teardown' = "raised" /\ UNCHANGED awaited
               /\ State(futures[awaited]) \in Settled \ {"done", "cancelled"}
      <3>1. awaited = 1 => service = "failed"
        BY <2>1, <2>3, FuturesAre DEF Settled
      <3>2. awaited = 2 => job = "failed"
        BY <2>1, <2>3, FuturesAre DEF Settled
      <3> QED
        BY <2>1, <2>3, <3>1, <3>2 DEF TeardownInv
    <2> QED
      BY <1>5, <2>2, <2>3 DEF AwaitFuture, AwaitReturns
  <1>6. CASE ServiceFails \/ ServiceEnds
    <2>1. service \in {"running", "cancelling"}
          /\ UNCHANGED <<caller, job, teardown, futures, awaited>>
      BY <1>6 DEF ServiceFails, ServiceEnds, jobVars
    <2> QED
      BY <2>1 DEF TeardownInv
  <1>7. CASE (\E i \in Commands : ChildStep(i) \/ ProcessStep(i)) \/ UNCHANGED vars
    <2>1. UNCHANGED <<caller, job, service, teardown, futures, awaited>>
      BY <1>7 DEF ChildStep, ProcessStep, vars, jobVars
    <2> QED
      BY <2>1 DEF TeardownInv
  <1> QED
    BY <1>1, <1>2, <1>3, <1>4, <1>5, <1>6, <1>7 DEF Next

\* utils.py, cancel_futures: a teardown that returns has hidden no failure, and one
\* that raises does so for the first future that failed.
THEOREM TeardownReveals == Spec => []TeardownRevealsFailures
PROOF
  <1>1. TeardownInv => TeardownRevealsFailures
    <2> SUFFICES ASSUME TeardownInv PROVE TeardownRevealsFailures
      OBVIOUS
    <2>1. ASSUME NEW k \in 1 .. Len(futures), k < awaited
          PROVE  State(futures[k]) \in {"done", "cancelled"}
      <3>1. CASE k = 1
        BY <2>1, <3>1, FuturesAre DEF TeardownInv
      <3>2. CASE k = 2
        BY <2>1, <3>2, FuturesAre DEF TeardownInv
      <3> QED
        BY <2>1, <3>1, <3>2, FuturesAre
    <2>2. CASE teardown = "returned"
      <3>1. \A k \in 1 .. Len(futures) : k < awaited
        BY <2>2, FuturesAre DEF TeardownInv
      <3> QED
        BY <2>1, <2>2, <3>1, FuturesAre DEF TeardownRevealsFailures
    <2>3. CASE teardown = "raised"
      <3>1. awaited \in 1 .. Len(futures) /\ Len(futures) \in 0 .. 2
        BY <2>3, FuturesAre DEF TeardownInv
      <3>2. State(futures[awaited]) = "failed"
        BY <2>3, <3>1, FuturesAre DEF TeardownInv
      <3>3. \A k \in 1 .. awaited - 1 : k \in 1 .. Len(futures) /\ k < awaited
        BY <3>1
      <3> QED
        BY <2>1, <2>3, <3>2, <3>3 DEF TeardownRevealsFailures
    <2> QED
      BY <2>2, <2>3 DEF TeardownRevealsFailures
  <1> QED
    BY InitTeardownInv, NextTeardownInv, <1>1, PTL DEF Spec

-----------------------------------------------------------------------------
(* Results.                                                                *)

Expected == IF breaks_after = 0 THEN N ELSE breaks_after

\* What the consumer took are the first commands, which have succeeded; how many
\* they are is where the generator stands.
ResultsInv ==
  /\ breaks_after \in 0 .. N
  /\ results \in Seq(Int \X Int)
  /\ \A k \in 1 .. Len(results) : /\ results[k] = <<k - 1, k>>
                                  /\ k \in Commands /\ child[k] = "done"
  /\ job \in {"unsubmitted", "scheduled"} => Len(results) = 0
  /\ job = "gathering" => Len(results) + chunk_size + 1 = next /\ chunk # {}
  /\ job = "yielding" => /\ next <= Len(results) + chunk_size + 1 /\ Len(results) < next
                         /\ chunk # {}
  /\ job \in {"unsubmitted", "scheduled", "gathering", "yielding"} /\ breaks_after > 0 =>
       Len(results) < breaks_after
  /\ job = "done" => Len(results) = Expected
  /\ caller = "returned" => job = "done"

\* A shell of which a part failed has exited with 1, so one that is done has not.
ShellInv ==
  /\ proc \in [Commands -> [left : Int, failed : BOOLEAN, returncode : {-1, 0, 1}]]
  /\ \A i \in Commands : /\ proc[i].returncode # 1 => ~ proc[i].failed
                         /\ child[i] = "done" => proc[i].returncode = 0

\* A chunk is an interval, which the consumer has taken up to its last result.
LEMMA TakenOfChunk ==
  ASSUME ChunkInv, ResultsInv, job = "yielding",
         NEW last, last = (IF N < next THEN N ELSE next - 1)
  PROVE  /\ next \in Nat /\ last \in Nat /\ next <= N + chunk_size
         /\ FirstOf(chunk) + Taken = Len(results) + 1
         /\ Len(results) <= last
         /\ Taken < Cardinality(chunk) => Len(results) + 1 \in chunk
         /\ Taken = Cardinality(chunk) => Len(results) = last
PROOF
  <1> USE ChunksAssumption
  <1> DEFINE first == next - chunk_size
             len == Len(results)
  <1>1. PICK k \in Nat : next = k * chunk_size + 1
    BY DEF ChunkInv
  <1>2. next \in Nat /\ last \in Nat /\ len \in Nat
    BY <1>1 DEF ResultsInv
  <1>3. PICK i \in Commands : i < next /\ next <= i + chunk_size
    BY DEF ChunkInv, ResultsInv
  <1>4. first \in Nat \ {0}
    <2>1. k # 0
      BY <1>1, <1>3 DEF Commands
    <2>2. k * chunk_size >= chunk_size
      BY <2>1
    <2>3. k * chunk_size \in Nat
      OBVIOUS
    <2> QED
      BY <1>1, <2>2, <2>3
  <1>5. first <= last
    BY <1>2, <1>3, <1>4 DEF Commands
  <1>6. chunk = first .. last
    BY <1>2, <1>4 DEF ChunkInv, Commands
  <1>7. len <= last
    <2>1. len <= N
      <3>1. len = 0 \/ len \in 1 .. len
        BY <1>2
      <3> QED
        BY <1>2, <3>1 DEF ResultsInv, Commands
    <2> QED
      BY <1>2, <2>1 DEF ResultsInv
  <1>8. first <= len + 1
    BY <1>2 DEF ResultsInv
  <1>9. {j \in 1 .. len : results[j][2] \in chunk} = first .. len
    <2>1. \A j \in 1 .. len : results[j][2] = j
      BY DEF ResultsInv
    <2> HIDE DEF len
    <2> QED
      BY <1>2, <1>4, <1>6, <1>7, <2>1
  <1>10. Taken = len - first + 1
    <2>1. Taken = Cardinality(first .. len)
      BY <1>9 DEF Taken
    <2> HIDE DEF first, len
    <2>2. Cardinality(first .. len) = (IF first > len THEN 0 ELSE len - first + 1)
      BY <1>2, <1>4, FS_Interval
    <2> QED
      BY <1>2, <1>4, <1>8, <2>1, <2>2
  <1>11. Cardinality(chunk) = last - first + 1
    <2> HIDE DEF first
    <2>1. first \in Int /\ last \in Int
      BY <1>2, <1>4
    <2>2. Cardinality(first .. last) = (IF first > last THEN 0 ELSE last - first + 1)
      BY ONLY <2>1, FS_Interval
    <2> QED
      BY <1>2, <1>4, <1>5, <1>6, <2>2
  <1>12. FirstOf(chunk) = first
    <2>1. first \in chunk /\ \A j \in chunk : first <= j
      BY <1>2, <1>4, <1>5, <1>6
    <2>2. \A j \in chunk : j \in Int
      BY <1>6
    <2> HIDE DEF first
    <2> QED
      BY <2>1, <2>2 DEF FirstOf
  <1> HIDE DEF first, len
  <1>13. /\ FirstOf(chunk) + Taken = len + 1
         /\ Taken < Cardinality(chunk) => len + 1 \in chunk
         /\ Taken = Cardinality(chunk) => len = last
    BY <1>2, <1>4, <1>6, <1>8, <1>10, <1>11, <1>12
  <1>14. next <= N + chunk_size
    BY <1>2, <1>3 DEF Commands
  <1> QED
    BY <1>2, <1>7, <1>13, <1>14 DEF len

-----------------------------------------------------------------------------
(* Steps that keep ResultsInv and ShellInv.                                *)

\* At first nothing is taken and nothing has run.
LEMMA InitResultsInv == Init => ResultsInv /\ ShellInv
PROOF
  <1> SUFFICES ASSUME Init PROVE ResultsInv /\ ShellInv
    OBVIOUS
  <1>1. results = <<>> /\ job = "unsubmitted" /\ breaks_after \in 0 .. N /\ caller = "idle"
    BY DEF Init
  <1>2. ResultsInv
    BY <1>1, ChunksAssumption DEF ResultsInv
  <1>3. ShellInv
    BY DEF Init, ShellInv, NotStarted
  <1> QED
    BY <1>2, <1>3

\* The next chunk is taken after the last result of the one before; there is none
\* when all commands have one.
LEMMA NextChunkResults ==
  ASSUME ChunkInv, ResultsInv, GatherNextChunk, UNCHANGED <<caller, breaks_after>>,
         \/ job = "scheduled"
         \/ job = "yielding" /\ Taken = Cardinality(chunk)
  PROVE  ResultsInv'
PROOF
  <1> USE ChunksAssumption
  <1> DEFINE block == {i \in Commands : i >= next /\ i < next + chunk_size}
             len == Len(results)
  <1>1. /\ chunk' = block /\ next' = next + chunk_size /\ UNCHANGED results
        /\ job' = (IF block = {} THEN "done" ELSE "gathering")
        /\ child' = [i \in Commands |-> IF i \in block THEN "scheduled" ELSE child[i]]
    BY DEF GatherNextChunk, iter_blockify
  <1>2. /\ next \in Nat \ {0} /\ len \in Nat
        /\ len = (IF N < next THEN N ELSE next - 1)
        /\ next <= N + chunk_size \/ next = 1
    <2>1. CASE job = "scheduled"
      <3>1. next = 1 /\ len = 0
        BY <2>1 DEF ChunkInv, ResultsInv
      <3> QED
        BY <3>1
    <2>2. CASE job = "yielding" /\ Taken = Cardinality(chunk)
      <3>1. next \in Nat \ {0}
        BY DEF ChunkInv
      <3>2. PICK last : last = (IF N < next THEN N ELSE next - 1)
        OBVIOUS
      <3>3. len = last /\ last \in Nat /\ next <= N + chunk_size
        BY <2>2, <3>2, TakenOfChunk
      <3> QED
        BY <3>1, <3>2, <3>3
    <2> QED
      BY <2>1, <2>2
  <1>3. len <= N /\ (block # {} => len = next - 1) /\ (block = {} => len = N)
    <2>1. ASSUME block # {} PROVE next <= N
      BY <1>2, <2>1 DEF Commands
    <2>2. ASSUME block = {} PROVE N < next
      <3> SUFFICES ASSUME next <= N PROVE FALSE
        BY <1>2
      <3>1. next \in block
        BY <1>2 DEF Commands
      <3> QED
        BY <2>2, <3>1
    <2> HIDE DEF len, block
    <2> QED
      BY <1>2, <2>1, <2>2
  <1>4. breaks_after > 0 => len < breaks_after
    BY DEF ResultsInv
  <1>5. ASSUME NEW k \in 1 .. len PROVE child'[k] = "done"
    <2>1. k < next /\ k \in Commands /\ child[k] = "done"
      BY <1>2, <1>5 DEF ResultsInv
    <2>2. k \notin block
      BY <1>2, <2>1 DEF Commands
    <2> HIDE DEF block
    <2> QED
      BY <1>1, <2>1, <2>2
  <1>6. job' = "done" => len = Expected'
    <2> HIDE DEF block, len
    <2> QED
      BY <1>1, <1>3, <1>4 DEF ResultsInv, Expected
  <1>7. job' = "gathering" => len + chunk_size + 1 = next' /\ chunk' # {}
    <2> HIDE DEF block, len
    <2> QED
      BY <1>1, <1>2, <1>3
  <1>8. caller' # "returned" /\ job' \in {"gathering", "done"}
    BY <1>1 DEF ResultsInv
  <1> HIDE DEF block
  <1> QED
    BY <1>1, <1>4, <1>5, <1>6, <1>7, <1>8 DEF ResultsInv, Commands

\* One more result: the next command of the chunk, which has succeeded.
LEMMA TakeElementResults ==
  ASSUME ChunkInv, ResultsInv, TakeElement, UNCHANGED <<caller, breaks_after>>,
         job = "yielding", Taken < Cardinality(chunk)
  PROVE  ResultsInv'
PROOF
  <1> USE ChunksAssumption
  <1> DEFINE len == Len(results)
             i == FirstOf(chunk) + Taken
  <1>1. PICK last : last = (IF N < next THEN N ELSE next - 1)
    OBVIOUS
  <1>2. i = len + 1 /\ len + 1 \in chunk /\ len \in Nat /\ next \in Nat
    BY <1>1, TakenOfChunk DEF ResultsInv
  <1>3. /\ results' = Append(results, <<len, i>>)
        /\ job' = (IF Len(results') = breaks_after THEN "done" ELSE "yielding")
        /\ UNCHANGED <<next, chunk, child>>
    BY DEF TakeElement
  <1> HIDE DEF i
  <1>4. <<len, i>> = <<len + 1 - 1, len + 1>> /\ <<len, i>> \in Int \X Int
    BY <1>2
  <1>5. /\ results' \in Seq(Int \X Int) /\ Len(results') = len + 1
        /\ results'[len + 1] = <<len + 1 - 1, len + 1>>
        /\ \A k \in 1 .. len : results'[k] = results[k]
    BY <1>3, <1>4 DEF ResultsInv
  <1> HIDE DEF len
  <1>6. len + 1 < next /\ len + 1 \in Commands /\ child[len + 1] = "done"
    BY <1>2 DEF ChunkInv, GatherSucceeds, Commands
  <1>7. \A k \in 1 .. len + 1 : k \in 1 .. len \/ k = len + 1
    BY <1>2
  <1>8. \A k \in 1 .. len + 1 : /\ results'[k] = <<k - 1, k>>
                                /\ k \in Commands /\ child'[k] = "done"
    BY <1>3, <1>5, <1>6, <1>7 DEF ResultsInv, len
  <1>9. breaks_after \in 0 .. N /\ (breaks_after > 0 => len < breaks_after)
    BY DEF ResultsInv, len
  <1>10. job' = "done" => len + 1 = Expected'
    BY <1>2, <1>3, <1>5, <1>9 DEF Expected
  <1>11. job' = "yielding" => /\ next' <= len + 1 + chunk_size + 1 /\ len + 1 < next' /\ chunk' # {}
                              /\ breaks_after > 0 => len + 1 < breaks_after
    <2>1. next <= len + chunk_size + 1 /\ chunk # {}
      BY DEF ResultsInv, len
    <2> QED
      BY <1>2, <1>3, <1>5, <1>6, <1>9, <2>1
  <1>12. caller' # "returned" /\ job' \in {"yielding", "done"}
    BY <1>3 DEF ResultsInv
  <1> QED
    BY <1>5, <1>8, <1>9, <1>10, <1>11, <1>12 DEF ResultsInv

\* The task that gathers numbers the commands in their order.
LEMMA JobStepResults == ASSUME ChunkInv, ResultsInv, JobStep PROVE ResultsInv'
PROOF
  <1>1. UNCHANGED <<caller, breaks_after>>
    BY DEF JobStep
  <1>2. CASE job = "scheduled" /\ GatherNextChunk
    BY <1>1, <1>2, NextChunkResults
  <1>3. CASE job = "yielding" /\ Taken = Cardinality(chunk) /\ GatherNextChunk
    BY <1>1, <1>3, NextChunkResults
  <1>4. CASE job = "yielding" /\ Taken < Cardinality(chunk) /\ TakeElement
    BY <1>1, <1>4, TakeElementResults
  <1>5. CASE job \in {"gathering", "cancelling"} /\ GatherIsDone(chunk) /\ GatherEnds
    <2>1. job' \notin {"cancelled", "failed"} => job' = "yielding" /\ job = "gathering"
      BY <1>5 DEF GatherEnds
    <2>2. UNCHANGED <<next, chunk, results, child>>
      BY <1>5 DEF GatherEnds
    <2>3. next \in Nat /\ chunk_size \in Nat \ {0} /\ Len(results) \in Nat
      BY ChunksAssumption DEF ChunkInv, ResultsInv
    <2>4. job = "gathering" => next <= Len(results) + chunk_size + 1 /\ Len(results) < next
      BY <2>3 DEF ResultsInv
    <2> QED
      BY <1>1, <1>5, <2>1, <2>2, <2>4 DEF ResultsInv, Expected
  <1> QED
    BY <1>2, <1>3, <1>4, <1>5 DEF JobStep

\* Every other step takes no result and takes back no success.
LEMMA NextResultsInv == ChunkInv /\ ResultsInv /\ [Next]_vars => ResultsInv'
PROOF
  <1> SUFFICES ASSUME ChunkInv, ResultsInv, [Next]_vars PROVE ResultsInv'
    OBVIOUS
  <1>1. CASE execute_coroutine_threadsafe
    <2>1. job = "unsubmitted" /\ job' \in {"unsubmitted", "scheduled"} /\ caller' # "returned"
      BY <1>1 DEF execute_coroutine_threadsafe, ChunkInv
    <2>2. UNCHANGED <<breaks_after, next, chunk, results, child>>
      BY <1>1 DEF execute_coroutine_threadsafe
    <2> QED
      BY <2>1, <2>2 DEF ResultsInv, Expected
  <1>2. CASE CallerResult
    <2>1. UNCHANGED <<breaks_after, job, next, chunk, results, child>>
          /\ (caller' = "returned" => job = "done")
      BY <1>2 DEF CallerResult, jobVars
    <2> QED
      BY <2>1 DEF ResultsInv, Expected
  <1>3. CASE JobStep
    BY <1>3, JobStepResults
  <1>4. ASSUME NEW i \in Commands, ChildStep(i) PROVE ResultsInv'
    <2>1. /\ child[i] \in {"scheduled", "running", "cancelling"}
          /\ \E state : child' = [child EXCEPT ![i] = state]
      BY <1>4 DEF ChildStep
    <2>2. UNCHANGED <<caller, breaks_after, job, next, chunk, results>>
      BY <1>4 DEF ChildStep, jobVars
    <2>3. \A c \in Commands : child[c] = "done" => child'[c] = "done"
      BY <2>1 DEF ChunkInv
    <2> QED
      BY <2>2, <2>3 DEF ResultsInv, Expected
  <1>5. CASE StartTeardown
    <2>1. UNCHANGED <<caller, breaks_after, next, chunk, results>>
          /\ (job' # job => job' = "cancelling" /\ job \notin Settled)
      BY <1>5 DEF StartTeardown
    <2>2. \A c \in Commands : child[c] = "done" => child'[c] = "done"
      BY <1>5 DEF StartTeardown, Live
    <2> QED
      BY <2>1, <2>2 DEF ResultsInv, Expected, Settled
  <1>6. CASE \/ \E i \in Commands : ProcessStep(i)
             \/ AwaitFuture \/ ServiceFails \/ ServiceEnds \/ UNCHANGED vars
    <2>1. UNCHANGED <<caller, breaks_after, job, next, chunk, results, child>>
      BY <1>6 DEF ProcessStep, AwaitFuture, ServiceFails, ServiceEnds, vars, jobVars
    <2> QED
      BY <2>1 DEF ResultsInv, Expected
  <1> QED
    BY <1>1, <1>2, <1>3, <1>4, <1>5, <1>6 DEF Next

\* A process that has exited stays so, and a command is done when its shell exits with 0.
LEMMA NextShellInv == ChunkInv /\ ShellInv /\ [Next]_vars => ShellInv'
PROOF
  <1> SUFFICES ASSUME ChunkInv, ShellInv, [Next]_vars PROVE ShellInv'
    OBVIOUS
  <1>1. CASE JobStep
    <2>1. UNCHANGED proc
      BY <1>1 DEF JobStep
    <2>2. \A c \in Commands : child'[c] = "done" => child[c] = "done"
      BY <1>1 DEF JobStep, GatherNextChunk, iter_blockify, GatherEnds, TakeElement
    <2> QED
      BY <2>1, <2>2 DEF ShellInv
  <1>2. ASSUME NEW i \in Commands, ChildStep(i) PROVE ShellInv'
    <2>1. CASE child[i] = "scheduled" /\ child' = [child EXCEPT ![i] = "running"]
               /\ proc' = [proc EXCEPT ![i] = Started]
      <3>1. \A c \in Commands \ {i} : proc'[c] = proc[c] /\ child'[c] = child[c]
        BY <2>1 DEF ChunkInv, ShellInv
      <3>2. child'[i] = "running" /\ proc'[i] = Started
        BY <2>1 DEF ChunkInv, ShellInv
      <3>3. /\ Started \in [left : Int, failed : BOOLEAN, returncode : {-1, 0, 1}]
            /\ Started.returncode = -1 /\ ~ Started.failed
        <4>1. NotStarted \in [left : Int, failed : BOOLEAN, returncode : {-1, 0, 1}]
          BY DEF NotStarted
        <4>2. NotStarted.returncode = -1 /\ ~ NotStarted.failed
          BY DEF NotStarted
        <4> QED
          BY <4>1, <4>2, ChunksAssumption DEF Started
      <3>4. proc' \in [Commands -> [left : Int, failed : BOOLEAN, returncode : {-1, 0, 1}]]
        BY <2>1, <3>3 DEF ShellInv
      <3> QED
        BY <3>1, <3>2, <3>3, <3>4 DEF ShellInv
    <2>2. CASE /\ UNCHANGED proc
               /\ \E state \in Settled : /\ child' = [child EXCEPT ![i] = state]
                                         /\ state = "done" => proc[i].returncode = 0
      <3>1. PICK state \in Settled : /\ child' = [child EXCEPT ![i] = state]
                                     /\ state = "done" => proc[i].returncode = 0
        BY <2>2, Zenon
      <3>2. \A c \in Commands \ {i} : child'[c] = child[c]
        BY <3>1 DEF ChunkInv
      <3>3. child'[i] = "done" => proc[i].returncode = 0
        BY <3>1 DEF ChunkInv
      <3> QED
        BY <2>2, <3>2, <3>3 DEF ShellInv
    <2>3. \/ /\ child[i] = "scheduled" /\ child' = [child EXCEPT ![i] = "running"]
             /\ proc' = [proc EXCEPT ![i] = Started]
          \/ /\ UNCHANGED proc
             /\ \E state \in Settled : /\ child' = [child EXCEPT ![i] = state]
                                       /\ state = "done" => proc[i].returncode = 0
      BY <1>2 DEF ChildStep, Settled
    <2> QED
      BY <2>1, <2>2, <2>3
  <1>3. ASSUME NEW i \in Commands, ProcessStep(i) PROVE ShellInv'
    <2>1. PICK ok \in BOOLEAN : proc' = [proc EXCEPT ![i] = ShellStep(@, ok)]
      BY <1>3 DEF ProcessStep
    <2> DEFINE next_state == ShellStep(proc[i], ok)
    <2>2. UNCHANGED child /\ ~ Exited(proc[i])
      BY <1>3 DEF ProcessStep
    <2>3. proc[i].returncode = -1 /\ ~ proc[i].failed /\ child[i] # "done"
      BY <2>2 DEF Exited, ShellInv
    <2>4. /\ next_state \in [left : Int, failed : BOOLEAN, returncode : {-1, 0, 1}]
          /\ next_state.returncode # 1 => ~ next_state.failed
      BY <2>3 DEF ShellStep, ShellInv
    <2> HIDE DEF next_state
    <2>5. proc' = [proc EXCEPT ![i] = next_state]
      BY <2>1 DEF next_state
    <2> QED
      BY <2>2, <2>3, <2>4, <2>5 DEF ShellInv
  <1>4. CASE StartTeardown
    <2>1. UNCHANGED proc
      BY <1>4 DEF StartTeardown
    <2>2. \A c \in Commands : child'[c] = "done" => child[c] = "done"
      BY <1>4 DEF StartTeardown
    <2> QED
      BY <2>1, <2>2 DEF ShellInv
  <1>5. CASE \/ execute_coroutine_threadsafe \/ CallerResult
             \/ AwaitFuture \/ ServiceFails \/ ServiceEnds \/ UNCHANGED vars
    <2>1. UNCHANGED <<child, proc>>
      BY <1>5 DEF execute_coroutine_threadsafe, CallerResult, AwaitFuture, ServiceFails,
                  ServiceEnds, vars
    <2> QED
      BY <2>1 DEF ShellInv
  <1> QED
    BY <1>1, <1>2, <1>3, <1>4, <1>5 DEF Next

\* utils.py, gather_in_chunks and aenumerate; async_subprocess.py: whichever command
\* ends first, the consumer gets them in order, each once, none of which a part
\* failed, and all of them when the call returns.
THEOREM ResultsComeInOrder == Spec => []GatheredInOrder
PROOF
  <1>1. ResultsInv /\ ShellInv => GatheredInOrder
    BY DEF ResultsInv, ShellInv, GatheredInOrder, Expected
  <1> QED
    BY InitChunkInv, NextChunkInv, InitResultsInv, NextResultsInv, NextShellInv, <1>1, PTL DEF Spec
=============================================================================
