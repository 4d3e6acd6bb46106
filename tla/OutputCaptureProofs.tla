------------------------- MODULE OutputCaptureProofs -------------------------
(***************************************************************************)
(* Theorems about OutputCapture, for every limit, chunk size and amount of *)
(* output.                                                                 *)
(***************************************************************************)
EXTENDS OutputCapture, TLAPS

-----------------------------------------------------------------------------
(* The inductive invariant.                                                *)

\* What a thread has read and not counted, and counted and not written.
InHand(s) == IF thread[s] = "account" THEN chunk[s] ELSE 0
Due(s) == IF thread[s] = "write" THEN accepted[s] ELSE 0

\* What a thread has read is on its way to the log, and all of it will arrive
\* unless the limit was exceeded or the log closed.
CopyInv ==
    \A s \in Streams :
        /\ taken[s] <= written[s]
        /\ thread[s] = "account" => chunk[s] >= 1
        /\ count[s] + InHand(s) <= taken[s]
        /\ ~full => count[s] + InHand(s) = taken[s]
        /\ size[s] <= count[s]
        /\ thread[s] # "died" => size[s] + Due(s) = count[s]
        /\ thread[s] = "done" => full \/ (~Held /\ taken[s] = written[s])

BudgetInv ==
    /\ Total(count) <= Limit
    /\ full => Total(count) = Limit /\ Total(taken) > Limit

Closed == {"verdict", "parse", "concluded"}
Joined == {"snapshot", "close"} \union Closed
GroupGone == {"joinOut", "joinErr"} \union Joined

\* What the main thread has made sure of by where it is.
MainInv ==
    /\ main \in {"wait"} \union GroupGone => worker # "runs"
    /\ main \in GroupGone => ~kin
    /\ open = (main \notin Closed)
    /\ \A s \in Streams : thread[s] = "died" => ~open
    /\ outcome # "none" => main = "concluded"
    /\ outcome = "COMPLETED" => reason = "none"
    /\ reason = "OUTPUT_LIMIT" => full
    /\ outcome = "OUTPUT_LIMIT" => reason = "OUTPUT_LIMIT"
    /\ main = "concluded" => text = size["stdout"]

\* What it can make sure of only if nobody left the group with the pipes.
QuietInv ==
    helper = "none" =>
        /\ main \in {"joinErr"} \union Joined => thread["stdout"] = "done"
        /\ main \in Joined => thread["stderr"] = "done"
        /\ main \in {"close"} \union Closed => shown = count
        /\ main \in {"parse", "concluded"} /\ reason = "none" => ~full

IInv == TypeOK /\ CopyInv /\ BudgetInv /\ MainInv /\ QuietInv

-----------------------------------------------------------------------------
(* Lemmas.                                                                 *)

USE LimitAssumption, ChunkAssumption, BoundAssumption

\* The two streams.
LEMMA TwoStreams ==
    /\ "stdout" \in Streams /\ "stderr" \in Streams
    /\ \A s \in Streams : s = "stdout" \/ s = "stderr"
BY DEF Streams

\* Two counts of the streams are equal if they agree on both.
LEMMA SameCounts ==
    ASSUME NEW f \in [Streams -> Nat], NEW g \in [Streams -> Nat],
           \A s \in Streams : f[s] = g[s]
    PROVE  f = g
<1>1. f = [s \in Streams |-> f[s]] /\ g = [s \in Streams |-> g[s]]
    OBVIOUS
<1> QED BY <1>1

USE TwoStreams DEF Total, Waiting, Held, InGroup, AtMost, Reasons

\* The program starts in the invariant.
LEMMA IInvInit == Init => IInv
<1> SUFFICES ASSUME Init PROVE IInv
    OBVIOUS
<1>1. TypeOK
    BY DEF Init, Zero, TypeOK
<1>2. CopyInv /\ BudgetInv
    BY DEF Init, Zero, CopyInv, BudgetInv, InHand, Due
<1>3. MainInv /\ QuietInv
    BY DEF Init, MainInv, QuietInv, Closed, Joined, GroupGone
<1> QED BY <1>1, <1>2, <1>3 DEF IInv

\* A step of a process that holds the pipes keeps the invariant.
LEMMA WorldKeeps == IInv /\ WorldStep => IInv'
<1> SUFFICES ASSUME IInv, WorldStep PROVE IInv'
    OBVIOUS
<1> USE DEF IInv, processes, copying, watching
<1>1. ASSUME NEW s \in Streams, Write(s) PROVE IInv'
  <2> USE <1>1 DEF Write
  <2>1. TypeOK'
      BY DEF TypeOK
  <2>2. CopyInv'
      BY DEF TypeOK, CopyInv, InHand, Due, Held, InGroup
  <2>3. BudgetInv' /\ MainInv' /\ QuietInv'
      BY DEF BudgetInv, MainInv, QuietInv, Total
  <2> QED BY <2>1, <2>2, <2>3
<1>2. ASSUME Fork \/ WorkerExit \/ OthersExit PROVE IInv'
  <2> USE <1>2 DEF Fork, WorkerExit, OthersExit, InGroup
  <2>1. TypeOK'
    <3>1. UNCHANGED <<written, taken, chunk, accepted, count, full, thread, size,
                      open, main, reason, shown, text, outcome>>
        OBVIOUS
    <3>2. worker' \in {"success", "failure"} \/ worker' = worker
        OBVIOUS
    <3>3. kin' \in BOOLEAN
        BY DEF TypeOK
    <3>4. helper' \in {"lives", "gone"} \/ helper' = helper
        OBVIOUS
    <3> QED BY <3>1, <3>2, <3>3, <3>4 DEF TypeOK
  <2>2. CopyInv'
      BY DEF CopyInv, InHand, Due, Held
  <2>3. BudgetInv'
      BY DEF BudgetInv, Total
  <2>4. MainInv' /\ QuietInv'
      BY DEF MainInv, QuietInv, GroupGone, Joined, TypeOK
  <2> QED BY <2>1, <2>2, <2>3, <2>4
<1> QED BY <1>1, <1>2 DEF WorldStep

\* So does a step of a copying thread.
LEMMA CopyKeeps == ASSUME NEW s \in Streams PROVE IInv /\ CopyStep(s) => IInv'
<1> SUFFICES ASSUME IInv, CopyStep(s) PROVE IInv'
    OBVIOUS
<1> USE DEF IInv, processes, watching
<1>1. Alive(s) /\ UNCHANGED <<processes, written, watching>>
    BY DEF CopyStep
<1>2. main # "concluded" /\ (helper = "none" =>
          main \notin Joined /\ (s = "stdout" => main # "joinErr"))
    BY <1>1 DEF Alive, QuietInv
<1>3. MainInv' /\ QuietInv' /\ TypeOK' /\ CopyInv' /\ BudgetInv'
  <2>1. CASE Read(s)
    <3>1. TypeOK' /\ chunk'[s] >= 1 /\ chunk'[s] <= Waiting(s)
        BY <1>1, <2>1 DEF Read, TypeOK, AtMost, Waiting, CopyInv
    <3>2. CopyInv' /\ BudgetInv'
        BY <1>1, <2>1, <3>1
        DEF Read, TypeOK, CopyInv, BudgetInv, InHand, Due, Waiting, Held, InGroup, Total
    <3>3. MainInv' /\ QuietInv'
        BY <1>1, <1>2, <2>1 DEF Read, TypeOK, MainInv, QuietInv, Joined
    <3> QED BY <3>1, <3>2, <3>3
  <2>2. CASE EndOfFile(s)
    <3>1. TypeOK' /\ BudgetInv'
        BY <1>1, <2>2 DEF EndOfFile, TypeOK, BudgetInv, Total
    <3>2. CopyInv'
        BY <1>1, <2>2 DEF EndOfFile, TypeOK, CopyInv, InHand, Due, Waiting, Held, InGroup
    <3>3. MainInv' /\ QuietInv'
        BY <1>1, <1>2, <2>2 DEF EndOfFile, TypeOK, MainInv, QuietInv, Joined
    <3> QED BY <3>1, <3>2, <3>3
  <2>3. CASE Account(s)
    <3> DEFINE accept == AtMost(chunk[s], Limit - Total(count))
    <3>1. /\ accept \in Nat /\ accept <= chunk[s] /\ accept <= Limit - Total(count)
          /\ accept < chunk[s] => accept = Limit - Total(count)
        BY DEF AtMost, TypeOK, BudgetInv, Total
    <3>2. /\ accepted' = [accepted EXCEPT ![s] = accept]
          /\ count' = [count EXCEPT ![s] = @ + accept]
          /\ thread' = [thread EXCEPT ![s] = "write"]
          /\ thread[s] = "account"
          /\ UNCHANGED <<taken, chunk, size>>
        BY <2>3 DEF Account, Keep
    <3>3. full' = (full \/ accept < chunk[s] \/ Limit = Total(count))
        BY <2>3, <3>2 DEF Account, TypeOK
    <3>4. /\ Total(count') = Total(count) + accept
          /\ count[s] + chunk[s] <= taken[s] /\ chunk[s] >= 1
          /\ \A r \in Streams : count[r] <= taken[r]
        <4>1. count' \in [Streams -> Nat] /\ count \in [Streams -> Nat]
            BY <3>1, <3>2 DEF TypeOK
        <4>2. Total(count') = Total(count) + accept
            BY <3>1, <3>2, <4>1 DEF Total
        <4>3. count[s] + chunk[s] <= taken[s] /\ chunk[s] >= 1
            BY <3>2 DEF CopyInv, InHand
        <4>4. \A r \in Streams : count[r] <= taken[r]
            BY DEF CopyInv, InHand, TypeOK
        <4> QED BY <4>2, <4>3, <4>4
    <3>5. TypeOK'
        BY <1>1, <3>1, <3>2, <3>3 DEF TypeOK
    <3>6. BudgetInv'
        BY <3>1, <3>2, <3>3, <3>4 DEF BudgetInv, TypeOK, Total
    <3>7. CopyInv'
        <4> HIDE DEF accept
        <4>1. full => full'
            BY <3>3
        <4>2. ~full' => ~full /\ accept = chunk[s]
          <5>1. ~full' => ~full /\ ~(accept < chunk[s])
              BY <3>3
          <5> QED BY <5>1, <3>1 DEF TypeOK
        <4> SUFFICES ASSUME NEW r \in Streams
                     PROVE (/\ taken[r] <= written[r]
                            /\ thread[r] = "account" => chunk[r] >= 1
                            /\ count[r] + InHand(r) <= taken[r]
                            /\ ~full => count[r] + InHand(r) = taken[r]
                            /\ size[r] <= count[r]
                            /\ thread[r] # "died" => size[r] + Due(r) = count[r]
                            /\ thread[r] = "done" => full \/ (~Held /\ taken[r] = written[r]))'
            BY DEF CopyInv
        <4>3. CASE r = s
            BY <1>1, <3>1, <3>2, <4>1, <4>2, <4>3, <3>4 DEF TypeOK, CopyInv, InHand, Due
        <4>4. CASE r # s
            BY <1>1, <3>2, <4>1, <4>2, <4>4 DEF TypeOK, CopyInv, InHand, Due, Held, InGroup
        <4> QED BY <4>3, <4>4
    <3>8. MainInv' /\ QuietInv'
        BY <1>1, <1>2, <3>2, <3>3 DEF TypeOK, MainInv, QuietInv, Joined, Closed
    <3> QED BY <3>5, <3>6, <3>7, <3>8
  <2>4. CASE Store(s)
    <3>1. TypeOK' /\ BudgetInv'
        BY <1>1, <2>4 DEF Store, TypeOK, BudgetInv, Total
    <3>2. CopyInv'
        BY <1>1, <2>4 DEF Store, TypeOK, CopyInv, InHand, Due, Held, InGroup
    <3>3. MainInv' /\ QuietInv'
        BY <1>1, <1>2, <2>4 DEF Store, TypeOK, MainInv, QuietInv, Joined
    <3> QED BY <3>1, <3>2, <3>3
  <2>5. CASE Check(s)
    <3>1. TypeOK' /\ BudgetInv'
        BY <1>1, <2>5 DEF Check, TypeOK, BudgetInv, Total
    <3>2. CopyInv'
        BY <1>1, <2>5 DEF Check, TypeOK, CopyInv, InHand, Due, Held, InGroup
    <3>3. MainInv' /\ QuietInv'
        BY <1>1, <1>2, <2>5 DEF Check, TypeOK, MainInv, QuietInv, Joined
    <3> QED BY <3>1, <3>2, <3>3
  <2> QED BY <2>1, <2>2, <2>3, <2>4, <2>5 DEF CopyStep
<1> QED BY <1>3

\* So does a step of the main thread.
LEMMA MainKeeps == IInv /\ MainStep => IInv'
<1> SUFFICES ASSUME IInv, MainStep PROVE IInv'
    OBVIOUS
<1> USE DEF IInv, processes, copying, GoOn
<1>1. UNCHANGED <<written, copying>>
    BY DEF MainStep
<1>2. BudgetInv'
    BY <1>1 DEF BudgetInv, Total
<1>3. TypeOK'
  <2> USE <1>1 DEF TypeOK
  <2>1. CASE Poll \/ \E r \in Reasons : Look(r)
      BY <2>1 DEF Poll, Look
  <2>2. CASE Terminate \/ Sweep
    <3>1. worker' \in {"runs", "success", "failure"} /\ kin' \in BOOLEAN
        BY <2>2 DEF Terminate, Sweep
    <3>2. main' \in {"wait", "joinOut"}
        BY <2>2 DEF Terminate, Sweep
    <3>3. UNCHANGED <<helper, open, reason, shown, text, outcome>>
        BY <2>2 DEF Terminate, Sweep
    <3> QED BY <3>1, <3>2, <3>3
  <2>3. CASE Join("stdout", "joinOut", "joinErr") \/ Join("stderr", "joinErr", "snapshot")
      BY <2>3 DEF Join
  <2>4. CASE Snapshot \/ Close
    <3>1. open' \in BOOLEAN
        BY <2>4 DEF Snapshot, Close
    <3> QED BY <2>4, <3>1 DEF Snapshot, Close
  <2>5. CASE Verdict
      BY <2>5 DEF Verdict
  <2>6. CASE Conclude
    <3>1. text' \in Nat
        BY <2>6 DEF Conclude
    <3>2. outcome' \in {reason} \union {"NONZERO_EXIT", "PROTOCOL_ERROR", "COMPLETED"}
        BY <2>6 DEF Conclude
    <3> QED BY <2>6, <3>1, <3>2 DEF Conclude
  <2> QED BY <2>1, <2>2, <2>3, <2>4, <2>5, <2>6 DEF MainStep
<1>4. CopyInv'
    BY <1>1 DEF MainStep, CopyInv, InHand, Due, Held, InGroup, Poll, Look, Terminate,
                Sweep, Join, Snapshot, Close, Verdict, Conclude
<1>5. MainInv' /\ QuietInv'
  <2> USE <1>1 DEF MainInv, QuietInv, Closed, Joined, GroupGone
  <2>1. CASE Poll
      BY <2>1 DEF Poll
  <2>2. CASE \E r \in Reasons : Look(r)
      BY <2>2 DEF Look
  <2>3. CASE Terminate
      BY <2>3 DEF Terminate
  <2>4. CASE Sweep
      BY <2>4 DEF Sweep
  <2>5. CASE Join("stdout", "joinOut", "joinErr")
    <3>1. helper = "none" => thread["stdout"] = "done"
        BY <2>5 DEF Join, Held, InGroup, Alive
    <3> QED BY <2>5, <3>1 DEF Join
  <2>6. CASE Join("stderr", "joinErr", "snapshot")
    <3>1. helper = "none" => thread["stderr"] = "done"
        BY <2>6 DEF Join, Held, InGroup, Alive
    <3> QED BY <2>6, <3>1 DEF Join
  <2>7. CASE Snapshot
      BY <2>7 DEF Snapshot
  <2>8. CASE Close
      BY <2>8 DEF Close
  <2>9. CASE Verdict
      BY <2>9 DEF Verdict
  <2>10. CASE Conclude
      BY <2>10 DEF Conclude, TypeOK
  <2> QED BY <2>1, <2>2, <2>3, <2>4, <2>5, <2>6, <2>7, <2>8, <2>9, <2>10 DEF MainStep
<1> QED BY <1>2, <1>3, <1>4, <1>5

\* IInv is inductive.
LEMMA IInvNext == IInv /\ [Next]_vars => IInv'
<1> SUFFICES ASSUME IInv, [Next]_vars PROVE IInv'
    OBVIOUS
<1>1. CASE UNCHANGED vars
    BY <1>1 DEF vars, processes, copying, watching, IInv, TypeOK, CopyInv, BudgetInv,
                MainInv, QuietInv, InHand, Due, Held, InGroup, Total
<1> QED BY <1>1, WorldKeeps, CopyKeeps, MainKeeps DEF Next

\* IInv holds in every reachable state.
LEMMA Invariance == Spec => []IInv
BY IInvInit, IInvNext, PTL DEF Spec

-----------------------------------------------------------------------------
(* The theorems.                                                           *)

\* Every variable keeps its type; no count becomes negative.
THEOREM TypeCorrect == Spec => []TypeOK
<1>1. IInv => TypeOK
    BY DEF IInv
<1> QED BY <1>1, Invariance, PTL

\* The two threads together never keep more than max_output_bytes.
THEOREM BudgetKept == Spec => []WithinLimit
<1>1. IInv => WithinLimit
    BY DEF IInv, BudgetInv, CopyInv, WithinLimit
<1> QED BY <1>1, Invariance, PTL

\* A run that ended for its output has spent its budget, and has it in its logs.
THEOREM LimitsAreSpent == Spec => []LimitIsSpent
<1>1. IInv => LimitIsSpent
  <2> SUFFICES ASSUME IInv, outcome = "OUTPUT_LIMIT"
               PROVE Total(count) = Limit /\ (helper = "none" => Total(size) = Limit)
      BY DEF LimitIsSpent
  <2>1. main = "concluded" /\ full
      BY DEF IInv, MainInv
  <2>2. Total(count) = Limit
      BY <2>1 DEF IInv, BudgetInv
  <2>3. helper = "none" => \A s \in Streams : thread[s] = "done"
      BY <2>1 DEF IInv, QuietInv, Joined, Closed
  <2>4. helper = "none" => \A s \in Streams : size[s] = count[s]
      BY <2>3 DEF IInv, CopyInv, TypeOK, Due
  <2> QED BY <2>2, <2>4
<1> QED BY <1>1, Invariance, PTL

\* A COMPLETED run of a worker that left nobody outside its group has logs
\* and a text that lack nothing.
THEOREM CompletedIsComplete == Spec => []NothingLost
<1>1. IInv => NothingLost
  <2> SUFFICES ASSUME IInv, outcome = "COMPLETED", helper = "none"
               PROVE size = written /\ text = written["stdout"] /\ ~full
      BY DEF NothingLost
  <2>1. main = "concluded" /\ reason = "none" /\ text = size["stdout"]
      BY DEF IInv, MainInv
  <2>2. ~full /\ \A s \in Streams : thread[s] = "done"
      BY <2>1 DEF IInv, QuietInv, Joined, Closed
  <2>3. \A s \in Streams : size[s] = written[s]
      BY <2>2 DEF IInv, CopyInv, TypeOK, InHand, Due
  <2>4. size = written
      BY <2>3, SameCounts DEF IInv, TypeOK
  <2> QED BY <2>1, <2>2, <2>3, <2>4 
<1> QED BY <1>1, Invariance, PTL

\* The record of an ended run of such a worker gives the sizes of its logs.
THEOREM CountsMatchLogs == Spec => []CountsAreTrue
<1>1. IInv => CountsAreTrue
  <2> SUFFICES ASSUME IInv, main = "concluded", helper = "none" PROVE shown = size
      BY DEF CountsAreTrue
  <2>1. shown = count /\ \A s \in Streams : thread[s] = "done"
      BY DEF IInv, QuietInv, Joined, Closed
  <2>2. \A s \in Streams : size[s] = count[s]
      BY <2>1 DEF IInv, CopyInv, TypeOK, Due
  <2>3. size = count
      BY <2>2, SameCounts DEF IInv, TypeOK
  <2> QED BY <2>1, <2>3
<1> QED BY <1>1, Invariance, PTL
==============================================================================
