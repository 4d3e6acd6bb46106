--------------------------- MODULE StateFileProofs ---------------------------
(***************************************************************************)
(* Proofs about StateFile for any writers, any plan of changes and any     *)
(* record: no reader sees half a record, an update that returns has taken  *)
(* effect, the request is there before the record, and the whole protocol  *)
(* implements the atomic record the other modules take an update to be.    *)
(***************************************************************************)
EXTENDS StateFile, SequenceTheorems, TLAPS

Inside(p) == pc[p] \in {"read", "stage", "fill", "replace", "log", "unlock"}
Writing(p) == pc[p] \in {"stage", "fill", "replace"}

\* While create_run is at work nobody else is, and the record is not there
\* before its rename.
CreatorInv ==
    /\ pc[Creator] \in {"request", "stage", "fill", "replace", "log", "done", "dead"}
    /\ ~CreationOver => \A w \in Writers : pc[w] \in {"begin", "dead"}
    /\ pc[Creator] \in {"request", "stage", "fill", "replace"} => file = Absent /\ events = <<>>
    /\ draft[Creator] = Created /\ moved[Creator] = TRUE
    /\ pc[Creator] = "replace" => temp[Creator] = Created
    /\ pc[Creator] = "log" => file = Created /\ events = <<>>
    /\ Writing(Creator) \/ file # Absent => request = TRUE

\* A writer inside update_state holds the lock, so what it has read is still
\* what is in the file, and what it drafted is the merge with the file as it is.
WriterInv(w) ==
    /\ pc[w] \in {"begin", "read", "stage", "fill", "replace", "log", "unlock", "dead"}
    /\ Inside(w) => lock = w /\ todo[w] # <<>>
    /\ Writing(w) => /\ file # Absent
                     /\ draft[w] = Atomic!Merge(Head(todo[w]), file)
                     /\ moved[w] = (draft[w].state # file.state)
    /\ pc[w] = "replace" => temp[w] = draft[w]
    /\ pc[w] = "log" => file = draft[w]
    /\ pc[w] \in {"log", "unlock"} => file # Absent /\ Atomic!Merge(Head(todo[w]), file) = file

IInv ==
    /\ TypeOK
    /\ file # Torn
    /\ CreatorInv
    /\ \A w \in Writers : WriterInv(w)

-----------------------------------------------------------------------------
LEMMA CreatedIsRecord == Created \in Record
BY RecordAssumption DEF Record, Values

\* dict.update keeps a record a record, and doing it twice changes nothing.
LEMMA MergeRecord ==
    ASSUME NEW c \in Changes, NEW r \in Record
    PROVE  /\ Atomic!Merge(c, r) \in Record
           /\ Atomic!Merge(c, Atomic!Merge(c, r)) = Atomic!Merge(c, r)
BY DEF Record, Values, Atomic!Merge

LEMMA HeadTail ==
    ASSUME NEW w \in Writers, todo \in [Writers -> Seq(Changes)], todo[w] # <<>>
    PROVE  Head(todo[w]) \in Changes /\ Tail(todo[w]) \in Seq(Changes)
OBVIOUS

LEMMA IInvInit == Init => IInv
<1> SUFFICES ASSUME Init PROVE IInv
    OBVIOUS
<1>1. \A w \in Writers : Plan[w] \in Seq(Changes)
  BY PlanAssumption
<1>2. TypeOK
  <2>1. request \in BOOLEAN /\ file \in Record \union {Absent, Torn} /\ lock \in Writers \union {Nobody}
    BY DEF Init
  <2>2. events \in Seq({r.state : r \in Record})
    BY DEF Init
  <2>3. temp \in [Processes -> Record \union {Absent, Torn}] /\ draft \in [Processes -> Record]
    BY CreatedIsRecord DEF Init
  <2>4. moved \in [Processes -> BOOLEAN] /\ pc \in [Processes -> Labels]
    BY DEF Init, Labels
  <2>5. todo \in [Writers -> Seq(Changes)]
    BY <1>1 DEF Init
  <2> QED
    BY <2>1, <2>2, <2>3, <2>4, <2>5 DEF TypeOK
<1>3. file # Torn
  BY RecordAssumption DEF Init
<1>4. CreatorInv
  BY CreatorAssumption DEF Init, CreatorInv, Processes, CreationOver, Writing
<1>5. \A w \in Writers : WriterInv(w)
  BY CreatorAssumption DEF Init, WriterInv, Inside, Writing, Processes
<1> QED
  BY <1>2, <1>3, <1>4, <1>5 DEF IInv

LEMMA IInvNext == IInv /\ [Next]_vars => IInv'
<1> SUFFICES ASSUME IInv, [Next]_vars PROVE IInv'
    OBVIOUS
<1> USE CreatorAssumption, RecordAssumption DEF IInv
<1>1. CASE WriteRequest
  <2>1. TypeOK'
    BY <1>1 DEF WriteRequest, TypeOK, GoTo, Labels
  <2>2. CreatorInv'
    BY <1>1 DEF WriteRequest, TypeOK, GoTo, CreatorInv, CreationOver, Writing, Processes
  <2>3. \A v \in Writers : WriterInv(v)'
    BY <1>1 DEF WriteRequest, TypeOK, GoTo, WriterInv, Inside, Writing, Processes
  <2> QED
    BY <1>1, <2>1, <2>2, <2>3 DEF WriteRequest
<1>2. ASSUME NEW p \in Processes, Stage(p) PROVE IInv'
  <2>1. TypeOK'
    BY <1>2 DEF Stage, TypeOK, GoTo, Labels
  <2>2. CreatorInv'
    BY <1>2 DEF Stage, TypeOK, GoTo, CreatorInv, CreationOver, Writing, Processes
  <2>3. \A v \in Writers : WriterInv(v)'
    BY <1>2 DEF Stage, TypeOK, GoTo, WriterInv, Inside, Writing, Processes
  <2> QED
    BY <1>2, <2>1, <2>2, <2>3 DEF Stage
<1>3. ASSUME NEW p \in Processes, Fill(p) PROVE IInv'
  <2>1. TypeOK'
    BY <1>3 DEF Fill, TypeOK, GoTo, Labels
  <2>2. CreatorInv'
    BY <1>3 DEF Fill, TypeOK, GoTo, CreatorInv, CreationOver, Writing, Processes
  <2>3. \A v \in Writers : WriterInv(v)'
    BY <1>3 DEF Fill, TypeOK, GoTo, WriterInv, Inside, Writing, Processes
  <2> QED
    BY <1>3, <2>1, <2>2, <2>3 DEF Fill
<1>4. ASSUME NEW p \in Processes, Replace(p) PROVE IInv'
  <2>0. temp[p] = draft[p] /\ temp[p] \in Record
    BY <1>4 DEF Replace, TypeOK, CreatorInv, WriterInv, Processes
  <2>1. TypeOK'
    BY <1>4, <2>0 DEF Replace, TypeOK, GoTo, Labels
  <2>2. CreatorInv'
    BY <1>4, <2>0, CreatedIsRecord
       DEF Replace, TypeOK, GoTo, CreatorInv, WriterInv, CreationOver, Writing, Processes
  <2>3. ASSUME NEW v \in Writers PROVE WriterInv(v)'
    <3>1. CASE v = p
      <4>1. file \in Record /\ Head(todo[v]) \in Changes
        BY <1>4, <3>1, HeadTail DEF Replace, TypeOK, WriterInv, Inside, Writing
      <4>2. Atomic!Merge(Head(todo[v]), draft[v]) = draft[v]
        BY <1>4, <3>1, <4>1, MergeRecord DEF Replace, WriterInv, Writing
      <4> QED
        BY <1>4, <2>0, <3>1, <4>1, <4>2
           DEF Replace, TypeOK, GoTo, WriterInv, Inside, Writing, Processes
    <3>2. CASE v # p
      BY <1>4, <2>0, <3>2
         DEF Replace, TypeOK, GoTo, CreatorInv, CreationOver, WriterInv, Inside, Writing, Processes
    <3> QED
      BY <3>1, <3>2
  <2> QED
    BY <1>4, <2>0, <2>1, <2>2, <2>3 DEF Replace
<1>5. CASE CreateLog
  <2>0. <<Created.state>> \in Seq({r.state : r \in Record})
    <3>1. Created.state \in {r.state : r \in Record}
      BY CreatedIsRecord
    <3> QED
      BY <3>1
  <2>1. TypeOK'
    BY <1>5, <2>0 DEF CreateLog, TypeOK, GoTo, Labels
  <2>2. CreatorInv'
    BY <1>5 DEF CreateLog, TypeOK, GoTo, CreatorInv, CreationOver, Writing, Processes
  <2>3. \A v \in Writers : WriterInv(v)'
    BY <1>5 DEF CreateLog, TypeOK, GoTo, WriterInv, Inside, Writing, Processes
  <2> QED
    BY <1>5, <2>1, <2>2, <2>3 DEF CreateLog
<1>6. ASSUME NEW w \in Writers, Acquire(w) PROVE IInv'
  <2>1. TypeOK'
    BY <1>6 DEF Acquire, TypeOK, GoTo, Labels
  <2>2. CreatorInv'
    BY <1>6 DEF Acquire, TypeOK, GoTo, CreatorInv, CreationOver, Writing, Processes
  <2>3. \A v \in Writers : lock = Nobody => ~Inside(v)
    BY DEF WriterInv, Nobody, Processes
  <2>4. \A v \in Writers : WriterInv(v)'
    BY <1>6, <2>3 DEF Acquire, TypeOK, GoTo, WriterInv, Inside, Writing, Processes
  <2> QED
    BY <1>6, <2>1, <2>2, <2>4 DEF Acquire
<1>7. ASSUME NEW w \in Writers, Read(w) PROVE IInv'
  <2>1. file \in Record /\ Head(todo[w]) \in Changes
    BY <1>7, HeadTail DEF Read, TypeOK, WriterInv, Inside
  <2>2. Atomic!Merge(Head(todo[w]), file) \in Record
    BY <2>1, MergeRecord
  <2>3. TypeOK'
    BY <1>7, <2>2 DEF Read, TypeOK, GoTo, Labels
  <2>4. CreatorInv'
    BY <1>7 DEF Read, TypeOK, GoTo, CreatorInv, CreationOver, Writing, Processes
  <2>5. ASSUME NEW v \in Writers PROVE WriterInv(v)'
    <3>1. CASE v = w
      BY <1>7, <2>2, <3>1 DEF Read, TypeOK, GoTo, WriterInv, Inside, Writing, Processes
    <3>2. CASE v # w
      BY <1>7, <3>2 DEF Read, TypeOK, GoTo, WriterInv, Inside, Writing, Processes
    <3> QED
      BY <3>1, <3>2
  <2> QED
    BY <1>7, <2>3, <2>4, <2>5 DEF Read
<1>8. ASSUME NEW w \in Writers, AppendEvent(w) PROVE IInv'
  <2>1. TypeOK'
    BY <1>8 DEF AppendEvent, TypeOK, GoTo, Labels, Processes
  <2>2. CreatorInv'
    BY <1>8 DEF AppendEvent, TypeOK, GoTo, CreatorInv, WriterInv, CreationOver, Writing, Processes
  <2>3. \A v \in Writers : WriterInv(v)'
    BY <1>8 DEF AppendEvent, TypeOK, GoTo, WriterInv, Inside, Writing, Processes
  <2> QED
    BY <1>8, <2>1, <2>2, <2>3 DEF AppendEvent
<1>9. ASSUME NEW w \in Writers, Release(w) PROVE IInv'
  <2>1. todo' \in [Writers -> Seq(Changes)]
    BY <1>9, HeadTail DEF Release, TypeOK, WriterInv, Inside
  <2>2. TypeOK'
    BY <1>9, <2>1 DEF Release, TypeOK, GoTo, Labels
  <2>3. CreatorInv'
    BY <1>9 DEF Release, TypeOK, GoTo, CreatorInv, CreationOver, Writing, Processes
  <2>4. \A v \in Writers : WriterInv(v)'
    BY <1>9 DEF Release, TypeOK, GoTo, WriterInv, Inside, Writing, Processes
  <2> QED
    BY <1>9, <2>2, <2>3, <2>4 DEF Release
<1>10. ASSUME NEW w \in Writers, Raise(w), Inside(w) PROVE IInv'
  <2>0. <<>> \in Seq(Changes)
    OBVIOUS
  <2>1. TypeOK'
    BY <1>10, <2>0 DEF Raise, TypeOK, GoTo, Labels
  <2>2. CreatorInv'
    BY <1>10 DEF Raise, TypeOK, GoTo, CreatorInv, WriterInv, Inside, CreationOver, Writing, Processes
  <2>3. \A v \in Writers : WriterInv(v)'
    BY <1>10 DEF Raise, TypeOK, GoTo, WriterInv, Inside, Writing, Processes
  <2> QED
    BY <1>10, <2>1, <2>2, <2>3 DEF Raise
<1>11. ASSUME NEW p \in Processes, Kill(p) PROVE IInv'
  <2>1. TypeOK'
    BY <1>11 DEF Kill, TypeOK, GoTo, Labels
  <2>2. CreatorInv'
    BY <1>11 DEF Kill, TypeOK, GoTo, CreatorInv, CreationOver, Writing, Processes
  <2>3. \A v \in Writers : WriterInv(v)'
    BY <1>11 DEF Kill, TypeOK, GoTo, WriterInv, Inside, Writing, Processes
  <2> QED
    BY <1>11, <2>1, <2>2, <2>3 DEF Kill
<1>12. CASE UNCHANGED vars
  BY <1>12 DEF vars, TypeOK, CreatorInv, WriterInv, CreationOver, Inside, Writing
<1>13. ASSUME NEW w \in Writers, NotFound(w) \/ Fail(w) PROVE IInv'
  BY <1>10, <1>13 DEF NotFound, Fail, Inside
<1> QED
  BY <1>1, <1>2, <1>3, <1>4, <1>5, <1>6, <1>7, <1>8, <1>9, <1>11, <1>12, <1>13
     DEF Next, Create, Update, WriteFile, Processes

LEMMA Invariance == Spec => []IInv
BY IInvInit, IInvNext, PTL DEF Spec

\* No variable ever leaves its type; no record is ever drafted without a field.
THEOREM TypeCorrect == Spec => []TypeOK
<1>1. IInv => TypeOK
  BY DEF IInv
<1> QED
  BY <1>1, Invariance, PTL

\* A reader that takes no lock (load_state, list_states) never reads half a
\* record, whoever is writing one or was killed while writing it.
THEOREM ReadersSeeWholeRecords == Spec => []WholeRecords
<1>1. IInv => WholeRecords
  BY DEF IInv, WholeRecords
<1> QED
  BY <1>1, Invariance, PTL

\* No update is lost: when update_state is about to return, its change is in
\* the record, however many others were updating it at the same time.
THEOREM NoUpdateLost == Spec => []UpdateTookEffect
<1>1. IInv => UpdateTookEffect
  BY DEF IInv, WriterInv, UpdateTookEffect
<1> QED
  BY <1>1, Invariance, PTL

\* create_run never lets a record be seen whose request is not there.
THEOREM RequestIsThere == Spec => []RequestFirst
<1>1. IInv => RequestFirst
  BY DEF IInv, CreatorInv, RequestFirst
<1> QED
  BY <1>1, Invariance, PTL

-----------------------------------------------------------------------------
(* The refinement.  The entry of an update that has been renamed into      *)
(* place but not yet appended counts as logged.                            *)

Logging == \E p \in Processes : pc[p] = "log"
Log == IF Logging THEN Append(events, file.state) ELSE events
States == {r.state : r \in Record}

\* Only the holder of the lock, or the creator, is about to append.
LEMMA OneLogs ==
    ASSUME IInv, NEW p \in Processes, Inside(p), p = Creator => ~CreationOver
    PROVE  \A q \in Processes : pc[q] = "log" => q = p
BY CreatorAssumption DEF IInv, CreatorInv, WriterInv, Inside, CreationOver, Processes

LEMMA DropLast ==
    ASSUME NEW S, NEW s \in Seq(S), NEW e \in S
    PROVE  /\ Append(s, e) # <<>>
           /\ SubSeq(Append(s, e), 1, Len(Append(s, e)) - 1) = s
<1>1. Append(s, e) \in Seq(S) /\ Len(Append(s, e)) = Len(s) + 1
  BY AppendProperties
<1>2. SubSeq(Append(s, e), 1, Len(s)) \in Seq(S) /\ Len(SubSeq(Append(s, e), 1, Len(s))) = Len(s)
  BY <1>1, LenProperties, SubSeqProperties
<1>3. \A i \in 1 .. Len(s) : SubSeq(Append(s, e), 1, Len(s))[i] = s[i]
  BY <1>1, LenProperties, SubSeqProperties, AppendProperties
<1>4. SubSeq(Append(s, e), 1, Len(s)) = s
  BY <1>2, <1>3, SeqEqual
<1> QED
  BY <1>1, <1>4, LenProperties

LEMMA AtomicInit == Init => Atomic!Init
BY CreatorAssumption DEF Init, Atomic!Init, Processes

LEMMA Quiet ==
    ASSUME TypeOK, NEW p \in Processes, NEW l, pc[p] # "log", l # "log",
           pc' = [pc EXCEPT ![p] = l], UNCHANGED <<file, events>>
    PROVE  UNCHANGED <<file, Log>>
BY DEF TypeOK, Log, Logging

\* Whoever is about to append and does not loses its own entry.
LEMMA Loss ==
    ASSUME IInv, NEW p \in Processes, NEW l, pc[p] = "log", l # "log",
           pc' = [pc EXCEPT ![p] = l], UNCHANGED <<file, events>>
    PROVE  Log # <<>> /\ Log' = SubSeq(Log, 1, Len(Log) - 1) /\ UNCHANGED file
<1>1. file \in Record /\ events \in Seq(States)
  BY CreatedIsRecord, CreatorAssumption DEF IInv, TypeOK, CreatorInv, WriterInv, Processes, States
<1>2. file.state \in States
  BY <1>1 DEF States
<1>3. ~Logging'
  BY OneLogs DEF IInv, TypeOK, Logging, Inside, CreationOver
<1>4. Log = Append(events, file.state) /\ Log' = events
  BY <1>3 DEF Log, Logging
<1> QED
  BY <1>1, <1>2, <1>4, DropLast

LEMMA AtomicNext == IInv /\ IInv' /\ [Next]_vars => [Atomic!Next]_<<file, Log>>
<1> SUFFICES ASSUME IInv, IInv', [Next]_vars PROVE [Atomic!Next]_<<file, Log>>
    OBVIOUS
<1>0. TypeOK
  BY DEF IInv
<1>1. ASSUME NEW p \in Processes, Stage(p) \/ Fill(p) PROVE UNCHANGED <<file, Log>>
  BY <1>0, <1>1, Quiet DEF Stage, Fill, GoTo
<1>2. ASSUME WriteRequest PROVE UNCHANGED <<file, Log>>
  BY <1>0, <1>2, Quiet DEF WriteRequest, GoTo, Processes
<1>3. ASSUME NEW w \in Writers, Acquire(w) \/ Read(w) \/ Release(w) \/ NotFound(w)
      PROVE  UNCHANGED <<file, Log>>
  BY <1>0, <1>3, Quiet DEF Acquire, Read, Release, NotFound, Raise, GoTo, Processes
<1>4. ASSUME Replace(Creator) PROVE Atomic!Create
  <2>1. file = Absent /\ events = <<>> /\ temp[Creator] = Created /\ moved[Creator] = TRUE
    BY <1>4 DEF IInv, CreatorInv, Replace
  <2>2. ~Logging
    BY <1>4, OneLogs DEF Replace, Logging, Inside, CreationOver, Processes
  <2>3. Logging' /\ file' = Created /\ events' = events
    BY <1>0, <1>4, <2>1 DEF Replace, GoTo, Logging, TypeOK, Processes
  <2>4. Log' = Append(Log, Created.state)
    BY <2>1, <2>2, <2>3 DEF Log
  <2> QED
    BY <2>1, <2>3, <2>4 DEF Atomic!Create, Log, Logging
<1>5. ASSUME NEW w \in Writers, Replace(w) PROVE \E change \in Changes : Atomic!Update(change)
  <2>1. Head(todo[w]) \in Changes
    BY <1>0, <1>5, HeadTail DEF IInv, TypeOK, WriterInv, Replace, Inside
  <2>2. /\ file # Absent /\ file' = Atomic!Merge(Head(todo[w]), file)
        /\ moved[w] = (file'.state # file.state) /\ events' = events
    BY <1>5 DEF IInv, WriterInv, Replace, Writing
  <2>3. ~Logging
    BY <1>5, CreatorAssumption, OneLogs DEF Replace, Logging, Inside, Processes
  <2>4. CASE moved[w]
    <3>1. Logging'
      BY <1>0, <1>5, <2>4 DEF Replace, GoTo, Logging, TypeOK, Processes
    <3>2. Log' = Append(Log, file'.state) /\ file'.state # file.state
      BY <2>2, <2>3, <2>4, <3>1 DEF Log
    <3> QED
      BY <2>1, <2>2, <3>2 DEF Atomic!Update, Log, Logging
  <2>5. CASE ~moved[w]
    <3>1. ~Logging'
      BY <1>0, <1>5, <2>3, <2>5 DEF Replace, GoTo, Logging, TypeOK, Processes
    <3>2. Log' = Log /\ file'.state = file.state
      BY <2>2, <2>3, <2>5, <3>1 DEF Log
    <3> QED
      BY <2>1, <2>2, <3>2 DEF Atomic!Update, Log, Logging
  <2> QED
    BY <2>4, <2>5
<1>6. ASSUME CreateLog PROVE UNCHANGED <<file, Log>>
  <2>1. file = Created /\ events = <<>> /\ file' = file /\ Logging
    BY <1>6 DEF IInv, CreatorInv, CreateLog, Logging, Processes
  <2>2. ~Logging'
    BY <1>0, <1>6, OneLogs DEF CreateLog, GoTo, Logging, Inside, CreationOver, TypeOK, Processes
  <2> QED
    BY <1>6, <2>1, <2>2 DEF CreateLog, Log
<1>7. ASSUME NEW w \in Writers, AppendEvent(w) PROVE UNCHANGED <<file, Log>>
  <2>1. file = draft[w] /\ file' = file /\ Logging
    BY <1>7 DEF IInv, WriterInv, AppendEvent, Logging, Processes
  <2>2. ~Logging'
    BY <1>0, <1>7, CreatorAssumption, OneLogs
       DEF AppendEvent, GoTo, Logging, Inside, TypeOK, Processes
  <2> QED
    BY <1>7, <2>1, <2>2 DEF AppendEvent, Log
<1>8. ASSUME NEW p \in Processes, NEW l, l # "log", pc' = [pc EXCEPT ![p] = l],
             UNCHANGED <<file, events>>
      PROVE  Atomic!LoseEntry \/ UNCHANGED <<file, Log>>
  <2>1. CASE pc[p] = "log"
    <3>1. Log # <<>> /\ Log' = SubSeq(Log, 1, Len(Log) - 1) /\ UNCHANGED file
      BY <1>8, <2>1, Loss
    <3> QED
      BY <3>1 DEF Atomic!LoseEntry, Log, Logging
  <2>2. CASE pc[p] # "log"
    BY <1>0, <1>8, <2>2, Quiet
  <2> QED
    BY <2>1, <2>2
<1>9. ASSUME NEW w \in Writers, Fail(w) PROVE Atomic!LoseEntry \/ UNCHANGED <<file, Log>>
  BY <1>8, <1>9 DEF Fail, Raise, GoTo, Processes
<1>10. ASSUME NEW p \in Processes, Kill(p) PROVE Atomic!LoseEntry \/ UNCHANGED <<file, Log>>
  BY <1>8, <1>10 DEF Kill, GoTo
<1>11. UNCHANGED vars => UNCHANGED <<file, Log>>
  BY DEF vars, Log, Logging
<1> QED
  BY <1>1, <1>2, <1>3, <1>4, <1>5, <1>6, <1>7, <1>9, <1>10, <1>11
     DEF Next, Create, Update, WriteFile, Processes, Atomic!Next

\* The protocol of update_state and create_run implements the atomic record
\* that TaskRun and Registry take an update to be, with an entry of the log
\* for every change of state that was not cut short by a death.
THEOREM Refinement == Spec => ImplementsAtomicRecord
<1>1. [Atomic!Next]_<<file, Log>> =>
        [Atomic!Next]_<<file, IF \E p \in Processes : pc[p] = "log"
                              THEN Append(events, file.state) ELSE events>>
  BY DEF Log, Logging
<1> QED
  BY <1>1, AtomicInit, AtomicNext, Invariance, PTL DEF Spec, ImplementsAtomicRecord, Atomic!Spec
==============================================================================
