--------------------------- MODULE DeliveryProofs ---------------------------
(***************************************************************************)
(* Theorems about Delivery for any number of instances, pipelines, retries *)
(* failures and crashes: what its tables, topic and answers may hold, how  *)
(* many copies of an event there are, that an answer is never taken back,  *)
(* and that Delivery implements DurableDelivery.                           *)
(***************************************************************************)
EXTENDS Delivery, FiniteSetTheorems, TLAPS

-----------------------------------------------------------------------------
(* The inductive invariant *)

\* The sender under a lock works for the lock's holder, and what it has sent and
\* marked is in the topic and in the receipt.
SendOk(i) ==
    /\ send[i].step # "idle" => send[i].pid \in Pipelines
    /\ lock[i] \in Pipelines =>
          send[i].pid = lock[i] /\ task[lock[i]] = [pc |-> "sending", at |-> i]
    /\ send[i].step \in {"mark", "delete"} => InTopic(send[i].pid)
    /\ send[i].step = "delete" => receipts[send[i].pid] # "prepared"

SendSound == \A i \in Instances : SendOk(i)

\* A row, and a row in the hands of a drain or a sender, is of a call that put it.
RowSound ==
    \A p \in Pipelines :
        \/ p \in outbox
        \/ \E i \in Instances : p \in batch[i] \/ send[i].pid = p
        => task[p].pc \notin {"new", "prepared"}

\* A publish call is past the steps its receipt and its row say it is past.
TaskSound ==
    \A p \in Pipelines :
        /\ task[p].pc \in {"prepared", "sending"} => receipts[p] # "absent"
        /\ task[p].pc \in {"confirm", "stored", "pending"} => receipts[p] = "published"
        /\ task[p].pc = "stored" => Stored(p)
        /\ receipts[p] = "published" => InTopic(p)

\* The chunk table has a whole manifest or none of it, and only of topic events.
ChunksSound ==
    \A p \in Pipelines :
        SourceKeys(p) \cap chunks = {} \/ (Stored(p) /\ InTopic(p))

\* A consumer works on a message all of whose predecessors are settled.
ConsSound ==
    \A i \in Instances : cons[i].pc \notin {"down", "idle"} =>
        /\ cons[i].at \in 1..Len(log)
        /\ \A k \in 1..Len(log) : k < cons[i].at => Settled(log[k])
        /\ cons[i].pc = "store" =>
              /\ cons[i].missing \subseteq SourceKeys(log[cons[i].at])
              /\ SourceKeys(log[cons[i].at]) \subseteq chunks \cup cons[i].missing
        /\ cons[i].pc = "commit" => Settled(log[cons[i].at])

OffsetSound == offset <= Len(log) /\ CommittedIsSettled

IInv ==
    TypeOK /\ SendSound /\ RowSound /\ TaskSound /\ ChunksSound /\ ConsSound
    /\ OffsetSound

\* What no step undoes
Grows ==
    /\ Len(log)' \in Nat
    /\ Len(log) <= Len(log)'
    /\ \A k \in 1..Len(log) : log'[k] = log[k]
    /\ chunks \subseteq chunks'
    /\ dlq \subseteq dlq'

-----------------------------------------------------------------------------
(* Which part of the state each actor touches *)

LEMMA PublishFrame ==
    ASSUME NEW i \in Instances, NEW p \in Pipelines, PublishStep(i, p)
    PROVE  UNCHANGED <<chunks, log, offset, dlq, owner, up, batch, cons, crashes>>
BY DEF PublishStep, Prepare, Put, PutFails

LEMMA TaskFrame ==
    ASSUME NEW p \in Pipelines, TaskStep(p)
    PROVE  UNCHANGED <<outbox, created, chunks, log, offset, dlq, owner, up, lock,
                       batch, send, cons, crashes>>
BY DEF TaskStep, PrepareFails, ConfirmStored, ConfirmPending, durable

LEMMA SenderFrame ==
    ASSUME NEW i \in Instances, SenderStep(i)
    PROVE  UNCHANGED <<created, chunks, offset, dlq, owner, up, cons, crashes>>
BY DEF SenderStep, Send, SendFails, MarkPublished, MarkPublishedFails, DeleteRow,
       DeleteRowFails, GiveUp, Drain, durable

LEMMA ConsumerFrame ==
    ASSUME NEW i \in Instances, ConsumerStep(i)
    PROVE  UNCHANGED <<outbox, created, receipts, log, up, lock, batch, send, task,
                       crashes>>
BY DEF ConsumerStep, Join, Rebalance, Leaves, Fetch, ReadMissing, StoreChunks,
       ProcessFails, DeadLetter, DeadLetterFails, Commit, CommitFails, durable

LEMMA LifeFrame ==
    ASSUME NEW i \in Instances, Crash(i) \/ Restart(i)
    PROVE  UNCHANGED <<outbox, created, receipts, chunks, log, offset, dlq, faults>>
BY DEF Crash, Restart, durable

-----------------------------------------------------------------------------
(* Types *)

\* The number of rows ever put is a natural number.
LEMMA RowCount ==
    ASSUME NEW S, S \subseteq Pipelines
    PROVE  Cardinality(S) \in Nat
<1>1. IsFiniteSet(Pipelines)
  BY DeliveryAssumption
<1>2. IsFiniteSet(S)
  BY <1>1, FS_Subset
<1> QED
  BY <1>2, FS_CardinalityType

\* Records stay records when one field changes.
LEMMA SendStepType ==
    ASSUME NEW r \in Sends, NEW s \in Steps
    PROVE  [r EXCEPT !.step = s] \in Sends
BY DEF Sends

LEMMA ConsPcType ==
    ASSUME NEW r \in Consumers, NEW pc \in ConsPcs
    PROVE  [r EXCEPT !.pc = pc] \in Consumers
BY DEF Consumers

LEMMA TaskPcType ==
    ASSUME NEW r \in Tasks, NEW pc \in TaskPcs
    PROVE  [r EXCEPT !.pc = pc] \in Tasks
BY DEF Tasks

LEMMA TypePublish ==
    ASSUME TypeOK, NEW i \in Instances, NEW p \in Pipelines, PublishStep(i, p)
    PROVE  TypeOK'
<1>1. Cardinality({q \in Pipelines : created[q] > 0}) + 1 \in Nat
  <2>1. {q \in Pipelines : created[q] > 0} \subseteq Pipelines
    OBVIOUS
  <2>2. Cardinality({q \in Pipelines : created[q] > 0}) \in Nat
    BY <2>1, RowCount
  <2> QED
    BY <2>2
<1>2. InsertRow(p) => outbox' \subseteq Pipelines /\ created' \in [Pipelines -> Nat]
  BY <1>1 DEF TypeOK, InsertRow
<1>3. \A pc \in TaskPcs : SetTask(p, pc) => task' \in [Pipelines -> Tasks]
  BY TaskPcType DEF TypeOK, SetTask
<1>4. CASE Prepare(i, p)
  <2>1. task' \in [Pipelines -> Tasks]
    BY <1>4 DEF TypeOK, Prepare, Tasks, TaskPcs
  <2> QED
    BY <1>4, <2>1 DEF TypeOK, Prepare
<1>5. CASE Put(i, p)
  <2>1. SendOf(p) \in Sends
    BY DEF SendOf, Sends, Steps
  <2> QED
    BY <1>2, <1>3, <1>5, <2>1 DEF TypeOK, Put, TaskPcs
<1>6. CASE PutFails(i, p)
  <2>1. faults' \in Nat
    BY <1>6 DEF TypeOK, PutFails, Fault
  <2>2. outbox' \subseteq Pipelines /\ created' \in [Pipelines -> Nat]
    BY <1>2, <1>6 DEF TypeOK, PutFails
  <2> QED
    BY <1>3, <1>6, <2>1, <2>2 DEF TypeOK, PutFails, TaskPcs
<1> QED
  BY <1>4, <1>5, <1>6 DEF PublishStep

LEMMA TypeTask ==
    ASSUME TypeOK, NEW p \in Pipelines, TaskStep(p)
    PROVE  TypeOK'
<1>1. \A pc \in TaskPcs : SetTask(p, pc) => task' \in [Pipelines -> Tasks]
  BY TaskPcType DEF TypeOK, SetTask
<1>2. CASE PrepareFails(p)
  <2>1. receipts' \in [Pipelines -> {"absent", "prepared", "published"}]
    BY <1>2 DEF TypeOK, PrepareFails
  <2>2. faults' \in Nat
    BY <1>2 DEF TypeOK, PrepareFails, Fault
  <2> QED
    BY <1>1, <1>2, <2>1, <2>2 DEF TypeOK, PrepareFails, TaskPcs
<1>3. CASE ConfirmStored(p) \/ ConfirmPending(p)
  BY <1>1, <1>3 DEF TypeOK, ConfirmStored, ConfirmPending, TaskPcs, durable
<1> QED
  BY <1>2, <1>3 DEF TaskStep

LEMMA TypeSender ==
    ASSUME TypeOK, SendSound, NEW i \in Instances, SenderStep(i)
    PROVE  TypeOK'
<1>1. send[i].step # "idle" => send[i].pid \in Pipelines
  BY DEF SendSound, SendOk
<1>2. \A s \in Steps : [send[i] EXCEPT !.step = s] \in Sends
  BY SendStepType DEF TypeOK
<1>3. [pid |-> send[i].pid, attempt |-> send[i].attempt + 1, step |-> "send"] \in Sends
  BY DEF TypeOK, Sends, Steps
<1>4. AttemptFails(i) => send' \in [Instances -> Sends]
  BY <1>2, <1>3 DEF TypeOK, AttemptFails, Steps
<1>5. \A p \in Pipelines : SendOf(p) \in Sends
  BY DEF SendOf, Sends, Steps
<1>6. Fault => faults' \in Nat
  BY DEF TypeOK, Fault
<1>7. \A pc \in TaskPcs : Leave(i, pc) =>
         /\ lock' \in [Instances -> Pipelines \cup {"free", "drain"}]
         /\ send' \in [Instances -> Sends]
         /\ batch' \in [Instances -> SUBSET Pipelines]
         /\ task' \in [Pipelines -> Tasks]
  <2> SUFFICES ASSUME NEW pc \in TaskPcs, Leave(i, pc)
               PROVE  /\ lock' \in [Instances -> Pipelines \cup {"free", "drain"}]
                      /\ send' \in [Instances -> Sends]
                      /\ batch' \in [Instances -> SUBSET Pipelines]
                      /\ task' \in [Pipelines -> Tasks]
    OBVIOUS
  <2>1. NoSend \in Sends
    BY DEF NoSend, Sends, Steps
  <2>2. \A p \in Pipelines : [task[p] EXCEPT !.pc = pc] \in Tasks
    BY TaskPcType DEF TypeOK
  <2>3. task' \in [Pipelines -> Tasks]
    BY <2>2 DEF TypeOK, Leave
  <2> QED
    BY <2>1, <2>3 DEF TypeOK, Leave
<1>10. CASE Send(i)
  <2>1. log' \in Seq(Pipelines)
    BY <1>1, <1>10 DEF TypeOK, Send
  <2>2. send' \in [Instances -> Sends]
    BY <1>2, <1>10 DEF TypeOK, Send, Steps
  <2> QED
    BY <1>10, <2>1, <2>2 DEF TypeOK, Send
<1>11. CASE SendFails(i)
  <2>1. log' = log \/ log' = Append(log, send[i].pid)
    BY <1>11 DEF SendFails
  <2>2. log \in Seq(Pipelines) /\ send[i].pid \in Pipelines
    BY <1>1, <1>11 DEF TypeOK, SendFails
  <2>4. log' \in Seq(Pipelines)
    BY <2>1, <2>2
  <2>3. faults' \in Nat
    BY <1>6, <1>11 DEF TypeOK, SendFails
  <2> QED
    BY <1>4, <1>11, <2>3, <2>4 DEF TypeOK, SendFails
<1>12. CASE MarkPublished(i) \/ MarkPublishedFails(i)
  <2>1. receipts' \in [Pipelines -> {"absent", "prepared", "published"}]
    BY <1>1, <1>12 DEF TypeOK, MarkPublished, MarkPublishedFails, MarkRow
  <2>2. send' \in [Instances -> Sends]
    BY <1>2, <1>4, <1>12 DEF TypeOK, MarkPublished, MarkPublishedFails, Steps
  <2>3. faults' \in Nat
    BY <1>6, <1>12 DEF TypeOK, MarkPublished, MarkPublishedFails
  <2> QED
    BY <1>12, <2>1, <2>2, <2>3 DEF TypeOK, MarkPublished, MarkPublishedFails
<1>13. CASE DeleteRow(i)
  <2>1. /\ lock' \in [Instances -> Pipelines \cup {"free", "drain"}]
        /\ send' \in [Instances -> Sends]
        /\ batch' \in [Instances -> SUBSET Pipelines]
        /\ task' \in [Pipelines -> Tasks]
    <3>1. CASE lock[i] = "drain" /\ batch[i] # {}
      <4>1. PICK p \in Oldest(batch[i]) :
                /\ send' = [send EXCEPT ![i] = SendOf(p)]
                /\ batch' = [batch EXCEPT ![i] = @ \ {p}]
                /\ UNCHANGED <<lock, task>>
        BY <1>13, <3>1 DEF DeleteRow
      <4>2. p \in Pipelines
        BY DEF Oldest, TypeOK
      <4> QED
        BY <1>5, <4>1, <4>2 DEF TypeOK
    <3>2. CASE ~(lock[i] = "drain" /\ batch[i] # {})
      BY <1>7, <1>13, <3>2 DEF DeleteRow, TaskPcs
    <3> QED
      BY <3>1, <3>2
  <2> QED
    BY <1>13, <2>1 DEF TypeOK, DeleteRow
<1>14. CASE DeleteRowFails(i)
  BY <1>4, <1>6, <1>14 DEF TypeOK, DeleteRowFails
<1>15. CASE GiveUp(i)
  BY <1>7, <1>15 DEF TypeOK, GiveUp, TaskPcs, durable
<1>16. CASE Drain(i)
  <2>1. Oldest(Pending) \subseteq Pipelines /\ Pending \subseteq Pipelines
    BY DEF TypeOK, Oldest, Pending
  <2>2. send' \in [Instances -> Sends] /\ batch' \in [Instances -> SUBSET Pipelines]
    BY <1>5, <1>16, <2>1 DEF TypeOK, Drain
  <2> QED
    BY <1>16, <2>2 DEF TypeOK, Drain, durable
<1> QED
  BY <1>10, <1>11, <1>12, <1>13, <1>14, <1>15, <1>16 DEF SenderStep

LEMMA TypeConsumer ==
    ASSUME TypeOK, ConsSound, NEW i \in Instances, ConsumerStep(i)
    PROVE  TypeOK'
<1>0. cons[i].pc \notin {"down", "idle"} => log[cons[i].at] \in Pipelines
  BY DEF ConsSound, TypeOK
<1>1. \A pc \in ConsPcs : [cons[i] EXCEPT !.pc = pc] \in Consumers
  BY ConsPcType DEF TypeOK
<1>2. cons[i] \in Consumers /\ Idle \in Consumers /\ Down \in Consumers
  BY DEF TypeOK, Idle, Down, Consumers, ConsPcs
<1>3. \A c \in Consumers : SetCons(i, c) => cons' \in [Instances -> Consumers]
  BY DEF TypeOK, SetCons
<1>4. Leaves(i) => cons' \in [Instances -> Consumers] /\ owner' \in Instances \cup {"none"}
  BY <1>2, <1>3 DEF Leaves, TypeOK
<1>5. Fault => faults' \in Nat
  BY DEF TypeOK, Fault
<1>6. InsertChunks(i) => chunks' \subseteq Pipelines \X Chunks
  BY <1>2 DEF InsertChunks, TypeOK, Consumers
<1>10. CASE Join(i) \/ Rebalance(i)
  BY <1>2, <1>3, <1>10 DEF TypeOK, Join, Rebalance, durable
<1>11. CASE Fetch(i)
  <2>1. [pc |-> "read", at |-> offset + 1, attempt |-> 1, missing |-> {}] \in Consumers
    BY DEF TypeOK, Consumers, ConsPcs
  <2> QED
    BY <1>3, <1>11, <2>1 DEF TypeOK, Fetch, durable
<1>12. CASE ReadMissing(i)
  <2> DEFINE missing == SourceKeys(log[cons[i].at]) \ chunks
  <2>1. missing \in SUBSET (Pipelines \X Chunks)
    BY <1>0, <1>12 DEF ReadMissing, SourceKeys
  <2>2. [pc |-> IF missing = {} THEN "commit" ELSE "store", at |-> cons[i].at,
         attempt |-> cons[i].attempt, missing |-> missing] \in Consumers
    BY <1>2, <2>1 DEF Consumers, ConsPcs
  <2> QED
    BY <1>3, <1>12, <2>2 DEF TypeOK, ReadMissing, durable
<1>13. CASE StoreChunks(i)
  BY <1>1, <1>3, <1>6, <1>13 DEF TypeOK, StoreChunks, ConsPcs
<1>14. CASE ProcessFails(i)
  <2>1. [pc |-> "read", at |-> cons[i].at, attempt |-> cons[i].attempt + 1,
         missing |-> {}] \in Consumers
    BY <1>2 DEF Consumers, ConsPcs
  <2>2. cons' \in [Instances -> Consumers]
    BY <1>1, <1>3, <1>14, <2>1 DEF ProcessFails, ConsPcs
  <2>3. chunks' \subseteq Pipelines \X Chunks
    BY <1>6, <1>14 DEF TypeOK, ProcessFails
  <2> QED
    BY <1>5, <1>14, <2>2, <2>3 DEF TypeOK, ProcessFails
<1>15. CASE DeadLetter(i)
  BY <1>0, <1>1, <1>3, <1>15 DEF TypeOK, DeadLetter, ConsPcs
<1>16. CASE DeadLetterFails(i)
  <2>1. dlq' \subseteq Pipelines
    BY <1>0, <1>16 DEF TypeOK, DeadLetterFails
  <2>2. faults' \in Nat
    BY <1>5, <1>16 DEF TypeOK, DeadLetterFails
  <2> QED
    BY <1>4, <1>16, <2>1, <2>2 DEF TypeOK, DeadLetterFails
<1>17. CASE Commit(i)
  <2>1. offset' \in Nat
    BY <1>2, <1>17 DEF Commit, Consumers
  <2> QED
    BY <1>2, <1>3, <1>17, <2>1 DEF TypeOK, Commit
<1>18. CASE CommitFails(i)
  <2>1. offset' \in Nat
    BY <1>2, <1>18 DEF TypeOK, CommitFails, Consumers
  <2>2. faults' \in Nat
    BY <1>5, <1>18 DEF TypeOK, CommitFails
  <2> QED
    BY <1>4, <1>18, <2>1, <2>2 DEF TypeOK, CommitFails
<1> QED
  BY <1>10, <1>11, <1>12, <1>13, <1>14, <1>15, <1>16, <1>17, <1>18 DEF ConsumerStep

LEMMA TypeLife ==
    ASSUME TypeOK, NEW i \in Instances, Crash(i) \/ Restart(i)
    PROVE  TypeOK'
<1>1. CASE Crash(i)
  <2>1. NoSend \in Sends /\ Down \in Consumers
    BY DEF NoSend, Down, Sends, Consumers, Steps, ConsPcs
  <2>2. \A p \in Pipelines : [task[p] EXCEPT !.pc = "lost"] \in Tasks
    BY TaskPcType DEF TypeOK, TaskPcs
  <2>3. task' \in [Pipelines -> Tasks]
    BY <1>1, <2>2 DEF TypeOK, Crash
  <2>4. crashes' \in Nat
    BY <1>1 DEF TypeOK, Crash
  <2> QED
    BY <1>1, <2>1, <2>3, <2>4 DEF TypeOK, Crash, Leaves, SetCons, durable
<1>2. CASE Restart(i)
  BY <1>2 DEF TypeOK, Restart, durable
<1> QED
  BY <1>1, <1>2

-----------------------------------------------------------------------------
(* What only grows *)

LEMMA GrowsStep ==
    ASSUME TypeOK, SendSound, [Next]_vars
    PROVE  Grows
<1>0. log \in Seq(Pipelines) /\ Len(log) \in Nat
  BY DEF TypeOK
<1>1. CASE UNCHANGED vars
  BY <1>0, <1>1 DEF Grows, vars, durable
<1>2. ASSUME NEW i \in Instances, NEW p \in Pipelines, PublishStep(i, p) PROVE Grows
  BY <1>0, <1>2, PublishFrame DEF Grows
<1>3. ASSUME NEW p \in Pipelines, TaskStep(p) PROVE Grows
  BY <1>0, <1>3, TaskFrame DEF Grows
<1>4. ASSUME NEW i \in Instances, SenderStep(i) PROVE Grows
  <2>1. UNCHANGED <<chunks, dlq>>
    BY <1>4, SenderFrame
  <2>2. \/ log' = log
        \/ send[i].step # "idle" /\ log' = Append(log, send[i].pid)
    BY <1>4 DEF SenderStep, Send, SendFails, MarkPublished, MarkPublishedFails,
                DeleteRow, DeleteRowFails, GiveUp, Drain, durable
  <2>3. send[i].step # "idle" => send[i].pid \in Pipelines
    BY DEF SendSound, SendOk
  <2> QED
    BY <1>0, <2>1, <2>2, <2>3 DEF Grows
<1>5. ASSUME NEW i \in Instances, ConsumerStep(i) PROVE Grows
  <2>1. log' = log
    BY <1>5, ConsumerFrame
  <2>2. chunks \subseteq chunks' /\ dlq \subseteq dlq'
    BY <1>5 DEF ConsumerStep, Join, Rebalance, Fetch, ReadMissing, StoreChunks,
                ProcessFails, InsertChunks, DeadLetter, DeadLetterFails, Commit,
                CommitFails, durable
  <2> QED
    BY <1>0, <2>1, <2>2 DEF Grows
<1>6. ASSUME NEW i \in Instances, Crash(i) \/ Restart(i) PROVE Grows
  BY <1>0, <1>6, LifeFrame DEF Grows
<1> QED
  BY <1>1, <1>2, <1>3, <1>4, <1>5, <1>6 DEF Next

LEMMA GrowsKeeps ==
    ASSUME TypeOK, Grows, NEW p
    PROVE  /\ InTopic(p) => InTopic(p)'
           /\ Stored(p) => Stored(p)'
           /\ Settled(p) => Settled(p)'
<1>1. InTopic(p) => InTopic(p)'
  <2> SUFFICES ASSUME NEW k \in 1..Len(log), log[k] = p PROVE \E j \in 1..Len(log)' : log'[j] = p
    BY DEF InTopic
  <2>1. k \in 1..Len(log)' /\ log'[k] = p
    BY DEF Grows, TypeOK
  <2> QED
    BY <2>1
<1>2. Stored(p) => Stored(p)'
  BY DEF Stored, SourceKeys, Grows
<1> QED
  BY <1>1, <1>2 DEF Settled, Grows

-----------------------------------------------------------------------------
(* The publisher's side *)

\* The three things a sender's step can do to its lock: go on with its row,
\* take the next row of the drain, or leave.
GoesOn(i) ==
    /\ UNCHANGED <<lock, batch, task>>
    /\ \E s \in Sends : s.pid = send[i].pid /\ send' = [send EXCEPT ![i] = s]
TakesRow(i) ==
    /\ \E p \in Pipelines :
          p \in batch[i] \cup outbox /\ send' = [send EXCEPT ![i] = SendOf(p)]
    /\ lock' = [lock EXCEPT ![i] = "drain"]
    /\ \E b \in SUBSET (batch[i] \cup outbox) : batch' = [batch EXCEPT ![i] = b]
    /\ task' = task
    /\ lock[i] \in {"free", "drain"}

LEMMA SenderEffect ==
    ASSUME TypeOK, NEW i \in Instances, SenderStep(i)
    PROVE  /\ outbox' \subseteq outbox
           /\ \/ GoesOn(i)
              \/ TakesRow(i)
              \/ Leave(i, "confirm") /\ send[i].step = "delete"
              \/ Leave(i, "failed")
<1>0. \A s \in Steps : [send[i] EXCEPT !.step = s] \in Sends
                       /\ [send[i] EXCEPT !.step = s].pid = send[i].pid
  BY SendStepType DEF TypeOK, Sends
<1>1. [pid |-> send[i].pid, attempt |-> send[i].attempt + 1, step |-> "send"] \in Sends
  BY DEF TypeOK, Sends, Steps
<1>2. AttemptFails(i) /\ UNCHANGED <<lock, batch, task>> => GoesOn(i)
  <2> SUFFICES ASSUME AttemptFails(i), UNCHANGED <<lock, batch, task>> PROVE GoesOn(i)
    OBVIOUS
  <2>1. \/ send' = [send EXCEPT ![i] = [pid |-> send[i].pid,
                       attempt |-> send[i].attempt + 1, step |-> "send"]]
        \/ send' = [send EXCEPT ![i] = [send[i] EXCEPT !.step = "error"]]
    BY DEF AttemptFails, TypeOK
  <2> QED
    BY <1>0, <1>1, <2>1 DEF GoesOn, Steps
<1>3. CASE Send(i) \/ MarkPublished(i)
  BY <1>0, <1>3 DEF Send, MarkPublished, GoesOn, Steps
<1>4. CASE SendFails(i) \/ MarkPublishedFails(i) \/ DeleteRowFails(i)
  BY <1>2, <1>4 DEF SendFails, MarkPublishedFails, DeleteRowFails
<1>5. CASE DeleteRow(i)
  <2>1. CASE lock[i] = "drain" /\ batch[i] # {}
    <3>1. PICK p \in Oldest(batch[i]) :
              /\ send' = [send EXCEPT ![i] = SendOf(p)]
              /\ batch' = [batch EXCEPT ![i] = @ \ {p}]
              /\ UNCHANGED <<lock, task>>
      BY <1>5, <2>1 DEF DeleteRow
    <3>2. p \in batch[i] /\ p \in Pipelines
      BY DEF Oldest, TypeOK
    <3>3. lock' = [lock EXCEPT ![i] = "drain"]
      BY <2>1, <3>1 DEF TypeOK
    <3>4. batch[i] \ {p} \in SUBSET (batch[i] \cup outbox)
      OBVIOUS
    <3> QED
      BY <1>5, <2>1, <3>1, <3>2, <3>3, <3>4 DEF TakesRow, DeleteRow
  <2>2. CASE ~(lock[i] = "drain" /\ batch[i] # {})
    BY <1>5, <2>2 DEF DeleteRow
  <2> QED
    BY <2>1, <2>2
<1>6. CASE GiveUp(i)
  BY <1>6 DEF GiveUp, durable
<1>7. CASE Drain(i)
  <2>1. PICK p \in Oldest(Pending) :
            /\ send' = [send EXCEPT ![i] = SendOf(p)]
            /\ batch' = [batch EXCEPT ![i] = Pending \ {p}]
    BY <1>7 DEF Drain
  <2>2. p \in outbox /\ p \in Pipelines
    BY DEF Oldest, Pending, TypeOK
  <2>3. Pending \ {p} \in SUBSET (batch[i] \cup outbox)
    BY DEF Pending
  <2> QED
    BY <1>7, <2>1, <2>2, <2>3 DEF TakesRow, Drain, durable
<1> QED
  BY <1>3, <1>4, <1>5, <1>6, <1>7 DEF SenderStep, SendFails, MarkPublishedFails,
     DeleteRowFails, Send, MarkPublished

LEMMA RowStep ==
    ASSUME TypeOK, SendSound, RowSound, [Next]_vars
    PROVE  RowSound'
<1>1. CASE UNCHANGED vars
  BY <1>1 DEF RowSound, vars, durable
<1>2. ASSUME NEW i \in Instances, NEW p \in Pipelines, PublishStep(i, p) PROVE RowSound'
  <2>1. CASE Prepare(i, p)
    BY <2>1 DEF Prepare, RowSound, TypeOK
  <2>2. CASE Put(i, p)
    BY <2>2 DEF Put, InsertRow, SetTask, SendOf, RowSound, TypeOK, Tasks
  <2>3. CASE PutFails(i, p)
    BY <2>3 DEF PutFails, InsertRow, SetTask, RowSound, TypeOK, Tasks
  <2> QED
    BY <1>2, <2>1, <2>2, <2>3 DEF PublishStep
<1>3. ASSUME NEW p \in Pipelines, TaskStep(p) PROVE RowSound'
  <2>1. UNCHANGED <<outbox, batch, send>>
    BY <1>3, TaskFrame
  <2>2. \A q \in Pipelines : task'[q].pc \in {"new", "prepared"} => task'[q].pc = task[q].pc
    <3>1. PICK pc \in {"failed", "stored", "pending"} : SetTask(p, pc)
      BY <1>3 DEF TaskStep, PrepareFails, ConfirmStored, ConfirmPending
    <3> QED
      BY <3>1 DEF SetTask, TypeOK, Tasks
  <2> QED
    BY <2>1, <2>2 DEF RowSound
<1>4. ASSUME NEW i \in Instances, SenderStep(i) PROVE RowSound'
  <2>0. outbox' \subseteq outbox
    BY <1>4, SenderEffect
  <2>1. \A q \in Pipelines : q # "free"
    BY DeliveryAssumption
  <2>2. CASE GoesOn(i)
    BY <2>0, <2>2 DEF GoesOn, RowSound, TypeOK
  <2>3. CASE TakesRow(i)
    <3>1. \A q \in Pipelines, j \in Instances :
             q \in batch'[j] => q \in batch[j] \/ q \in outbox
      BY <2>3 DEF TakesRow, TypeOK
    <3>2. \A q \in Pipelines, j \in Instances :
             send'[j].pid = q => send[j].pid = q \/ q \in batch[j] \/ q \in outbox
      BY <2>3 DEF TakesRow, SendOf, TypeOK
    <3> QED
      BY <2>0, <2>3, <3>1, <3>2 DEF TakesRow, RowSound
  <2>4. ASSUME NEW pc \in {"confirm", "failed"}, Leave(i, pc) PROVE RowSound'
    <3>1. \A q \in Pipelines, j \in Instances : q \in batch'[j] => q \in batch[j]
      BY <2>4 DEF Leave, TypeOK
    <3>2. \A q \in Pipelines, j \in Instances : send'[j].pid = q => send[j].pid = q
      BY <2>1, <2>4 DEF Leave, NoSend, TypeOK
    <3>3. \A q \in Pipelines : task'[q].pc = task[q].pc \/ task'[q].pc = pc
      BY <2>4 DEF Leave, TypeOK, Tasks
    <3> QED
      BY <2>0, <3>1, <3>2, <3>3 DEF RowSound
  <2> QED
    BY <1>4, <2>2, <2>3, <2>4, SenderEffect
<1>5. ASSUME NEW i \in Instances, ConsumerStep(i) PROVE RowSound'
  BY <1>5, ConsumerFrame DEF RowSound
<1>6. ASSUME NEW i \in Instances, Crash(i) \/ Restart(i) PROVE RowSound'
  <2>1. CASE Crash(i)
    <3>1. \A q \in Pipelines : q # "free"
      BY DeliveryAssumption
    <3> QED
      BY <2>1, <3>1 DEF Crash, NoSend, RowSound, TypeOK, Tasks, durable
  <2>2. CASE Restart(i)
    BY <2>2 DEF Restart, RowSound, durable
  <2> QED
    BY <1>6, <2>1, <2>2
<1> QED
  BY <1>1, <1>2, <1>3, <1>4, <1>5, <1>6 DEF Next

\* What the steps of a sender leave behind, by the step it is at.
LEMMA SenderProgress ==
    ASSUME TypeOK, SendSound, NEW i \in Instances, SenderStep(i), GoesOn(i)
    PROVE  /\ send'[i].step \in {"mark", "delete"} => InTopic(send[i].pid)'
           /\ send'[i].step = "delete" => receipts'[send'[i].pid] # "prepared"
           /\ send'[i].step # "idle" => send'[i].pid \in Pipelines
<1>0. send[i] \in Sends /\ send'[i].pid = send[i].pid
  BY DEF TypeOK, GoesOn
<1>1. send[i].step # "idle" => send[i].pid \in Pipelines
  BY DEF SendSound, SendOk
<1>2. AttemptFails(i) => send'[i].step \in {"send", "error"}
  BY <1>0 DEF AttemptFails, TypeOK, Sends
<1>3. ASSUME send[i].step # "idle", InTopic(send[i].pid) PROVE InTopic(send[i].pid)'
  <2>1. Next
    BY DEF Next
  <2>2. Grows
    BY <2>1, GrowsStep
  <2>3. PICK q \in Pipelines : q = send[i].pid
    BY <1>1, <1>3
  <2>4. InTopic(q)'
    BY <1>3, <2>2, <2>3, GrowsKeeps
  <2> QED
    BY <1>0, <2>3, <2>4 DEF InTopic
<1>4. CASE Send(i)
  <2>1. log' = Append(log, send[i].pid) /\ send'[i].step = "mark" /\ send[i].step = "send"
    BY <1>0, <1>4 DEF Send, TypeOK, Sends
  <2>2. Len(log)' \in 1..Len(log)' /\ log'[Len(log)'] = send[i].pid
    BY <1>1, <2>1 DEF TypeOK
  <2>3. \E k \in 1..Len(log)' : log'[k] = send'[i].pid
    BY <1>0, <2>2
  <2> QED
    BY <1>0, <1>1, <2>1, <2>3 DEF InTopic
<1>5. CASE SendFails(i) \/ MarkPublishedFails(i) \/ DeleteRowFails(i)
  BY <1>0, <1>1, <1>2, <1>5 DEF SendFails, MarkPublishedFails, DeleteRowFails
<1>6. CASE MarkPublished(i)
  <2>1. send'[i].step = "delete" /\ send[i].step = "mark"
    BY <1>0, <1>6 DEF MarkPublished, TypeOK, Sends
  <2>2. receipts'[send[i].pid] # "prepared"
    BY <1>1, <1>6, <2>1 DEF MarkPublished, MarkRow, TypeOK
  <2>3. InTopic(send[i].pid)'
    BY <1>3, <2>1 DEF SendSound, SendOk
  <2> QED
    BY <1>0, <1>1, <2>1, <2>2, <2>3
<1>7. CASE DeleteRow(i) \/ GiveUp(i) \/ Drain(i)
  <2>1. send'[i] = NoSend \/ \E p \in Pipelines : send'[i] = SendOf(p)
    <3>1. CASE DeleteRow(i)
      BY <3>1 DEF DeleteRow, Leave, Oldest, TypeOK
    <3>2. CASE GiveUp(i)
      BY <3>2 DEF GiveUp, Leave, TypeOK
    <3>3. CASE Drain(i)
      BY <3>3 DEF Drain, Oldest, Pending, TypeOK
    <3> QED
      BY <1>7, <3>1, <3>2, <3>3
  <2>2. CASE send'[i] = NoSend
    BY <2>2 DEF NoSend
  <2>3. ASSUME NEW p \in Pipelines, send'[i] = SendOf(p)
        PROVE  send'[i].step = "send" /\ send'[i].pid \in Pipelines
    BY <2>3 DEF SendOf
  <2> QED
    BY <2>1, <2>2, <2>3
<1> QED
  BY <1>4, <1>5, <1>6, <1>7 DEF SenderStep

LEMMA SendUndisturbed ==
    ASSUME TypeOK, SendSound, [Next]_vars, NEW j \in Instances,
           lock'[j] = lock[j], send'[j] = send[j],
           lock[j] \in Pipelines => task'[lock[j]] = task[lock[j]],
           send[j].step = "delete" => receipts'[send[j].pid] # "prepared"
    PROVE  SendOk(j)'
<1>0. SendOk(j)
  BY DEF SendSound
<1>1. send[j].step # "idle" => send[j].pid \in Pipelines
  BY <1>0 DEF SendOk
<1>2. lock[j] \in Pipelines => send[j].pid = lock[j]
                               /\ task'[lock[j]] = [pc |-> "sending", at |-> j]
  BY <1>0 DEF SendOk
<1>3. ASSUME send[j].step \in {"mark", "delete"} PROVE InTopic(send[j].pid)'
  <2>1. PICK q \in Pipelines : q = send[j].pid
    BY <1>1, <1>3
  <2>2. Grows
    BY GrowsStep
  <2>3. InTopic(q)'
    BY <1>0, <1>3, <2>1, <2>2, GrowsKeeps DEF SendOk
  <2> QED
    BY <2>1, <2>3 DEF InTopic
<1> QED
  BY <1>1, <1>2, <1>3 DEF SendOk

\* Once a row has been put its receipt is not prepared again.
LEMMA ReceiptStep ==
    ASSUME TypeOK, SendSound, RowSound, [Next]_vars, NEW j \in Instances,
           send[j].step = "delete"
    PROVE  receipts'[send[j].pid] # "prepared"
<1>0. SendOk(j) /\ send[j].pid \in Pipelines
  BY DEF SendSound, SendOk
<1>1. receipts[send[j].pid] # "prepared" /\ task[send[j].pid].pc \notin {"new", "prepared"}
  BY <1>0 DEF SendOk, RowSound
<1>2. CASE UNCHANGED vars
  BY <1>1, <1>2 DEF vars, durable
<1>3. ASSUME NEW i \in Instances, NEW p \in Pipelines, PublishStep(i, p)
      PROVE  receipts'[send[j].pid] # "prepared"
  BY <1>0, <1>1, <1>3 DEF PublishStep, Prepare, Put, PutFails, TypeOK
<1>4. ASSUME NEW p \in Pipelines, TaskStep(p) PROVE receipts'[send[j].pid] # "prepared"
  BY <1>0, <1>1, <1>4 DEF TaskStep, PrepareFails, ConfirmStored, ConfirmPending, TypeOK,
                          durable
<1>5. ASSUME NEW i \in Instances, SenderStep(i) PROVE receipts'[send[j].pid] # "prepared"
  <2>1. receipts' = receipts \/ MarkRow(send[i].pid)
    BY <1>5 DEF SenderStep, Send, SendFails, MarkPublished, MarkPublishedFails,
                DeleteRow, DeleteRowFails, GiveUp, Drain, durable
  <2> QED
    BY <1>0, <1>1, <2>1 DEF MarkRow, TypeOK
<1>6. ASSUME NEW i \in Instances, ConsumerStep(i) PROVE receipts'[send[j].pid] # "prepared"
  BY <1>1, <1>6, ConsumerFrame
<1>7. ASSUME NEW i \in Instances, Crash(i) \/ Restart(i)
      PROVE  receipts'[send[j].pid] # "prepared"
  BY <1>1, <1>7, LifeFrame
<1> QED
  BY <1>2, <1>3, <1>4, <1>5, <1>6, <1>7 DEF Next

LEMMA SendStep ==
    ASSUME TypeOK, SendSound, RowSound, [Next]_vars
    PROVE  SendSound'
<1> SUFFICES ASSUME NEW j \in Instances PROVE SendOk(j)'
  BY DEF SendSound
<1>0. SendOk(j)
  BY DEF SendSound
<1>1. ASSUME lock'[j] = lock[j], send'[j] = send[j],
             lock[j] \in Pipelines => task'[lock[j]] = task[lock[j]]
      PROVE  SendOk(j)'
  BY <1>1, ReceiptStep, SendUndisturbed
<1>2. CASE UNCHANGED vars
  BY <1>1, <1>2 DEF vars
<1>3. ASSUME NEW i \in Instances, NEW p \in Pipelines, PublishStep(i, p) PROVE SendOk(j)'
  <2>1. task[p].pc \in {"new", "prepared"} /\ (lock[j] \in Pipelines => lock[j] # p)
    BY <1>0, <1>3 DEF PublishStep, Prepare, Put, PutFails, SendOk
  <2>2. lock[j] \in Pipelines => task'[lock[j]] = task[lock[j]]
    BY <1>3, <2>1 DEF PublishStep, Prepare, Put, PutFails, SetTask, TypeOK
  <2>3. CASE Put(i, p) /\ i = j
    <3>1. lock'[j] = p /\ send'[j] = SendOf(p) /\ task[p] = [pc |-> "prepared", at |-> j]
      BY <2>3 DEF Put, TypeOK
    <3>2. task'[p] = [pc |-> "sending", at |-> j]
      BY <2>3, <3>1 DEF Put, SetTask, TypeOK, Tasks
    <3> QED
      BY <3>1, <3>2 DEF SendOf, SendOk
  <2>4. CASE ~(Put(i, p) /\ i = j)
    <3>1. lock'[j] = lock[j] /\ send'[j] = send[j]
      BY <1>3, <2>4 DEF PublishStep, Prepare, Put, PutFails, TypeOK
    <3> QED
      BY <1>1, <2>2, <3>1
  <2> QED
    BY <2>3, <2>4
<1>4. ASSUME NEW p \in Pipelines, TaskStep(p) PROVE SendOk(j)'
  <2>1. UNCHANGED <<lock, send>>
    BY <1>4, TaskFrame
  <2>2. task[p].pc \in {"new", "confirm"}
    BY <1>4 DEF TaskStep, PrepareFails, ConfirmStored, ConfirmPending
  <2>3. \A q \in Pipelines \ {p} : task'[q] = task[q]
    <3>1. \E pc : SetTask(p, pc)
      BY <1>4 DEF TaskStep, PrepareFails, ConfirmStored, ConfirmPending
    <3> QED
      BY <3>1 DEF SetTask, TypeOK
  <2>4. lock[j] \in Pipelines => task'[lock[j]] = task[lock[j]]
    BY <1>0, <2>2, <2>3 DEF SendOk
  <2> QED
    BY <1>1, <2>1, <2>4
<1>5. ASSUME NEW i \in Instances, SenderStep(i) PROVE SendOk(j)'
  <2>0. lock[i] \in Pipelines => task[lock[i]].at = i
    <3>1. SendOk(i)
      BY DEF SendSound
    <3> QED
      BY <3>1 DEF SendOk
  <2>1. CASE j # i
    <3>1. lock'[j] = lock[j] /\ send'[j] = send[j]
      <4>1. CASE GoesOn(i)
        BY <2>1, <4>1 DEF GoesOn, TypeOK
      <4>2. CASE TakesRow(i)
        BY <2>1, <4>2 DEF TakesRow, TypeOK
      <4>3. ASSUME NEW pc, Leave(i, pc) PROVE lock'[j] = lock[j] /\ send'[j] = send[j]
        BY <2>1, <4>3 DEF Leave, TypeOK
      <4> QED
        BY <1>5, <4>1, <4>2, <4>3, SenderEffect
    <3>2. lock[j] \in Pipelines => lock[j] # lock[i]
      BY <1>0, <2>0, <2>1 DEF SendOk
    <3>3. \A q \in Pipelines : q # lock[i] => task'[q] = task[q]
      BY <1>5, SenderEffect DEF GoesOn, TakesRow, Leave, TypeOK
    <3> QED
      BY <1>1, <3>1, <3>2, <3>3
  <2>2. CASE j = i /\ GoesOn(i)
    <3>1. send'[i].pid = send[i].pid /\ UNCHANGED <<lock, task>>
      BY <2>2 DEF GoesOn, TypeOK
    <3> QED
      BY <1>0, <1>5, <2>2, <3>1, SenderProgress DEF SendOk, InTopic
  <2>3. CASE j = i /\ ~GoesOn(i)
    <3>1. lock'[i] \in {"free", "drain"}
          /\ (send'[i] = NoSend \/ \E p \in Pipelines : send'[i] = SendOf(p))
      <4>1. CASE TakesRow(i)
        BY <4>1 DEF TakesRow, TypeOK
      <4>2. ASSUME NEW pc, Leave(i, pc) PROVE lock'[i] = "free" /\ send'[i] = NoSend
        BY <4>2 DEF Leave, TypeOK
      <4>3. CASE Leave(i, "confirm") \/ Leave(i, "failed")
        BY <4>2, <4>3
      <4> QED
        BY <1>5, <2>3, <4>1, <4>3, SenderEffect
    <3>2. send'[i].step \in {"idle", "send"}
          /\ (send'[i].step = "send" => send'[i].pid \in Pipelines)
      <4>1. CASE send'[i] = NoSend
        BY <4>1 DEF NoSend
      <4>2. ASSUME NEW p \in Pipelines, send'[i] = SendOf(p)
            PROVE  send'[i].step = "send" /\ send'[i].pid \in Pipelines
        BY <4>2 DEF SendOf
      <4> QED
        BY <3>1, <4>1, <4>2
    <3>3. lock'[i] \notin Pipelines
      BY <3>1, DeliveryAssumption
    <3> QED
      BY <2>3, <3>2, <3>3 DEF SendOk
  <2> QED
    BY <2>1, <2>2, <2>3
<1>6. ASSUME NEW i \in Instances, ConsumerStep(i) PROVE SendOk(j)'
  BY <1>1, <1>6, ConsumerFrame
<1>7. ASSUME NEW i \in Instances, Crash(i) PROVE SendOk(j)'
  <2>1. CASE j # i
    <3>1. lock'[j] = lock[j] /\ send'[j] = send[j]
      BY <1>7, <2>1 DEF Crash, TypeOK
    <3>2. lock[j] \in Pipelines => task'[lock[j]] = task[lock[j]]
      BY <1>0, <1>7, <2>1 DEF Crash, SendOk
    <3> QED
      BY <1>1, <3>1, <3>2
  <2>2. CASE j = i
    <3>1. lock'[j] = "free" /\ send'[j] = NoSend
      BY <1>7, <2>2 DEF Crash, TypeOK
    <3> QED
      BY <3>1, DeliveryAssumption DEF NoSend, SendOk
  <2> QED
    BY <2>1, <2>2
<1>8. ASSUME NEW i \in Instances, Restart(i) PROVE SendOk(j)'
  BY <1>1, <1>8 DEF Restart
<1> QED
  BY <1>2, <1>3, <1>4, <1>5, <1>6, <1>7, <1>8 DEF Next

LEMMA TaskStepSound ==
    ASSUME TypeOK, SendSound, RowSound, TaskSound, [Next]_vars
    PROVE  TaskSound'
<1> SUFFICES ASSUME NEW q \in Pipelines
             PROVE  /\ task'[q].pc \in {"prepared", "sending"} => receipts'[q] # "absent"
                    /\ task'[q].pc \in {"confirm", "stored", "pending"}
                          => receipts'[q] = "published"
                    /\ task'[q].pc = "stored" => Stored(q)'
                    /\ receipts'[q] = "published" => InTopic(q)'
  BY DEF TaskSound
<1>0. /\ task[q].pc \in {"prepared", "sending"} => receipts[q] # "absent"
      /\ task[q].pc \in {"confirm", "stored", "pending"} => receipts[q] = "published"
      /\ task[q].pc = "stored" => Stored(q)
      /\ receipts[q] = "published" => InTopic(q)
  BY DEF TaskSound
<1>1. (InTopic(q) => InTopic(q)') /\ (Stored(q) => Stored(q)')
  BY GrowsStep, GrowsKeeps
<1> DEFINE Goal ==
       /\ task'[q].pc \in {"prepared", "sending"} => receipts'[q] # "absent"
       /\ task'[q].pc \in {"confirm", "stored", "pending"} => receipts'[q] = "published"
       /\ task'[q].pc = "stored" => Stored(q)'
       /\ receipts'[q] = "published" => InTopic(q)'
<1>2. ASSUME task'[q].pc \in {task[q].pc, "failed", "lost"}, receipts'[q] = receipts[q]
      PROVE  Goal
  BY <1>0, <1>1, <1>2
<1>3. CASE UNCHANGED vars
  BY <1>2, <1>3 DEF vars, durable
<1>4. ASSUME NEW i \in Instances, NEW p \in Pipelines, PublishStep(i, p) PROVE Goal
  <2>1. CASE Prepare(i, p)
    <3>1. CASE p = q
      BY <1>0, <1>1, <2>1, <3>1 DEF Prepare, TypeOK
    <3>2. CASE p # q
      BY <1>2, <2>1, <3>2 DEF Prepare, TypeOK
    <3> QED
      BY <3>1, <3>2
  <2>2. CASE Put(i, p)
    <3>1. CASE p = q
      BY <1>0, <1>1, <2>2, <3>1 DEF Put, SetTask, TypeOK, Tasks
    <3>2. CASE p # q
      BY <1>2, <2>2, <3>2 DEF Put, SetTask, TypeOK
    <3> QED
      BY <3>1, <3>2
  <2>3. CASE PutFails(i, p)
    BY <1>2, <2>3 DEF PutFails, SetTask, TypeOK, Tasks
  <2> QED
    BY <1>4, <2>1, <2>2, <2>3 DEF PublishStep
<1>5. ASSUME NEW p \in Pipelines, TaskStep(p) PROVE Goal
  <2>1. CASE PrepareFails(p)
    <3>1. task'[q].pc \in {task[q].pc, "failed"}
          /\ (receipts'[q] = receipts[q] \/ (receipts'[q] = "prepared" /\ task'[q].pc = "failed"))
      BY <2>1 DEF PrepareFails, SetTask, TypeOK, Tasks
    <3> QED
      BY <1>0, <1>1, <3>1
  <2>2. CASE ConfirmStored(p)
    <3>1. receipts' = receipts /\ task[p].pc = "confirm" /\ Stored(p)
      BY <2>2 DEF ConfirmStored, durable
    <3>2. task'[q].pc = IF q = p THEN "stored" ELSE task[q].pc
      BY <2>2 DEF ConfirmStored, SetTask, TypeOK, Tasks
    <3> QED
      BY <1>0, <1>1, <3>1, <3>2
  <2>3. CASE ConfirmPending(p)
    <3>1. receipts' = receipts /\ task[p].pc = "confirm"
      BY <2>3 DEF ConfirmPending, durable
    <3>2. task'[q].pc = IF q = p THEN "pending" ELSE task[q].pc
      BY <2>3 DEF ConfirmPending, SetTask, TypeOK, Tasks
    <3> QED
      BY <1>0, <1>1, <3>1, <3>2
  <2> QED
    BY <1>5, <2>1, <2>2, <2>3 DEF TaskStep
<1>6. ASSUME NEW i \in Instances, SenderStep(i) PROVE Goal
  <2>0. SendOk(i)
    BY DEF SendSound
  <2>1. CASE MarkPublished(i) \/ MarkPublishedFails(i)
    <3>1. /\ task' = task /\ send[i].step = "mark"
          /\ \/ receipts' = receipts
             \/ receipts' = [receipts EXCEPT ![send[i].pid] =
                                IF @ = "absent" THEN @ ELSE "published"]
      BY <2>1 DEF MarkPublished, MarkPublishedFails, MarkRow
    <3>2. \/ receipts'[q] = receipts[q]
          \/ receipts'[q] = "published" /\ receipts[q] # "absent" /\ q = send[i].pid
      <4>1. CASE q = send[i].pid
        BY <3>1, <4>1 DEF TypeOK
      <4>2. CASE q # send[i].pid
        BY <3>1, <4>2 DEF TypeOK
      <4> QED
        BY <4>1, <4>2
    <3>3. q = send[i].pid => InTopic(q)
      BY <2>0, <3>1 DEF SendOk
    <3> QED
      BY <1>0, <1>1, <3>1, <3>2, <3>3
  <2>2. CASE ~(MarkPublished(i) \/ MarkPublishedFails(i))
    <3>1. receipts' = receipts
      BY <1>6, <2>2 DEF SenderStep, Send, SendFails, DeleteRow, DeleteRowFails, GiveUp,
                        Drain, durable
    <3>2. CASE task' = task
      BY <1>2, <3>1, <3>2
    <3>3. CASE Leave(i, "failed")
      BY <1>2, <3>1, <3>3 DEF Leave, TypeOK, Tasks
    <3>4. CASE Leave(i, "confirm") /\ send[i].step = "delete"
      <4>1. CASE lock[i] = q
        <5>1. task[q].pc = "sending" /\ receipts[q] # "prepared"
          BY <2>0, <3>4, <4>1 DEF SendOk
        <5>2. receipts[q] = "published"
          BY <1>0, <5>1 DEF TypeOK
        <5>3. task'[q].pc = "confirm"
          BY <3>4, <4>1 DEF Leave, TypeOK, Tasks
        <5> QED
          BY <1>0, <1>1, <3>1, <5>2, <5>3
      <4>2. CASE lock[i] # q
        BY <1>2, <3>1, <3>4, <4>2 DEF Leave, TypeOK
      <4> QED
        BY <4>1, <4>2
    <3> QED
      BY <1>6, <3>2, <3>3, <3>4, SenderEffect DEF GoesOn, TakesRow
  <2> QED
    BY <2>1, <2>2
<1>7. ASSUME NEW i \in Instances, ConsumerStep(i) PROVE Goal
  BY <1>2, <1>7, ConsumerFrame
<1>8. ASSUME NEW i \in Instances, Crash(i) \/ Restart(i) PROVE Goal
  <2>1. receipts' = receipts
    BY <1>8, LifeFrame
  <2>2. task'[q].pc \in {task[q].pc, "lost"}
    <3>1. CASE Crash(i)
      BY <3>1 DEF Crash, TypeOK, Tasks
    <3>2. CASE Restart(i)
      BY <3>2 DEF Restart
    <3> QED
      BY <1>8, <3>1, <3>2
  <2> QED
    BY <1>2, <2>1, <2>2
<1> QED
  BY <1>3, <1>4, <1>5, <1>6, <1>7, <1>8 DEF Next

-----------------------------------------------------------------------------
(* The consumer's side *)

\* The keys of two pipelines are different.
LEMMA KeysDisjoint ==
    ASSUME NEW p, NEW q, p # q
    PROVE  SourceKeys(p) \cap SourceKeys(q) = {}
BY DEF SourceKeys

LEMMA ChunksStep ==
    ASSUME TypeOK, SendSound, ChunksSound, ConsSound, [Next]_vars
    PROVE  ChunksSound'
<1>0. Grows
  BY GrowsStep
<1>1. ASSUME chunks' = chunks PROVE ChunksSound'
  <2>1. \A p \in Pipelines : InTopic(p) => InTopic(p)'
    BY <1>0, GrowsKeeps
  <2> QED
    BY <1>1, <2>1 DEF ChunksSound, Stored, SourceKeys
<1>2. ASSUME NEW i \in Instances, ConsumerStep(i), chunks' # chunks PROVE ChunksSound'
  <2>1. cons[i].pc = "store" /\ chunks' = chunks \cup cons[i].missing
    BY <1>2 DEF ConsumerStep, Join, Rebalance, Fetch, ReadMissing, StoreChunks,
                ProcessFails, InsertChunks, DeadLetter, DeadLetterFails, Commit,
                CommitFails, durable
  <2> DEFINE m == log[cons[i].at]
  <2>2. /\ cons[i].at \in 1..Len(log)
        /\ cons[i].missing \subseteq SourceKeys(m)
        /\ SourceKeys(m) \subseteq chunks \cup cons[i].missing
    BY <2>1 DEF ConsSound
  <2>3. m \in Pipelines /\ InTopic(m)
    BY <2>2 DEF TypeOK, InTopic
  <2> SUFFICES ASSUME NEW p \in Pipelines
               PROVE  SourceKeys(p) \cap chunks' = {}
                      \/ (SourceKeys(p) \subseteq chunks' /\ InTopic(p)')
    BY DEF ChunksSound, Stored, SourceKeys
  <2>4. InTopic(p) => InTopic(p)'
    BY <1>0, GrowsKeeps
  <2>5. CASE p = m
    BY <2>1, <2>2, <2>3, <2>4, <2>5
  <2>6. CASE p # m
    <3>1. SourceKeys(p) \cap SourceKeys(m) = {}
      BY <2>6, KeysDisjoint
    <3>2. SourceKeys(p) \cap chunks' = SourceKeys(p) \cap chunks
      BY <2>1, <2>2, <3>1
    <3>3. SourceKeys(p) \cap chunks = {} \/ (SourceKeys(p) \subseteq chunks /\ InTopic(p))
      BY DEF ChunksSound, Stored
    <3> QED
      BY <2>1, <2>4, <3>2, <3>3
  <2> QED
    BY <2>5, <2>6
<1>3. \/ chunks' = chunks
      \/ \E i \in Instances : ConsumerStep(i)
  <2>1. CASE UNCHANGED vars
    BY <2>1 DEF vars, durable
  <2>2. CASE \E i \in Instances, p \in Pipelines : PublishStep(i, p)
    BY <2>2, PublishFrame
  <2>3. CASE \E p \in Pipelines : TaskStep(p)
    BY <2>3, TaskFrame
  <2>4. CASE \E i \in Instances : SenderStep(i)
    BY <2>4, SenderFrame
  <2>5. CASE \E i \in Instances : Crash(i) \/ Restart(i)
    BY <2>5, LifeFrame
  <2> QED
    BY <2>1, <2>2, <2>3, <2>4, <2>5 DEF Next
<1> QED
  BY <1>1, <1>2, <1>3

\* A consumer stays sound while the log, the chunks and the dead letters only grow.
ConsOk(i) ==
    cons[i].pc \notin {"down", "idle"} =>
        /\ cons[i].at \in 1..Len(log)
        /\ \A k \in 1..Len(log) : k < cons[i].at => Settled(log[k])
        /\ cons[i].pc = "store" =>
              /\ cons[i].missing \subseteq SourceKeys(log[cons[i].at])
              /\ SourceKeys(log[cons[i].at]) \subseteq chunks \cup cons[i].missing
        /\ cons[i].pc = "commit" => Settled(log[cons[i].at])

LEMMA SettledKept ==
    ASSUME TypeOK, Grows, NEW k \in 1..Len(log), Settled(log[k])
    PROVE  Settled(log[k])'
<1>1. PICK q \in Pipelines : q = log[k]
  BY DEF TypeOK
<1>2. Settled(q)'
  BY <1>1, GrowsKeeps
<1>3. q = log'[k]
  BY <1>1 DEF Grows
<1> QED
  BY <1>2, <1>3 DEF Settled, Stored, SourceKeys

LEMMA ConsUndisturbed ==
    ASSUME TypeOK, ConsSound, Grows, NEW j \in Instances, cons'[j] = cons[j]
    PROVE  ConsOk(j)'
<1>0. ConsOk(j)
  BY DEF ConsSound, ConsOk
<1> SUFFICES ASSUME cons[j].pc \notin {"down", "idle"}
             PROVE  /\ cons[j].at \in 1..Len(log)'
                    /\ \A k \in 1..Len(log)' : k < cons[j].at => Settled(log[k])'
                    /\ cons[j].pc = "store" =>
                          /\ cons[j].missing \subseteq SourceKeys(log[cons[j].at])'
                          /\ SourceKeys(log[cons[j].at])' \subseteq chunks' \cup cons[j].missing
                    /\ cons[j].pc = "commit" => Settled(log[cons[j].at])'
  BY DEF ConsOk, Settled, Stored, SourceKeys
<1>1. cons[j].at \in 1..Len(log) /\ cons[j].at \in 1..Len(log)'
  BY <1>0 DEF ConsOk, Grows, TypeOK
<1>2. log'[cons[j].at] = log[cons[j].at]
  BY <1>1 DEF Grows
<1>3. ASSUME NEW k \in 1..Len(log)', k < cons[j].at PROVE Settled(log[k])'
  <2>1. k \in 1..Len(log)
    BY <1>1, <1>3 DEF Grows, TypeOK
  <2>2. Settled(log[k])
    BY <1>0, <1>3, <2>1 DEF ConsOk
  <2> QED
    BY <2>1, <2>2, SettledKept
<1>4. ASSUME cons[j].pc = "store"
      PROVE  /\ cons[j].missing \subseteq SourceKeys(log[cons[j].at])'
             /\ SourceKeys(log[cons[j].at])' \subseteq chunks' \cup cons[j].missing
  BY <1>0, <1>2, <1>4 DEF ConsOk, Grows, SourceKeys
<1>5. ASSUME cons[j].pc = "commit" PROVE Settled(log[cons[j].at])'
  <2>1. Settled(log[cons[j].at])
    BY <1>0, <1>5 DEF ConsOk
  <2>2. PICK k \in 1..Len(log) : k = cons[j].at
    BY <1>1
  <2>3. Settled(log[k])'
    BY <2>1, <2>2, SettledKept
  <2> QED
    BY <2>2, <2>3 DEF Settled, Stored, SourceKeys
<1> QED
  BY <1>1, <1>3, <1>4, <1>5

LEMMA ConsStep ==
    ASSUME TypeOK, SendSound, ConsSound, OffsetSound, [Next]_vars
    PROVE  ConsSound'
<1>0. Grows
  BY GrowsStep
<1> SUFFICES ASSUME NEW j \in Instances PROVE ConsOk(j)'
  BY DEF ConsSound, ConsOk
<1>1. CASE cons'[j] = cons[j]
  BY <1>0, <1>1, ConsUndisturbed
<1>2. CASE cons'[j].pc \in {"down", "idle"}
  BY <1>2 DEF ConsOk
<1>3. ASSUME ConsumerStep(j), cons'[j] # cons[j] PROVE ConsOk(j)'
  <2>0. log' = log /\ ConsOk(j) /\ cons[j] \in Consumers
    BY <1>3, ConsumerFrame DEF ConsSound, ConsOk, TypeOK
  <2>1. \A c : SetCons(j, c) => cons'[j] = c
    BY DEF SetCons, TypeOK
  <2>2. ASSUME cons[j].at \in 1..Len(log), cons'[j].at = cons[j].at,
               cons[j].pc \notin {"down", "idle"}
        PROVE  \A k \in 1..Len(log)' : k < cons'[j].at => Settled(log[k])'
    <3> SUFFICES ASSUME NEW k \in 1..Len(log), k < cons[j].at PROVE Settled(log[k])'
      BY <2>0, <2>2
    <3>1. Settled(log[k])
      BY <2>0, <2>2 DEF ConsOk
    <3> QED
      BY <1>0, <3>1, SettledKept
  <2>3. CASE Join(j)
    BY <1>2, <2>1, <2>3 DEF Join, Idle, Down
  <2>4. CASE Rebalance(j)
    BY <1>3, <2>4 DEF Rebalance
  <2>5. CASE Fetch(j)
    <3>1. cons'[j] = [pc |-> "read", at |-> offset + 1, attempt |-> 1, missing |-> {}]
          /\ offset < Len(log) /\ UNCHANGED <<chunks, dlq>>
      BY <2>1, <2>5 DEF Fetch, durable
    <3>2. \A k \in 1..Len(log) : k < offset + 1 => Settled(log[k])
      BY DEF OffsetSound, CommittedIsSettled, TypeOK
    <3>3. offset + 1 \in 1..Len(log)
      BY <3>1 DEF TypeOK
    <3> QED
      BY <2>0, <3>1, <3>2, <3>3 DEF ConsOk, Settled, Stored, SourceKeys
  <2>6. CASE ReadMissing(j)
    <3> DEFINE missing == SourceKeys(log[cons[j].at]) \ chunks
    <3>1. cons'[j] = [pc |-> IF missing = {} THEN "commit" ELSE "store",
                      at |-> cons[j].at, attempt |-> cons[j].attempt, missing |-> missing]
          /\ UNCHANGED <<chunks, dlq>> /\ cons[j].pc = "read"
      BY <2>1, <2>6 DEF ReadMissing, durable
    <3>2. cons[j].at \in 1..Len(log)
      BY <2>0, <3>1 DEF ConsOk
    <3>3. \A k \in 1..Len(log)' : k < cons'[j].at => Settled(log[k])'
      BY <2>2, <3>1, <3>2
    <3>4. cons'[j].pc = "commit" => Settled(log[cons[j].at])
      BY <3>1 DEF Settled, Stored
    <3>5. cons'[j].pc = "commit" => Settled(log[cons[j].at])'
      BY <2>0, <3>1, <3>4 DEF Settled, Stored, SourceKeys
    <3> QED
      BY <2>0, <3>1, <3>2, <3>3, <3>5 DEF ConsOk, Settled, Stored, SourceKeys
  <2>7. CASE StoreChunks(j)
    <3>1. cons'[j] = [cons[j] EXCEPT !.pc = "commit"] /\ cons[j].pc = "store"
          /\ chunks' = chunks \cup cons[j].missing /\ dlq' = dlq
      BY <2>1, <2>7 DEF StoreChunks, InsertChunks
    <3>2. cons'[j].pc = "commit" /\ cons'[j].at = cons[j].at
      BY <2>0, <3>1 DEF Consumers
    <3>3. cons[j].at \in 1..Len(log) /\ SourceKeys(log[cons[j].at]) \subseteq chunks'
      BY <2>0, <3>1 DEF ConsOk
    <3>4. \A k \in 1..Len(log)' : k < cons'[j].at => Settled(log[k])'
      BY <2>2, <3>1, <3>2, <3>3
    <3> QED
      BY <2>0, <3>2, <3>3, <3>4 DEF ConsOk, Settled, Stored, SourceKeys
  <2>8. CASE ProcessFails(j)
    <3>1. cons'[j].pc \in {"read", "dlq"} /\ cons'[j].at = cons[j].at
      BY <2>0, <2>1, <2>8 DEF ProcessFails, Consumers
    <3>2. cons[j].pc \in {"read", "store"}
      BY <2>8 DEF ProcessFails
    <3>3. cons[j].at \in 1..Len(log)
      BY <2>0, <3>2 DEF ConsOk
    <3>4. \A k \in 1..Len(log)' : k < cons'[j].at => Settled(log[k])'
      BY <2>2, <3>1, <3>2, <3>3
    <3> QED
      BY <2>0, <3>1, <3>3, <3>4 DEF ConsOk
  <2>9. CASE DeadLetter(j)
    <3>1. cons'[j] = [cons[j] EXCEPT !.pc = "commit"] /\ cons[j].pc = "dlq"
          /\ dlq' = dlq \cup {log[cons[j].at]}
      BY <2>1, <2>9 DEF DeadLetter
    <3>2. cons'[j].pc = "commit" /\ cons'[j].at = cons[j].at
      BY <2>0, <3>1 DEF Consumers
    <3>3. cons[j].at \in 1..Len(log)
      BY <2>0, <3>1 DEF ConsOk
    <3>4. \A k \in 1..Len(log)' : k < cons'[j].at => Settled(log[k])'
      BY <2>2, <3>1, <3>2, <3>3
    <3> QED
      BY <2>0, <3>1, <3>2, <3>3, <3>4 DEF ConsOk, Settled
  <2>10. CASE DeadLetterFails(j) \/ CommitFails(j)
    BY <1>2, <2>1, <2>10 DEF DeadLetterFails, CommitFails, Leaves, Down
  <2>11. CASE Commit(j)
    BY <1>2, <2>1, <2>11 DEF Commit, Idle, Down
  <2> QED
    BY <1>3, <2>3, <2>4, <2>5, <2>6, <2>7, <2>8, <2>9, <2>10, <2>11 DEF ConsumerStep
<1>4. \/ cons'[j] = cons[j]
      \/ ConsumerStep(j)
      \/ cons'[j].pc = "down"
  <2>1. CASE UNCHANGED vars
    BY <2>1 DEF vars
  <2>2. CASE \E i \in Instances, p \in Pipelines : PublishStep(i, p)
    BY <2>2, PublishFrame
  <2>3. CASE \E p \in Pipelines : TaskStep(p)
    BY <2>3, TaskFrame
  <2>4. CASE \E i \in Instances : SenderStep(i)
    BY <2>4, SenderFrame
  <2>5. ASSUME NEW i \in Instances, ConsumerStep(i), i # j PROVE cons'[j] = cons[j]
    <3>1. cons' = cons \/ \E c : SetCons(i, c)
      BY <2>5 DEF ConsumerStep, Join, Rebalance, Leaves, Fetch, ReadMissing, StoreChunks,
                  ProcessFails, DeadLetter, DeadLetterFails, Commit, CommitFails
    <3> QED
      BY <2>5, <3>1 DEF SetCons, TypeOK
  <2>6. ASSUME NEW i \in Instances, Crash(i) PROVE cons'[j] = cons[j] \/ cons'[j].pc = "down"
    <3>1. SetCons(i, Down)
      BY <2>6 DEF Crash, Leaves
    <3> QED
      BY <3>1 DEF SetCons, Down, TypeOK
  <2>7. CASE \E i \in Instances : Restart(i)
    BY <2>7 DEF Restart
  <2> QED
    BY <2>1, <2>2, <2>3, <2>4, <2>5, <2>6, <2>7 DEF Next
<1> QED
  BY <1>1, <1>2, <1>3, <1>4

LEMMA OffsetStep ==
    ASSUME TypeOK, SendSound, ConsSound, OffsetSound, [Next]_vars
    PROVE  OffsetSound'
<1>0. Grows
  BY GrowsStep
<1>1. Len(log) \in Nat /\ offset <= Len(log)
      /\ \A k \in 1..Len(log) : k <= offset => Settled(log[k])
  BY DEF TypeOK, OffsetSound, CommittedIsSettled
<1>2. ASSUME offset' = offset PROVE OffsetSound'
  <2>1. offset' <= Len(log)'
    BY <1>0, <1>1, <1>2 DEF Grows, TypeOK
  <2> SUFFICES ASSUME NEW k \in 1..Len(log)', k <= offset PROVE Settled(log[k])'
    BY <1>2, <2>1 DEF OffsetSound, CommittedIsSettled
  <2>2. k \in 1..Len(log)
    BY <1>0, <1>1 DEF Grows, TypeOK
  <2> QED
    BY <1>0, <1>1, <2>2, SettledKept
<1>3. ASSUME NEW i \in Instances, ConsumerStep(i), offset' # offset PROVE OffsetSound'
  <2>1. log' = log
    BY <1>3, ConsumerFrame
  <2>2. cons[i].pc = "commit" /\ offset' = cons[i].at
    BY <1>3 DEF ConsumerStep, Join, Rebalance, Fetch, ReadMissing, StoreChunks,
                ProcessFails, DeadLetter, DeadLetterFails, Commit, CommitFails, durable
  <2>3. /\ cons[i].at \in 1..Len(log)
        /\ \A k \in 1..Len(log) : k < cons[i].at => Settled(log[k])
        /\ Settled(log[cons[i].at])
    BY <2>2 DEF ConsSound
  <2>4. offset' \in 1..Len(log)
    BY <2>2, <2>3
  <2> SUFFICES ASSUME NEW k \in 1..Len(log), k <= cons[i].at PROVE Settled(log[k])'
    BY <2>1, <2>2, <2>4 DEF OffsetSound, CommittedIsSettled
  <2>5. Settled(log[k])
    BY <2>3
  <2> QED
    BY <1>0, <2>5, SettledKept
<1>4. offset' = offset \/ \E i \in Instances : ConsumerStep(i)
  <2>1. CASE UNCHANGED vars
    BY <2>1 DEF vars, durable
  <2>2. CASE \E i \in Instances, p \in Pipelines : PublishStep(i, p)
    BY <2>2, PublishFrame
  <2>3. CASE \E p \in Pipelines : TaskStep(p)
    BY <2>3, TaskFrame
  <2>4. CASE \E i \in Instances : SenderStep(i)
    BY <2>4, SenderFrame
  <2>5. CASE \E i \in Instances : Crash(i) \/ Restart(i)
    BY <2>5, LifeFrame
  <2> QED
    BY <2>1, <2>2, <2>3, <2>4, <2>5 DEF Next
<1> QED
  BY <1>2, <1>3, <1>4

LEMMA TypeStep ==
    ASSUME TypeOK, SendSound, ConsSound, [Next]_vars
    PROVE  TypeOK'
<1>1. CASE UNCHANGED vars
  BY <1>1 DEF TypeOK, vars, durable
<1> QED
  BY <1>1, TypePublish, TypeTask, TypeSender, TypeConsumer, TypeLife DEF Next

-----------------------------------------------------------------------------
(* The theorems *)

LEMMA InitIInv == Init => IInv
<1> SUFFICES ASSUME Init PROVE IInv
  OBVIOUS
<1>1. TypeOK
  BY DEF Init, TypeOK, Sends, Consumers, Tasks, Steps, ConsPcs, TaskPcs, NoSend, Down
<1>2. SendSound
  BY DeliveryAssumption DEF Init, SendSound, SendOk, NoSend
<1>3. RowSound
  BY DeliveryAssumption DEF Init, RowSound, NoSend
<1>4. TaskSound /\ ChunksSound
  BY DEF Init, TaskSound, ChunksSound
<1>5. ConsSound /\ OffsetSound
  BY DEF Init, ConsSound, OffsetSound, CommittedIsSettled, Down
<1> QED
  BY <1>1, <1>2, <1>3, <1>4, <1>5 DEF IInv

\* IInv is preserved by every step of publishers, drains, consumers and crashes.
THEOREM IInvInductive == Spec => []IInv
<1>1. IInv /\ [Next]_vars => IInv'
  BY TypeStep, SendStep, RowStep, TaskStepSound, ChunksStep, ConsStep, OffsetStep DEF IInv
<1> QED
  BY InitIInv, <1>1, PTL DEF Spec

\* The tables, the topic and every instance's state stay well formed.
THEOREM TypeCorrect == Spec => []TypeOK
<1>1. IInv => TypeOK
  BY DEF IInv
<1> QED
  BY <1>1, IInvInductive, PTL

\* No committed offset covers an event that is neither stored nor dead-lettered,
\* whatever the group of consumers does and wherever it crashes.
THEOREM CommitsOnlySettled == Spec => []CommittedIsSettled
<1>1. IInv => CommittedIsSettled
  BY DEF IInv, OffsetSound
<1> QED
  BY <1>1, IInvInductive, PTL

\* An event's chunks are all in the table or none of them is.
THEOREM StoresWholeEvents == Spec => []AllOrNothing
<1>1. IInv => AllOrNothing
  BY DEF IInv, ChunksSound, AllOrNothing, Stored
<1> QED
  BY <1>1, IInvInductive, PTL

\* A published receipt, and a chunk, are of an event the topic holds.
THEOREM PublishedIsReal == Spec => []PublishedIsInTopic
<1>1. IInv => PublishedIsInTopic
  BY DEF IInv, TaskSound, ChunksSound, PublishedIsInTopic
<1> QED
  BY <1>1, IInvInductive, PTL

\* The answer given to a pipeline and GET /storage agree for good.
THEOREM AnswersAgree == Spec => []AnswerAgrees
<1>1. IInv => AnswerAgrees
  BY DEF IInv, TaskSound, AnswerAgrees, StorageStatus
<1> QED
  BY <1>1, IInvInductive, PTL

\* Neither a receipt nor an answer says more than the topic and the tables hold.
THEOREM AnswersStayTrue == Spec => []AnswersAreTrue
<1>1. PublishedIsInTopic /\ AnswerAgrees => AnswersAreTrue
  BY DEF AnswersAreTrue
<1> QED
  BY <1>1, PublishedIsReal, AnswersAgree, PTL

\* Nothing ever takes an accepted result out of both the outbox and the topic.
THEOREM NothingIsLost == Spec => AcceptedIsKept
<1>1. IInv /\ [Next]_vars => [\A p \in Pipelines : Accepted(p) => Accepted(p)']_vars
  <2> SUFFICES ASSUME IInv, [Next]_vars, NEW p \in Pipelines, Accepted(p)
               PROVE  Accepted(p)'
    OBVIOUS
  <2>0. TypeOK /\ SendSound
    BY DEF IInv
  <2>1. InTopic(p) => InTopic(p)'
    BY <2>0, GrowsStep, GrowsKeeps
  <2>2. p \in outbox \ outbox' => InTopic(p)
    <3>1. CASE \E i \in Instances : SenderStep(i)
      <4>1. PICK i \in Instances : SenderStep(i)
        BY <3>1
      <4>2. outbox' = outbox \/ (send[i].step = "delete" /\ outbox' = outbox \ {send[i].pid})
        BY <4>1 DEF SenderStep, Send, SendFails, MarkPublished, MarkPublishedFails,
                    DeleteRow, DeleteRowFails, GiveUp, Drain, durable
      <4> QED
        BY <2>0, <4>2 DEF SendSound, SendOk
    <3>2. CASE UNCHANGED vars
      BY <3>2 DEF vars, durable
    <3>3. CASE \E i \in Instances, q \in Pipelines : PublishStep(i, q)
      BY <3>3 DEF PublishStep, Prepare, Put, PutFails, InsertRow
    <3>4. CASE \E q \in Pipelines : TaskStep(q)
      BY <3>4, TaskFrame
    <3>5. CASE \E i \in Instances : ConsumerStep(i) \/ Crash(i) \/ Restart(i)
      BY <3>5, ConsumerFrame, LifeFrame
    <3> QED
      BY <3>1, <3>2, <3>3, <3>4, <3>5 DEF Next
  <2> QED
    BY <2>1, <2>2 DEF Accepted
<1> QED
  BY <1>1, IInvInductive, PTL DEF AcceptedIsKept, Spec

-----------------------------------------------------------------------------
(* What every copy of an event is owed to *)

\* An instance whose lock is free has nothing in its hands, and no row is in the
\* hands of a sender and in the rest of its batch at once.
HandsSound ==
    \A i \in Instances :
        /\ lock[i] = "free" => send[i] = NoSend /\ batch[i] = {}
        /\ send[i].pid \notin batch[i]

\* i can still append p without another failure: it has p in its hands, or can find
\* its row; not after the append, unless a mark or a delete fails.
MaySend(i, p) ==
    /\ ~(send[i].pid = p /\ send[i].step \in {"mark", "delete"})
    /\ \/ p \in outbox
       \/ task[p].pc \in {"new", "prepared"}
       \/ p \in batch[i]
       \/ send[i].pid = p

Senders(p) == {i \in Instances : MaySend(i, p)}

Paid == faults + crashes

\* Every copy so far and every copy to come without another failure is accounted for.
Accounted(p) == Copies(p) + Cardinality(Senders(p)) <= Cardinality(Instances) + Paid
CopiesInv == \A p \in Pipelines : Accounted(p)

\* How a step may change the account of p.
NoCopy(p) == UNCHANGED log \/ \E q \in Pipelines \ {p} : log' = Append(log, q)
Charged(p) ==
    \/ NoCopy(p) /\ Senders(p)' \subseteq Senders(p) /\ Paid' >= Paid
    \/ /\ Paid' = Paid + 1
       /\ NoCopy(p)
       /\ \E i \in Instances : Senders(p)' \subseteq Senders(p) \cup {i}
    \/ /\ Paid' = Paid + 1
       /\ log' = Append(log, p)
       /\ Senders(p)' \subseteq Senders(p)
    \/ /\ Paid' = Paid
       /\ log' = Append(log, p)
       /\ \E i \in Senders(p) : Senders(p)' \subseteq Senders(p) \ {i}

\* How often p occurs in s; Copies(p) is Occurrences(log, p).
Occurrences(s, p) == Cardinality({k \in 1..Len(s) : s[k] = p})

LEMMA OccurrencesType ==
    ASSUME NEW s \in Seq(Pipelines), NEW p \in Pipelines
    PROVE  Occurrences(s, p) \in Nat
<1>0. Len(s) \in Nat /\ 1 \in Int
  OBVIOUS
<1>1. IsFiniteSet(1..Len(s))
  BY <1>0, FS_Interval
<1>2. IsFiniteSet({k \in 1..Len(s) : s[k] = p})
  BY <1>1, FS_Subset
<1> QED
  BY <1>2, FS_CardinalityType DEF Occurrences

LEMMA CopiesCount ==
    ASSUME NEW s \in Seq(Pipelines), NEW q \in Pipelines, NEW p \in Pipelines
    PROVE  Occurrences(Append(s, q), p) =
             IF p = q THEN Occurrences(s, p) + 1 ELSE Occurrences(s, p)
<1> DEFINE t == Append(s, q)
           A == {k \in 1..Len(s) : s[k] = p}
           B == {k \in 1..Len(t) : t[k] = p}
<1>1. Len(s) \in Nat /\ 1 \in Int
  OBVIOUS
<1>2. IsFiniteSet(1..Len(s))
  BY <1>1, FS_Interval
<1>3. IsFiniteSet(A)
  BY <1>2, FS_Subset
<1>4. /\ Len(t) = Len(s) + 1
      /\ t[Len(s) + 1] = q
      /\ \A k \in 1..Len(s) : t[k] = s[k]
  OBVIOUS
<1>5. CASE p = q
  <2>1. B = A \cup {Len(s) + 1}
    BY <1>1, <1>4, <1>5
  <2>2. Len(s) + 1 \notin A
    BY <1>1
  <2>3. Cardinality(A \cup {Len(s) + 1}) = Cardinality(A) + 1
    BY <1>3, <2>2, FS_AddElement
  <2> QED
    BY <1>5, <2>1, <2>3 DEF Occurrences
<1>6. CASE p # q
  <2>1. B = A
    BY <1>1, <1>4, <1>6
  <2> QED
    BY <1>6, <2>1 DEF Occurrences
<1> QED
  BY <1>5, <1>6

LEMMA ChargedKeeps ==
    ASSUME TypeOK, TypeOK', NEW p \in Pipelines, Charged(p), Accounted(p)
    PROVE  Accounted(p)'
<1>1. /\ IsFiniteSet(Instances) /\ Cardinality(Instances) \in Nat
  BY DeliveryAssumption, FS_CardinalityType
<1>2. ASSUME NEW S \in SUBSET Instances PROVE IsFiniteSet(S) /\ Cardinality(S) \in Nat
  BY <1>1, FS_Subset, FS_CardinalityType
<1>3. Senders(p) \in SUBSET Instances /\ Senders(p)' \in SUBSET Instances
  BY DEF Senders
<1>4. ASSUME NEW S \in SUBSET Instances, NEW T \in SUBSET S PROVE Cardinality(T) <= Cardinality(S)
  BY <1>2, FS_Subset
<1>5. Paid \in Nat /\ Paid' \in Nat
  <2>1. faults \in Nat /\ crashes \in Nat
    BY DEF TypeOK
  <2>2. faults' \in Nat /\ crashes' \in Nat
    BY DEF TypeOK
  <2>3. Paid \in Nat
    BY <2>1 DEF Paid
  <2>4. Paid' \in Nat
    <3>1. \A a, b \in Nat : a + b \in Nat
      OBVIOUS
    <3>2. Paid' = faults' + crashes'
      BY DEF Paid
    <3> QED
      BY <2>2, <3>1, <3>2
  <2> QED
    BY <2>3, <2>4
<1>6. Copies(p) \in Nat /\ Copies(p) = Occurrences(log, p) /\ Copies(p)' = Occurrences(log', p)
  <2>1. Copies(p) = Occurrences(log, p) /\ Copies(p)' = Occurrences(log', p)
    BY DEF Copies, Occurrences
  <2>2. log \in Seq(Pipelines)
    BY DEF TypeOK
  <2> QED
    BY <2>1, <2>2, OccurrencesType
<1>7. NoCopy(p) => Copies(p)' = Copies(p)
  <2>1. ASSUME NEW q \in Pipelines \ {p}, log' = Append(log, q) PROVE Copies(p)' = Copies(p)
    <3>1. log \in Seq(Pipelines) /\ q \in Pipelines /\ p # q
      BY DEF TypeOK
    <3>2. Occurrences(Append(log, q), p) = Occurrences(log, p)
      BY <3>1, CopiesCount
    <3> QED
      BY <1>6, <2>1, <3>2
  <2>2. log' = log => Copies(p)' = Copies(p)
    BY <1>6
  <2> QED
    BY <2>1, <2>2 DEF NoCopy
<1>8. log' = Append(log, p) => Copies(p)' = Copies(p) + 1
  <2> SUFFICES ASSUME log' = Append(log, p) PROVE Copies(p)' = Copies(p) + 1
    OBVIOUS
  <2>1. log \in Seq(Pipelines)
    BY DEF TypeOK
  <2>2. Occurrences(Append(log, p), p) = Occurrences(log, p) + 1
    BY <2>1, CopiesCount
  <2> QED
    BY <1>6, <2>2
<1> DEFINE c == Copies(p)
           d == Copies(p)'
           S == Senders(p)
           T == Senders(p)'
<1>9. Cardinality(S) \in Nat /\ Cardinality(T) \in Nat
  BY <1>2, <1>3
<1>14. c + Cardinality(S) <= Cardinality(Instances) + Paid
  BY DEF Accounted
<1> SUFFICES d + Cardinality(T) <= Cardinality(Instances) + Paid'
  BY DEF Accounted
<1>10. CASE NoCopy(p) /\ T \subseteq S /\ Paid' >= Paid
  <2>1. d = c /\ Cardinality(T) <= Cardinality(S)
    BY <1>3, <1>4, <1>7, <1>10
  <2> QED
    BY <1>1, <1>5, <1>6, <1>9, <1>14, <1>10, <2>1
<1>11. CASE Paid' = Paid + 1 /\ NoCopy(p) /\ \E i \in Instances : T \subseteq S \cup {i}
  <2>1. PICK i \in Instances : T \subseteq S \cup {i}
    BY <1>11
  <2>2. Cardinality(T) <= Cardinality(S \cup {i})
    BY <1>3, <1>4, <2>1
  <2>3. Cardinality(S \cup {i}) <= Cardinality(S) + 1
    BY <1>2, <1>3, <1>9, FS_AddElement
  <2>4. Cardinality(S \cup {i}) \in Nat
    BY <1>2, <1>3
  <2>5. d = c
    BY <1>7, <1>11
  <2> QED
    BY <1>1, <1>5, <1>6, <1>9, <1>14, <1>11, <2>2, <2>3, <2>4, <2>5
<1>12. CASE Paid' = Paid + 1 /\ log' = Append(log, p) /\ T \subseteq S
  <2>1. d = c + 1 /\ Cardinality(T) <= Cardinality(S)
    BY <1>3, <1>4, <1>8, <1>12
  <2> QED
    BY <1>1, <1>5, <1>6, <1>9, <1>14, <1>12, <2>1
<1>13. CASE Paid' = Paid /\ log' = Append(log, p) /\ \E i \in S : T \subseteq S \ {i}
  <2>1. PICK i \in S : T \subseteq S \ {i}
    BY <1>13
  <2>2. Cardinality(T) <= Cardinality(S \ {i})
    BY <1>3, <1>4, <2>1
  <2>3. Cardinality(S \ {i}) = Cardinality(S) - 1
    BY <1>2, <1>3, FS_RemoveElement
  <2>4. d = c + 1
    BY <1>8, <1>13
  <2> QED
    BY <1>1, <1>5, <1>6, <1>9, <1>14, <1>13, <2>2, <2>3, <2>4
<1> QED
  BY <1>10, <1>11, <1>12, <1>13 DEF Charged

\* Every step under a lock keeps to the rows that the lock was taken for.
LEMMA HandsStep ==
    ASSUME TypeOK, HandsSound, [Next]_vars
    PROVE  HandsSound'
<1>0. "free" \notin Pipelines
  BY DeliveryAssumption
<1>a. /\ send \in [Instances -> Sends] /\ batch \in [Instances -> SUBSET Pipelines]
      /\ lock \in [Instances -> Pipelines \cup {"free", "drain"}]
  BY DEF TypeOK
<1>1. ASSUME NEW i \in Instances, NEW p \in Pipelines, PublishStep(i, p) PROVE HandsSound'
  <2>1. CASE Put(i, p)
    <3>1. send' = [send EXCEPT ![i] = SendOf(p)] /\ lock' = [lock EXCEPT ![i] = p] /\ batch' = batch /\ batch[i] = {}
      BY <2>1 DEF Put, HandsSound
    <3> QED
      BY <1>0, <1>a, <3>1 DEF HandsSound
  <2>2. CASE Prepare(i, p) \/ PutFails(i, p)
    BY <2>2 DEF Prepare, PutFails, HandsSound
  <2> QED
    BY <1>1, <2>1, <2>2 DEF PublishStep
<1>2. ASSUME NEW p \in Pipelines, TaskStep(p) PROVE HandsSound'
  BY <1>2, TaskFrame DEF HandsSound
<1>3. ASSUME NEW i \in Instances, SenderStep(i) PROVE HandsSound'
  <2>1. ASSUME NEW pc, Leave(i, pc) PROVE HandsSound'
    BY <1>a, <2>1 DEF Leave, HandsSound, NoSend
  <2>2. ASSUME UNCHANGED <<lock, batch>>, send[i].step # "idle",
               \E r : r.pid = send[i].pid /\ send' = [send EXCEPT ![i] = r]
        PROVE  HandsSound'
    <3>1. PICK r : r.pid = send[i].pid /\ send' = [send EXCEPT ![i] = r]
      BY <2>2
    <3>2. lock[i] # "free"
      BY <2>2 DEF HandsSound, NoSend
    <3>3. /\ send'[i].pid = send[i].pid
          /\ \A j \in Instances \ {i} : send'[j] = send[j]
      BY <1>a, <3>1
    <3> QED
      BY <2>2, <3>2, <3>3 DEF HandsSound
  <2>3. AttemptFails(i) => \E r : r.pid = send[i].pid /\ send' = [send EXCEPT ![i] = r]
    <3> DEFINE r == IF send[i].attempt < MaxPublishRetry
                    THEN [pid |-> send[i].pid, attempt |-> send[i].attempt + 1, step |-> "send"]
                    ELSE [send[i] EXCEPT !.step = "error"]
    <3>1. r.pid = send[i].pid
      BY <1>a DEF Sends
    <3>2. AttemptFails(i) => send' = [send EXCEPT ![i] = r]
      BY DEF AttemptFails
    <3> QED
      BY <3>1, <3>2
  <2>4. \A s \in Steps : send' = [send EXCEPT ![i].step = s] =>
            \E r : r.pid = send[i].pid /\ send' = [send EXCEPT ![i] = r]
    <3> TAKE s \in Steps
    <3>1. [send[i] EXCEPT !.step = s].pid = send[i].pid
      BY <1>a DEF Sends
    <3> QED
      BY <3>1
  <2>5. CASE Send(i) \/ MarkPublished(i)
    BY <2>2, <2>4, <2>5 DEF Send, MarkPublished, Steps
  <2>6. CASE SendFails(i) \/ MarkPublishedFails(i) \/ DeleteRowFails(i)
    BY <2>2, <2>3, <2>6 DEF SendFails, MarkPublishedFails, DeleteRowFails
  <2>7. CASE DeleteRow(i)
    <3>1. CASE Leave(i, "confirm")
      BY <2>1, <3>1
    <3>2. CASE ~Leave(i, "confirm")
      <4>1. PICK p \in Oldest(batch[i]) :
              /\ lock[i] = "drain"
              /\ send' = [send EXCEPT ![i] = SendOf(p)]
              /\ batch' = [batch EXCEPT ![i] = @ \ {p}]
              /\ UNCHANGED lock
        BY <2>7, <3>2 DEF DeleteRow
      <4> QED
        BY <1>a, <4>1 DEF HandsSound, SendOf
    <3> QED
      BY <3>1, <3>2
  <2>8. CASE GiveUp(i)
    BY <2>1, <2>8 DEF GiveUp
  <2>9. CASE Drain(i)
    <3>1. PICK p \in Oldest(Pending) :
            /\ send' = [send EXCEPT ![i] = SendOf(p)]
            /\ batch' = [batch EXCEPT ![i] = Pending \ {p}]
            /\ lock' = [lock EXCEPT ![i] = "drain"]
      BY <2>9 DEF Drain
    <3> QED
      BY <1>a, <3>1 DEF HandsSound, SendOf
  <2> QED
    BY <1>3, <2>5, <2>6, <2>7, <2>8, <2>9 DEF SenderStep
<1>4. ASSUME NEW i \in Instances, ConsumerStep(i) PROVE HandsSound'
  BY <1>4, ConsumerFrame DEF HandsSound
<1>5. ASSUME NEW i \in Instances, Crash(i) PROVE HandsSound'
  BY <1>a, <1>5 DEF Crash, HandsSound, NoSend
<1>6. ASSUME NEW i \in Instances, Restart(i) PROVE HandsSound'
  BY <1>6 DEF Restart, HandsSound
<1>7. CASE UNCHANGED vars
  BY <1>7 DEF vars, HandsSound
<1> QED
  BY <1>1, <1>2, <1>3, <1>4, <1>5, <1>6, <1>7 DEF Next

\* A step that appends nothing and leaves every instance's claim as it was, or less.
LEMMA NothingCharged ==
    ASSUME NEW p \in Pipelines, NoCopy(p), Paid' >= Paid,
           \A j \in Instances : MaySend(j, p)' => MaySend(j, p)
    PROVE  Charged(p)
BY DEF Charged, Senders

\* A failure pays for one claim more.
LEMMA FailureCharged ==
    ASSUME NEW p \in Pipelines, NEW i \in Instances, NoCopy(p), Paid' = Paid + 1,
           \A j \in Instances \ {i} : MaySend(j, p)' => MaySend(j, p)
    PROVE  Charged(p)
<1>1. Senders(p)' \subseteq Senders(p) \cup {i}
  BY DEF Senders
<1> QED
  BY <1>1 DEF Charged

LEMMA PaidTypes == ASSUME TypeOK PROVE faults \in Nat /\ crashes \in Nat /\ Paid >= Paid
  BY DEF TypeOK, Paid

\* What the other instances may send changes only with the row and the call.
LEMMA OthersMaySend ==
    ASSUME NEW p \in Pipelines, NEW j \in Instances,
           send'[j] = send[j], batch'[j] = batch[j],
           p \in outbox' => p \in outbox,
           task'[p].pc \in {"new", "prepared"} => task[p].pc \in {"new", "prepared"},
           MaySend(j, p)'
    PROVE  MaySend(j, p)
BY DEF MaySend

LEMMA ChargedPublish ==
    ASSUME TypeOK, HandsSound, NEW i \in Instances, NEW r \in Pipelines, PublishStep(i, r),
           NEW p \in Pipelines
    PROVE  Charged(p)
<1>0. "free" \notin Pipelines
  BY DeliveryAssumption
<1>a. /\ task \in [Pipelines -> Tasks] /\ send \in [Instances -> Sends]
      /\ faults \in Nat /\ crashes \in Nat
  BY DEF TypeOK
<1>1. NoCopy(p) /\ batch' = batch /\ crashes' = crashes
  BY PublishFrame DEF NoCopy
<1>2. Paid' >= Paid
  <2>1. faults' = faults \/ faults' = faults + 1
    BY DEF PublishStep, Prepare, Put, PutFails, Fault
  <2> QED
    BY <1>a, <1>1, <2>1 DEF Paid
<1>3. CASE Prepare(i, r)
  BY <1>a, <1>1, <1>2, <1>3, NothingCharged DEF Prepare, MaySend
<1>4. CASE PutFails(i, r)
  <2>1. task[r].pc = "prepared" /\ outbox' \subseteq outbox \cup {r} /\ send' = send
    BY <1>4 DEF PutFails, InsertRow
  <2>2. task' = [task EXCEPT ![r].pc = "failed"]
    BY <1>4 DEF PutFails, SetTask
  <2>3. \A q \in Pipelines \ {r} : task'[q] = task[q]
    BY <1>a, <2>2
  <2>4. \A j \in Instances : MaySend(j, p)' => MaySend(j, p)
    BY <1>1, <2>1, <2>3 DEF MaySend
  <2> QED
    BY <1>1, <1>2, <2>4, NothingCharged
<1>5. CASE Put(i, r)
  <2>1. task[r].pc = "prepared" /\ outbox' \subseteq outbox \cup {r}
    BY <1>5 DEF Put, InsertRow
  <2>2. task' = [task EXCEPT ![r].pc = "sending"]
    BY <1>5 DEF Put, SetTask
  <2>3. \A q \in Pipelines \ {r} : task'[q] = task[q]
    BY <1>a, <2>2
  <2>4. /\ send[i].pid = "free" /\ send'[i].pid = r /\ \A j \in Instances \ {i} : send'[j] = send[j]
    BY <1>a, <1>5 DEF Put, HandsSound, NoSend, SendOf
  <2>5. \A j \in Instances : MaySend(j, p)' => MaySend(j, p)
    BY <1>0, <1>1, <2>1, <2>3, <2>4 DEF MaySend
  <2> QED
    BY <1>1, <1>2, <2>5, NothingCharged
<1> QED
  BY <1>3, <1>4, <1>5 DEF PublishStep

LEMMA ChargedTask ==
    ASSUME TypeOK, NEW r \in Pipelines, TaskStep(r), NEW p \in Pipelines
    PROVE  Charged(p)
<1>a. task \in [Pipelines -> Tasks] /\ faults \in Nat /\ crashes \in Nat
  BY DEF TypeOK
<1>1. NoCopy(p) /\ batch' = batch /\ send' = send /\ outbox' = outbox /\ crashes' = crashes
  BY TaskFrame DEF NoCopy
<1>2. Paid' >= Paid
  <2>1. faults' = faults \/ faults' = faults + 1
    BY DEF TaskStep, PrepareFails, ConfirmStored, ConfirmPending, Fault
  <2> QED
    BY <1>a, <1>1, <2>1 DEF Paid
<1>3. task'[p].pc \in {"new", "prepared"} => task[p].pc \in {"new", "prepared"}
  <2>1. PICK pc \in {"failed", "stored", "pending"} : task' = [task EXCEPT ![r].pc = pc]
    BY DEF TaskStep, PrepareFails, ConfirmStored, ConfirmPending, SetTask
  <2>2. task'[r].pc = pc /\ \A q \in Pipelines \ {r} : task'[q] = task[q]
    BY <1>a, <2>1 DEF Tasks
  <2> QED
    BY <2>2
<1>4. \A j \in Instances : MaySend(j, p)' => MaySend(j, p)
  BY <1>1, <1>3 DEF MaySend
<1> QED
  BY <1>1, <1>2, <1>4, NothingCharged

LEMMA ChargedConsumer ==
    ASSUME TypeOK, NEW i \in Instances, ConsumerStep(i), NEW p \in Pipelines
    PROVE  Charged(p)
<1>a. faults \in Nat /\ crashes \in Nat
  BY DEF TypeOK
<1>1. NoCopy(p) /\ UNCHANGED <<batch, send, outbox, task, crashes>>
  BY ConsumerFrame DEF NoCopy
<1>2. Paid' >= Paid
  <2>1. faults' = faults \/ faults' = faults + 1
    BY DEF ConsumerStep, Join, Rebalance, Leaves, Fetch, ReadMissing, StoreChunks,
       ProcessFails, DeadLetter, DeadLetterFails, Commit, CommitFails, Fault
  <2> QED
    BY <1>a, <1>1, <2>1 DEF Paid
<1> QED
  BY <1>1, <1>2, NothingCharged DEF MaySend

LEMMA ChargedLife ==
    ASSUME TypeOK, NEW i \in Instances, Crash(i) \/ Restart(i), NEW p \in Pipelines
    PROVE  Charged(p)
<1>a. /\ faults \in Nat /\ crashes \in Nat /\ task \in [Pipelines -> Tasks]
      /\ send \in [Instances -> Sends] /\ batch \in [Instances -> SUBSET Pipelines]
  BY DEF TypeOK
<1>1. NoCopy(p) /\ outbox' = outbox /\ faults' = faults
  BY LifeFrame DEF NoCopy
<1>2. CASE Crash(i)
  <2>1. Paid' = Paid + 1
    BY <1>a, <1>1, <1>2 DEF Crash, Paid
  <2>2. task'[p].pc \in {"new", "prepared"} => task[p].pc \in {"new", "prepared"}
    BY <1>a, <1>2 DEF Crash, Tasks
  <2>3. \A j \in Instances \ {i} : send'[j] = send[j] /\ batch'[j] = batch[j]
    BY <1>a, <1>2 DEF Crash
  <2> QED
    BY <1>1, <2>1, <2>2, <2>3, OthersMaySend, FailureCharged
<1>3. CASE Restart(i)
  <2>1. UNCHANGED <<batch, send, task, crashes>> /\ Paid' >= Paid
    BY <1>a, <1>1, <1>3 DEF Restart, Paid
  <2> QED
    BY <1>1, <2>1, NothingCharged DEF MaySend
<1> QED
  BY <1>2, <1>3

\* What a sender's step leaves alone, whichever it is.
LEMMA SenderOthers ==
    ASSUME TypeOK, NEW i \in Instances, SenderStep(i), NEW p \in Pipelines
    PROVE  /\ crashes' = crashes /\ outbox' \subseteq outbox
           /\ \A j \in Instances \ {i} : send'[j] = send[j] /\ batch'[j] = batch[j]
           /\ task'[p].pc \in {"new", "prepared"} => task[p].pc \in {"new", "prepared"}
           /\ \A j \in Instances \ {i} : MaySend(j, p)' => MaySend(j, p)
<1>a. /\ send \in [Instances -> Sends] /\ batch \in [Instances -> SUBSET Pipelines]
      /\ task \in [Pipelines -> Tasks]
  BY DEF TypeOK
<1>1. crashes' = crashes /\ outbox' \subseteq outbox
  BY SenderFrame, SenderEffect
<1>2. ASSUME NEW j \in Instances \ {i} PROVE send'[j] = send[j] /\ batch'[j] = batch[j]
  <2>1. CASE GoesOn(i)
    BY <1>a, <2>1 DEF GoesOn
  <2>2. CASE TakesRow(i)
    BY <1>a, <2>2 DEF TakesRow
  <2>3. ASSUME NEW pc, Leave(i, pc) PROVE send'[j] = send[j] /\ batch'[j] = batch[j]
    BY <1>a, <2>3 DEF Leave
  <2> QED
    BY <2>1, <2>2, <2>3, SenderEffect
<1>3. task'[p].pc \in {"new", "prepared"} => task[p].pc \in {"new", "prepared"}
  <2>1. ASSUME NEW pc \in {"confirm", "failed"}, Leave(i, pc)
        PROVE  task'[p].pc \in {"new", "prepared"} => task[p].pc \in {"new", "prepared"}
    <3>1. CASE lock[i] \in Pipelines
      <4>1. task' = [task EXCEPT ![lock[i]].pc = pc]
        BY <2>1, <3>1 DEF Leave
      <4>2. task'[lock[i]].pc = pc /\ \A q \in Pipelines \ {lock[i]} : task'[q] = task[q]
        BY <1>a, <3>1, <4>1 DEF Tasks
      <4> QED
        BY <4>2
    <3>2. CASE lock[i] \notin Pipelines
      BY <2>1, <3>2 DEF Leave
    <3> QED
      BY <3>1, <3>2
  <2> QED
    BY <2>1, SenderEffect DEF GoesOn, TakesRow
<1>4. ASSUME NEW j \in Instances \ {i}, MaySend(j, p)' PROVE MaySend(j, p)
  BY <1>1, <1>2, <1>3, <1>4, OthersMaySend
<1> QED
  BY <1>1, <1>2, <1>3, <1>4

LEMMA AttemptKeepsRow ==
    ASSUME TypeOK, NEW i \in Instances, AttemptFails(i)
    PROVE  send'[i].pid = send[i].pid /\ send'[i].step \in {"send", "error"}
<1>a. send \in [Instances -> Sends]
  BY DEF TypeOK
<1> DEFINE r == IF send[i].attempt < MaxPublishRetry
                THEN [pid |-> send[i].pid, attempt |-> send[i].attempt + 1, step |-> "send"]
                ELSE [send[i] EXCEPT !.step = "error"]
<1>1. r.pid = send[i].pid /\ r.step \in {"send", "error"}
  BY <1>a DEF Sends
<1>2. send' = [send EXCEPT ![i] = r]
  BY DEF AttemptFails
<1> HIDE DEF r
<1> QED
  BY <1>a, <1>1, <1>2

LEMMA ChargedSender ==
    ASSUME TypeOK, SendSound, RowSound, HandsSound, NEW i \in Instances, SenderStep(i),
           NEW p \in Pipelines
    PROVE  Charged(p)
<1>0. "free" \notin Pipelines
  BY DeliveryAssumption
<1>a. /\ send \in [Instances -> Sends] /\ batch \in [Instances -> SUBSET Pipelines]
      /\ faults \in Nat /\ crashes \in Nat /\ Paid \in Nat
  BY DEF TypeOK, Paid
<1>b. faults' = faults => Paid' = Paid /\ Paid' >= Paid
  BY <1>a, SenderOthers DEF Paid
<1>c. Fault => Paid' = Paid + 1
  BY <1>a, SenderOthers DEF Paid, Fault
<1> DEFINE q == send[i].pid
<1>d. send[i].step \in {"send", "mark", "delete", "error"} => q \in Pipelines
  BY DEF SendSound, SendOk
<1>e. NoCopy(p) <=> (UNCHANGED log \/ \E r \in Pipelines \ {p} : log' = Append(log, r))
  BY DEF NoCopy
<1>1. CASE Send(i)
  <2>1. /\ log' = Append(log, q) /\ send'[i].pid = q /\ send'[i].step = "mark" /\ q \in Pipelines
        /\ UNCHANGED <<outbox, batch, task, faults>> /\ send[i].step = "send"
    BY <1>a, <1>d, <1>1 DEF Send, Sends
  <2>2. CASE p = q
    <3>1. MaySend(i, p) /\ ~MaySend(i, p)'
      BY <2>1, <2>2 DEF MaySend
    <3>2. i \in Senders(p) /\ Senders(p)' \subseteq Senders(p) \ {i}
      BY <3>1, SenderOthers DEF Senders
    <3> QED
      BY <1>b, <2>1, <2>2, <3>2 DEF Charged
  <2>3. CASE p # q
    <3>1. MaySend(i, p)' => MaySend(i, p)
      BY <2>1, <2>3 DEF MaySend
    <3>2. NoCopy(p)
      BY <1>e, <2>1, <2>3
    <3> QED
      BY <1>b, <2>1, <3>1, <3>2, SenderOthers, NothingCharged
  <2> QED
    BY <2>2, <2>3
<1>2. CASE SendFails(i)
  <2>1. /\ send'[i].pid = q /\ send'[i].step \in {"send", "error"} /\ q \in Pipelines
        /\ UNCHANGED <<outbox, batch, task>> /\ send[i].step = "send"
    BY <1>d, <1>2, AttemptKeepsRow DEF SendFails
  <2>2. MaySend(i, p)' => MaySend(i, p)
    BY <2>1 DEF MaySend
  <2>3. CASE UNCHANGED <<log, faults>>
    BY <1>b, <1>e, <2>2, <2>3, SenderOthers, NothingCharged
  <2>4. CASE Fault /\ log' \in {log, Append(log, q)}
    <3>1. CASE NoCopy(p)
      BY <1>c, <2>4, <3>1, SenderOthers, FailureCharged
    <3>2. CASE ~NoCopy(p)
      <4>1. log' = Append(log, p)
        BY <1>e, <2>1, <2>4, <3>2
      <4>2. Senders(p)' \subseteq Senders(p)
        BY <2>2, SenderOthers DEF Senders
      <4> QED
        BY <1>c, <2>4, <4>1, <4>2 DEF Charged
    <3> QED
      BY <3>1, <3>2
  <2> QED
    BY <1>2, <2>3, <2>4 DEF SendFails
<1>3. CASE MarkPublished(i)
  <2>1. /\ send'[i].pid = q /\ send'[i].step = "delete"
        /\ UNCHANGED <<outbox, batch, task, log, faults>> /\ send[i].step = "mark"
    BY <1>a, <1>3 DEF MarkPublished, Sends
  <2>2. MaySend(i, p)' => MaySend(i, p)
    BY <2>1 DEF MaySend
  <2> QED
    BY <1>b, <1>e, <2>1, <2>2, SenderOthers, NothingCharged
<1>4. CASE MarkPublishedFails(i) \/ DeleteRowFails(i)
  <2>1. Fault /\ log' = log
    BY <1>4 DEF MarkPublishedFails, DeleteRowFails
  <2> QED
    BY <1>c, <1>e, <2>1, SenderOthers, FailureCharged
<1>5. CASE DeleteRow(i)
  <2>1. /\ outbox' = outbox \ {q} /\ UNCHANGED <<log, faults>>
        /\ send[i].step = "delete" /\ q \in Pipelines /\ q \notin batch[i]
    BY <1>d, <1>5 DEF DeleteRow, HandsSound
  <2>2. batch'[i] \subseteq batch[i] /\ send'[i].pid \in batch[i] \cup {"free"}
    <3>1. CASE Leave(i, "confirm")
      BY <1>a, <3>1 DEF Leave, NoSend
    <3>2. CASE ~Leave(i, "confirm")
      <4>1. PICK r \in Oldest(batch[i]) :
              /\ send' = [send EXCEPT ![i] = SendOf(r)]
              /\ batch' = [batch EXCEPT ![i] = @ \ {r}]
        BY <1>5, <3>2 DEF DeleteRow
      <4> QED
        BY <1>a, <4>1 DEF Oldest, SendOf
    <3> QED
      BY <3>1, <3>2
  <2>3. task[q].pc \notin {"new", "prepared"}
    BY <2>1 DEF RowSound
  <2>4. MaySend(i, p)' => MaySend(i, p)
    <3>1. CASE p = q
      BY <1>0, <2>1, <2>2, <2>3, <3>1, SenderOthers DEF MaySend
    <3>2. CASE p # q
      BY <1>0, <2>1, <2>2, <3>2, SenderOthers DEF MaySend
    <3> QED
      BY <3>1, <3>2
  <2> QED
    BY <1>b, <1>e, <2>1, <2>4, SenderOthers, NothingCharged
<1>6. CASE GiveUp(i)
  <2>1. /\ send'[i] = NoSend /\ batch'[i] = {} /\ outbox' = outbox
        /\ UNCHANGED <<log, faults>> /\ send[i].step = "error"
    BY <1>a, <1>6 DEF GiveUp, Leave, durable
  <2>2. MaySend(i, p)' => MaySend(i, p)
    BY <1>0, <2>1, SenderOthers DEF MaySend, NoSend
  <2> QED
    BY <1>b, <1>e, <2>1, <2>2, SenderOthers, NothingCharged
<1>7. CASE Drain(i)
  <2>1. /\ send[i] = NoSend /\ UNCHANGED <<log, faults, outbox, task>>
    BY <1>7 DEF Drain, HandsSound, durable
  <2>2. PICK r \in Oldest(Pending) :
          /\ send' = [send EXCEPT ![i] = SendOf(r)]
          /\ batch' = [batch EXCEPT ![i] = Pending \ {r}]
    BY <1>7 DEF Drain
  <2>3. send'[i].pid \in outbox /\ batch'[i] \subseteq outbox
    BY <1>a, <2>2 DEF Oldest, Pending, SendOf
  <2>4. MaySend(i, p)' => MaySend(i, p)
    BY <1>0, <2>1, <2>3 DEF MaySend, NoSend
  <2> QED
    BY <1>b, <1>e, <2>1, <2>4, SenderOthers, NothingCharged
<1> QED
  BY <1>1, <1>2, <1>3, <1>4, <1>5, <1>6, <1>7 DEF SenderStep

LEMMA CopiesStep ==
    ASSUME IInv, IInv', HandsSound, CopiesInv, [Next]_vars
    PROVE  CopiesInv'
<1> SUFFICES ASSUME NEW p \in Pipelines PROVE Accounted(p)'
  BY DEF CopiesInv
<1>1. TypeOK /\ TypeOK' /\ SendSound /\ RowSound /\ Accounted(p)
  BY DEF IInv, CopiesInv
<1>2. CASE UNCHANGED vars
  BY <1>1, <1>2 DEF vars, durable, Accounted, Copies, Senders, MaySend, Paid
<1>3. CASE Next
  <2>1. Charged(p)
    BY <1>1, <1>3, ChargedPublish, ChargedTask, ChargedSender, ChargedConsumer, ChargedLife DEF Next
  <2> QED
    BY <1>1, <2>1, ChargedKeeps
<1> QED
  BY <1>2, <1>3

LEMMA InitCopies == Init => HandsSound /\ CopiesInv
<1> SUFFICES ASSUME Init PROVE HandsSound /\ CopiesInv
  OBVIOUS
<1>1. HandsSound
  BY DEF Init, HandsSound
<1>2. ASSUME NEW p \in Pipelines PROVE Accounted(p)
  <2>1. log = <<>> /\ faults = 0 /\ crashes = 0
    BY DEF Init
  <2>2. {k \in 1..Len(log) : log[k] = p} = {}
    BY <2>1
  <2>3. Copies(p) = 0
    BY <2>2, FS_EmptySet DEF Copies
  <2>4. IsFiniteSet(Instances) /\ Senders(p) \in SUBSET Instances
    BY DeliveryAssumption DEF Senders
  <2>5. Cardinality(Senders(p)) <= Cardinality(Instances)
    BY <2>4, FS_Subset
  <2>6. Cardinality(Senders(p)) \in Nat /\ Cardinality(Instances) \in Nat
    BY <2>4, FS_Subset, FS_CardinalityType
  <2> QED
    BY <2>1, <2>3, <2>5, <2>6 DEF Accounted, Paid
<1> QED
  BY <1>1, <1>2 DEF CopiesInv

\* However the drains and the calls of several instances meet, a copy of an event in the
\* topic beyond one for each instance was paid for by a failed call or a crash: the
\* publish lock and the deletion of the row see to it (publish, _drain_outbox).
THEOREM DuplicatesAreOwed == Spec => []DuplicatesCostAFailure
<1> DEFINE Full == IInv /\ HandsSound /\ CopiesInv
<1>1. Init => Full
  BY InitIInv, InitCopies
<1>2. Full /\ [Next]_vars => Full'
  <2> SUFFICES ASSUME Full, [Next]_vars PROVE Full'
    OBVIOUS
  <2>1. IInv'
    BY TypeStep, SendStep, RowStep, TaskStepSound, ChunksStep, ConsStep, OffsetStep DEF IInv
  <2>2. HandsSound'
    BY HandsStep DEF IInv
  <2> QED
    BY <2>1, <2>2, CopiesStep
<1>3. Full => DuplicatesCostAFailure
  <2> SUFFICES ASSUME Full, NEW p \in Pipelines
               PROVE  Copies(p) <= Cardinality(Instances) + faults + crashes
    BY DEF DuplicatesCostAFailure
  <2>1. IsFiniteSet(Instances) /\ Senders(p) \in SUBSET Instances
    BY DeliveryAssumption DEF Senders
  <2>2. Cardinality(Senders(p)) \in Nat /\ Cardinality(Instances) \in Nat
    BY <2>1, FS_Subset, FS_CardinalityType
  <2>3. log \in Seq(Pipelines) /\ faults \in Nat /\ crashes \in Nat
    BY DEF IInv, TypeOK
  <2>4. Copies(p) \in Nat
    <3>1. Copies(p) = Occurrences(log, p)
      BY DEF Copies, Occurrences
    <3> QED
      BY <2>3, <3>1, OccurrencesType
  <2>5. Copies(p) + Cardinality(Senders(p)) <= Cardinality(Instances) + (faults + crashes)
    BY DEF CopiesInv, Accounted, Paid
  <2> QED
    BY <2>2, <2>3, <2>4, <2>5
<1> HIDE DEF Full
<1> QED
  BY <1>1, <1>2, <1>3, PTL DEF Spec

-----------------------------------------------------------------------------
(* Delivery implements DurableDelivery *)

\* The state of DurableDelivery
AcceptedNow == {p \in Pipelines : Accepted(p)}
StoredNow == {p \in Pipelines : Stored(p)}
AnsweredNow == {p \in Pipelines : task[p].pc = "stored"}

\* Its steps
Stutters == UNCHANGED <<AcceptedNow, StoredNow, dlq, AnsweredNow>>
Accepts(p) == AcceptedNow' = AcceptedNow \cup {p} /\ UNCHANGED <<StoredNow, dlq, AnsweredNow>>
Stores(p) ==
    /\ p \in AcceptedNow \ StoredNow
    /\ StoredNow' = StoredNow \cup {p}
    /\ UNCHANGED <<AcceptedNow, dlq, AnsweredNow>>
SetsAside(p) ==
    /\ p \in AcceptedNow \ dlq
    /\ dlq' = dlq \cup {p}
    /\ UNCHANGED <<AcceptedNow, StoredNow, AnsweredNow>>
Answers(p) ==
    /\ p \in StoredNow \ AnsweredNow
    /\ AnsweredNow' = AnsweredNow \cup {p}
    /\ UNCHANGED <<AcceptedNow, StoredNow, dlq>>
AbstractStep ==
    Stutters \/ \E p \in Pipelines : Accepts(p) \/ Stores(p) \/ SetsAside(p) \/ Answers(p)

-----------------------------------------------------------------------------
(* What a step must touch to change each part *)

LEMMA AcceptedSame ==
    ASSUME UNCHANGED <<outbox, log>>
    PROVE  AcceptedNow' = AcceptedNow
BY DEF AcceptedNow, Accepted, InTopic

LEMMA StoredSame ==
    ASSUME UNCHANGED chunks
    PROVE  StoredNow' = StoredNow
BY DEF StoredNow, Stored, SourceKeys

LEMMA AnsweredSame ==
    ASSUME \A p \in Pipelines : (task'[p].pc = "stored") <=> (task[p].pc = "stored")
    PROVE  AnsweredNow' = AnsweredNow
BY DEF AnsweredNow

\* A publish call accepts its own result or changes nothing of the kind.
LEMMA PublishImplements ==
    ASSUME IInv, NEW i \in Instances, NEW p \in Pipelines, PublishStep(i, p)
    PROVE  AbstractStep
<1>0. UNCHANGED <<chunks, log, dlq>> /\ TypeOK
  BY PublishFrame DEF IInv
<1>1. \A q \in Pipelines : (task'[q].pc = "stored") <=> (task[q].pc = "stored")
  <2>1. task \in [Pipelines -> Tasks]
    BY <1>0 DEF TypeOK
  <2>2. CASE Prepare(i, p)
    BY <2>1, <2>2 DEF Prepare, Tasks
  <2>3. CASE Put(i, p)
    <3>1. task[p].pc = "prepared" /\ task' = [task EXCEPT ![p].pc = "sending"]
      BY <2>3 DEF Put, SetTask
    <3> QED
      BY <2>1, <3>1 DEF Tasks
  <2>4. CASE PutFails(i, p)
    <3>1. task[p].pc = "prepared" /\ task' = [task EXCEPT ![p].pc = "failed"]
      BY <2>4 DEF PutFails, SetTask
    <3> QED
      BY <2>1, <3>1 DEF Tasks
  <2> QED
    BY <2>2, <2>3, <2>4 DEF PublishStep
<1>2. AnsweredNow' = AnsweredNow
  BY <1>1, AnsweredSame
<1>3. outbox' = outbox \/ outbox' = outbox \cup {p}
  BY DEF PublishStep, Prepare, Put, PutFails, InsertRow
<1>4. AcceptedNow' = AcceptedNow \/ AcceptedNow' = AcceptedNow \cup {p}
  BY <1>0, <1>3 DEF AcceptedNow, Accepted, InTopic
<1> QED
  BY <1>0, <1>2, <1>4, StoredSame DEF AbstractStep, Stutters, Accepts

\* The confirmation answers what the table holds.
LEMMA TaskImplements ==
    ASSUME IInv, NEW p \in Pipelines, TaskStep(p)
    PROVE  AbstractStep
<1>0. TypeOK /\ UNCHANGED <<outbox, log, chunks, dlq>>
  BY TaskFrame DEF IInv
<1>1. AcceptedNow' = AcceptedNow /\ StoredNow' = StoredNow
  BY <1>0, AcceptedSame, StoredSame
<1>2. task \in [Pipelines -> Tasks]
  BY <1>0 DEF TypeOK
<1>3. CASE PrepareFails(p) \/ ConfirmPending(p)
  <2>1. AnsweredNow' = AnsweredNow
    BY <1>2, <1>3, AnsweredSame DEF PrepareFails, ConfirmPending, SetTask, Tasks
  <2> QED
    BY <1>0, <1>1, <2>1 DEF AbstractStep, Stutters
<1>4. CASE ConfirmStored(p)
  <2>1. Stored(p) /\ task[p].pc = "confirm" /\ task' = [task EXCEPT ![p].pc = "stored"]
    BY <1>4 DEF ConfirmStored, SetTask
  <2>2. AnsweredNow' = AnsweredNow \cup {p}
    BY <1>2, <2>1 DEF AnsweredNow, Tasks
  <2>3. p \in StoredNow \ AnsweredNow
    BY <2>1 DEF StoredNow, AnsweredNow
  <2> QED
    BY <1>0, <1>1, <2>2, <2>3 DEF AbstractStep, Answers
<1> QED
  BY <1>3, <1>4 DEF TaskStep

\* A sender may put an event into the topic; the row it deletes is of such an event.
LEMMA SenderImplements ==
    ASSUME IInv, NEW i \in Instances, SenderStep(i)
    PROVE  AbstractStep
<1>0. TypeOK /\ SendSound /\ UNCHANGED <<chunks, dlq>>
  BY SenderFrame DEF IInv
<1>1. AnsweredNow' = AnsweredNow
  <2>1. CASE task' = task
    BY <2>1, AnsweredSame
  <2>2. ASSUME NEW pc \in {"confirm", "failed"}, Leave(i, pc) PROVE AnsweredNow' = AnsweredNow
    <3>1. CASE lock[i] \notin Pipelines
      BY <2>1, <2>2, <3>1 DEF Leave
    <3>2. CASE lock[i] \in Pipelines
      <4>1. task[lock[i]] = [pc |-> "sending", at |-> i]
        BY <1>0, <3>2 DEF SendSound, SendOk
      <4>2. task' = [task EXCEPT ![lock[i]].pc = pc]
        BY <2>2, <3>2 DEF Leave
      <4> QED
        BY <1>0, <2>2, <3>2, <4>1, <4>2, AnsweredSame DEF TypeOK, Tasks
    <3> QED
      BY <3>1, <3>2
  <2> QED
    BY <1>0, <2>1, <2>2, SenderEffect DEF GoesOn, TakesRow
<1>2. CASE log' = log
  <2>1. outbox' = outbox \/ (send[i].step = "delete" /\ outbox' = outbox \ {send[i].pid})
    BY DEF SenderStep, Send, SendFails, MarkPublished, MarkPublishedFails,
           DeleteRow, DeleteRowFails, GiveUp, Drain, durable
  <2>2. send[i].step = "delete" => InTopic(send[i].pid)
    BY <1>0 DEF SendSound, SendOk
  <2>3. AcceptedNow' = AcceptedNow
    BY <1>2, <2>1, <2>2 DEF AcceptedNow, Accepted, InTopic
  <2> QED
    BY <1>0, <1>1, <2>3, StoredSame DEF AbstractStep, Stutters
<1>3. CASE log' # log
  <2>1. /\ send[i].step # "idle"
        /\ log' = Append(log, send[i].pid)
        /\ outbox' = outbox
    BY <1>3 DEF SenderStep, Send, SendFails, MarkPublished, MarkPublishedFails,
                DeleteRow, DeleteRowFails, GiveUp, Drain, durable
  <2> DEFINE q == send[i].pid
  <2>2. q \in Pipelines /\ log \in Seq(Pipelines)
    BY <1>0, <2>1 DEF SendSound, SendOk, TypeOK
  <2>3. \A p \in Pipelines : InTopic(p)' <=> (InTopic(p) \/ p = q)
    <3>1. Len(log') = Len(log) + 1 /\ log'[Len(log) + 1] = q
          /\ \A k \in 1..Len(log) : log'[k] = log[k]
      BY <2>1, <2>2
    <3> QED
      BY <2>2, <3>1 DEF InTopic
  <2>4. AcceptedNow' = AcceptedNow \cup {q}
    BY <2>1, <2>2, <2>3 DEF AcceptedNow, Accepted
  <2> QED
    BY <1>0, <1>1, <2>2, <2>4, StoredSame DEF AbstractStep, Accepts
<1> QED
  BY <1>2, <1>3

\* A consumer stores an event whole or sets it aside.
LEMMA ConsumerImplements ==
    ASSUME IInv, NEW i \in Instances, ConsumerStep(i)
    PROVE  AbstractStep
<1>0. TypeOK /\ ConsSound /\ ChunksSound /\ UNCHANGED <<outbox, log, task>>
  BY ConsumerFrame DEF IInv
<1>1. AcceptedNow' = AcceptedNow /\ AnsweredNow' = AnsweredNow
  BY <1>0, AcceptedSame, AnsweredSame
<1> DEFINE m == log[cons[i].at]
<1>2. cons[i].pc \notin {"down", "idle"} => m \in Pipelines /\ m \in AcceptedNow
  BY <1>0 DEF ConsSound, TypeOK, AcceptedNow, Accepted, InTopic
<1>3. \/ UNCHANGED <<chunks, dlq>>
      \/ cons[i].pc = "store" /\ chunks' = chunks \cup cons[i].missing /\ dlq' = dlq
      \/ cons[i].pc = "dlq" /\ dlq' = dlq \cup {m} /\ chunks' = chunks
  BY DEF ConsumerStep, Join, Rebalance, Fetch, ReadMissing, StoreChunks, ProcessFails,
         InsertChunks, DeadLetter, DeadLetterFails, Commit, CommitFails, durable
<1>4. CASE UNCHANGED <<chunks, dlq>>
  BY <1>1, <1>4, StoredSame DEF AbstractStep, Stutters
<1>5. CASE cons[i].pc = "store" /\ chunks' = chunks \cup cons[i].missing /\ dlq' = dlq
  <2>1. /\ cons[i].missing \subseteq SourceKeys(m)
        /\ SourceKeys(m) \subseteq chunks \cup cons[i].missing
    BY <1>0, <1>5 DEF ConsSound
  <2>2. PICK q \in Pipelines : q = m /\ q \in AcceptedNow
    BY <1>2, <1>5
  <2>3. \A p : Stored(p)' <=> SourceKeys(p) \subseteq chunks'
    BY DEF Stored, SourceKeys
  <2>4. Stored(q)'
    BY <1>5, <2>1, <2>2, <2>3
  <2>5. ASSUME NEW p \in Pipelines, p # q PROVE Stored(p)' <=> Stored(p)
    <3>1. SourceKeys(p) \cap SourceKeys(q) = {}
      BY <2>5, KeysDisjoint
    <3>2. SourceKeys(p) \subseteq chunks' <=> SourceKeys(p) \subseteq chunks
      BY <1>5, <2>1, <2>2, <3>1
    <3> QED
      BY <2>3, <3>2 DEF Stored
  <2>6. StoredNow' = StoredNow \cup {q}
    BY <2>4, <2>5 DEF StoredNow
  <2> QED
    BY <1>1, <1>5, <2>2, <2>6 DEF AbstractStep, Stutters, Stores
<1>6. CASE cons[i].pc = "dlq" /\ dlq' = dlq \cup {m} /\ chunks' = chunks
  BY <1>1, <1>2, <1>6, StoredSame DEF AbstractStep, Stutters, SetsAside
<1> QED
  BY <1>3, <1>4, <1>5, <1>6

\* A crash takes nothing back.
LEMMA LifeImplements ==
    ASSUME IInv, NEW i \in Instances, Crash(i) \/ Restart(i)
    PROVE  AbstractStep
<1>0. TypeOK /\ UNCHANGED <<outbox, log, chunks, dlq>>
  BY LifeFrame DEF IInv
<1>1. AnsweredNow' = AnsweredNow
  <2>1. CASE Restart(i)
    BY <2>1, AnsweredSame DEF Restart
  <2>2. CASE Crash(i)
    BY <1>0, <2>2, AnsweredSame DEF Crash, TypeOK, Tasks, Finished
  <2> QED
    BY <2>1, <2>2
<1> QED
  BY <1>0, <1>1, AcceptedSame, StoredSame DEF AbstractStep, Stutters

LEMMA StepImplements ==
    ASSUME IInv, [Next]_vars
    PROVE  AbstractStep
<1>1. CASE UNCHANGED vars
  BY <1>1, AcceptedSame, StoredSame, AnsweredSame DEF AbstractStep, Stutters, vars, durable
<1> QED
  BY <1>1, PublishImplements, TaskImplements, SenderImplements, ConsumerImplements,
     LifeImplements DEF Next

-----------------------------------------------------------------------------
(* The receipts *)

\* A call that has not begun has no receipt.
NewSound == \A p \in Pipelines : task[p].pc = "new" => receipts[p] = "absent"

\* Receipts are written by the call itself and marked by a sender, and no call is new again.
LEMMA ReceiptEffect ==
    ASSUME IInv, NewSound, [Next]_vars, NEW p \in Pipelines
    PROVE  /\ \/ receipts'[p] = receipts[p]
              \/ receipts[p] = "absent" /\ task[p].pc = "new"
              \/ receipts[p] # "absent" /\ receipts'[p] = "published"
           /\ task'[p].pc = "new" => task[p].pc = "new" /\ receipts'[p] = receipts[p]
<1>0. TypeOK /\ SendSound /\ RowSound /\ task \in [Pipelines -> Tasks]
      /\ receipts \in [Pipelines -> {"absent", "prepared", "published"}]
  BY DEF IInv, TypeOK
<1> DEFINE Goal ==
      /\ \/ receipts'[p] = receipts[p]
         \/ receipts[p] = "absent" /\ task[p].pc = "new"
         \/ receipts[p] # "absent" /\ receipts'[p] = "published"
      /\ task'[p].pc = "new" => task[p].pc = "new" /\ receipts'[p] = receipts[p]
<1> USE DEF Goal
<1>1. CASE UNCHANGED vars
  BY <1>1 DEF vars, durable
<1>2. ASSUME NEW i \in Instances, NEW q \in Pipelines, PublishStep(i, q) PROVE Goal
  <2>1. CASE Prepare(i, q)
    BY <1>0, <2>1 DEF Prepare, NewSound
  <2>2. CASE Put(i, q)
    BY <1>0, <2>2 DEF Put, SetTask, Tasks
  <2>3. CASE PutFails(i, q)
    BY <1>0, <2>3 DEF PutFails, SetTask, Tasks
  <2> QED
    BY <1>2, <2>1, <2>2, <2>3 DEF PublishStep
<1>3. ASSUME NEW q \in Pipelines, TaskStep(q) PROVE Goal
  <2>1. CASE PrepareFails(q)
    BY <1>0, <2>1 DEF PrepareFails, SetTask, Tasks, NewSound
  <2>2. CASE ConfirmStored(q) \/ ConfirmPending(q)
    BY <1>0, <2>2 DEF ConfirmStored, ConfirmPending, SetTask, Tasks, durable
  <2> QED
    BY <1>3, <2>1, <2>2 DEF TaskStep
<1>4. ASSUME NEW i \in Instances, SenderStep(i) PROVE Goal
  <2>1. task'[p].pc = "new" => task'[p] = task[p]
    <3>1. CASE task' = task
      BY <3>1
    <3>2. ASSUME NEW pc \in {"confirm", "failed"}, Leave(i, pc)
          PROVE  task'[p].pc = "new" => task'[p] = task[p]
      BY <1>0, <3>2 DEF Leave, Tasks
    <3> QED
      BY <1>0, <1>4, <3>1, <3>2, SenderEffect DEF GoesOn, TakesRow
  <2>2. \/ receipts' = receipts
        \/ send[i].step = "mark" /\ MarkRow(send[i].pid)
    BY <1>4 DEF SenderStep, Send, SendFails, MarkPublished, MarkPublishedFails, DeleteRow,
                DeleteRowFails, GiveUp, Drain, durable
  <2>3. send[i].step = "mark" => send[i].pid \in Pipelines /\ task[send[i].pid].pc # "new"
    BY <1>0 DEF SendSound, SendOk, RowSound
  <2> QED
    BY <1>0, <2>1, <2>2, <2>3 DEF MarkRow
<1>5. ASSUME NEW i \in Instances, ConsumerStep(i) PROVE Goal
  BY <1>5, ConsumerFrame
<1>6. ASSUME NEW i \in Instances, Crash(i) \/ Restart(i) PROVE Goal
  BY <1>0, <1>6, LifeFrame DEF Crash, Restart, Tasks
<1> QED
  BY <1>1, <1>2, <1>3, <1>4, <1>5, <1>6 DEF Next

-----------------------------------------------------------------------------
(* The theorems *)

\* GET /storage never takes an answer back: neither a retry, a crash nor a second
\* process makes a stored result pending or a known one unknown.
THEOREM AnswersAreFinal == Spec => StatusNeverReverts
<1>1. Init => NewSound
  BY DEF Init, NewSound
<1>2. IInv /\ NewSound /\ [Next]_vars => NewSound'
  <2> SUFFICES ASSUME IInv, NewSound, [Next]_vars, NEW p \in Pipelines, task'[p].pc = "new"
               PROVE  receipts'[p] = "absent"
    BY DEF NewSound
  <2> QED
    BY ReceiptEffect DEF NewSound
<1>3. IInv /\ NewSound /\ [Next]_vars =>
        [\A p \in Pipelines :
            /\ StorageStatus(p) = "stored" => StorageStatus(p)' = "stored"
            /\ StorageStatus(p) # "unknown" => StorageStatus(p)' # "unknown"]_vars
  <2> SUFFICES ASSUME IInv, NewSound, [Next]_vars, NEW p \in Pipelines
               PROVE  /\ StorageStatus(p) = "stored" => StorageStatus(p)' = "stored"
                      /\ StorageStatus(p) # "unknown" => StorageStatus(p)' # "unknown"
    OBVIOUS
  <2>1. Stored(p) => Stored(p)'
    BY GrowsStep, GrowsKeeps DEF IInv
  <2>2. receipts[p] # "absent" => receipts'[p] # "absent"
        /\ (receipts[p] = "published" => receipts'[p] = "published")
    BY ReceiptEffect
  <2> QED
    BY <2>1, <2>2 DEF StorageStatus
<1> QED
  BY <1>1, <1>2, <1>3, IInvInductive, PTL DEF Spec, StatusNeverReverts

\* Phase 4 keeps the promise of DurableDelivery: whatever fails or crashes, a result is
\* accepted once and for all, stored whole or set aside, and reported stored only if it is.
THEOREM ImplementsPromise == Spec => KeepsPromise
<1>1. Init => Promise!Init
  <2> SUFFICES ASSUME Init PROVE Promise!Init
    OBVIOUS
  <2>1. ASSUME NEW p \in Pipelines PROVE ~Accepted(p)
    BY DEF Init, Accepted, InTopic
  <2>2. ASSUME NEW p \in Pipelines PROVE ~Stored(p)
    <3>1. PICK c \in Chunks : TRUE
      BY DeliveryAssumption
    <3>2. <<p, c>> \in SourceKeys(p)
      BY <3>1 DEF SourceKeys
    <3> QED
      BY <3>2 DEF Init, Stored
  <2>3. \A p \in Pipelines : task[p].pc # "stored"
    BY DEF Init
  <2> QED
    BY <2>1, <2>2, <2>3 DEF Init, Promise!Init
<1>2. IInv /\ [Next]_vars => [Promise!Next]_(Promise!vars)
  <2> SUFFICES ASSUME IInv, [Next]_vars PROVE [Promise!Next]_(Promise!vars)
    OBVIOUS
  <2>1. AbstractStep
    BY StepImplements
  <2> QED
    BY <2>1 DEF AbstractStep, Stutters, Accepts, Stores, SetsAside, Answers, AcceptedNow,
                StoredNow, AnsweredNow, Promise!Next, Promise!vars, Promise!Accept,
                Promise!Store, Promise!SetAside, Promise!Answer
<1> QED
  BY <1>1, <1>2, IInvInductive, PTL DEF Spec, KeepsPromise, Promise!Spec
=============================================================================
