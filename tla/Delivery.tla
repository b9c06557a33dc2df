------------------------------ MODULE Delivery ------------------------------
(***************************************************************************)
(* Phase 4: how a finished pipeline result reaches the document store.     *)
(*                                                                         *)
(*   publish -> pipeline_outbox (PostgreSQL) -> Kafka topic -> consumer    *)
(*           -> document_chunks (PostgreSQL), or the dead letter topic     *)
(*                                                                         *)
(* Several instances of the program may run at once (a rolling update; the *)
(* resume script starts the lifespan in a process of its own).  Each has a *)
(* background drain of the outbox, a consumer, and the publish calls of    *)
(* the pipelines it runs.  The tables, the topic and the committed offset  *)
(* are shared and durable; everything else dies with the instance.         *)
(***************************************************************************)
EXTENDS Integers, Sequences, FiniteSets

CONSTANTS
    Instances,        \* processes of the program
    Pipelines,        \* pipeline ids; each is a fresh uuid4, published once
    Chunks,           \* chunk indexes of one event's documents
    Oversized,        \* pipelines whose event the broker always refuses
    MaxPublishRetry,  \* settings.kafka_max_publish_retry
    MaxProcessRetry,  \* MAX_PROCESS_RETRY of the consumer
    PendingLimit,     \* LIMIT of KafkaOutbox.pending
    HasDlq,           \* a dead letter topic is configured
    MaxFaults,        \* bound: failed calls to the broker or the database
    MaxCrashes        \* bound: crashes and restarts of instances

ASSUME DeliveryAssumption ==
    /\ IsFiniteSet(Instances)
    /\ IsFiniteSet(Pipelines)
    /\ Chunks # {}
    /\ Oversized \subseteq Pipelines
    /\ MaxPublishRetry \in Nat \ {0}
    /\ MaxProcessRetry \in Nat \ {0}
    /\ PendingLimit \in Nat \ {0}
    /\ HasDlq \in BOOLEAN
    /\ MaxFaults \in Nat
    /\ MaxCrashes \in Nat
    /\ {"free", "drain"} \cap Pipelines = {}
    /\ "none" \notin Instances

VARIABLES
    outbox,     \* pipelines with a row in pipeline_outbox
    created,    \* created_at of each row: its place in the order of puts
    receipts,   \* pipeline_storage_receipts: "absent", "prepared", "published"
    chunks,     \* source keys committed in document_chunks
    log,        \* the topic's only partition
    offset,     \* the group's committed offset: the messages 1..offset are done
    dlq,        \* pipelines whose event is in the dead letter topic
    owner,      \* the instance the group assigned the partition to, or "none"
    up,         \* the running instances
    lock,       \* _publish_lock of each instance: "free", "drain" or a pipeline
    batch,      \* rows the drain of an instance has read and not yet sent
    send,       \* the _send_with_retry that runs under the lock
    cons,       \* the consumer of each instance
    task,       \* the publish call of each pipeline
    faults,     \* failed calls so far
    crashes     \* crashes so far

durable == <<outbox, created, receipts, chunks, log, offset, dlq>>
vars == <<durable, owner, up, lock, batch, send, cons, task, faults, crashes>>

-----------------------------------------------------------------------------
(* The stored form of an event *)

\* _source_key hashes pipeline, document type, chunk index and text: the keys of
\* two pipelines never meet, and the publisher and the consumer compute the same.
SourceKeys(p) == {p} \X Chunks

InTopic(p) == \E k \in 1..Len(log) : log[k] = p

Stored(p) == SourceKeys(p) \subseteq chunks

\* storage_status: "unknown" without a receipt, "pending" until published
StorageStatus(p) ==
    IF receipts[p] = "absent" THEN "unknown"
    ELSE IF receipts[p] = "published" /\ Stored(p) THEN "stored" ELSE "pending"

\* SELECT ... ORDER BY created_at LIMIT n
Pending ==
    {p \in outbox : Cardinality({q \in outbox : created[q] < created[p]}) < PendingLimit}

Fault == faults < MaxFaults /\ faults' = faults + 1

NoSend == [pid |-> "free", attempt |-> 0, step |-> "idle"]
\* Mutant: the receipt is marked and the row deleted before anything is sent
SendOfMarksFirst(p) == [pid |-> p, attempt |-> 1, step |-> "mark"]

SendOf(p) == [pid |-> p, attempt |-> 1, step |-> "send"]

Down == [pc |-> "down", at |-> 0, attempt |-> 0, missing |-> {}]
Idle == [Down EXCEPT !.pc = "idle"]

Init ==
    /\ outbox = {}
    /\ created = [p \in Pipelines |-> 0]
    /\ receipts = [p \in Pipelines |-> "absent"]
    /\ chunks = {}
    /\ log = <<>>
    /\ offset = 0
    /\ dlq = {}
    /\ owner = "none"
    /\ up = Instances
    /\ lock = [i \in Instances |-> "free"]
    /\ batch = [i \in Instances |-> {}]
    /\ send = [i \in Instances |-> NoSend]
    /\ cons = [i \in Instances |-> Down]
    /\ task = [p \in Pipelines |-> [pc |-> "new", at |-> "none"]]
    /\ faults = 0
    /\ crashes = 0

-----------------------------------------------------------------------------
(* publish *)

SetTask(p, pc) == task' = [task EXCEPT ![p].pc = pc]

\* Mutant: the receipt is written as published at once
PrepareAsPublished(i, p) ==
    /\ i \in up
    /\ task[p].pc = "new"
    /\ receipts' = [receipts EXCEPT ![p] = "published"]
    /\ task' = [task EXCEPT ![p] = [pc |-> "prepared", at |-> i]]
    /\ UNCHANGED <<outbox, created, chunks, log, offset, dlq, owner, up, lock,
                   batch, send, cons, faults, crashes>>

\* receipts.prepare runs before the lock; an exception ends the call
Prepare(i, p) ==
    /\ i \in up
    /\ task[p].pc = "new"
    /\ receipts' = [receipts EXCEPT ![p] = "prepared"]
    /\ task' = [task EXCEPT ![p] = [pc |-> "prepared", at |-> i]]
    /\ UNCHANGED <<outbox, created, chunks, log, offset, dlq, owner, up, lock,
                   batch, send, cons, faults, crashes>>

PrepareFails(p) ==
    /\ task[p].pc = "new"
    /\ Fault
    /\ receipts' \in {receipts, [receipts EXCEPT ![p] = "prepared"]}
    /\ SetTask(p, "failed")
    /\ UNCHANGED <<outbox, created, chunks, log, offset, dlq, owner, up, lock, batch,
                   send, cons, crashes>>

InsertRow(p) ==
    /\ outbox' = outbox \cup {p}
    /\ created' = [created EXCEPT ![p] = Cardinality({q \in Pipelines : created[q] > 0}) + 1]

\* async with _publish_lock: outbox.put, then the first attempt to send
Put(i, p) ==
    /\ task[p] = [pc |-> "prepared", at |-> i]
    /\ lock[i] = "free"
    /\ InsertRow(p)
    /\ lock' = [lock EXCEPT ![i] = p]
    /\ send' = [send EXCEPT ![i] = SendOf(p)]
    /\ SetTask(p, "sending")
    /\ UNCHANGED <<receipts, chunks, log, offset, dlq, owner, up, batch, cons,
                   faults, crashes>>

\* put raises, and its commit may have reached the database all the same
PutFails(i, p) ==
    /\ task[p] = [pc |-> "prepared", at |-> i]
    /\ lock[i] = "free"
    /\ Fault
    /\ \/ InsertRow(p)
       \/ UNCHANGED <<outbox, created>>
    /\ SetTask(p, "failed")
    /\ UNCHANGED <<receipts, chunks, log, offset, dlq, owner, up, lock, batch,
                   send, cons, crashes>>

-----------------------------------------------------------------------------
(* _send_with_retry, by whichever of publish and drain holds the lock *)

\* The caller leaves its lock: publish returns or raises, the drain goes to sleep
Leave(i, pc) ==
    /\ lock' = [lock EXCEPT ![i] = "free"]
    /\ send' = [send EXCEPT ![i] = NoSend]
    /\ batch' = [batch EXCEPT ![i] = {}]
    /\ task' = IF lock[i] \in Pipelines THEN [task EXCEPT ![lock[i]].pc = pc] ELSE task

\* except Exception: the producer is closed; try again, or record the error
AttemptFails(i) ==
    send' = [send EXCEPT ![i] =
                IF @.attempt < MaxPublishRetry
                THEN [pid |-> @.pid, attempt |-> @.attempt + 1, step |-> "send"]
                ELSE [@ EXCEPT !.step = "error"]]

\* send_and_wait returns: acks="all" has the record in the topic
Send(i) ==
    /\ send[i].step = "send"
    /\ send[i].pid \notin Oversized
    /\ log' = Append(log, send[i].pid)
    /\ send' = [send EXCEPT ![i].step = "mark"]
    /\ UNCHANGED <<outbox, created, receipts, chunks, offset, dlq, owner, up, lock,
                   batch, cons, task, faults, crashes>>

\* no connection, a refused record, or an acknowledgement lost after the append
SendFails(i) ==
    /\ send[i].step = "send"
    /\ \/ /\ send[i].pid \in Oversized
          /\ UNCHANGED <<log, faults>>
       \/ /\ send[i].pid \notin Oversized
          /\ Fault
          /\ log' \in {log, Append(log, send[i].pid)}
    /\ AttemptFails(i)
    /\ UNCHANGED <<outbox, created, receipts, chunks, offset, dlq, owner, up, lock,
                   batch, cons, task, crashes>>

\* UPDATE ... SET published=true: no row, no effect
MarkRow(p) ==
    receipts' = [receipts EXCEPT ![p] = IF @ = "absent" THEN @ ELSE "published"]

MarkPublished(i) ==
    /\ send[i].step = "mark"
    /\ MarkRow(send[i].pid)
    /\ send' = [send EXCEPT ![i].step = "delete"]
    /\ UNCHANGED <<outbox, created, chunks, log, offset, dlq, owner, up, lock, batch,
                   cons, task, faults, crashes>>

MarkPublishedFails(i) ==
    /\ send[i].step = "mark"
    /\ Fault
    /\ MarkRow(send[i].pid) \/ UNCHANGED receipts
    /\ AttemptFails(i)
    /\ UNCHANGED <<outbox, created, chunks, log, offset, dlq, owner, up, lock, batch,
                   cons, task, crashes>>

\* The drain's next row, oldest first
Oldest(S) == {p \in S : \A q \in S : created[p] <= created[q]}

\* outbox.delete, then return True: publish goes on, the drain takes its next row
DeleteRow(i) ==
    /\ send[i].step = "delete"
    /\ outbox' = outbox \ {send[i].pid}
    /\ IF lock[i] = "drain" /\ batch[i] # {}
       THEN \E p \in Oldest(batch[i]) :
               /\ send' = [send EXCEPT ![i] = SendOf(p)]
               /\ batch' = [batch EXCEPT ![i] = @ \ {p}]
               /\ UNCHANGED <<lock, task>>
       ELSE Leave(i, "confirm")
    /\ UNCHANGED <<created, receipts, chunks, log, offset, dlq, owner, up, cons,
                   faults, crashes>>

DeleteRowFails(i) ==
    /\ send[i].step = "delete"
    /\ Fault
    /\ outbox' \in {outbox, outbox \ {send[i].pid}}
    /\ AttemptFails(i)
    /\ UNCHANGED <<created, receipts, chunks, log, offset, dlq, owner, up, lock, batch,
                   cons, task, crashes>>

\* Mutant: the lock is never released
GiveUpKeepsLock(i) ==
    /\ send[i].step = "error"
    /\ send' = [send EXCEPT ![i] = NoSend]
    /\ task' = IF lock[i] \in Pipelines THEN [task EXCEPT ![lock[i]].pc = "failed"] ELSE task
    /\ UNCHANGED <<durable, owner, up, lock, batch, cons, faults, crashes>>

\* mark_error, whether it works or raises: publish raises, the drain stops here
GiveUp(i) ==
    /\ send[i].step = "error"
    /\ Leave(i, "failed")
    /\ UNCHANGED <<durable, owner, up, cons, faults, crashes>>

\* Mutant: the drain does not take the publish lock
DrainUnlocked(i) ==
    /\ i \in up
    /\ \E p \in Oldest(Pending) :
          /\ send' = [send EXCEPT ![i] = SendOf(p)]
          /\ batch' = [batch EXCEPT ![i] = Pending \ {p}]
    /\ UNCHANGED <<durable, owner, up, lock, cons, task, faults, crashes>>

\* _drain_outbox: the rows are read under the lock and sent oldest first
Drain(i) ==
    /\ i \in up
    /\ lock[i] = "free"
    /\ \E p \in Oldest(Pending) :
          /\ send' = [send EXCEPT ![i] = SendOf(p)]
          /\ batch' = [batch EXCEPT ![i] = Pending \ {p}]
    /\ lock' = [lock EXCEPT ![i] = "drain"]
    /\ UNCHANGED <<durable, owner, up, cons, task, faults, crashes>>

-----------------------------------------------------------------------------
(* confirm_storage: polls until the chunks are there, its timeout or an error *)

\* Mutant: the first poll is believed whatever it says
ConfirmStoredBlindly(p) ==
    /\ task[p].pc = "confirm"
    /\ SetTask(p, "stored")
    /\ UNCHANGED <<durable, owner, up, lock, batch, send, cons, faults, crashes>>

ConfirmStored(p) ==
    /\ task[p].pc = "confirm"
    /\ Stored(p)
    /\ SetTask(p, "stored")
    /\ UNCHANGED <<durable, owner, up, lock, batch, send, cons, faults, crashes>>

ConfirmPending(p) ==
    /\ task[p].pc = "confirm"
    /\ SetTask(p, "pending")
    /\ UNCHANGED <<durable, owner, up, lock, batch, send, cons, faults, crashes>>

-----------------------------------------------------------------------------
(* The consumer *)

SetCons(i, c) == cons' = [cons EXCEPT ![i] = c]

\* _run_loop connects: the join rebalances the group and may take the partition
\* from an instance that is still busy with a message
Join(i) ==
    /\ i \in up
    /\ cons[i].pc = "down"
    /\ SetCons(i, Idle)
    /\ owner' \in IF owner = "none" THEN {i} ELSE {owner, i}
    /\ UNCHANGED <<durable, up, lock, batch, send, task, faults, crashes>>

\* The partition of a member that left goes to another one
Rebalance(i) ==
    /\ owner = "none"
    /\ cons[i].pc # "down"
    /\ owner' = i
    /\ UNCHANGED <<durable, up, lock, batch, send, cons, task, faults, crashes>>

\* The loop ends with an exception: the consumer is closed and leaves the group
Leaves(i) ==
    /\ SetCons(i, Down)
    /\ owner' = IF owner = i THEN "none" ELSE owner

\* Every message is committed before the next is read, so an idle owner reads at
\* the committed offset
Fetch(i) ==
    /\ owner = i
    /\ cons[i].pc = "idle"
    /\ offset < Len(log)
    /\ SetCons(i, [pc |-> "read", at |-> offset + 1, attempt |-> 1, missing |-> {}])
    /\ UNCHANGED <<durable, owner, up, lock, batch, send, task, faults, crashes>>

\* _missing_records: nothing missing is a duplicate, processed without storing
ReadMissing(i) ==
    /\ cons[i].pc = "read"
    /\ LET missing == SourceKeys(log[cons[i].at]) \ chunks
       IN  SetCons(i, [pc |-> IF missing = {} THEN "commit" ELSE "store",
                       at |-> cons[i].at, attempt |-> cons[i].attempt, missing |-> missing])
    /\ UNCHANGED <<durable, owner, up, lock, batch, send, task, faults, crashes>>

\* Mutant: every insert commits on its own, and the run stops after the first
InsertOneChunk(i) == \E key \in cons[i].missing : chunks' = chunks \cup {key}

\* INSERT ... ON CONFLICT DO NOTHING of the keys that were missing, one transaction
InsertChunks(i) == chunks' = chunks \cup cons[i].missing

StoreChunks(i) ==
    /\ cons[i].pc = "store"
    /\ InsertChunks(i)
    /\ SetCons(i, [cons[i] EXCEPT !.pc = "commit"])
    /\ UNCHANGED <<outbox, created, receipts, log, offset, dlq, owner, up, lock, batch,
                   send, task, faults, crashes>>

\* Mutant: a message that failed for the last time is committed without a dead letter
ProcessFailsSkips(i) ==
    /\ Fault
    /\ cons[i].pc \in {"read", "store"}
    /\ SetCons(i, [cons[i] EXCEPT !.pc = IF @ = "store" THEN "commit" ELSE "read"])
    /\ UNCHANGED <<durable, owner, up, lock, batch, send, task, crashes>>

\* An attempt fails: the read, the embedding, or the transaction (rolled back, or
\* committed with its answer lost); after the last one the event is dead-lettered
ProcessFails(i) ==
    /\ Fault
    /\ \/ cons[i].pc \in {"read", "store"} /\ UNCHANGED chunks
       \/ cons[i].pc = "store" /\ InsertChunks(i)
    /\ SetCons(i, IF cons[i].attempt < MaxProcessRetry
                  THEN [pc |-> "read", at |-> cons[i].at,
                        attempt |-> cons[i].attempt + 1, missing |-> {}]
                  ELSE [cons[i] EXCEPT !.pc = "dlq"])
    /\ UNCHANGED <<outbox, created, receipts, log, offset, dlq, owner, up, lock, batch,
                   send, task, crashes>>

DeadLetter(i) ==
    /\ cons[i].pc = "dlq"
    /\ HasDlq
    /\ dlq' = dlq \cup {log[cons[i].at]}
    /\ SetCons(i, [cons[i] EXCEPT !.pc = "commit"])
    /\ UNCHANGED <<outbox, created, receipts, chunks, log, offset, owner, up, lock,
                   batch, send, task, faults, crashes>>

\* The dead letter is refused, or its acknowledgement lost: nothing is committed
DeadLetterFails(i) ==
    /\ cons[i].pc = "dlq"
    /\ \/ ~HasDlq /\ UNCHANGED <<dlq, faults>>
       \/ HasDlq /\ Fault /\ dlq' \in {dlq, dlq \cup {log[cons[i].at]}}
    /\ Leaves(i)
    /\ UNCHANGED <<outbox, created, receipts, chunks, log, offset, up, lock, batch,
                   send, task, crashes>>

\* commit(offset + 1) by the member that owns the partition
Commit(i) ==
    /\ cons[i].pc = "commit"
    /\ owner = i
    /\ offset' = cons[i].at
    /\ SetCons(i, Idle)
    /\ UNCHANGED <<outbox, created, receipts, chunks, log, dlq, owner, up, lock, batch,
                   send, task, faults, crashes>>

\* The commit of a member that lost the partition is refused; any commit may fail
CommitFails(i) ==
    /\ cons[i].pc = "commit"
    /\ \/ owner # i /\ UNCHANGED <<offset, faults>>
       \/ owner = i /\ Fault /\ offset' \in {offset, cons[i].at}
    /\ Leaves(i)
    /\ UNCHANGED <<outbox, created, receipts, chunks, log, dlq, up, lock, batch, send,
                   task, crashes>>

-----------------------------------------------------------------------------
(* Shutdown, crash and restart of an instance *)

Finished == {"new", "stored", "pending", "failed", "lost"}

Crash(i) ==
    /\ i \in up
    /\ crashes < MaxCrashes
    /\ crashes' = crashes + 1
    /\ up' = up \ {i}
    /\ lock' = [lock EXCEPT ![i] = "free"]
    /\ batch' = [batch EXCEPT ![i] = {}]
    /\ send' = [send EXCEPT ![i] = NoSend]
    /\ Leaves(i)
    /\ task' = [p \in Pipelines |->
                  IF task[p].at = i /\ task[p].pc \notin Finished
                  THEN [task[p] EXCEPT !.pc = "lost"] ELSE task[p]]
    /\ UNCHANGED <<durable, faults>>

Restart(i) ==
    /\ i \notin up
    /\ up' = up \cup {i}
    /\ UNCHANGED <<durable, owner, lock, batch, send, cons, task, faults, crashes>>

-----------------------------------------------------------------------------

PublishStep(i, p) == Prepare(i, p) \/ Put(i, p) \/ PutFails(i, p)

TaskStep(p) == PrepareFails(p) \/ ConfirmStored(p) \/ ConfirmPending(p)

SenderStep(i) ==
    \/ Send(i) \/ SendFails(i) \/ MarkPublished(i) \/ MarkPublishedFails(i)
    \/ DeleteRow(i) \/ DeleteRowFails(i) \/ GiveUp(i) \/ Drain(i)

ConsumerStep(i) ==
    \/ Join(i) \/ Rebalance(i) \/ Fetch(i) \/ ReadMissing(i) \/ StoreChunks(i)
    \/ ProcessFails(i) \/ DeadLetter(i) \/ DeadLetterFails(i) \/ Commit(i)
    \/ CommitFails(i)

Next ==
    \/ \E i \in Instances, p \in Pipelines : PublishStep(i, p)
    \/ \E p \in Pipelines : TaskStep(p)
    \/ \E i \in Instances : SenderStep(i) \/ ConsumerStep(i) \/ Crash(i) \/ Restart(i)

Spec == Init /\ [][Next]_vars

\* The event loop of an instance runs every ready task, a process manager restarts
\* a dead instance, the group assigns an orphaned partition
Fairness ==
    /\ \A i \in Instances :
          /\ WF_vars(SenderStep(i))
          /\ WF_vars(ConsumerStep(i))
          /\ WF_vars(Restart(i))
    /\ \A p \in Pipelines : 
          /\ WF_vars(TaskStep(p) /\ task[p].pc = "confirm")
          /\ \A i \in Instances : SF_vars(Put(i, p))

FairSpec == Spec /\ Fairness

-----------------------------------------------------------------------------
(* Properties *)

Steps == {"idle", "send", "mark", "delete", "error"}
ConsPcs == {"down", "idle", "read", "store", "dlq", "commit"}
TaskPcs == {"new", "prepared", "sending", "confirm", "stored", "pending", "failed", "lost"}

Sends == [pid : Pipelines \cup {"free"}, attempt : Nat, step : Steps]
Consumers == [pc : ConsPcs, at : Nat, attempt : Nat, missing : SUBSET (Pipelines \X Chunks)]
Tasks == [pc : TaskPcs, at : Instances \cup {"none"}]

\* The type invariant of the tables, the topic and the state of every instance.
TypeOK ==
    /\ outbox \subseteq Pipelines
    /\ created \in [Pipelines -> Nat]
    /\ receipts \in [Pipelines -> {"absent", "prepared", "published"}]
    /\ chunks \subseteq Pipelines \X Chunks
    /\ log \in Seq(Pipelines)
    /\ offset \in Nat
    /\ dlq \subseteq Pipelines
    /\ owner \in Instances \cup {"none"}
    /\ up \subseteq Instances
    /\ lock \in [Instances -> Pipelines \cup {"free", "drain"}]
    /\ batch \in [Instances -> SUBSET Pipelines]
    /\ send \in [Instances -> Sends]
    /\ cons \in [Instances -> Consumers]
    /\ task \in [Pipelines -> Tasks]
    /\ faults \in Nat
    /\ crashes \in Nat

\* The result is in durable hands: a row the drain will send, or a record in the topic.
Accepted(p) == p \in outbox \/ InTopic(p)

\* The consumer has nothing left to do with the event.
Settled(p) == Stored(p) \/ p \in dlq

\* "Kafka 발행 실패 - outbox에 보관됨" and KafkaOutbox's promise: from the moment put
\* commits no step of any actor, crash or failure takes the result out of both the
\* outbox and the topic (kafka_producer.py:130-134, 186-191).
AcceptedIsKept == [][\A p \in Pipelines : Accepted(p) => Accepted(p)']_vars

\* A committed offset never covers an event that was neither stored nor dead-lettered,
\* whichever member of the group committed it (kafka_consumer.py:95-101, 103-118).
CommittedIsSettled == \A k \in 1..Len(log) : k <= offset => Settled(log[k])

\* ingest_event stores the documents of an event in one transaction: no reader of the
\* chunk table ever sees part of a manifest (document_ingestion.py:73-94, 152-189).
AllOrNothing == \A p \in Pipelines : SourceKeys(p) \cap chunks \in {{}, SourceKeys(p)}

\* A receipt says published only when the topic has the event, and only topic events
\* have chunks (storage_receipt.py:26-31; the order in _send_with_retry).
PublishedIsInTopic ==
    \A p \in Pipelines :
        receipts[p] = "published" \/ SourceKeys(p) \cap chunks # {} => InTopic(p)

\* What publish and confirm_storage told the pipeline agrees for good with what
\* GET /storage answers: a "stored" is never followed by an unknown or pending one,
\* and a "pending" (retrySafe False) is only said of an event Kafka does hold
\* (kafka_producer.py:160-176, routers/orchestration.py:266-278).
AnswerAgrees ==
    \A p \in Pipelines :
        /\ task[p].pc = "stored" => StorageStatus(p) = "stored"
        /\ task[p].pc = "pending" => InTopic(p) /\ receipts[p] = "published"

\* Both: neither a receipt nor an answer says more than the topic and the tables hold.
AnswersAreTrue == PublishedIsInTopic /\ AnswerAgrees

\* The publish lock keeps the drain and the publish call of an instance from sending
\* the same row: beyond one record for each instance that drains the table, every copy
\* of an event in the topic is owed to a failed call or a crash
\* (kafka_producer.py:104, 130, 223).
Copies(p) == Cardinality({k \in 1..Len(log) : log[k] = p})
DuplicatesCostAFailure ==
    \A p \in Pipelines : Copies(p) <= Cardinality(Instances) + faults + crashes

\* GET /storage never takes an answer back: unknown, pending, stored, in that order.
StatusNeverReverts ==
    [][\A p \in Pipelines :
          /\ StorageStatus(p) = "stored" => StorageStatus(p)' = "stored"
          /\ StorageStatus(p) # "unknown" => StorageStatus(p)' # "unknown"]_vars

\* Every publish call that started ends: it answers, or dies with its instance; and
\* what it left in durable hands is stored or dead-lettered, whatever failed on the way,
\* unless an older row that the broker always refuses sits before it in the outbox, where
\* the drain stops (kafka_producer.py:125-134, 222-226; kafka_consumer.py:86-118).
Blocked(p) == \E q \in outbox \cap Oversized : created[q] <= created[p]
PublishSettles ==
    \A p \in Pipelines :
        task[p].pc # "new" ~>
            /\ task[p].pc \in Finished \ {"new"}
            /\ Accepted(p) /\ ~Blocked(p) => Settled(p)

\* Phase 4 keeps the promise of DurableDelivery: acceptance is the commit of the row,
\* storage the commit of the chunks, and neither is ever undone.
Promise == INSTANCE DurableDelivery WITH
    accepted <- {p \in Pipelines : Accepted(p)},
    stored   <- {p \in Pipelines : Stored(p)},
    dead     <- dlq,
    answered <- {p \in Pipelines : task[p].pc = "stored"}

KeepsPromise == Promise!Spec
=============================================================================
