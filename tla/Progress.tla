------------------------------ MODULE Progress ------------------------------
(***************************************************************************)
(* The progress service: how a client follows a run.                       *)
(*                                                                         *)
(* A run sends progress events and then one terminal event.  A client      *)
(* subscribes at any time, receives the retained events it missed and then *)
(* the new ones until the terminal one; it may drop the connection and     *)
(* subscribe again, or ask for a snapshot.  All of it is memory of one     *)
(* process; every call of the service runs without an await, so a call is  *)
(* one step, and a subscription has one step per event it yields.  A       *)
(* heartbeat takes nothing from the queue, even when an event arrives as   *)
(* the wait times out: it changes no state and is a stuttering step.       *)
(***************************************************************************)
EXTENDS Integers, Sequences, FiniteSets, SequencesExt

CONSTANTS
    Runs,         \* pipeline ids
    Streams,      \* subscriptions of clients, one after the other on a stream
    BufferSize,   \* progress events kept for a late subscriber
    MaxTerminal,  \* max_terminal_events
    Ttl,          \* terminal_ttl_seconds
    MaxEvents,    \* bound: progress events of a run
    MaxClock,     \* bound: time
    MaxRestarts   \* bound: restarts of the process

ASSUME ProgressAssumption ==
    /\ IsFiniteSet(Runs)
    /\ {BufferSize, MaxTerminal, Ttl} \subseteq Nat \ {0}
    /\ {MaxEvents, MaxClock, MaxRestarts} \subseteq Nat

VARIABLES
    latest,      \* _latest_progress: the last progress event of a run, or 0
    buffers,     \* _buffers: the last BufferSize progress events of a run
    remembered,  \* _terminal_events: terminal events, in the dictionary's order
    queues,      \* _queues: the streams with a queue registered for a run
    stream,      \* the generator of each subscription and what its client got
    run,         \* the task of a run: what it has sent, when it finished
    clock,       \* time.monotonic()
    restarts     \* restarts of the process so far

service == <<latest, buffers, remembered, queues>>
vars == <<service, stream, run, clock, restarts>>

Progressed(n) == [kind |-> "progress", n |-> n]
Terminal(kind) == [kind |-> kind, n |-> 0]
Done == Terminal("done")
Unavailable == Terminal("unavailable")
Finals == {"complete", "error"}

Fresh == [pc |-> "closed", of |-> "none", first |-> 1, todo |-> <<>>, queue |-> <<>>, got |-> <<>>]

Init ==
    /\ latest = [r \in Runs |-> 0]
    /\ buffers = [r \in Runs |-> <<>>]
    /\ remembered = <<>>
    /\ queues = [r \in Runs |-> {}]
    /\ stream = [s \in Streams |-> Fresh]
    /\ run = [r \in Runs |-> [state |-> "new", sent |-> 0, at |-> 0]]
    /\ clock = 0
    /\ restarts = 0

-----------------------------------------------------------------------------
(* Terminal events *)

\* Entries that have not expired, in their order
Current(seq) ==
    LET kept[k \in 0..Len(seq)] ==
            IF k = 0 THEN <<>>
            ELSE IF seq[k].expires > clock THEN Append(kept[k - 1], seq[k]) ELSE kept[k - 1]
    IN kept[Len(seq)]

\* The entry the cap evicts: the first of those that expire soonest
Oldest(seq) ==
    CHOOSE k \in 1..Len(seq) :
        /\ \A j \in 1..Len(seq) : seq[k].expires <= seq[j].expires
        /\ \A j \in 1..(k - 1) : seq[k].expires < seq[j].expires

\* Mutant: the cap evicts one entry too early
EvictAtCap(seq) == IF Len(seq) >= MaxTerminal THEN RemoveAt(seq, Oldest(seq)) ELSE seq

Evict(seq) == IF Len(seq) > MaxTerminal THEN RemoveAt(seq, Oldest(seq)) ELSE seq

Snapshot(r) ==
    LET kept == {e \in Range(Current(remembered)) : e.of = r}
    IN IF kept # {} THEN (CHOOSE e \in kept : TRUE).kind
       ELSE IF latest[r] # 0 THEN "running" ELSE "unknown"

-----------------------------------------------------------------------------
(* What a run does *)

\* Mutant: a stream is fed only once it has replayed the buffer
EnqueueLive(r, events) ==
    stream' = [s \in Streams |->
        IF s \in queues[r] /\ stream[s].todo = <<>>
        THEN [stream[s] EXCEPT !.queue = @ \o events] ELSE stream[s]]

\* The events go to every queue registered for the run.
Enqueue(r, events) ==
    stream' = [s \in Streams |->
        IF s \in queues[r] THEN [stream[s] EXCEPT !.queue = @ \o events] ELSE stream[s]]

Trim(seq) == SubSeq(seq, IF Len(seq) > BufferSize THEN Len(seq) - BufferSize + 1 ELSE 1, Len(seq))

Send(r) ==
    LET n == run[r].sent + 1 IN
    /\ run[r].state \in {"new", "running"}
    /\ n <= MaxEvents
    /\ run' = [run EXCEPT ![r].state = "running", ![r].sent = n]
    /\ latest' = [latest EXCEPT ![r] = n]
    /\ buffers' = [buffers EXCEPT ![r] = Trim(Append(@, Progressed(n)))]
    /\ Enqueue(r, <<Progressed(n)>>)
    /\ UNCHANGED <<remembered, queues, clock, restarts>>

Forget(r) == latest' = [latest EXCEPT ![r] = 0]

\* Mutant: the terminal event without the end marker
ClosingOpen(kind) == <<Terminal(kind)>>

Closing(kind) == <<Terminal(kind), Done>>

\* complete and error: remembered, delivered, followed by the end marker
Finish(r) == \E kind \in Finals :
    /\ run[r].state = "running"
    /\ run' = [run EXCEPT ![r].state = kind, ![r].at = clock]
    /\ remembered' = Evict(Append(Current(remembered),
                                  [of |-> r, kind |-> kind, expires |-> clock + Ttl]))
    /\ Forget(r)
    /\ Enqueue(r, Closing(kind))
    /\ buffers' = [buffers EXCEPT ![r] = <<>>]
    /\ UNCHANGED <<queues, clock, restarts>>

-----------------------------------------------------------------------------
(* What a client does *)

\* A subscription of its own stream: to a finished run it yields the terminal
\* event and ends, to an unknown run it says so and ends.
Ends(s, r, event) ==
    /\ stream' = [stream EXCEPT ![s] = [Fresh EXCEPT !.pc = "answered", !.of = r, !.got = <<event>>]]
    /\ UNCHANGED <<buffers, queues>>

\* Registering the queue and copying the buffer are one step.
Registers(s, r) ==
    /\ queues' = [queues EXCEPT ![r] = @ \cup {s}]
    /\ stream' = [stream EXCEPT ![s] = [Fresh EXCEPT
                    !.pc = "open", !.of = r, !.todo = buffers[r],
                    !.first = IF buffers[r] = <<>> THEN run[r].sent + 1 ELSE buffers[r][1].n]]
    /\ UNCHANGED buffers

Subscribe(s, r) ==
    /\ stream[s].pc # "open"
    /\ remembered' = Current(remembered)
    /\ CASE Snapshot(r) \in Finals -> Ends(s, r, Terminal(Snapshot(r)))
         [] Snapshot(r) = "unknown" -> Ends(s, r, Unavailable)
         [] OTHER -> Registers(s, r)
    /\ UNCHANGED <<latest, run, clock, restarts>>

\* Yields the next event of the copied buffer
Replay(s) ==
    /\ stream[s].pc = "open"
    /\ stream[s].todo # <<>>
    /\ stream' = [stream EXCEPT ![s].got = Append(@, Head(stream[s].todo)), ![s].todo = Tail(@)]
    /\ UNCHANGED <<service, run, clock, restarts>>

\* Mutant: the queue of a dropped subscription stays registered
UnregisterEnded(s) == queues' = [r \in Runs |-> IF run[r].state \in Finals THEN queues[r] \ {s} ELSE queues[r]]

Unregister(s) == queues' = [r \in Runs |-> queues[r] \ {s}]

\* Takes the next event off the queue; the end marker ends the stream.
Take(s) ==
    /\ stream[s].pc = "open"
    /\ stream[s].todo = <<>>
    /\ stream[s].queue # <<>>
    /\ LET event == Head(stream[s].queue) IN
       IF event = Done
       THEN /\ stream' = [stream EXCEPT ![s].pc = "ended", ![s].queue = <<>>]
            /\ Unregister(s)
       ELSE /\ stream' = [stream EXCEPT ![s].got = Append(@, event), ![s].queue = Tail(@)]
            /\ UNCHANGED queues
    /\ UNCHANGED <<latest, buffers, remembered, run, clock, restarts>>

\* The client goes away: the generator is closed and its finally block runs.
Disconnect(s) ==
    /\ stream[s].pc = "open"
    /\ stream' = [stream EXCEPT ![s].pc = "dropped", ![s].todo = <<>>, ![s].queue = <<>>]
    /\ Unregister(s)
    /\ UNCHANGED <<latest, buffers, remembered, run, clock, restarts>>

\* GET /state sweeps the expired entries before it answers.
Poll ==
    /\ remembered # Current(remembered)
    /\ remembered' = Current(remembered)
    /\ UNCHANGED <<latest, buffers, queues, stream, run, clock, restarts>>

-----------------------------------------------------------------------------
Tick ==
    /\ clock < MaxClock
    /\ clock' = clock + 1
    /\ UNCHANGED <<service, stream, run, restarts>>

\* A new process: no run, no event and no stream of the old one survives.
Restart ==
    /\ restarts < MaxRestarts
    /\ restarts' = restarts + 1
    /\ latest' = [r \in Runs |-> 0]
    /\ buffers' = [r \in Runs |-> <<>>]
    /\ remembered' = <<>>
    /\ queues' = [r \in Runs |-> {}]
    /\ stream' = [s \in Streams |->
        IF stream[s].pc = "open" THEN [stream[s] EXCEPT !.pc = "dropped", !.todo = <<>>, !.queue = <<>>]
        ELSE stream[s]]
    /\ run' = [r \in Runs |-> IF run[r].state = "new" THEN run[r] ELSE [run[r] EXCEPT !.state = "lost"]]
    /\ UNCHANGED clock

Next ==
    \/ \E r \in Runs : Send(r) \/ Finish(r)
    \/ \E s \in Streams : Replay(s) \/ Take(s) \/ Disconnect(s)
    \/ \E s \in Streams, r \in Runs : Subscribe(s, r)
    \/ Poll \/ Tick \/ Restart

Spec == Init /\ [][Next]_vars

\* A run ends: every stage of it has a timeout.  A client that stays connected
\* is sent what its generator yields.
Fairness ==
    /\ \A r \in Runs : WF_vars(Finish(r))
    /\ \A s \in Streams : WF_vars(Replay(s)) /\ WF_vars(Take(s))

FairSpec == Spec /\ Fairness

-----------------------------------------------------------------------------
(* Properties *)

\* The events of run r from number n on, with its end if it has one
History(r, n) ==
    [k \in 1..(run[r].sent - n + 1) |-> Progressed(n + k - 1)]
        \o IF run[r].state \in Finals THEN Closing(run[r].state) ELSE <<>>

\* What a subscription has delivered, followed by what it still holds, is the
\* run's history from its first retained event on: nothing is missed between the
\* replay and the live queue, repeated or reordered, and a stream that ended did
\* so right after the one terminal event (subscribe, _enqueue).
StreamIsWhole ==
    \A s \in Streams :
        LET r == stream[s].of
            held == stream[s].got \o stream[s].todo \o stream[s].queue
        IN /\ stream[s].pc = "open" => held = History(r, stream[s].first)
           /\ stream[s].pc = "ended" /\ run[r].state # "lost" =>
                Append(held, Done) = History(r, stream[s].first)
           /\ stream[s].pc = "dropped" /\ run[r].state # "lost" =>
                IsPrefix(held, History(r, stream[s].first))

\* The outcome of a run can be asked for until it expires or until MaxTerminal
\* later runs have ended, whatever was swept meanwhile (_remember_terminal).
OutcomeIsKept ==
    \A r \in Runs :
        /\ run[r].state \in Finals
        /\ clock < run[r].at + Ttl
        /\ Cardinality({q \in Runs \ {r} : run[q].state \in Finals /\ run[q].at >= run[r].at}) < MaxTerminal
        => Snapshot(r) = run[r].state

\* The service holds a queue exactly for the streams that are open, and progress
\* and a buffer only for runs that are under way: a finished run, a client that
\* left in the middle of a replay, or both, leave nothing behind.
NothingLeaks ==
    \A r \in Runs :
        /\ queues[r] = {s \in Streams : stream[s].pc = "open" /\ stream[s].of = r}
        /\ (latest[r] # 0 \/ buffers[r] # <<>>) => run[r].state = "running"

\* A client that stays connected is told how the run ends and its stream is closed.
StreamsEnd == \A s \in Streams : (stream[s].pc = "open") ~> (stream[s].pc # "open")
=============================================================================
