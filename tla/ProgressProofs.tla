--------------------------- MODULE ProgressProofs ---------------------------
(***************************************************************************)
(* What the progress service leaves behind, what it answers about a run    *)
(* that has ended, and what a subscription receives, for any number of     *)
(* runs and clients and any sizes of its tables.                           *)
(***************************************************************************)
EXTENDS Progress, SequenceTheorems, FiniteSetTheorems, WellFoundedInduction, TLAPS

-----------------------------------------------------------------------------
(* The inductive invariant *)

Kinds == {"progress", "done", "unavailable"} \cup Finals
EventSet == [kind : Kinds, n : Nat]
Pcs == {"closed", "answered", "open", "ended", "dropped"}
StreamSet == [pc : Pcs, of : Runs \cup {"none"}, first : Nat, todo : Seq(EventSet),
              queue : Seq(EventSet), got : Seq(EventSet)]
RunSet == [state : {"new", "running", "lost"} \cup Finals, sent : Nat, at : Nat]

\* The types of what the theorem is about
ShapeInv ==
    /\ latest \in [Runs -> Nat]
    /\ buffers \in [Runs -> Seq(EventSet)]
    /\ queues \in [Runs -> SUBSET Streams]
    /\ stream \in [Streams -> StreamSet]
    /\ run \in [Runs -> RunSet]
    /\ clock \in Nat

Inv == ShapeInv /\ NothingLeaks

-----------------------------------------------------------------------------
(* The operators *)

LEMMA EventTypes ==
    /\ \A n \in Nat : Progressed(n) \in EventSet
    /\ \A kind \in Finals \cup {"done", "unavailable"} : Terminal(kind) \in EventSet
    /\ \A kind \in Finals : Closing(kind) \in Seq(EventSet)
    /\ Done \in EventSet /\ Unavailable \in EventSet
<1>1. \A n \in Nat : Progressed(n) \in EventSet
  BY DEF Progressed, EventSet, Kinds
<1>2. \A kind \in Finals \cup {"done", "unavailable"} : Terminal(kind) \in EventSet
  BY DEF Terminal, EventSet, Kinds
<1>3. Done \in EventSet /\ Unavailable \in EventSet
  BY <1>2 DEF Done, Unavailable
<1>4. \A kind \in Finals : Closing(kind) \in Seq(EventSet)
  BY <1>2, <1>3 DEF Closing
<1> QED
  BY <1>1, <1>2, <1>3, <1>4

LEMMA TrimType ==
    ASSUME NEW q \in Seq(EventSet)
    PROVE  Trim(q) \in Seq(EventSet)
<1> DEFINE first == IF Len(q) > BufferSize THEN Len(q) - BufferSize + 1 ELSE 1
<1>1. first \in 1..(Len(q) + 1) /\ Len(q) \in 0..Len(q)
  BY LenProperties, ProgressAssumption
<1>2. SubSeq(q, first, Len(q)) \in Seq(EventSet)
  BY <1>1, SubSeqProperties
<1> QED
  BY <1>2 DEF Trim

\* What is enqueued changes neither who is open nor for which run.
LEMMA EnqueueKeeps ==
    ASSUME ShapeInv, NEW r \in Runs, NEW events \in Seq(EventSet), Enqueue(r, events)
    PROVE  /\ stream' \in [Streams -> StreamSet]
           /\ \A s \in Streams : stream'[s].pc = stream[s].pc /\ stream'[s].of = stream[s].of
<1> SUFFICES ASSUME NEW s \in Streams
             PROVE  stream'[s] \in StreamSet /\ stream'[s].pc = stream[s].pc /\ stream'[s].of = stream[s].of
  BY DEF Enqueue
<1>1. stream[s] \in StreamSet
  BY DEF ShapeInv
<1> DEFINE longer == stream[s].queue \o events
<1>2. longer \in Seq(EventSet)
  BY <1>1, ConcatProperties DEF StreamSet
<1>3. stream'[s] = [stream[s] EXCEPT !.queue = longer] \/ stream'[s] = stream[s]
  BY DEF Enqueue
<1> HIDE DEF longer
<1> QED
  BY <1>1, <1>2, <1>3 DEF StreamSet

-----------------------------------------------------------------------------
(* The invariant is inductive. *)

LEMMA InitInv == Init => Inv
<1> SUFFICES ASSUME Init PROVE Inv
  OBVIOUS
<1>1. Fresh \in StreamSet /\ Fresh.pc = "closed"
  BY DEF Fresh, StreamSet, Pcs
<1>2. ShapeInv
  BY <1>1 DEF Init, ShapeInv, RunSet
<1>3. NothingLeaks
  BY <1>1 DEF Init, NothingLeaks
<1> QED
  BY <1>2, <1>3 DEF Inv

LEMMA SendKeeps == ASSUME Inv, NEW r \in Runs, Send(r) PROVE Inv'
<1> DEFINE n == run[r].sent + 1
<1>1. /\ run' = [run EXCEPT ![r].state = "running", ![r].sent = n]
      /\ latest' = [latest EXCEPT ![r] = n]
      /\ buffers' = [buffers EXCEPT ![r] = Trim(Append(@, Progressed(n)))]
      /\ Enqueue(r, <<Progressed(n)>>)
      /\ UNCHANGED <<queues, clock>>
  BY DEF Send
<1>2. n \in Nat /\ run[r] \in RunSet /\ buffers[r] \in Seq(EventSet)
  BY DEF Inv, ShapeInv, RunSet
<1>3. <<Progressed(n)>> \in Seq(EventSet) /\ Append(buffers[r], Progressed(n)) \in Seq(EventSet)
  BY <1>2, EventTypes
<1>4. Trim(Append(buffers[r], Progressed(n))) \in Seq(EventSet)
  BY <1>3, TrimType
<1>5. /\ stream' \in [Streams -> StreamSet]
      /\ \A s \in Streams : stream'[s].pc = stream[s].pc /\ stream'[s].of = stream[s].of
  BY <1>1, <1>3, EnqueueKeeps DEF Inv
<1> HIDE DEF n
<1>6. /\ run' \in [Runs -> RunSet] /\ run'[r].state = "running"
      /\ \A q \in Runs \ {r} : run'[q] = run[q]
  BY <1>1, <1>2 DEF Inv, ShapeInv, RunSet
<1>7. ShapeInv'
  BY <1>1, <1>2, <1>4, <1>5, <1>6 DEF Inv, ShapeInv
<1>8. NothingLeaks'
  BY <1>1, <1>5, <1>6 DEF Inv, ShapeInv, NothingLeaks
<1> QED
  BY <1>7, <1>8 DEF Inv

LEMMA FinishKeeps == ASSUME Inv, NEW r \in Runs, Finish(r) PROVE Inv'
<1>1. PICK kind \in Finals :
        /\ run' = [run EXCEPT ![r].state = kind, ![r].at = clock]
        /\ Forget(r)
        /\ Enqueue(r, Closing(kind))
        /\ buffers' = [buffers EXCEPT ![r] = <<>>]
        /\ UNCHANGED <<queues, clock>>
  BY DEF Finish
<1>2. latest' = [latest EXCEPT ![r] = 0]
  BY <1>1 DEF Forget
<1>3. /\ stream' \in [Streams -> StreamSet]
      /\ \A s \in Streams : stream'[s].pc = stream[s].pc /\ stream'[s].of = stream[s].of
  BY <1>1, EventTypes, EnqueueKeeps DEF Inv
<1>4. run' \in [Runs -> RunSet] /\ \A q \in Runs \ {r} : run'[q] = run[q]
  BY <1>1 DEF Inv, ShapeInv, RunSet
<1>5. ShapeInv'
  BY <1>1, <1>2, <1>3, <1>4 DEF Inv, ShapeInv
<1>6. latest'[r] = 0 /\ buffers'[r] = <<>>
  BY <1>1, <1>2 DEF Inv, ShapeInv
<1>7. NothingLeaks'
  BY <1>1, <1>2, <1>3, <1>4, <1>6 DEF Inv, ShapeInv, NothingLeaks
<1> QED
  BY <1>5, <1>7 DEF Inv

\* A subscription that ends at once registers no queue.
LEMMA EndsKeeps ==
    ASSUME Inv, NEW s \in Streams, stream[s].pc # "open", NEW r \in Runs, NEW e \in EventSet, Ends(s, r, e),
           UNCHANGED <<latest, run, clock>>
    PROVE  Inv'
<1> DEFINE f == [Fresh EXCEPT !.pc = "answered", !.of = r, !.got = <<e>>]
<1>1. Fresh \in StreamSet
  BY DEF Fresh, StreamSet, Pcs
<1>2. f \in StreamSet /\ f.pc = "answered"
  <2>1. <<e>> \in Seq(EventSet)
    OBVIOUS
  <2> QED
    BY <1>1, <2>1 DEF StreamSet, Pcs
<1>3. stream' = [stream EXCEPT ![s] = f] /\ UNCHANGED <<buffers, queues>>
  BY DEF Ends
<1> HIDE DEF f
<1> QED
  BY <1>2, <1>3 DEF Inv, ShapeInv, NothingLeaks

LEMMA RegistersKeeps ==
    ASSUME Inv, NEW s \in Streams, stream[s].pc # "open", NEW r \in Runs, Registers(s, r),
           UNCHANGED <<latest, run, clock>>
    PROVE  Inv'
<1> DEFINE first == IF buffers[r] = <<>> THEN run[r].sent + 1 ELSE buffers[r][1].n
           f == [Fresh EXCEPT !.pc = "open", !.of = r, !.todo = buffers[r], !.first = first]
<1>1. Fresh \in StreamSet
  BY DEF Fresh, StreamSet, Pcs
<1>2. buffers[r] \in Seq(EventSet) /\ run[r].sent \in Nat
  BY DEF Inv, ShapeInv, RunSet
<1>3. first \in Nat
  <2>1. buffers[r] # <<>> => buffers[r][1] \in EventSet
    BY <1>2, EmptySeq, ElementOfSeq, LenProperties
  <2> QED
    BY <1>2, <2>1 DEF EventSet
<1>4. /\ stream' = [stream EXCEPT ![s] = f]
      /\ queues' = [queues EXCEPT ![r] = @ \cup {s}]
      /\ UNCHANGED buffers
  <2>1. stream' = [stream EXCEPT ![s] = f]
    BY DEF Registers
  <2> QED
    BY <2>1 DEF Registers
<1> HIDE DEF first
<1>5. f \in StreamSet /\ f.pc = "open" /\ f.of = r
  BY <1>1, <1>2, <1>3 DEF StreamSet, Pcs
<1> HIDE DEF f
<1>6. ShapeInv'
  BY <1>4, <1>5 DEF Inv, ShapeInv
<1>7. NothingLeaks'
  BY <1>4, <1>5 DEF Inv, ShapeInv, NothingLeaks
<1> QED
  BY <1>6, <1>7 DEF Inv

LEMMA SubscribeKeeps == ASSUME Inv, NEW s \in Streams, NEW r \in Runs, Subscribe(s, r) PROVE Inv'
<1>1. stream[s].pc # "open" /\ UNCHANGED <<latest, run, clock>>
  BY DEF Subscribe
<1>2. (\E e \in EventSet : Ends(s, r, e)) \/ Registers(s, r)
  BY EventTypes DEF Subscribe
<1> QED
  BY <1>1, <1>2, EndsKeeps, RegistersKeeps

LEMMA ReplayKeeps == ASSUME Inv, NEW s \in Streams, Replay(s) PROVE Inv'
<1> DEFINE more == Append(stream[s].got, Head(stream[s].todo))
           rest == Tail(stream[s].todo)
<1>1. /\ stream' = [stream EXCEPT ![s].got = more, ![s].todo = rest]
      /\ stream[s].todo # <<>>
      /\ UNCHANGED <<latest, buffers, queues, run, clock>>
  BY DEF Replay, service
<1>2. stream[s] \in StreamSet
  BY DEF Inv, ShapeInv
<1>3. more \in Seq(EventSet) /\ rest \in Seq(EventSet)
  BY <1>1, <1>2 DEF StreamSet
<1> HIDE DEF more, rest
<1>4. /\ stream' \in [Streams -> StreamSet]
      /\ \A q \in Streams : stream'[q].pc = stream[q].pc /\ stream'[q].of = stream[q].of
  BY <1>1, <1>2, <1>3 DEF Inv, ShapeInv, StreamSet
<1> QED
  BY <1>1, <1>4 DEF Inv, ShapeInv, NothingLeaks

\* A stream that stops, by the end marker or with its client, has no queue any more.
LEMMA LeavesKeeps ==
    ASSUME Inv, NEW s \in Streams, NEW f \in StreamSet, f.pc # "open",
           stream' = [stream EXCEPT ![s] = f], Unregister(s),
           UNCHANGED <<latest, buffers, run, clock>>
    PROVE  Inv'
<1>1. queues' = [r \in Runs |-> queues[r] \ {s}]
  BY DEF Unregister
<1>2. ShapeInv'
  BY <1>1 DEF Inv, ShapeInv
<1>3. NothingLeaks'
  BY <1>1 DEF Inv, ShapeInv, NothingLeaks
<1> QED
  BY <1>2, <1>3 DEF Inv

LEMMA TakeKeeps == ASSUME Inv, NEW s \in Streams, Take(s) PROVE Inv'
<1> DEFINE event == Head(stream[s].queue)
           ended == [stream[s] EXCEPT !.pc = "ended", !.queue = <<>>]
           more == Append(stream[s].got, event)
           rest == Tail(stream[s].queue)
<1>1. stream[s].queue # <<>> /\ UNCHANGED <<latest, buffers, run, clock>>
  BY DEF Take
<1>2. stream[s] \in StreamSet
  BY DEF Inv, ShapeInv
<1>3. more \in Seq(EventSet) /\ rest \in Seq(EventSet)
  BY <1>1, <1>2 DEF StreamSet
<1>4. CASE stream' = [stream EXCEPT ![s].pc = "ended", ![s].queue = <<>>] /\ Unregister(s)
  <2>1. ended \in StreamSet /\ ended.pc = "ended"
    BY <1>2, EmptySeq DEF StreamSet, Pcs
  <2>2. stream' = [stream EXCEPT ![s] = ended]
    BY <1>4
  <2> HIDE DEF ended
  <2> QED
    BY <1>1, <1>4, <2>1, <2>2, LeavesKeeps
<1>5. CASE stream' = [stream EXCEPT ![s].got = more, ![s].queue = rest] /\ UNCHANGED queues
  <2> HIDE DEF more, rest
  <2>1. /\ stream' \in [Streams -> StreamSet]
        /\ \A q \in Streams : stream'[q].pc = stream[q].pc /\ stream'[q].of = stream[q].of
    BY <1>2, <1>3, <1>5 DEF Inv, ShapeInv, StreamSet
  <2> QED
    BY <1>1, <1>5, <2>1 DEF Inv, ShapeInv, NothingLeaks
<1> QED
  BY <1>4, <1>5 DEF Take

LEMMA DisconnectKeeps == ASSUME Inv, NEW s \in Streams, Disconnect(s) PROVE Inv'
<1> DEFINE f == [stream[s] EXCEPT !.pc = "dropped", !.todo = <<>>, !.queue = <<>>]
<1>1. stream[s] \in StreamSet
  BY DEF Inv, ShapeInv
<1>2. f \in StreamSet /\ f.pc = "dropped"
  BY <1>1, EmptySeq DEF StreamSet, Pcs
<1>3. stream' = [stream EXCEPT ![s] = f] /\ Unregister(s) /\ UNCHANGED <<latest, buffers, run, clock>>
  BY DEF Disconnect
<1> HIDE DEF f
<1> QED
  BY <1>2, <1>3, LeavesKeeps

LEMMA RestartKeeps == ASSUME Inv, Restart PROVE Inv'
<1>1. ASSUME NEW s \in Streams
      PROVE  stream'[s] \in StreamSet /\ stream'[s].pc # "open"
  <2> DEFINE f == [stream[s] EXCEPT !.pc = "dropped", !.todo = <<>>, !.queue = <<>>]
  <2>1. stream[s] \in StreamSet
    BY DEF Inv, ShapeInv
  <2>2. f \in StreamSet /\ f.pc = "dropped"
    BY <2>1, EmptySeq DEF StreamSet, Pcs
  <2>3. stream'[s] = IF stream[s].pc = "open" THEN f ELSE stream[s]
    BY DEF Restart
  <2> HIDE DEF f
  <2> QED
    BY <2>1, <2>2, <2>3
<1>2. stream' = [s \in Streams |-> stream'[s]]
  BY DEF Restart
<1>3. run' \in [Runs -> RunSet]
  BY DEF Restart, Inv, ShapeInv, RunSet
<1>4. latest' = [r \in Runs |-> 0] /\ buffers' = [r \in Runs |-> <<>>] /\ queues' = [r \in Runs |-> {}] /\ clock' = clock
  BY DEF Restart
<1>5. ShapeInv'
  BY <1>1, <1>2, <1>3, <1>4 DEF Inv, ShapeInv
<1>6. NothingLeaks'
  BY <1>1, <1>4 DEF NothingLeaks
<1> QED
  BY <1>5, <1>6 DEF Inv

LEMMA NextKeeps == ASSUME Inv, [Next]_vars PROVE Inv'
<1>1. CASE UNCHANGED vars
  BY <1>1 DEF vars, service, Inv, ShapeInv, NothingLeaks
<1>2. CASE \E r \in Runs : Send(r) \/ Finish(r)
  BY <1>2, SendKeeps, FinishKeeps
<1>3. CASE \E s \in Streams : Replay(s) \/ Take(s) \/ Disconnect(s)
  BY <1>3, ReplayKeeps, TakeKeeps, DisconnectKeeps
<1>4. CASE \E s \in Streams, r \in Runs : Subscribe(s, r)
  BY <1>4, SubscribeKeeps
<1>5. CASE Poll
  BY <1>5 DEF Poll, Inv, ShapeInv, NothingLeaks
<1>6. CASE Tick
  BY <1>6 DEF Tick, service, Inv, ShapeInv, NothingLeaks
<1> QED
  BY <1>1, <1>2, <1>3, <1>4, <1>5, <1>6, RestartKeeps DEF Next

\* The service holds a queue exactly for the open streams, and progress and buffered
\* events only for runs under way (send, complete, error, the generator's finally).
THEOREM NothingIsLeftBehind == Spec => []NothingLeaks
<1>1. Init => Inv
  BY InitInv
<1>2. Inv /\ [Next]_vars => Inv'
  BY NextKeeps
<1>3. Inv => NothingLeaks
  BY DEF Inv
<1> QED
  BY <1>1, <1>2, <1>3, PTL DEF Spec

-----------------------------------------------------------------------------
(* Induction over the natural numbers, for a set of them *)

LEMMA NatLeast ==
    ASSUME NEW T, T \subseteq Nat, T # {}
    PROVE  \E n \in T : \A m \in T : n <= m
<1> DEFINE Less == {ss \in Nat \X Nat : ss[1] < ss[2]}
<1>1. IsWellFoundedOn(Less, Nat)
  BY NatLessThanWellFounded DEF OpToRel
<1> HIDE DEF Less
<1>2. PICK n \in T : \A m \in T : ~(<<m, n>> \in Less)
  BY <1>1, WFMin
<1>3. \A m \in T : ~(m < n)
  BY <1>2 DEF Less
<1> QED
  BY <1>3

LEMMA NatSetInduction ==
    ASSUME NEW T, 0 \in T, \A n \in Nat : n \in T => n + 1 \in T
    PROVE  Nat \subseteq T
<1> SUFFICES ASSUME Nat \ T # {} PROVE FALSE
  OBVIOUS
<1>1. PICK n \in Nat \ T : \A m \in Nat \ T : n <= m
  BY NatLeast
<1>2. n # 0 /\ n - 1 \in Nat /\ n - 1 \in T
  BY <1>1
<1>3. n - 1 + 1 \in T
  BY <1>2
<1> QED
  BY <1>1, <1>3

-----------------------------------------------------------------------------
(* The table of terminal events *)

Entries == [of : Runs, kind : Finals, expires : Nat]

\* f[k] is what the first k elements of seq leave when only those in K are kept.
Filtering(f, seq, K, n) ==
    f = [k \in 0..n |-> IF k = 0 THEN <<>>
                        ELSE IF seq[k] \in K THEN Append(f[k - 1], seq[k]) ELSE f[k - 1]]

\* t is the subsequence of the elements of seq in K; g says where each came from.
Subsequence(t, seq, K, n, g) ==
    /\ \A i \in 1..Len(t) : t[i] = seq[g[i]] /\ seq[g[i]] \in K
    /\ \A i, j \in 1..Len(t) : i < j => g[i] < g[j]
    /\ \A j \in 1..n : seq[j] \in K => \E i \in 1..Len(t) : g[i] = j

\* The recursion has a solution.
LEMMA FilterExists ==
    ASSUME NEW S, NEW seq \in Seq(S), NEW K, NEW N \in 0..Len(seq)
    PROVE  \E f \in [0..N -> Seq(S)] : Filtering(f, seq, K, N)
<1> DEFINE Body(f, k) == IF k = 0 THEN <<>>
                         ELSE IF seq[k] \in K THEN Append(f[k - 1], seq[k]) ELSE f[k - 1]
           Solved(n) == \E f \in [0..n -> Seq(S)] : f = [k \in 0..n |-> Body(f, k)]
           T == {n \in Nat : n <= Len(seq) => Solved(n)}
<1>0. Len(seq) \in Nat
  BY LenProperties
<1>1. 0 \in T
  <2> DEFINE f == [k \in 0..0 |-> <<>>]
  <2>1. f \in [0..0 -> Seq(S)] /\ f = [k \in 0..0 |-> Body(f, k)]
    OBVIOUS
  <2> QED
    BY <2>1
<1>2. ASSUME NEW n \in Nat, n \in T PROVE n + 1 \in T
  <2> SUFFICES ASSUME n + 1 <= Len(seq)
               PROVE  Solved(n + 1)
    <3> HIDE DEF Solved
    <3> QED
      OBVIOUS
  <2>1. Solved(n)
    <3> HIDE DEF Solved
    <3> QED
      BY <1>0, <1>2
  <2>2. PICK f \in [0..n -> Seq(S)] : f = [k \in 0..n |-> Body(f, k)]
    <3> HIDE DEF Body
    <3> QED
      BY <2>1
  <2> DEFINE g == [k \in 0..(n + 1) |-> IF k <= n THEN f[k] ELSE Body(f, n + 1)]
  <2>3. Body(f, n + 1) \in Seq(S)
    <3>1. f[n] \in Seq(S) /\ seq[n + 1] \in S /\ n + 1 # 0 /\ (n + 1) - 1 = n
      BY <1>0, ElementOfSeq
    <3> QED
      BY <3>1, AppendProperties
  <2>4. g \in [0..(n + 1) -> Seq(S)]
    BY <2>3
  <2>5. ASSUME NEW k \in 0..(n + 1) PROVE g[k] = Body(g, k)
    <3>1. k <= n => f[k] = Body(f, k)
      <4> SUFFICES ASSUME k <= n PROVE f[k] = Body(f, k)
        OBVIOUS
      <4> k \in 0..n
        OBVIOUS
      <4> HIDE DEF Body
      <4> QED
        BY <2>2
    <3>2. k > n => k = n + 1
      OBVIOUS
    <3>3. g[k] = Body(f, k)
      <4> HIDE DEF Body
      <4> QED
        BY <3>1, <3>2
    <3>4. k # 0 => g[k - 1] = f[k - 1]
      <4> HIDE DEF Body
      <4> QED
        OBVIOUS
    <3> QED
      BY <3>3, <3>4
  <2>6. g = [k \in 0..(n + 1) |-> Body(g, k)]
    <3> HIDE DEF Body
    <3> QED
      BY <2>5
  <2> HIDE DEF g, Body
  <2> QED
    BY <2>4, <2>6
<1>3. Nat \subseteq T
  <2> HIDE DEF T
  <2> QED
    BY <1>1, <1>2, NatSetInduction
<1>4. Solved(N)
  <2> HIDE DEF Solved
  <2> QED
    BY <1>0, <1>3
<1> QED
  BY <1>4 DEF Filtering

\* What the recursion computes is that subsequence.
LEMMA FilterKeeps ==
    ASSUME NEW S, NEW seq \in Seq(S), NEW K, NEW kept, Filtering(kept, seq, K, Len(seq))
    PROVE  /\ kept[Len(seq)] \in Seq(S)
           /\ \E g \in [1..Len(kept[Len(seq)]) -> 1..Len(seq)] :
                Subsequence(kept[Len(seq)], seq, K, Len(seq), g)
<1> kept = [k \in 0..Len(seq) |-> IF k = 0 THEN <<>>
              ELSE IF seq[k] \in K THEN Append(kept[k - 1], seq[k]) ELSE kept[k - 1]]
  BY DEF Filtering
<1> DEFINE
           Good(n) == kept[n] \in Seq(S) /\ \E g \in [1..Len(kept[n]) -> 1..n] : Subsequence(kept[n], seq, K, n, g)
           T == {n \in Nat : n <= Len(seq) => Good(n)}
<1>0. Len(seq) \in Nat
  BY LenProperties
<1>1. 0 \in T
  <2>1. kept[0] = <<>>
    BY <1>0
  <2>2. Len(<<>>) = 0 /\ <<>> \in Seq(S)
    BY EmptySeq
  <2> DEFINE g == [i \in 1..0 |-> 0]
  <2>3. g \in [1..0 -> 1..0] /\ Subsequence(<<>>, seq, K, 0, g)
    BY <2>2 DEF Subsequence
  <2> QED
    BY <2>1, <2>2, <2>3
<1>2. ASSUME NEW n \in Nat, n \in T PROVE n + 1 \in T
  <2> SUFFICES ASSUME n + 1 <= Len(seq)
               PROVE  Good(n + 1)
    <3> HIDE DEF Good
    <3> QED
      OBVIOUS
  <2>1. Good(n)
    <3> HIDE DEF Good
    <3> QED
      BY <1>0, <1>2
  <2>2. kept[n] \in Seq(S) /\ \E g \in [1..Len(kept[n]) -> 1..n] : Subsequence(kept[n], seq, K, n, g)
    <3> QED
      BY <2>1
  <2> DEFINE s == kept[n]
             e == seq[n + 1]
             t == Append(s, e)
  <2>3. PICK g \in [1..Len(s) -> 1..n] : Subsequence(s, seq, K, n, g)
    BY <2>2
  <2>4. n + 1 \in 0..Len(seq) /\ n + 1 # 0 /\ (n + 1) - 1 = n
    BY <1>0
  <2>5. kept[n + 1] = IF e \in K THEN t ELSE s
    <3> QED
      BY <2>4
  <2>6. e \in S /\ Len(s) \in Nat /\ s \in Seq(S)
    BY <1>0, <2>2, <2>4, ElementOfSeq, LenProperties
  <2>7. CASE e \notin K
    <3>1. g \in [1..Len(s) -> 1..(n + 1)]
      <4> HIDE DEF s
      <4>1. 1..n \subseteq 1..(n + 1)
        OBVIOUS
      <4> QED
        BY <4>1
    <3>2. Subsequence(s, seq, K, n + 1, g)
      <4>1. \A j \in 1..(n + 1) : seq[j] \in K => j \in 1..n
        BY <2>7
      <4> QED
        BY <2>3, <4>1 DEF Subsequence
    <3> QED
      BY <2>5, <2>6, <2>7, <3>1, <3>2
  <2>8. CASE e \in K
    <3> DEFINE h == [i \in 1..(Len(s) + 1) |-> IF i <= Len(s) THEN g[i] ELSE n + 1]
    <3>1. /\ t \in Seq(S) /\ Len(t) = Len(s) + 1
          /\ \A i \in 1..Len(s) : t[i] = s[i]
          /\ t[Len(s) + 1] = e
      BY <2>6, AppendProperties
    <3> HIDE DEF s, t
    <3>2. h \in [1..(Len(s) + 1) -> 1..(n + 1)]
      BY <2>6
    <3>3. \A i \in 1..Len(s) : h[i] = g[i] /\ h[i] \in 1..n
      <4> SUFFICES ASSUME NEW i \in 1..Len(s) PROVE h[i] = g[i] /\ h[i] \in 1..n
        OBVIOUS
      <4>1. g[i] \in 1..n
        OBVIOUS
      <4>2. i \in 1..(Len(s) + 1) /\ i <= Len(s)
        BY <2>6
      <4> QED
        BY <4>1, <4>2
    <3>4. h[Len(s) + 1] = n + 1
      BY <2>6
    <3>5. \A i \in 1..(Len(s) + 1) : i \in 1..Len(s) \/ i = Len(s) + 1
      BY <2>6
    <3> HIDE DEF h
    <3>6. \A i \in 1..(Len(s) + 1) : t[i] = seq[h[i]] /\ seq[h[i]] \in K
      BY <2>3, <2>8, <3>1, <3>3, <3>4, <3>5 DEF Subsequence
    <3>7. \A i, j \in 1..(Len(s) + 1) : i < j => h[i] < h[j]
      <4> SUFFICES ASSUME NEW i \in 1..(Len(s) + 1), NEW j \in 1..(Len(s) + 1), i < j
                   PROVE  h[i] < h[j]
        OBVIOUS
      <4>1. i \in 1..Len(s)
        BY <2>6
      <4>2. CASE j \in 1..Len(s)
        BY <2>3, <3>3, <4>1, <4>2 DEF Subsequence
      <4>3. CASE j = Len(s) + 1
        BY <3>3, <3>4, <4>1, <4>3
      <4> QED
        BY <3>5, <4>2, <4>3
    <3>8. \A j \in 1..(n + 1) : seq[j] \in K => \E i \in 1..(Len(s) + 1) : h[i] = j
      <4> SUFFICES ASSUME NEW j \in 1..(n + 1), seq[j] \in K
                   PROVE  \E i \in 1..(Len(s) + 1) : h[i] = j
        OBVIOUS
      <4>1. CASE j = n + 1
        BY <2>6, <3>4, <4>1
      <4>2. CASE j \in 1..n
        <5>1. PICK i \in 1..Len(s) : g[i] = j
          BY <2>3, <4>2 DEF Subsequence
        <5>2. i \in 1..(Len(s) + 1) /\ h[i] = j
          BY <2>6, <3>3, <5>1
        <5> QED
          BY <5>2
      <4> QED
        BY <4>1, <4>2
    <3>9. Subsequence(t, seq, K, n + 1, h)
      BY <3>1, <3>6, <3>7, <3>8 DEF Subsequence
    <3> QED
      BY <2>5, <2>8, <3>1, <3>2, <3>9 DEF t, s
  <2> QED
    BY <2>7, <2>8
<1>3. Nat \subseteq T
  <2> HIDE DEF T
  <2> QED
    BY <1>1, <1>2, NatSetInduction
<1>4. Good(Len(seq))
  <2> HIDE DEF Good
  <2> QED
    BY <1>0, <1>3
<1> QED
  BY <1>0, <1>4

\* No run has two entries.
OneEach(seq) == \A i, j \in 1..Len(seq) : i # j => seq[i].of # seq[j].of

\* The sweep keeps exactly the entries that have not expired, each once.
LEMMA SweepKeeps ==
    ASSUME NEW seq \in Seq(Entries), OneEach(seq)
    PROVE  /\ Current(seq) \in Seq(Entries)
           /\ OneEach(Current(seq))
           /\ \A i \in 1..Len(Current(seq)) : \E j \in 1..Len(seq) :
                Current(seq)[i] = seq[j] /\ seq[j].expires > clock
           /\ \A j \in 1..Len(seq) : seq[j].expires > clock =>
                \E i \in 1..Len(Current(seq)) : Current(seq)[i] = seq[j]
<1> DEFINE kept[k \in 0..Len(seq)] ==
               IF k = 0 THEN <<>>
               ELSE IF seq[k].expires > clock THEN Append(kept[k - 1], seq[k]) ELSE kept[k - 1]
           K == {e \in Entries : e.expires > clock}
<1>1. Current(seq) = kept[Len(seq)]
  BY DEF Current
<1>2. Len(seq) \in Nat /\ \A k \in 1..Len(seq) : seq[k] \in Entries /\ (seq[k].expires > clock <=> seq[k] \in K)
  BY LenProperties, ElementOfSeq
<1> DEFINE ByTime(f, k) == IF k = 0 THEN <<>>
                           ELSE IF seq[k].expires > clock THEN Append(f[k - 1], seq[k]) ELSE f[k - 1]
           ByMember(f, k) == IF k = 0 THEN <<>>
                             ELSE IF seq[k] \in K THEN Append(f[k - 1], seq[k]) ELSE f[k - 1]
<1>3. Filtering(kept, seq, K, Len(seq))
  <2>1. Len(seq) \in 0..Len(seq)
    BY <1>2
  <2>2. PICK f : f = [k \in 0..Len(seq) |-> ByMember(f, k)]
    <3> HIDE DEF K
    <3>1. PICK f \in [0..Len(seq) -> Seq(Entries)] : Filtering(f, seq, K, Len(seq))
      BY <2>1, FilterExists
    <3> QED
      BY <3>1 DEF Filtering
  <2>3. ASSUME NEW h PROVE \A k \in 0..Len(seq) : ByTime(h, k) = ByMember(h, k)
    <3> HIDE DEF K
    <3> QED
      BY <1>2
  <2>4. f = [k \in 0..Len(seq) |-> ByTime(f, k)]
    <3> HIDE DEF ByTime, ByMember
    <3> QED
      BY <2>2, <2>3
  <2>5. kept = [k \in 0..Len(seq) |-> ByTime(kept, k)]
    BY <2>4
  <2>6. kept = [k \in 0..Len(seq) |-> ByMember(kept, k)]
    <3> HIDE DEF kept, ByTime, ByMember
    <3> QED
      BY <2>3, <2>5
  <2> HIDE DEF kept
  <2> QED
    BY <2>6 DEF Filtering
<1> HIDE DEF kept, K
<1>4. /\ kept[Len(seq)] \in Seq(Entries)
      /\ \E g \in [1..Len(kept[Len(seq)]) -> 1..Len(seq)] :
           Subsequence(kept[Len(seq)], seq, K, Len(seq), g)
  BY <1>3, FilterKeeps
<1> DEFINE t == kept[Len(seq)]
<1> HIDE DEF t
<1>5. PICK g \in [1..Len(t) -> 1..Len(seq)] :
         /\ \A i \in 1..Len(t) : t[i] = seq[g[i]] /\ seq[g[i]] \in K
         /\ \A i, j \in 1..Len(t) : i < j => g[i] < g[j]
         /\ \A j \in 1..Len(seq) : seq[j] \in K => \E i \in 1..Len(t) : g[i] = j
  BY <1>4 DEF t, Subsequence
<1>7. t \in Seq(Entries)
  BY <1>4 DEF t
<1>6. OneEach(t)
  <2> SUFFICES ASSUME NEW i \in 1..Len(t), NEW j \in 1..Len(t), i # j
               PROVE  t[i].of # t[j].of
    BY DEF OneEach
  <2>1. Len(t) \in Nat
    BY <1>7, LenProperties
  <2>2. i < j \/ j < i
    BY <2>1
  <2>3. g[i] # g[j]
    <3>1. g[i] \in 1..Len(seq) /\ g[j] \in 1..Len(seq)
      OBVIOUS
    <3>2. g[i] < g[j] \/ g[j] < g[i]
      BY <1>5, <2>2
    <3> QED
      BY <1>2, <3>1, <3>2
  <2> QED
    BY <1>5, <2>3 DEF OneEach
<1>8. Current(seq) = t
  BY <1>1 DEF t
<1>9. \A i \in 1..Len(t) : \E j \in 1..Len(seq) : t[i] = seq[j] /\ seq[j].expires > clock
  BY <1>2, <1>5
<1>10. \A j \in 1..Len(seq) : seq[j].expires > clock => \E i \in 1..Len(t) : t[i] = seq[j]
  BY <1>2, <1>5
<1> QED
  BY <1>6, <1>7, <1>8, <1>9, <1>10

\* The cap evicts an entry that no other outlives less.
LEMMA OldestIsFirst ==
    ASSUME NEW seq \in Seq(Entries), seq # <<>>
    PROVE  /\ Oldest(seq) \in 1..Len(seq)
           /\ \A j \in 1..Len(seq) : seq[Oldest(seq)].expires <= seq[j].expires
<1> DEFINE Expiries == {seq[j].expires : j \in 1..Len(seq)}
<1>1. Len(seq) \in Nat \ {0} /\ \A j \in 1..Len(seq) : seq[j] \in Entries
  BY EmptySeq, ElementOfSeq
<1>2. \A j \in 1..Len(seq) : seq[j].expires \in Nat
  BY <1>1 DEF Entries
<1>3. PICK m \in Expiries : \A e \in Expiries : m <= e
  <2>1. Expiries \subseteq Nat
    BY <1>2
  <2>2. seq[1].expires \in Expiries
    BY <1>1
  <2> HIDE DEF Expiries
  <2> QED
    BY <2>1, <2>2, NatLeast
<1> DEFINE Least == {k \in 1..Len(seq) : seq[k].expires = m}
<1>4. PICK k \in Least : \A j \in Least : k <= j
  <2>1. Least \subseteq Nat /\ Least # {}
    BY <1>1
  <2> HIDE DEF Least
  <2> QED
    BY <2>1, NatLeast
<1>5. /\ k \in 1..Len(seq)
      /\ \A j \in 1..Len(seq) : seq[k].expires <= seq[j].expires
  BY <1>3, <1>4
<1>6. \A j \in 1..(k - 1) : seq[k].expires < seq[j].expires
  <2> SUFFICES ASSUME NEW j \in 1..(k - 1) PROVE seq[k].expires < seq[j].expires
    OBVIOUS
  <2>1. j \in 1..Len(seq) /\ ~(k <= j)
    BY <1>1, <1>5
  <2>2. j \notin Least
    BY <1>4, <2>1
  <2>3. seq[j].expires # m /\ seq[k].expires = m
    BY <1>4, <2>1, <2>2
  <2> QED
    BY <1>2, <1>5, <2>1, <2>3
<1> QED
  BY <1>5, <1>6 DEF Oldest

-----------------------------------------------------------------------------
(* The outcomes that are kept *)

\* The other runs that ended no earlier than r
Later(r) == {q \in Runs \ {r} : run[q].state \in Finals /\ run[q].at >= run[r].at}

\* An entry is the outcome of its run; a run that is owed its outcome has one.
TableInv ==
    /\ remembered \in Seq(Entries)
    /\ OneEach(remembered)
    /\ \A i \in 1..Len(remembered) :
         /\ run[remembered[i].of].state = remembered[i].kind
         /\ remembered[i].expires = run[remembered[i].of].at + Ttl
    /\ \A r \in Runs :
         run[r].state \in Finals /\ clock < run[r].at + Ttl /\ Cardinality(Later(r)) < MaxTerminal
           => \E i \in 1..Len(remembered) : remembered[i].of = r

LEMMA TableAnswers == ASSUME Inv, TableInv PROVE OutcomeIsKept
<1> SUFFICES ASSUME NEW r \in Runs, run[r].state \in Finals, clock < run[r].at + Ttl,
                    Cardinality(Later(r)) < MaxTerminal
             PROVE  Snapshot(r) = run[r].state
  BY DEF OutcomeIsKept, Later
<1> DEFINE kept == {e \in Range(Current(remembered)) : e.of = r}
<1>1. PICK j \in 1..Len(remembered) : remembered[j].of = r
  BY DEF TableInv
<1>2. remembered[j].expires > clock
  <2>1. remembered[j].expires = run[r].at + Ttl
    BY <1>1 DEF TableInv
  <2>2. clock \in Nat /\ run[r].at \in Nat /\ Ttl \in Nat
    BY ProgressAssumption DEF Inv, ShapeInv, RunSet
  <2> QED
    BY <2>1, <2>2
<1>3. /\ Current(remembered) \in Seq(Entries)
      /\ \A i \in 1..Len(Current(remembered)) : \E k \in 1..Len(remembered) :
           Current(remembered)[i] = remembered[k]
      /\ \E i \in 1..Len(Current(remembered)) : Current(remembered)[i] = remembered[j]
  BY <1>2, SweepKeeps DEF TableInv
<1>4. DOMAIN Current(remembered) = 1..Len(Current(remembered))
  BY <1>3, LenProperties
<1>5. kept # {}
  <2>1. remembered[j] \in Range(Current(remembered))
    BY <1>3, <1>4 DEF Range
  <2> QED
    BY <1>1, <2>1
<1>6. ASSUME NEW e \in kept PROVE e.kind = run[r].state
  <2>1. PICK k \in 1..Len(remembered) : e = remembered[k]
    BY <1>3, <1>4 DEF Range
  <2> QED
    BY <1>6, <2>1 DEF TableInv
<1>7. Snapshot(r) = (CHOOSE e \in kept : TRUE).kind
  BY <1>5 DEF Snapshot
<1> HIDE DEF kept
<1> QED
  BY <1>5, <1>6, <1>7

\* Sweeping alone loses nothing a run is owed.
LEMMA SweepTable ==
    ASSUME Inv, TableInv, remembered' = Current(remembered), UNCHANGED <<run, clock>>
    PROVE  TableInv'
<1>1. /\ Current(remembered) \in Seq(Entries)
      /\ OneEach(Current(remembered))
      /\ \A i \in 1..Len(Current(remembered)) : \E j \in 1..Len(remembered) :
           Current(remembered)[i] = remembered[j]
      /\ \A j \in 1..Len(remembered) : remembered[j].expires > clock =>
           \E i \in 1..Len(Current(remembered)) : Current(remembered)[i] = remembered[j]
  BY SweepKeeps DEF TableInv
<1> DEFINE t == Current(remembered)
<1> HIDE DEF t
<1>2. /\ t \in Seq(Entries)
      /\ OneEach(t)
      /\ \A i \in 1..Len(t) : \E j \in 1..Len(remembered) : t[i] = remembered[j]
      /\ \A j \in 1..Len(remembered) : remembered[j].expires > clock => \E i \in 1..Len(t) : t[i] = remembered[j]
      /\ remembered' = t
  BY <1>1 DEF t
<1>3. \A i \in 1..Len(t) : run[t[i].of].state = t[i].kind /\ t[i].expires = run[t[i].of].at + Ttl
  BY <1>2 DEF TableInv
<1>4. ASSUME NEW r \in Runs, run[r].state \in Finals, clock < run[r].at + Ttl, Cardinality(Later(r)) < MaxTerminal
      PROVE  \E i \in 1..Len(t) : t[i].of = r
  <2>1. PICK j \in 1..Len(remembered) : remembered[j].of = r
    BY <1>4 DEF TableInv
  <2>2. remembered[j].expires > clock
    <3>1. remembered[j].expires = run[r].at + Ttl
      BY <2>1 DEF TableInv
    <3>2. clock \in Nat /\ run[r].at \in Nat /\ Ttl \in Nat
      BY ProgressAssumption DEF Inv, ShapeInv, RunSet
    <3> QED
      BY <1>4, <3>1, <3>2
  <2> QED
    BY <1>2, <2>1, <2>2
<1>5. \A r \in Runs : Later(r)' = Later(r)
  BY DEF Later
<1> QED
  BY <1>2, <1>3, <1>4, <1>5 DEF TableInv, OneEach

LEMMA RemoveAtKeeps ==
    ASSUME NEW S, NEW s \in Seq(S), NEW k \in 1..Len(s)
    PROVE  /\ RemoveAt(s, k) \in Seq(S)
           /\ Len(RemoveAt(s, k)) = Len(s) - 1
           /\ \A i \in 1..(Len(s) - 1) : RemoveAt(s, k)[i] = IF i < k THEN s[i] ELSE s[i + 1]
<1> DEFINE a == SubSeq(s, 1, k - 1)
           b == SubSeq(s, k + 1, Len(s))
<1>1. Len(s) \in Nat /\ \A i \in 1..Len(s) : s[i] \in S
  BY LenProperties, ElementOfSeq
<1>2. a \in Seq(S) /\ Len(a) = k - 1 /\ \A i \in 1..(k - 1) : a[i] = s[i]
  <2>1. \A i \in 1..(k - 1) : s[i] \in S
    BY <1>1
  <2>2. /\ SubSeq(s, 1, k - 1) \in Seq(S)
        /\ Len(SubSeq(s, 1, k - 1)) = IF 1 <= k - 1 THEN (k - 1) - 1 + 1 ELSE 0
        /\ \A i \in 1..((k - 1) - 1 + 1) : SubSeq(s, 1, k - 1)[i] = s[1 + i - 1]
    BY <1>1, <2>1, SubSeqProperties
  <2> QED
    BY <1>1, <2>2
<1>3. b \in Seq(S) /\ Len(b) = Len(s) - k /\ \A i \in 1..(Len(s) - k) : b[i] = s[k + i]
  <2>1. \A i \in (k + 1)..Len(s) : s[i] \in S
    BY <1>1
  <2>2. /\ SubSeq(s, k + 1, Len(s)) \in Seq(S)
        /\ Len(SubSeq(s, k + 1, Len(s))) = IF k + 1 <= Len(s) THEN Len(s) - (k + 1) + 1 ELSE 0
        /\ \A i \in 1..(Len(s) - (k + 1) + 1) : SubSeq(s, k + 1, Len(s))[i] = s[(k + 1) + i - 1]
    BY <1>1, <2>1, SubSeqProperties
  <2> QED
    BY <1>1, <2>2
<1> HIDE DEF a, b
<1>4. /\ a \o b \in Seq(S)
      /\ Len(a \o b) = Len(a) + Len(b)
      /\ \A i \in 1..(Len(a) + Len(b)) : (a \o b)[i] = IF i <= Len(a) THEN a[i] ELSE b[i - Len(a)]
  BY <1>2, <1>3, ConcatProperties
<1>5. RemoveAt(s, k) = a \o b
  BY DEF RemoveAt, a, b
<1>6. ASSUME NEW i \in 1..(Len(s) - 1)
      PROVE  (a \o b)[i] = IF i < k THEN s[i] ELSE s[i + 1]
  <2>1. CASE i < k
    BY <1>1, <1>2, <1>3, <1>4, <2>1
  <2>2. CASE ~(i < k)
    <3>1. (a \o b)[i] = b[i - (k - 1)]
      BY <1>1, <1>2, <1>3, <1>4, <2>2
    <3>2. i - (k - 1) \in 1..(Len(s) - k) /\ k + (i - (k - 1)) = i + 1
      BY <1>1, <2>2
    <3> QED
      BY <1>3, <2>2, <3>1, <3>2
  <2> QED
    BY <2>1, <2>2
<1>7. Len(a \o b) = Len(s) - 1
  BY <1>1, <1>2, <1>3, <1>4
<1> QED
  BY <1>4, <1>5, <1>6, <1>7

\* The cap evicts at most the oldest entry, and only when there are too many.
LEMMA EvictKeeps ==
    ASSUME NEW seq \in Seq(Entries), seq # <<>>, OneEach(seq)
    PROVE  /\ Evict(seq) \in Seq(Entries)
           /\ OneEach(Evict(seq))
           /\ \A i \in 1..Len(Evict(seq)) : \E j \in 1..Len(seq) : Evict(seq)[i] = seq[j]
           /\ \A j \in 1..Len(seq) : Len(seq) <= MaxTerminal \/ j # Oldest(seq) =>
                \E i \in 1..Len(Evict(seq)) : Evict(seq)[i] = seq[j]
<1>1. CASE ~(Len(seq) > MaxTerminal)
  BY <1>1 DEF Evict
<1>2. CASE Len(seq) > MaxTerminal
  <2> DEFINE k == Oldest(seq)
             t == RemoveAt(seq, k)
  <2>1. Evict(seq) = t
    BY <1>2 DEF Evict
  <2>2. k \in 1..Len(seq) /\ Len(seq) \in Nat
    BY OldestIsFirst, LenProperties
  <2> HIDE DEF k
  <2>3. /\ t \in Seq(Entries)
        /\ Len(t) = Len(seq) - 1
        /\ \A i \in 1..(Len(seq) - 1) : t[i] = IF i < k THEN seq[i] ELSE seq[i + 1]
    BY <2>2, RemoveAtKeeps
  <2> HIDE DEF t
  <2>4. OneEach(t)
    <3> SUFFICES ASSUME NEW i \in 1..(Len(seq) - 1), NEW j \in 1..(Len(seq) - 1), i # j
                 PROVE  t[i].of # t[j].of
      BY <2>3 DEF OneEach
    <3> DEFINE p == IF i < k THEN i ELSE i + 1
               q == IF j < k THEN j ELSE j + 1
    <3>1. t[i] = seq[p] /\ t[j] = seq[q]
      BY <2>3
    <3>2. p \in 1..Len(seq) /\ q \in 1..Len(seq) /\ p # q
      BY <2>2
    <3> HIDE DEF p, q
    <3> QED
      BY <3>1, <3>2 DEF OneEach
  <2>5. \A i \in 1..Len(t) : \E j \in 1..Len(seq) : t[i] = seq[j]
    <3> SUFFICES ASSUME NEW i \in 1..(Len(seq) - 1) PROVE \E j \in 1..Len(seq) : t[i] = seq[j]
      BY <2>3
    <3>1. i \in 1..Len(seq) /\ i + 1 \in 1..Len(seq)
      BY <2>2
    <3> QED
      BY <2>3, <3>1
  <2>6. ASSUME NEW j \in 1..Len(seq), j # k PROVE \E i \in 1..Len(t) : t[i] = seq[j]
    <3> DEFINE p == IF j < k THEN j ELSE j - 1
    <3>1. p \in 1..(Len(seq) - 1) /\ (j < k => p < k /\ p = j) /\ (~(j < k) => ~(p < k) /\ p + 1 = j)
      BY <2>2, <2>6
    <3> HIDE DEF p
    <3>2. t[p] = seq[j]
      BY <2>3, <3>1
    <3> QED
      BY <2>3, <3>1, <3>2
  <2>7. \A j \in 1..Len(seq) : Len(seq) <= MaxTerminal \/ j # k => \E i \in 1..Len(t) : t[i] = seq[j]
    <3>1. ~(Len(seq) <= MaxTerminal)
      BY <1>2, <2>2, ProgressAssumption
    <3> QED
      BY <2>6, <3>1
  <2> QED
    BY <2>1, <2>3, <2>4, <2>5, <2>7 DEF k
<1> QED
  BY <1>1, <1>2

\* Runs only ever join those that ended later.
LEMMA LaterGrows ==
    ASSUME NEW r \in Runs, NEW q \in Runs, run[r].state \notin Finals, run[q].state \in Finals,
           \A p \in Runs \ {r} : run'[p] = run[p]
    PROVE  /\ IsFiniteSet(Later(q)') /\ Cardinality(Later(q)) <= Cardinality(Later(q)')
           /\ Cardinality(Later(q)) \in Nat /\ Cardinality(Later(q)') \in Nat
<1>1. Later(q) \subseteq Later(q)' /\ Later(q)' \subseteq Runs /\ Later(q) \subseteq Runs
  BY DEF Later
<1>2. IsFiniteSet(Later(q)') /\ IsFiniteSet(Later(q))
  BY <1>1, ProgressAssumption, FS_Subset
<1> QED
  BY <1>1, <1>2, FS_Subset, FS_CardinalityType

LEMMA FinishTable == ASSUME Inv, Inv', TableInv, NEW r \in Runs, Finish(r) PROVE TableInv'
<1>1. PICK kind \in Finals :
        /\ run[r].state = "running"
        /\ run' = [run EXCEPT ![r].state = kind, ![r].at = clock]
        /\ remembered' = Evict(Append(Current(remembered), [of |-> r, kind |-> kind, expires |-> clock + Ttl]))
        /\ clock' = clock
  BY DEF Finish
<1> DEFINE swept == Current(remembered)
           new == [of |-> r, kind |-> kind, expires |-> clock + Ttl]
           longer == Append(swept, new)
<1>2. /\ run[r].state \notin Finals
      /\ run'[r].state = kind /\ run'[r].at = clock
      /\ \A q \in Runs \ {r} : run'[q] = run[q]
      /\ clock \in Nat /\ Ttl \in Nat /\ MaxTerminal \in Nat
      /\ \A q \in Runs : run'[q].at \in Nat
  <2>1. run \in [Runs -> RunSet] /\ clock \in Nat /\ run' \in [Runs -> RunSet]
    BY DEF Inv, ShapeInv
  <2>2. run[r].state \notin Finals
    BY <1>1 DEF Finals
  <2>3. run'[r].state = kind /\ run'[r].at = clock /\ \A q \in Runs \ {r} : run'[q] = run[q]
    BY <1>1, <2>1 DEF RunSet
  <2> QED
    BY <2>1, <2>2, <2>3, ProgressAssumption DEF RunSet
<1>3. /\ swept \in Seq(Entries)
      /\ OneEach(swept)
      /\ \A i \in 1..Len(swept) : \E j \in 1..Len(remembered) : swept[i] = remembered[j]
      /\ \A j \in 1..Len(remembered) : remembered[j].expires > clock =>
           \E i \in 1..Len(swept) : swept[i] = remembered[j]
  BY SweepKeeps DEF TableInv
<1>4. new \in Entries /\ Len(swept) \in Nat
  BY <1>2, <1>3, LenProperties DEF Entries
<1> HIDE DEF swept
<1>5. /\ longer \in Seq(Entries) /\ longer # <<>> /\ Len(longer) = Len(swept) + 1
      /\ \A i \in 1..Len(swept) : longer[i] = swept[i]
      /\ longer[Len(swept) + 1] = new
  BY <1>3, <1>4, AppendProperties
<1> HIDE DEF longer
<1>6. /\ \A i \in 1..Len(swept) : swept[i].of \in Runs \ {r}
      /\ \A i \in 1..Len(swept) : run[swept[i].of].state = swept[i].kind
                                  /\ swept[i].expires = run[swept[i].of].at + Ttl
  <2> SUFFICES ASSUME NEW i \in 1..Len(swept)
               PROVE  /\ swept[i].of \in Runs \ {r}
                      /\ run[swept[i].of].state = swept[i].kind
                      /\ swept[i].expires = run[swept[i].of].at + Ttl
    OBVIOUS
  <2>1. swept[i] \in Entries
    BY <1>3, ElementOfSeq
  <2>2. run[swept[i].of].state = swept[i].kind /\ swept[i].expires = run[swept[i].of].at + Ttl
    BY <1>3 DEF TableInv
  <2>3. swept[i].of \in Runs /\ swept[i].kind \in Finals
    BY <2>1 DEF Entries
  <2> QED
    BY <1>2, <2>2, <2>3
<1>7. OneEach(longer)
  <2> SUFFICES ASSUME NEW i \in 1..(Len(swept) + 1), NEW j \in 1..(Len(swept) + 1), i # j
               PROVE  longer[i].of # longer[j].of
    BY <1>5 DEF OneEach
  <2>1. \A k \in 1..(Len(swept) + 1) : k \in 1..Len(swept) \/ k = Len(swept) + 1
    BY <1>4
  <2>2. new.of = r
    OBVIOUS
  <2> HIDE DEF new
  <2>3. CASE i \in 1..Len(swept) /\ j \in 1..Len(swept)
    BY <1>3, <1>5, <2>3 DEF OneEach
  <2>4. CASE i = Len(swept) + 1 /\ j \in 1..Len(swept)
    BY <1>5, <1>6, <2>2, <2>4
  <2>5. CASE j = Len(swept) + 1 /\ i \in 1..Len(swept)
    BY <1>5, <1>6, <2>2, <2>5
  <2> QED
    BY <2>1, <2>3, <2>4, <2>5
<1>8. \A i \in 1..Len(longer) : /\ longer[i].of \in Runs
                                /\ run'[longer[i].of].state = longer[i].kind
                                /\ longer[i].expires = run'[longer[i].of].at + Ttl
  <2> SUFFICES ASSUME NEW i \in 1..(Len(swept) + 1)
               PROVE  /\ longer[i].of \in Runs
                      /\ run'[longer[i].of].state = longer[i].kind
                      /\ longer[i].expires = run'[longer[i].of].at + Ttl
    BY <1>5
  <2>1. CASE i \in 1..Len(swept)
    BY <1>2, <1>5, <1>6, <2>1
  <2>2. CASE i = Len(swept) + 1
    BY <1>2, <1>5, <2>2
  <2> QED
    BY <1>4, <2>1, <2>2
<1> DEFINE kept == Evict(longer)
<1>9. /\ kept \in Seq(Entries)
      /\ OneEach(kept)
      /\ \A i \in 1..Len(kept) : \E j \in 1..Len(longer) : kept[i] = longer[j]
      /\ \A j \in 1..Len(longer) : Len(longer) <= MaxTerminal \/ j # Oldest(longer) =>
           \E i \in 1..Len(kept) : kept[i] = longer[j]
  BY <1>5, <1>7, EvictKeeps
<1>10. remembered' = kept
  BY <1>1 DEF longer, swept
<1> HIDE DEF kept
<1>11. \A i \in 1..Len(kept) : run'[kept[i].of].state = kept[i].kind /\ kept[i].expires = run'[kept[i].of].at + Ttl
  BY <1>8, <1>9
\* The evicted run has MaxTerminal others that ended no earlier.
<1>12. ASSUME NEW j \in 1..Len(longer), Len(longer) > MaxTerminal, j = Oldest(longer),
              NEW q \in Runs, longer[j].of = q
       PROVE  ~(Cardinality(Later(q)') < MaxTerminal)
  <2> DEFINE others == (1..Len(longer)) \ {j}
             f == [i \in others |-> longer[i].of]
  <2>1. Len(longer) \in Nat
    BY <1>5, LenProperties
  <2>2. IsFiniteSet(others) /\ Cardinality(others) = Len(longer) - 1
    <3>1. IsFiniteSet(1..Len(longer)) /\ Cardinality(1..Len(longer)) = Len(longer)
      <4>1. 1 \in Int /\ Len(longer) \in Int /\ ~(1 > Len(longer))
        BY <2>1
      <4>2. /\ IsFiniteSet(1..Len(longer))
            /\ Cardinality(1..Len(longer)) = IF 1 > Len(longer) THEN 0 ELSE Len(longer) - 1 + 1
        BY <4>1, FS_Interval
      <4> QED
        BY <2>1, <4>1, <4>2
    <3> QED
      BY <3>1, FS_RemoveElement
  <2>3. IsFiniteSet(Later(q)')
    <3>1. Later(q)' \subseteq Runs
      BY DEF Later
    <3> QED
      BY <3>1, ProgressAssumption, FS_Subset
  <2>4. ASSUME NEW i \in others PROVE longer[i].of \in Later(q)'
    <3>1. longer[j].expires <= longer[i].expires
      BY <1>5, <1>12, OldestIsFirst
    <3>2. longer[i].of \in Runs /\ longer[i].of # q
      BY <1>7, <1>8, <1>12 DEF OneEach
    <3>3. longer[i].expires = run'[longer[i].of].at + Ttl /\ longer[j].expires = run'[q].at + Ttl
      BY <1>8, <1>12
    <3>4. run'[longer[i].of].at >= run'[q].at
      <4>1. run'[longer[i].of].at \in Nat /\ run'[q].at \in Nat
        BY <1>2, <2>1, <3>2
      <4> QED
        BY <1>2, <3>1, <3>3, <4>1
    <3>5. run'[longer[i].of].state \in Finals
      <4>1. longer[i] \in Entries
        BY <1>5, ElementOfSeq
      <4> QED
        BY <1>8, <4>1 DEF Entries
    <3> QED
      BY <3>2, <3>4, <3>5 DEF Later
  <2>5. f \in Injection(others, Later(q)')
    <3>1. f \in [others -> Later(q)']
      <4> HIDE DEF others
      <4> QED
        BY <2>4
    <3>2. \A a, b \in others : f[a] = f[b] => a = b
      BY <1>7 DEF OneEach
    <3> HIDE DEF f, others
    <3>3. DOMAIN f = others
      BY <3>1
    <3> QED
      BY <3>1, <3>2, <3>3 DEF Injection, IsInjective
  <2>6. Cardinality(others) <= Cardinality(Later(q)')
    <3> HIDE DEF f, others
    <3> QED
      BY <2>3, <2>5, FS_Injection
  <2>7. Cardinality(Later(q)') \in Nat
    BY <2>3, FS_CardinalityType
  <2> QED
    BY <1>2, <1>12, <2>1, <2>2, <2>6, <2>7
<1>13. ASSUME NEW q \in Runs, run'[q].state \in Finals, clock' < run'[q].at + Ttl, Cardinality(Later(q)') < MaxTerminal
       PROVE  \E i \in 1..Len(kept) : kept[i].of = q
  <2>1. PICK j \in 1..Len(longer) : longer[j].of = q
    <3>1. CASE q = r
      <4>1. Len(longer) \in 1..Len(longer) /\ longer[Len(longer)].of = r
        BY <1>4, <1>5
      <4> QED
        BY <3>1, <4>1
    <3>2. CASE q # r
      <4>1. run[q].state \in Finals /\ clock < run[q].at + Ttl
        BY <1>1, <1>2, <1>13, <3>2
      <4>2. Cardinality(Later(q)) < MaxTerminal
        BY <1>2, <1>13, <4>1, LaterGrows
      <4>3. PICK k \in 1..Len(remembered) : remembered[k].of = q
        BY <4>1, <4>2 DEF TableInv
      <4>4. remembered[k].expires > clock
        <5>1. remembered[k].expires = run[q].at + Ttl
          BY <4>3 DEF TableInv
        <5>2. run[q].at \in Nat
          BY DEF Inv, ShapeInv, RunSet
        <5> QED
          BY <1>2, <4>1, <5>1, <5>2
      <4>5. PICK i \in 1..Len(swept) : swept[i] = remembered[k]
        BY <1>3, <4>4
      <4>6. i \in 1..Len(longer) /\ longer[i].of = q
        BY <1>4, <1>5, <4>3, <4>5
      <4> QED
        BY <4>6
    <3> QED
      BY <3>1, <3>2
  <2>2. Len(longer) <= MaxTerminal \/ j # Oldest(longer)
    <3>1. Len(longer) \in Nat
      BY <1>5, LenProperties
    <3> QED
      BY <1>2, <1>12, <1>13, <2>1, <3>1
  <2> QED
    BY <1>9, <2>1, <2>2
<1> QED
  BY <1>9, <1>10, <1>11, <1>13 DEF TableInv, OneEach

\* Steps that neither end a run nor touch the table
LEMMA TableUnchanged ==
    ASSUME TableInv, remembered' = remembered, clock' >= clock, clock \in Nat, clock' \in Nat, Inv,
           \A r \in Runs : run'[r].state \in Finals => run'[r] = run[r],
           \A r \in Runs : run[r].state \in Finals => run'[r] = run[r]
    PROVE  TableInv'
<1>1. \A r \in Runs : run'[r].state \in Finals => Later(r)' = Later(r)
  BY DEF Later
<1>2. \A i \in 1..Len(remembered) : run'[remembered[i].of] = run[remembered[i].of]
  <2> SUFFICES ASSUME NEW i \in 1..Len(remembered) PROVE run'[remembered[i].of] = run[remembered[i].of]
    OBVIOUS
  <2>1. remembered[i] \in Entries
    BY ElementOfSeq DEF TableInv
  <2>2. remembered[i].of \in Runs /\ remembered[i].kind \in Finals
    BY <2>1 DEF Entries
  <2> QED
    BY <2>2 DEF TableInv
<1>3. ASSUME NEW r \in Runs, run'[r].state \in Finals, clock' < run'[r].at + Ttl, Cardinality(Later(r)') < MaxTerminal
      PROVE  \E i \in 1..Len(remembered) : remembered[i].of = r
  <2>1. run'[r] = run[r] /\ Later(r)' = Later(r)
    BY <1>1, <1>3
  <2>2. clock < run[r].at + Ttl
    <3>1. run[r].at \in Nat /\ Ttl \in Nat
      BY ProgressAssumption DEF Inv, ShapeInv, RunSet
    <3> QED
      BY <1>3, <2>1, <3>1
  <2> QED
    BY <1>3, <2>1, <2>2 DEF TableInv
<1> QED
  BY <1>2, <1>3 DEF TableInv, OneEach

LEMMA TableNext == ASSUME Inv, Inv', TableInv, [Next]_vars PROVE TableInv'
<1>0. clock \in Nat /\ clock' \in Nat /\ run \in [Runs -> RunSet]
  BY DEF Inv, ShapeInv
<1>1. CASE UNCHANGED vars
  BY <1>0, <1>1, TableUnchanged DEF vars, service
<1>2. ASSUME NEW r \in Runs, Send(r) PROVE TableInv'
  <2>1. /\ run' = [run EXCEPT ![r].state = "running", ![r].sent = run[r].sent + 1]
        /\ run[r].state \in {"new", "running"}
        /\ UNCHANGED <<remembered, clock>>
    BY <1>2 DEF Send
  <2>2. run'[r].state = "running" /\ \A q \in Runs \ {r} : run'[q] = run[q]
    BY <1>0, <2>1 DEF RunSet
  <2> QED
    BY <1>0, <2>1, <2>2, TableUnchanged DEF Finals
<1>3. ASSUME NEW r \in Runs, Finish(r) PROVE TableInv'
  BY <1>3, FinishTable
<1>4. CASE \E s \in Streams : Replay(s) \/ Take(s) \/ Disconnect(s)
  BY <1>0, <1>4, TableUnchanged DEF Replay, Take, Disconnect, service
<1>5. CASE \E s \in Streams, r \in Runs : Subscribe(s, r)
  BY <1>5, SweepTable DEF Subscribe
<1>6. CASE Poll
  BY <1>6, SweepTable DEF Poll
<1>7. CASE Tick
  BY <1>0, <1>7, TableUnchanged DEF Tick, service
<1>8. CASE Restart
  <2>1. remembered' = <<>>
    BY <1>8 DEF Restart
  <2>2. \A r \in Runs : run'[r].state \notin Finals
    BY <1>0, <1>8 DEF Restart, RunSet, Finals
  <2> QED
    BY <2>1, <2>2, EmptySeq DEF TableInv, OneEach
<1> QED
  BY <1>1, <1>2, <1>3, <1>4, <1>5, <1>6, <1>7, <1>8 DEF Next

-----------------------------------------------------------------------------
(* Sequences of events *)

\* One sequence starts another when it agrees with it as far as it goes.
LEMMA PrefixPointwise ==
    ASSUME NEW S, NEW s \in Seq(S), NEW t \in Seq(S)
    PROVE  IsPrefix(s, t) <=> Len(s) <= Len(t) /\ \A i \in 1..Len(s) : s[i] = t[i]
<1>1. Len(s) \in Nat /\ Len(t) \in Nat /\ \A i \in 1..Len(s) : s[i] \in S
  BY LenProperties, ElementOfSeq
<1>2. SubSeq(s, 1, Len(s)) = s
  BY SubSeqFull
<1>3. ASSUME Len(s) <= Len(t)
      PROVE  SubSeq(t, 1, Len(s)) = s <=> \A i \in 1..Len(s) : s[i] = t[i]
  <2>1. \A i \in 1..Len(s) : t[i] \in S
    BY <1>1, <1>3, ElementOfSeq
  <2>2. /\ SubSeq(t, 1, Len(s)) \in Seq(S)
        /\ Len(SubSeq(t, 1, Len(s))) = IF 1 <= Len(s) THEN Len(s) - 1 + 1 ELSE 0
        /\ \A i \in 1..(Len(s) - 1 + 1) : SubSeq(t, 1, Len(s))[i] = t[1 + i - 1]
    BY <1>1, <2>1, SubSeqProperties
  <2> DEFINE u == SubSeq(t, 1, Len(s))
  <2> HIDE DEF u
  <2>3. u \in Seq(S) /\ Len(u) = Len(s) /\ \A i \in 1..Len(s) : u[i] = t[i]
    BY <1>1, <2>2 DEF u
  <2>4. (\A i \in 1..Len(s) : s[i] = t[i]) => u = s
    <3> SUFFICES ASSUME \A i \in 1..Len(s) : s[i] = t[i] PROVE u = s
      OBVIOUS
    <3>1. \A i \in 1..Len(u) : u[i] = s[i]
      BY <2>3
    <3> QED
      BY <2>3, <3>1, SeqEqual
  <2>5. u = s => \A i \in 1..Len(s) : s[i] = t[i]
    BY <2>3
  <2> QED
    BY <2>4, <2>5 DEF u
<1> QED
  BY <1>2, <1>3 DEF IsPrefix

LEMMA PrefixGrows ==
    ASSUME NEW S, NEW s \in Seq(S), NEW t \in Seq(S), NEW u \in Seq(S)
    PROVE  /\ IsPrefix(s, t) => IsPrefix(s, t \o u)
           /\ IsPrefix(s, s \o u)
<1>1. ASSUME NEW v \in Seq(S)
      PROVE  /\ v \o u \in Seq(S) /\ Len(v \o u) >= Len(v)
             /\ \A i \in 1..Len(v) : (v \o u)[i] = v[i]
  <2>1. /\ v \o u \in Seq(S)
        /\ Len(v \o u) = Len(v) + Len(u)
        /\ \A i \in 1..(Len(v) + Len(u)) : (v \o u)[i] = IF i <= Len(v) THEN v[i] ELSE u[i - Len(v)]
    BY ConcatProperties
  <2>2. Len(v) \in Nat /\ Len(u) \in Nat
    BY LenProperties
  <2> QED
    BY <2>1, <2>2
<1>2. Len(s) \in Nat /\ Len(t) \in Nat
  BY LenProperties
<1>3. IsPrefix(s, s \o u)
  <2>1. /\ s \o u \in Seq(S) /\ Len(s \o u) >= Len(s) /\ Len(s \o u) \in Nat
        /\ \A i \in 1..Len(s) : (s \o u)[i] = s[i]
    BY <1>1, LenProperties
  <2> QED
    BY <1>2, <2>1, PrefixPointwise
<1>4. ASSUME IsPrefix(s, t) PROVE IsPrefix(s, t \o u)
  <2>1. /\ t \o u \in Seq(S) /\ Len(t \o u) >= Len(t) /\ Len(t \o u) \in Nat
        /\ \A i \in 1..Len(t) : (t \o u)[i] = t[i]
    BY <1>1, LenProperties
  <2>2. Len(s) <= Len(t) /\ \A i \in 1..Len(s) : s[i] = t[i]
    BY <1>4, PrefixPointwise
  <2>3. Len(s) <= Len(t \o u) /\ \A i \in 1..Len(s) : s[i] = (t \o u)[i]
    BY <1>2, <2>1, <2>2
  <2> QED
    BY <2>1, <2>3, PrefixPointwise
<1> QED
  BY <1>3, <1>4

\* Moving the head of one sequence to the end of the one before it
LEMMA HeadMoves ==
    ASSUME NEW S, NEW s \in Seq(S), NEW t \in Seq(S), t # <<>>
    PROVE  Append(s, Head(t)) \o Tail(t) = s \o t
<1> DEFINE a == Append(s, Head(t))
           b == Tail(t)
<1>1. Head(t) \in S /\ Head(t) = t[1] /\ b \in Seq(S) /\ Len(b) = Len(t) - 1
      /\ \A i \in 1..Len(b) : b[i] = t[i + 1]
  BY HeadTailProperties, EmptySeq
<1>2. Len(s) \in Nat /\ Len(t) \in Nat \ {0}
  BY LenProperties, EmptySeq
<1>3. /\ a \in Seq(S) /\ Len(a) = Len(s) + 1
      /\ \A i \in 1..Len(s) : a[i] = s[i]
      /\ a[Len(s) + 1] = t[1]
  BY <1>1, AppendProperties
<1> HIDE DEF a, b
<1>4. /\ a \o b \in Seq(S)
      /\ Len(a \o b) = Len(a) + Len(b)
      /\ \A i \in 1..(Len(a) + Len(b)) : (a \o b)[i] = IF i <= Len(a) THEN a[i] ELSE b[i - Len(a)]
  BY <1>1, <1>3, ConcatProperties
<1>5. /\ s \o t \in Seq(S)
      /\ Len(s \o t) = Len(s) + Len(t)
      /\ \A i \in 1..(Len(s) + Len(t)) : (s \o t)[i] = IF i <= Len(s) THEN s[i] ELSE t[i - Len(s)]
  BY ConcatProperties
<1>6. Len(a \o b) = Len(s \o t)
  BY <1>1, <1>2, <1>3, <1>4, <1>5
<1>7. ASSUME NEW i \in 1..Len(a \o b) PROVE (a \o b)[i] = (s \o t)[i]
  <2>1. i \in 1..(Len(s) + Len(t))
    BY <1>5, <1>6
  <2>2. CASE i <= Len(s)
    BY <1>1, <1>2, <1>3, <1>4, <1>5, <2>1, <2>2
  <2>3. CASE i = Len(s) + 1
    BY <1>1, <1>2, <1>3, <1>4, <1>5, <2>1, <2>3
  <2>4. CASE i > Len(s) + 1
    <3>1. i - Len(a) \in 1..Len(b) /\ i - Len(a) + 1 = i - Len(s)
      BY <1>1, <1>2, <1>3, <2>1, <2>4
    <3>2. (a \o b)[i] = b[i - Len(a)] /\ (s \o t)[i] = t[i - Len(s)]
      BY <1>1, <1>2, <1>3, <1>4, <1>5, <2>1, <2>4
    <3> QED
      BY <1>1, <3>1, <3>2
  <2> QED
    BY <1>2, <2>1, <2>2, <2>3, <2>4
<1>8. a \o b = s \o t
  BY <1>4, <1>5, <1>6, <1>7, SeqEqual
<1> QED
  BY <1>8 DEF a, b

-----------------------------------------------------------------------------
(* The progress events of a run *)

\* The progress events from number f on when n were sent
Live(n, f) == [k \in 1..(n - f + 1) |-> Progressed(f + k - 1)]

LEMMA LiveShape ==
    ASSUME NEW n \in Nat, NEW f \in 1..(n + 1)
    PROVE  /\ Live(n, f) \in Seq(EventSet)
           /\ Len(Live(n, f)) = n - f + 1
           /\ \A k \in 1..(n - f + 1) : Live(n, f)[k] = Progressed(f + k - 1)
<1>1. n - f + 1 \in Nat /\ \A k \in 1..(n - f + 1) : f + k - 1 \in Nat
  OBVIOUS
<1>2. \A k \in 1..(n - f + 1) : Progressed(f + k - 1) \in EventSet
  BY <1>1, EventTypes
<1> DEFINE e(k) == Progressed(f + k - 1)
<1>3. [k \in 1..(n - f + 1) |-> e(k)] \in Seq(EventSet)
  <2> HIDE DEF e
  <2>1. \A k \in 1..(n - f + 1) : e(k) \in EventSet
    BY <1>2 DEF e
  <2> QED
    BY <1>1, <2>1, IsASeq
<1>4. DOMAIN Live(n, f) = 1..(n - f + 1) /\ \A k \in 1..(n - f + 1) : Live(n, f)[k] = Progressed(f + k - 1)
  BY DEF Live
<1>5. Live(n, f) \in Seq(EventSet)
  BY <1>3 DEF Live
<1>6. DOMAIN Live(n, f) = 1..Len(Live(n, f)) /\ Len(Live(n, f)) \in Nat
  BY <1>5, LenProperties
<1>7. Len(Live(n, f)) = n - f + 1
  BY <1>1, <1>4, <1>6
<1> QED
  BY <1>4, <1>5, <1>7

LEMMA LiveGrows ==
    ASSUME NEW n \in Nat, NEW f \in 1..(n + 1)
    PROVE  Live(n + 1, f) = Append(Live(n, f), Progressed(n + 1))
<1> DEFINE s == Live(n, f)
           t == Live(n + 1, f)
           u == Append(s, Progressed(n + 1))
<1>1. /\ s \in Seq(EventSet) /\ Len(s) = n - f + 1
      /\ \A k \in 1..(n - f + 1) : s[k] = Progressed(f + k - 1)
  BY LiveShape
<1>2. /\ t \in Seq(EventSet) /\ Len(t) = n + 1 - f + 1
      /\ \A k \in 1..(n + 1 - f + 1) : t[k] = Progressed(f + k - 1)
  <2>1. n + 1 \in Nat /\ f \in 1..(n + 1 + 1)
    OBVIOUS
  <2> QED
    BY <2>1, LiveShape
<1>3. /\ u \in Seq(EventSet) /\ Len(u) = Len(s) + 1
      /\ \A k \in 1..Len(s) : u[k] = s[k]
      /\ u[Len(s) + 1] = Progressed(n + 1)
  <2>1. Progressed(n + 1) \in EventSet
    BY EventTypes
  <2> QED
    BY <1>1, <2>1, AppendProperties
<1> HIDE DEF s, t, u
<1>4. Len(t) = Len(u)
  BY <1>1, <1>2, <1>3
<1>5. ASSUME NEW k \in 1..Len(t) PROVE t[k] = u[k]
  <2>1. CASE k \in 1..Len(s)
    BY <1>1, <1>2, <1>3, <2>1
  <2>2. CASE k = Len(s) + 1
    <3>1. f + k - 1 = n + 1
      BY <1>1, <2>2
    <3> QED
      BY <1>2, <1>3, <2>2, <3>1
  <2>3. k \in 1..Len(s) \/ k = Len(s) + 1
    BY <1>1, <1>2
  <2> QED
    BY <2>1, <2>2, <2>3
<1>6. t = u
  BY <1>2, <1>3, <1>4, <1>5, SeqEqual
<1> QED
  BY <1>6 DEF s, t, u

\* The buffer keeps the end of what was sent.
LEMMA LiveTrim ==
    ASSUME NEW n \in Nat, NEW f \in 1..(n + 1)
    PROVE  \E g \in 1..(n + 1) : Trim(Live(n, f)) = Live(n, g)
<1> DEFINE s == Live(n, f)
           a == IF Len(s) > BufferSize THEN Len(s) - BufferSize + 1 ELSE 1
           g == f + a - 1
<1>1. /\ s \in Seq(EventSet) /\ Len(s) = n - f + 1
      /\ \A k \in 1..(n - f + 1) : s[k] = Progressed(f + k - 1)
  BY LiveShape
<1>2. BufferSize \in Nat \ {0}
  BY ProgressAssumption
<1>3. a \in 1..(Len(s) + 1) /\ a \in Int /\ Len(s) \in Nat /\ g \in 1..(n + 1)
  BY <1>1, <1>2
<1> HIDE DEF s, a
<1>4. \A i \in a..Len(s) : s[i] \in EventSet
  BY <1>1, <1>3, ElementOfSeq
<1>5. /\ SubSeq(s, a, Len(s)) \in Seq(EventSet)
      /\ Len(SubSeq(s, a, Len(s))) = IF a <= Len(s) THEN Len(s) - a + 1 ELSE 0
      /\ \A i \in 1..(Len(s) - a + 1) : SubSeq(s, a, Len(s))[i] = s[a + i - 1]
  BY <1>3, <1>4, SubSeqProperties
<1> DEFINE u == SubSeq(s, a, Len(s))
           v == Live(n, g)
<1>6. /\ v \in Seq(EventSet) /\ Len(v) = n - g + 1
      /\ \A k \in 1..(n - g + 1) : v[k] = Progressed(g + k - 1)
  BY <1>3, LiveShape
<1>7. u \in Seq(EventSet) /\ Len(u) = Len(s) - a + 1 /\ \A i \in 1..(Len(s) - a + 1) : u[i] = s[a + i - 1]
  BY <1>3, <1>5
<1> HIDE DEF u, v
<1>8. Len(u) = Len(v)
  BY <1>1, <1>3, <1>6, <1>7
<1>9. ASSUME NEW k \in 1..Len(u) PROVE u[k] = v[k]
  <2>1. k \in 1..(Len(s) - a + 1) /\ k \in 1..(n - g + 1) /\ a + k - 1 \in 1..(n - f + 1)
        /\ f + (a + k - 1) - 1 = g + k - 1
    BY <1>1, <1>3, <1>7
  <2>2. u[k] = s[a + k - 1] /\ v[k] = Progressed(g + k - 1)
    BY <1>6, <1>7, <2>1
  <2>3. s[a + k - 1] = Progressed(f + (a + k - 1) - 1)
    BY <1>1, <2>1
  <2> QED
    BY <2>1, <2>2, <2>3
<1>10. u = v
  BY <1>6, <1>7, <1>8, <1>9, SeqEqual
<1>11. Trim(s) = u
  BY DEF Trim, u, a
<1> QED
  BY <1>3, <1>10, <1>11 DEF s, v

-----------------------------------------------------------------------------
(* The streams *)

Held(s) == stream[s].got \o stream[s].todo \o stream[s].queue

\* What the invariant says of one subscription: as StreamIsWhole, with the
\* facts that make it last: its first event is one that was sent or is next, and
\* a stream that was ended belongs to a run that has.
StreamInv(s) ==
    LET r == stream[s].of IN
    stream[s].pc \in {"open", "ended", "dropped"} =>
      /\ r \in Runs
      /\ stream[s].first \in 1..(run[r].sent + 1)
      /\ stream[s].pc = "open" => Held(s) = History(r, stream[s].first)
      /\ stream[s].pc = "ended" /\ run[r].state # "lost" =>
           run[r].state \in Finals /\ Append(Held(s), Done) = History(r, stream[s].first)
      /\ stream[s].pc = "dropped" /\ run[r].state # "lost" =>
           IsPrefix(Held(s), History(r, stream[s].first))

\* A buffer is the end of what its run has sent.
BuffersInv == \A r \in Runs : \E f \in 1..(run[r].sent + 1) : buffers[r] = Live(run[r].sent, f)

WholeInv == BuffersInv /\ \A s \in Streams : StreamInv(s)

LEMMA WholeImplies == WholeInv => StreamIsWhole
BY DEF WholeInv, StreamInv, Held, StreamIsWhole

LEMMA HistoryShape ==
    ASSUME NEW r \in Runs, run[r] \in RunSet, NEW f \in 1..(run[r].sent + 1)
    PROVE  /\ History(r, f) = Live(run[r].sent, f) \o
                (IF run[r].state \in Finals THEN Closing(run[r].state) ELSE <<>>)
           /\ History(r, f) \in Seq(EventSet)
           /\ run[r].state \notin Finals => History(r, f) = Live(run[r].sent, f)
<1>1. run[r].sent \in Nat
  BY DEF RunSet
<1>2. History(r, f) = Live(run[r].sent, f) \o
        (IF run[r].state \in Finals THEN Closing(run[r].state) ELSE <<>>)
  BY DEF History, Live
<1>3. Live(run[r].sent, f) \in Seq(EventSet)
  BY <1>1, LiveShape
<1>4. CASE run[r].state \in Finals
  <2>1. Closing(run[r].state) \in Seq(EventSet)
    BY <1>4, EventTypes
  <2> QED
    BY <1>2, <1>3, <1>4, <2>1, ConcatProperties
<1>5. CASE run[r].state \notin Finals
  BY <1>2, <1>3, <1>5, ConcatEmptySeq
<1> QED
  BY <1>2, <1>4, <1>5

LEMMA HeldShape ==
    ASSUME NEW s \in Streams, stream[s] \in StreamSet
    PROVE  /\ Held(s) \in Seq(EventSet)
           /\ stream[s].got \in Seq(EventSet) /\ stream[s].todo \in Seq(EventSet)
           /\ stream[s].queue \in Seq(EventSet)
           /\ stream[s].got \o stream[s].todo \in Seq(EventSet)
BY ConcatProperties DEF StreamSet, Held

\* A stream that nothing happens to stays whole while its run stands still.
LEMMA StreamStays ==
    ASSUME NEW s \in Streams, StreamInv(s), stream'[s] = stream[s],
           stream[s].pc \in {"open", "ended", "dropped"} =>
             run'[stream[s].of] = run[stream[s].of]
    PROVE  StreamInv(s)'
<1>1. Held(s)' = Held(s)
  BY DEF Held
<1>2. ASSUME run'[stream[s].of] = run[stream[s].of]
      PROVE  History(stream[s].of, stream[s].first)' = History(stream[s].of, stream[s].first)
  BY <1>2 DEF History
<1> QED
  BY <1>1, <1>2 DEF StreamInv

\* What is enqueued for a run, and added to its history, is added to what its
\* open streams hold; the ones that were dropped hold a piece of it as before.
LEMMA EnqueueWhole ==
    ASSUME Inv, WholeInv, NEW r \in Runs, NEW events \in Seq(EventSet), Enqueue(r, events),
           run[r].state \notin Finals, run[r].state # "lost",
           run' \in [Runs -> RunSet], run'[r].sent >= run[r].sent,
           \A q \in Runs \ {r} : run'[q] = run[q],
           \A f \in 1..(run[r].sent + 1) : History(r, f)' = History(r, f) \o events
    PROVE  \A s \in Streams : StreamInv(s)'
<1> SUFFICES ASSUME NEW s \in Streams PROVE StreamInv(s)'
  OBVIOUS
<1>1. /\ stream[s] \in StreamSet /\ run[r] \in RunSet /\ run'[r] \in RunSet
      /\ stream \in [Streams -> StreamSet]
      /\ s \in queues[r] <=> stream[s].pc = "open" /\ stream[s].of = r
      /\ StreamInv(s)
  BY DEF Inv, ShapeInv, NothingLeaks, WholeInv
<1> DEFINE longer == stream[s].queue \o events
<1>2. /\ Held(s) \in Seq(EventSet)
      /\ stream[s].got \o stream[s].todo \in Seq(EventSet)
      /\ stream[s].queue \in Seq(EventSet)
  BY <1>1, HeldShape
<1>3. run[r].sent \in Nat /\ run'[r].sent \in Nat
  BY <1>1 DEF RunSet
<1>4. CASE stream[s].pc = "open" /\ stream[s].of = r
  <2>1. stream'[s] = [stream[s] EXCEPT !.queue = longer]
    BY <1>1, <1>4 DEF Enqueue
  <2>2. /\ stream'[s].pc = "open" /\ stream'[s].of = r /\ stream'[s].first = stream[s].first
        /\ stream'[s].got = stream[s].got /\ stream'[s].todo = stream[s].todo
        /\ stream'[s].queue = longer
    <3> HIDE DEF longer
    <3> QED
      BY <1>1, <1>4, <2>1 DEF StreamSet
  <2>3. Held(s)' = (stream[s].got \o stream[s].todo) \o longer
    BY <2>2 DEF Held
  <2>4. (stream[s].got \o stream[s].todo) \o longer = Held(s) \o events
    <3> DEFINE a == stream[s].got \o stream[s].todo
               b == stream[s].queue
    <3>1. a \in Seq(EventSet) /\ b \in Seq(EventSet) /\ Held(s) = a \o b /\ longer = b \o events
      BY <1>2 DEF Held
    <3> HIDE DEF a, b, longer
    <3>2. (a \o b) \o events = a \o (b \o events)
      BY <3>1, ConcatAssociative
    <3>3. a \o longer = Held(s) \o events
      BY <3>1, <3>2
    <3> QED
      BY <3>3 DEF a
  <2>5. PICK f \in 1..(run[r].sent + 1) : f = stream[s].first /\ Held(s) = History(r, f)
    BY <1>1, <1>4 DEF StreamInv
  <2>6. History(r, f)' = History(r, f) \o events
    BY <2>5
  <2>7. f \in 1..(run'[r].sent + 1)
    BY <1>3, <2>5
  <2> QED
    BY <2>2, <2>3, <2>4, <2>5, <2>6, <2>7 DEF StreamInv
<1>5. CASE ~(stream[s].pc = "open" /\ stream[s].of = r)
  <2>1. stream'[s] = stream[s]
    BY <1>1, <1>5 DEF Enqueue
  <2>2. CASE stream[s].of # r
    <3>1. stream[s].pc \in {"open", "ended", "dropped"} => run'[stream[s].of] = run[stream[s].of]
      BY <1>1, <2>2 DEF StreamInv
    <3> QED
      BY <1>1, <2>1, <3>1, StreamStays
  <2>3. CASE stream[s].of = r /\ stream[s].pc = "dropped"
    <3>1. PICK f \in 1..(run[r].sent + 1) : f = stream[s].first /\ IsPrefix(Held(s), History(r, f))
      BY <1>1, <2>3 DEF StreamInv
    <3>2. History(r, f) \in Seq(EventSet)
      BY <1>1, <3>1, HistoryShape
    <3>3. IsPrefix(Held(s), History(r, f) \o events)
      BY <1>2, <3>1, <3>2, PrefixGrows
    <3>4. Held(s)' = Held(s) /\ f \in 1..(run'[r].sent + 1)
      BY <1>3, <2>1, <3>1 DEF Held
    <3> QED
      BY <2>1, <2>3, <3>1, <3>3, <3>4 DEF StreamInv
  <2>4. CASE stream[s].of = r /\ stream[s].pc # "dropped"
    <3>1. stream[s].pc \notin {"open", "ended", "dropped"}
      BY <1>1, <1>5, <2>4 DEF StreamInv
    <3> QED
      BY <2>1, <3>1 DEF StreamInv
  <2> QED
    BY <2>2, <2>3, <2>4
<1> QED
  BY <1>4, <1>5

LEMMA LiveEmpty == ASSUME NEW n \in Nat PROVE n + 1 \in 1..(n + 1) /\ Live(n, n + 1) = <<>>
<1>1. n + 1 \in 1..(n + 1) /\ n - (n + 1) + 1 = 0
  OBVIOUS
<1>2. Live(n, n + 1) \in Seq(EventSet) /\ Len(Live(n, n + 1)) = n - (n + 1) + 1
  BY <1>1, LiveShape
<1> QED
  BY <1>1, <1>2, EmptySeq

LEMMA SendWhole == ASSUME Inv, WholeInv, NEW r \in Runs, Send(r) PROVE WholeInv'
<1> DEFINE n == run[r].sent
<1>1. /\ run[r].state \in {"new", "running"}
      /\ run' = [run EXCEPT ![r].state = "running", ![r].sent = n + 1]
      /\ buffers' = [buffers EXCEPT ![r] = Trim(Append(buffers[r], Progressed(n + 1)))]
      /\ Enqueue(r, <<Progressed(n + 1)>>)
  BY DEF Send
<1>2. /\ run \in [Runs -> RunSet] /\ run[r] \in RunSet /\ n \in Nat
      /\ buffers \in [Runs -> Seq(EventSet)]
  BY DEF Inv, ShapeInv, RunSet
<1>3. /\ run'[r].state = "running" /\ run'[r].sent = n + 1
      /\ run' \in [Runs -> RunSet]
      /\ \A q \in Runs \ {r} : run'[q] = run[q]
  BY <1>1, <1>2 DEF RunSet
<1>4. Progressed(n + 1) \in EventSet /\ <<Progressed(n + 1)>> \in Seq(EventSet)
  BY <1>2, EventTypes
<1>5. run[r].state \notin Finals /\ run[r].state # "lost" /\ run'[r].state \notin Finals
  BY <1>1, <1>3 DEF Finals
<1> HIDE DEF n
<1>6. ASSUME NEW f \in 1..(n + 1)
      PROVE  History(r, f)' = History(r, f) \o <<Progressed(n + 1)>>
  <2>1. History(r, f) = Live(n, f)
    BY <1>2, <1>5, HistoryShape DEF n
  <2>2. History(r, f)' = Live(n + 1, f) \o <<>>
    BY <1>3, <1>5 DEF History, Live
  <2>3. f \in 1..(n + 1 + 1) /\ n + 1 \in Nat
    BY <1>2
  <2>4. History(r, f)' = Live(n + 1, f)
    BY <2>2, <2>3, LiveShape, ConcatEmptySeq
  <2>5. Live(n + 1, f) = Append(Live(n, f), Progressed(n + 1))
    BY <1>2, LiveGrows
  <2>6. Live(n, f) \in Seq(EventSet)
    BY <1>2, LiveShape
  <2>7. Append(Live(n, f), Progressed(n + 1)) = Live(n, f) \o <<Progressed(n + 1)>>
    BY <1>4, <2>6, AppendIsConcat
  <2> QED
    BY <2>1, <2>4, <2>5, <2>7
<1>7. \A s \in Streams : StreamInv(s)'
  <2>1. run'[r].sent >= run[r].sent
    BY <1>2, <1>3 DEF n
  <2>2. \A f \in 1..(run[r].sent + 1) : History(r, f)' = History(r, f) \o <<Progressed(n + 1)>>
    BY <1>6 DEF n
  <2>3. Enqueue(r, <<Progressed(n + 1)>>)
    BY <1>1 DEF n
  <2> QED
    BY <1>3, <1>4, <1>5, <2>1, <2>2, <2>3, EnqueueWhole
<1>8. BuffersInv'
  <2> SUFFICES ASSUME NEW q \in Runs
               PROVE  \E f \in 1..(run'[q].sent + 1) : buffers'[q] = Live(run'[q].sent, f)
    BY DEF BuffersInv
  <2>1. CASE q # r
    BY <1>1, <1>2, <1>3, <2>1 DEF WholeInv, BuffersInv
  <2>2. CASE q = r
    <3>1. PICK f \in 1..(n + 1) : buffers[r] = Live(n, f)
      BY DEF WholeInv, BuffersInv, n
    <3>2. Append(buffers[r], Progressed(n + 1)) = Live(n + 1, f)
      BY <1>2, <3>1, LiveGrows
    <3>3. n + 1 \in Nat /\ f \in 1..(n + 1 + 1)
      BY <1>2
    <3>4. \E g \in 1..(n + 1 + 1) : Trim(Live(n + 1, f)) = Live(n + 1, g)
      BY <3>3, LiveTrim
    <3>5. buffers'[r] = Trim(Live(n + 1, f))
      BY <1>1, <1>2, <3>2
    <3> QED
      BY <1>3, <2>2, <3>4, <3>5
  <2> QED
    BY <2>1, <2>2
<1> QED
  BY <1>7, <1>8 DEF WholeInv

LEMMA FinishWhole == ASSUME Inv, WholeInv, NEW r \in Runs, Finish(r) PROVE WholeInv'
<1>1. PICK kind \in Finals :
        /\ run[r].state = "running"
        /\ run' = [run EXCEPT ![r].state = kind, ![r].at = clock]
        /\ Enqueue(r, Closing(kind))
        /\ buffers' = [buffers EXCEPT ![r] = <<>>]
  BY DEF Finish
<1> DEFINE n == run[r].sent
<1>2. /\ run \in [Runs -> RunSet] /\ run[r] \in RunSet /\ n \in Nat /\ clock \in Nat
      /\ buffers \in [Runs -> Seq(EventSet)]
  BY DEF Inv, ShapeInv, RunSet
<1>3. /\ run'[r].state = kind /\ run'[r].sent = n
      /\ run' \in [Runs -> RunSet]
      /\ \A q \in Runs \ {r} : run'[q] = run[q]
  BY <1>1, <1>2 DEF RunSet
<1>4. Closing(kind) \in Seq(EventSet)
  BY EventTypes
<1>5. run[r].state \notin Finals /\ run[r].state # "lost"
  BY <1>1 DEF Finals
<1> HIDE DEF n
<1>6. ASSUME NEW f \in 1..(n + 1)
      PROVE  History(r, f)' = History(r, f) \o Closing(kind)
  <2>1. History(r, f) = Live(n, f)
    BY <1>2, <1>5, HistoryShape DEF n
  <2>2. History(r, f)' = Live(n, f) \o Closing(kind)
    BY <1>3 DEF History, Live, Closing, Terminal, Done
  <2> QED
    BY <2>1, <2>2
<1>7. \A s \in Streams : StreamInv(s)'
  <2>1. run'[r].sent >= run[r].sent
    BY <1>2, <1>3 DEF n
  <2>2. \A f \in 1..(run[r].sent + 1) : History(r, f)' = History(r, f) \o Closing(kind)
    BY <1>6 DEF n
  <2>3. Enqueue(r, Closing(kind))
    BY <1>1 DEF n
  <2> QED
    BY <1>3, <1>4, <1>5, <2>1, <2>2, <2>3, EnqueueWhole
<1>8. BuffersInv'
  <2> SUFFICES ASSUME NEW q \in Runs
               PROVE  \E f \in 1..(run'[q].sent + 1) : buffers'[q] = Live(run'[q].sent, f)
    BY DEF BuffersInv
  <2>1. CASE q # r
    BY <1>1, <1>2, <1>3, <2>1 DEF WholeInv, BuffersInv
  <2>2. CASE q = r
    <3>1. n + 1 \in 1..(n + 1) /\ Live(n, n + 1) = <<>>
      BY <1>2, LiveEmpty
    <3> QED
      BY <1>1, <1>2, <1>3, <2>2, <3>1
  <2> QED
    BY <2>1, <2>2
<1> QED
  BY <1>7, <1>8 DEF WholeInv

\* When one stream moves, and no run and no buffer does, only that stream matters.
LEMMA OneStreamMoves ==
    ASSUME Inv, WholeInv, NEW s \in Streams, UNCHANGED <<buffers, run>>,
           \A q \in Streams \ {s} : stream'[q] = stream[q], StreamInv(s)'
    PROVE  WholeInv'
<1>1. BuffersInv'
  BY DEF WholeInv, BuffersInv
<1>2. ASSUME NEW q \in Streams, q # s PROVE StreamInv(q)'
  BY <1>2, StreamStays DEF WholeInv
<1> QED
  BY <1>1, <1>2 DEF WholeInv

\* An open stream stays whole when it keeps what it holds, or is cut short.
LEMMA StreamMoves ==
    ASSUME NEW s \in Streams, StreamInv(s), stream[s].pc = "open", run' = run,
           stream'[s].of = stream[s].of, stream'[s].first = stream[s].first,
           \/ stream'[s].pc = "open" /\ Held(s)' = Held(s)
           \/ stream'[s].pc = "dropped" /\ IsPrefix(Held(s)', Held(s))
    PROVE  StreamInv(s)'
<1>1. PICK r \in Runs, f \in Nat :
        f \in 1..(run[r].sent + 1) /\ r = stream[s].of /\ f = stream[s].first /\ Held(s) = History(r, f)
  BY DEF StreamInv
<1>2. History(r, f)' = History(r, f)
  BY DEF History
<1> QED
  BY <1>1, <1>2 DEF StreamInv

LEMMA SnapshotRunning ==
    ASSUME Inv, TableInv, NEW r \in Runs, Snapshot(r) \notin Finals, Snapshot(r) # "unknown"
    PROVE  run[r].state = "running"
<1> DEFINE kept == {e \in Range(Current(remembered)) : e.of = r}
<1>1. /\ Current(remembered) \in Seq(Entries)
      /\ DOMAIN Current(remembered) = 1..Len(Current(remembered))
  BY SweepKeeps, LenProperties DEF TableInv
<1>2. \A e \in kept : e.kind \in Finals
  <2> SUFFICES ASSUME NEW e \in kept PROVE e.kind \in Finals
    OBVIOUS
  <2>1. e \in Entries
    BY <1>1, ElementOfSeq DEF Range
  <2> QED
    BY <2>1 DEF Entries
<1>3. Snapshot(r) = IF kept # {} THEN (CHOOSE e \in kept : TRUE).kind
                    ELSE IF latest[r] # 0 THEN "running" ELSE "unknown"
  BY DEF Snapshot
<1> HIDE DEF kept
<1>4. latest[r] # 0
  BY <1>2, <1>3
<1> QED
  BY <1>4 DEF Inv, NothingLeaks

LEMMA EndsWhole ==
    ASSUME Inv, WholeInv, NEW s \in Streams, NEW r \in Runs, NEW e \in EventSet, Ends(s, r, e), run' = run
    PROVE  WholeInv'
<1>1. stream \in [Streams -> StreamSet] /\ Fresh \in StreamSet
  BY DEF Inv, ShapeInv, Fresh, StreamSet, Pcs
<1>2. stream'[s].pc = "answered" /\ \A q \in Streams \ {s} : stream'[q] = stream[q]
  BY <1>1 DEF Ends, StreamSet
<1>3. StreamInv(s)'
  BY <1>2 DEF StreamInv
<1> QED
  BY <1>2, <1>3, OneStreamMoves DEF Ends

LEMMA RegistersWhole ==
    ASSUME Inv, WholeInv, NEW s \in Streams, NEW r \in Runs, run[r].state = "running",
           Registers(s, r), run' = run
    PROVE  WholeInv'
<1> DEFINE n == run[r].sent
           first == IF buffers[r] = <<>> THEN n + 1 ELSE buffers[r][1].n
<1>1. /\ stream \in [Streams -> StreamSet] /\ run[r] \in RunSet /\ n \in Nat
      /\ buffers[r] \in Seq(EventSet)
  BY DEF Inv, ShapeInv, RunSet
<1>2. PICK f \in 1..(n + 1) : buffers[r] = Live(n, f)
  BY DEF WholeInv, BuffersInv
<1>3. /\ Live(n, f) \in Seq(EventSet)
      /\ Len(Live(n, f)) = n - f + 1
      /\ \A k \in 1..(n - f + 1) : Live(n, f)[k] = Progressed(f + k - 1)
  BY <1>1, LiveShape
<1>4. first = f
  <2>1. CASE buffers[r] = <<>>
    <3>1. n - f + 1 = 0
      BY <1>2, <1>3, <2>1, EmptySeq
    <3> QED
      BY <1>1, <2>1, <3>1
  <2>2. CASE buffers[r] # <<>>
    <3>1. 1 \in 1..(n - f + 1)
      BY <1>1, <1>2, <1>3, <2>2, EmptySeq
    <3>2. Live(n, f)[1] = Progressed(f + 1 - 1)
      BY <1>3, <3>1
    <3>3. Live(n, f)[1] = Progressed(f)
      BY <3>2
    <3> QED
      BY <1>2, <2>2, <3>3 DEF Progressed
  <2> QED
    BY <2>1, <2>2
<1>5. stream' = [stream EXCEPT ![s] = [Fresh EXCEPT
                   !.pc = "open", !.of = r, !.todo = buffers[r], !.first = first]]
      /\ UNCHANGED buffers
  BY DEF Registers
<1> HIDE DEF first
<1>6. /\ stream'[s].pc = "open" /\ stream'[s].of = r /\ stream'[s].first = f
      /\ stream'[s].got = <<>> /\ stream'[s].todo = buffers[r] /\ stream'[s].queue = <<>>
      /\ \A q \in Streams \ {s} : stream'[q] = stream[q]
  BY <1>1, <1>4, <1>5 DEF Fresh
<1>7. Held(s)' = buffers[r]
  <2>1. Held(s)' = (<<>> \o buffers[r]) \o <<>>
    BY <1>6 DEF Held
  <2> QED
    BY <1>1, <2>1, ConcatEmptySeq
<1>8. History(r, f)' = buffers[r]
  <2>1. run[r].state \notin Finals
    BY DEF Finals
  <2>2. History(r, f)' = Live(n, f) \o <<>>
    BY <2>1 DEF History, Live
  <2> QED
    BY <1>2, <1>3, <2>2, ConcatEmptySeq
<1>9. StreamInv(s)'
  BY <1>6, <1>7, <1>8 DEF StreamInv
<1> QED
  BY <1>5, <1>6, <1>9, OneStreamMoves

LEMMA SubscribeWhole ==
    ASSUME Inv, WholeInv, TableInv, NEW s \in Streams, NEW r \in Runs, Subscribe(s, r)
    PROVE  WholeInv'
<1>1. run' = run
  BY DEF Subscribe
<1>2. \/ Snapshot(r) \in Finals /\ Ends(s, r, Terminal(Snapshot(r)))
      \/ Snapshot(r) = "unknown" /\ Ends(s, r, Unavailable)
      \/ Snapshot(r) \notin Finals /\ Snapshot(r) # "unknown" /\ Registers(s, r)
  BY DEF Subscribe
<1>3. CASE Snapshot(r) \in Finals /\ Ends(s, r, Terminal(Snapshot(r)))
  BY <1>1, <1>3, EventTypes, EndsWhole
<1>4. CASE Snapshot(r) = "unknown" /\ Ends(s, r, Unavailable)
  BY <1>1, <1>4, EventTypes, EndsWhole
<1>5. CASE Snapshot(r) \notin Finals /\ Snapshot(r) # "unknown" /\ Registers(s, r)
  BY <1>1, <1>5, SnapshotRunning, RegistersWhole
<1> QED
  BY <1>2, <1>3, <1>4, <1>5

LEMMA ReplayWhole == ASSUME Inv, WholeInv, NEW s \in Streams, Replay(s) PROVE WholeInv'
<1> DEFINE more == Append(stream[s].got, Head(stream[s].todo))
           rest == Tail(stream[s].todo)
<1>1. /\ stream[s].pc = "open" /\ stream[s].todo # <<>>
      /\ stream' = [stream EXCEPT ![s].got = more, ![s].todo = rest]
      /\ UNCHANGED <<buffers, run>>
  BY DEF Replay, service
<1>2. stream \in [Streams -> StreamSet] /\ stream[s] \in StreamSet
  BY DEF Inv, ShapeInv
<1>3. more \o rest = stream[s].got \o stream[s].todo
  BY <1>1, <1>2, HeadMoves DEF StreamSet
<1> HIDE DEF more, rest
<1>4. /\ stream'[s].pc = "open" /\ stream'[s].of = stream[s].of /\ stream'[s].first = stream[s].first
      /\ stream'[s].got = more /\ stream'[s].todo = rest /\ stream'[s].queue = stream[s].queue
      /\ \A q \in Streams \ {s} : stream'[q] = stream[q]
  BY <1>1, <1>2 DEF StreamSet
<1>5. Held(s)' = Held(s)
  BY <1>3, <1>4 DEF Held
<1>6. StreamInv(s)'
  BY <1>1, <1>4, <1>5, StreamMoves DEF WholeInv
<1> QED
  BY <1>1, <1>4, <1>6, OneStreamMoves

\* The end marker is the last event of a history, and only of a finished one.
LEMMA DoneIsLast ==
    ASSUME NEW r \in Runs, run[r] \in RunSet, NEW f \in 1..(run[r].sent + 1),
           NEW i \in 1..Len(History(r, f)), History(r, f)[i] = Done
    PROVE  run[r].state \in Finals /\ i = Len(History(r, f))
<1> DEFINE n == run[r].sent
           live == Live(n, f)
<1>1. n \in Nat
  BY DEF RunSet
<1>2. /\ live \in Seq(EventSet) /\ Len(live) = n - f + 1 /\ Len(live) \in Nat
      /\ \A k \in 1..Len(live) : live[k] = Progressed(f + k - 1)
  <2>1. Len(live) = n - f + 1 /\ live \in Seq(EventSet) /\ \A k \in 1..(n - f + 1) : live[k] = Progressed(f + k - 1)
    BY <1>1, LiveShape
  <2> HIDE DEF live
  <2> QED
    BY <1>1, <2>1
<1>3. \A k : Progressed(k) # Done
  BY DEF Progressed, Done, Terminal
<1> HIDE DEF live
<1>4. CASE run[r].state \notin Finals
  <2>1. History(r, f) = live
    BY <1>4, HistoryShape DEF live
  <2> QED
    BY <1>2, <1>3, <2>1
<1>5. CASE run[r].state \in Finals
  <2> DEFINE end == Closing(run[r].state)
  <2>1. History(r, f) = live \o end
    BY <1>5, HistoryShape DEF live
  <2>2. end \in Seq(EventSet) /\ Len(end) = 2 /\ end[1] = Terminal(run[r].state)
    BY <1>5, EventTypes DEF Closing
  <2>3. end[1] # Done
    BY <1>5, <2>2 DEF Terminal, Done, Finals
  <2> HIDE DEF end
  <2>4. /\ Len(live \o end) = Len(live) + 2
        /\ \A k \in 1..(Len(live) + 2) : (live \o end)[k] = IF k <= Len(live) THEN live[k] ELSE end[k - Len(live)]
    <3>1. /\ Len(live \o end) = Len(live) + Len(end)
          /\ \A k \in 1..(Len(live) + Len(end)) : (live \o end)[k] = IF k <= Len(live) THEN live[k] ELSE end[k - Len(live)]
      BY <1>2, <2>2, ConcatProperties
    <3> QED
      BY <2>2, <3>1
  <2>5. CASE i <= Len(live)
    BY <1>2, <1>3, <2>1, <2>4, <2>5
  <2>6. CASE i = Len(live) + 1
    <3>1. (live \o end)[i] = end[1]
      <4>1. i \in 1..(Len(live) + 2) /\ ~(i <= Len(live)) /\ i - Len(live) = 1
        BY <1>2, <2>6
      <4> QED
        BY <2>4, <4>1
    <3> QED
      BY <2>1, <2>3, <3>1
  <2>7. CASE i = Len(live) + 2
    BY <1>5, <2>1, <2>4, <2>7
  <2>8. i \in 1..(Len(live) + 2)
    BY <2>1, <2>4
  <2>9. i <= Len(live) \/ i = Len(live) + 1 \/ i = Len(live) + 2
    <3>1. Len(live) \in Nat
      BY <1>2
    <3>2. \A a \in Nat : \A k \in 1..(a + 2) : k <= a \/ k = a + 1 \/ k = a + 2
      OBVIOUS
    <3> QED
      BY <2>8, <3>1, <3>2
  <2> QED
    BY <2>5, <2>6, <2>7, <2>9
<1> QED
  BY <1>4, <1>5

LEMMA TakeWhole == ASSUME Inv, WholeInv, NEW s \in Streams, Take(s) PROVE WholeInv'
<1> DEFINE event == Head(stream[s].queue)
           more == Append(stream[s].got, event)
           rest == Tail(stream[s].queue)
<1>1. /\ stream[s].pc = "open" /\ stream[s].todo = <<>> /\ stream[s].queue # <<>>
      /\ UNCHANGED <<buffers, run>>
  BY DEF Take
<1>2. /\ stream \in [Streams -> StreamSet] /\ stream[s] \in StreamSet
      /\ stream[s].got \in Seq(EventSet) /\ stream[s].queue \in Seq(EventSet)
  BY DEF Inv, ShapeInv, StreamSet
<1>3. stream[s].got \o stream[s].todo = stream[s].got
  BY <1>1, <1>2, ConcatEmptySeq
<1>4. Held(s) = stream[s].got \o stream[s].queue
  BY <1>3 DEF Held
<1>5. CASE event = Done /\ stream' = [stream EXCEPT ![s].pc = "ended", ![s].queue = <<>>]
  <2>1. /\ stream'[s].pc = "ended" /\ stream'[s].of = stream[s].of /\ stream'[s].first = stream[s].first
        /\ stream'[s].got = stream[s].got /\ stream'[s].todo = <<>> /\ stream'[s].queue = <<>>
        /\ \A q \in Streams \ {s} : stream'[q] = stream[q]
    BY <1>1, <1>2, <1>5 DEF StreamSet
  <2>2. PICK r \in Runs, f \in Nat :
          f \in 1..(run[r].sent + 1) /\ r = stream[s].of /\ f = stream[s].first /\ Held(s) = History(r, f)
    BY <1>1 DEF WholeInv, StreamInv
  <2>3. run[r] \in RunSet
    BY DEF Inv, ShapeInv
  <2> DEFINE got == stream[s].got
             queue == stream[s].queue
             i == Len(got) + 1
  <2>4. /\ got \o queue \in Seq(EventSet)
        /\ Len(got \o queue) = Len(got) + Len(queue)
        /\ \A k \in 1..(Len(got) + Len(queue)) :
             (got \o queue)[k] = IF k <= Len(got) THEN got[k] ELSE queue[k - Len(got)]
    BY <1>2, ConcatProperties
  <2>5. Len(got) \in Nat /\ Len(queue) \in Nat \ {0} /\ queue[1] = Done
    BY <1>1, <1>2, <1>5, LenProperties, EmptySeq, HeadTailProperties
  <2> HIDE DEF got, queue
  <2>6. Held(s) = got \o queue
    BY <1>4 DEF got, queue
  <2>7. i \in 1..Len(History(r, f)) /\ History(r, f)[i] = Done
    <3>1. i \in 1..(Len(got) + Len(queue)) /\ ~(i <= Len(got)) /\ i - Len(got) = 1
      BY <2>5
    <3>2. (got \o queue)[i] = queue[1]
      BY <2>4, <3>1
    <3> QED
      BY <2>2, <2>4, <2>5, <2>6, <3>1, <3>2
  <2>8. run[r].state \in Finals /\ i = Len(History(r, f))
    BY <2>2, <2>3, <2>7, DoneIsLast
  <2>9. Len(queue) = 1
    <3>1. Len(History(r, f)) = Len(got) + Len(queue)
      BY <2>2, <2>4, <2>6
    <3>2. Len(got) + 1 = Len(got) + Len(queue)
      BY <2>8, <3>1
    <3>3. Len(got) \in Nat /\ Len(queue) \in Nat
      BY <2>5
    <3>4. \A a, b \in Nat : a + 1 = a + b => b = 1
      OBVIOUS
    <3> QED
      BY <3>2, <3>3, <3>4
  <2>10. queue = <<Done>>
    <3>1. queue \in Seq(EventSet) /\ <<Done>> \in Seq(EventSet) /\ Len(<<Done>>) = 1 /\ <<Done>>[1] = Done
      BY <1>2, EventTypes DEF queue
    <3>2. Len(queue) = Len(<<Done>>) /\ \A k \in 1..Len(queue) : queue[k] = <<Done>>[k]
      BY <2>5, <2>9, <3>1
    <3> QED
      BY <3>1, <3>2, SeqEqual
  <2>11. got \in Seq(EventSet) /\ Done \in EventSet
    BY <1>2, EventTypes DEF got
  <2>12. Held(s)' = got
    <3>1. Held(s)' = (got \o <<>>) \o <<>>
      BY <2>1 DEF Held, got
    <3> QED
      BY <2>11, <3>1, ConcatEmptySeq
  <2>13. Append(got, Done) = History(r, f)
    <3>1. Append(got, Done) = got \o <<Done>>
      BY <2>11, AppendIsConcat
    <3> QED
      BY <2>2, <2>6, <2>10, <3>1
  <2>14. History(r, f)' = History(r, f)
    BY <1>1 DEF History
  <2>15. StreamInv(s)'
    BY <1>1, <2>1, <2>2, <2>8, <2>12, <2>13, <2>14 DEF StreamInv
  <2> QED
    BY <1>1, <2>1, <2>15, OneStreamMoves
<1>6. CASE stream' = [stream EXCEPT ![s].got = more, ![s].queue = rest]
  <2>1. more \o rest = stream[s].got \o stream[s].queue /\ more \in Seq(EventSet)
    BY <1>1, <1>2, HeadMoves, HeadTailProperties, AppendProperties
  <2> HIDE DEF more, rest
  <2>2. /\ stream'[s].pc = "open" /\ stream'[s].of = stream[s].of /\ stream'[s].first = stream[s].first
        /\ stream'[s].got = more /\ stream'[s].todo = <<>> /\ stream'[s].queue = rest
        /\ \A q \in Streams \ {s} : stream'[q] = stream[q]
    BY <1>1, <1>2, <1>6 DEF StreamSet
  <2>3. Held(s)' = Held(s)
    <3>1. Held(s)' = (more \o <<>>) \o rest
      BY <2>2 DEF Held
    <3> QED
      BY <1>4, <2>1, <3>1, ConcatEmptySeq
  <2>4. StreamInv(s)'
    BY <1>1, <2>2, <2>3, StreamMoves DEF WholeInv
  <2> QED
    BY <1>1, <2>2, <2>4, OneStreamMoves
<1> QED
  BY <1>5, <1>6 DEF Take

\* What a client has got of a stream that is cut is where it would have gone on.
LEMMA CutIsPrefix ==
    ASSUME NEW s \in Streams, stream[s] \in StreamSet
    PROVE  IsPrefix(stream[s].got \o <<>> \o <<>>, Held(s))
<1> DEFINE got == stream[s].got
           todo == stream[s].todo
           queue == stream[s].queue
<1>1. got \in Seq(EventSet) /\ todo \in Seq(EventSet) /\ queue \in Seq(EventSet)
  BY DEF StreamSet
<1> HIDE DEF got, todo, queue
<1>2. (got \o todo) \o queue = got \o (todo \o queue) /\ todo \o queue \in Seq(EventSet)
  BY <1>1, ConcatAssociative, ConcatProperties
<1>3. IsPrefix(got, got \o (todo \o queue))
  BY <1>1, <1>2, PrefixGrows
<1>4. (got \o <<>>) \o <<>> = got
  BY <1>1, ConcatEmptySeq
<1> QED
  BY <1>2, <1>3, <1>4 DEF Held, got, todo, queue

LEMMA DisconnectWhole == ASSUME Inv, WholeInv, NEW s \in Streams, Disconnect(s) PROVE WholeInv'
<1>1. /\ stream[s].pc = "open"
      /\ stream' = [stream EXCEPT ![s].pc = "dropped", ![s].todo = <<>>, ![s].queue = <<>>]
      /\ UNCHANGED <<buffers, run>>
  BY DEF Disconnect
<1>2. stream \in [Streams -> StreamSet] /\ stream[s] \in StreamSet
  BY DEF Inv, ShapeInv
<1>3. /\ stream'[s].pc = "dropped" /\ stream'[s].of = stream[s].of /\ stream'[s].first = stream[s].first
      /\ stream'[s].got = stream[s].got /\ stream'[s].todo = <<>> /\ stream'[s].queue = <<>>
      /\ \A q \in Streams \ {s} : stream'[q] = stream[q]
  BY <1>1, <1>2 DEF StreamSet
<1>4. Held(s)' = stream[s].got \o <<>> \o <<>>
  BY <1>3 DEF Held
<1>5. IsPrefix(Held(s)', Held(s))
  BY <1>2, <1>4, CutIsPrefix
<1>6. StreamInv(s)'
  BY <1>1, <1>3, <1>5, StreamMoves DEF WholeInv
<1> QED
  BY <1>1, <1>3, <1>6, OneStreamMoves

LEMMA RestartWhole == ASSUME Inv, WholeInv, Restart PROVE WholeInv'
<1>1. /\ run \in [Runs -> RunSet] /\ stream \in [Streams -> StreamSet]
      /\ run' = [r \in Runs |-> IF run[r].state = "new" THEN run[r] ELSE [run[r] EXCEPT !.state = "lost"]]
      /\ buffers' = [r \in Runs |-> <<>>]
  BY DEF Restart, Inv, ShapeInv
<1>2. \A r \in Runs : /\ run'[r].sent = run[r].sent /\ run[r].sent \in Nat
                      /\ run'[r].state # "lost" => run'[r] = run[r]
  BY <1>1 DEF RunSet
<1>3. BuffersInv'
  <2> SUFFICES ASSUME NEW r \in Runs
               PROVE  \E f \in 1..(run'[r].sent + 1) : buffers'[r] = Live(run'[r].sent, f)
    BY DEF BuffersInv
  <2> DEFINE n == run'[r].sent
  <2>1. n \in Nat
    BY <1>2
  <2> HIDE DEF n
  <2>2. n + 1 \in 1..(n + 1) /\ Live(n, n + 1) = <<>>
    BY <2>1, LiveEmpty
  <2> QED
    BY <1>1, <2>2 DEF n
<1>4. ASSUME NEW s \in Streams PROVE StreamInv(s)'
  <2>1. stream[s] \in StreamSet /\ StreamInv(s)
    BY <1>1 DEF WholeInv
  <2>2. stream'[s] = IF stream[s].pc = "open"
                     THEN [stream[s] EXCEPT !.pc = "dropped", !.todo = <<>>, !.queue = <<>>] ELSE stream[s]
    BY DEF Restart
  <2>3. CASE stream[s].pc = "open"
    <3>1. /\ stream'[s].pc = "dropped" /\ stream'[s].of = stream[s].of /\ stream'[s].first = stream[s].first
          /\ stream'[s].got = stream[s].got /\ stream'[s].todo = <<>> /\ stream'[s].queue = <<>>
      BY <2>1, <2>2, <2>3 DEF StreamSet
    <3>2. Held(s)' = stream[s].got \o <<>> \o <<>>
      BY <3>1 DEF Held
    <3>3. PICK r \in Runs, f \in Nat :
            f \in 1..(run[r].sent + 1) /\ r = stream[s].of /\ f = stream[s].first /\ Held(s) = History(r, f)
      BY <2>1, <2>3 DEF StreamInv
    <3>4. run'[r].state # "lost" => History(r, f)' = History(r, f)
      BY <1>2 DEF History
    <3> QED
      BY <1>2, <2>1, <3>1, <3>2, <3>3, <3>4, CutIsPrefix DEF StreamInv
  <2>4. CASE stream[s].pc # "open"
    <3>1. stream'[s] = stream[s] /\ Held(s)' = Held(s)
      BY <2>2, <2>4 DEF Held
    <3>2. CASE stream[s].pc \in {"ended", "dropped"}
      <4>1. PICK r \in Runs, f \in Nat : f \in 1..(run[r].sent + 1) /\ r = stream[s].of /\ f = stream[s].first
        BY <2>1, <3>2 DEF StreamInv
      <4>2. run'[r].state # "lost" => History(r, f)' = History(r, f) /\ run[r].state # "lost"
        BY <1>2 DEF History
      <4> QED
        BY <1>2, <2>1, <3>1, <3>2, <4>1, <4>2 DEF StreamInv
    <3>3. CASE stream[s].pc \notin {"ended", "dropped"}
      BY <2>4, <3>1, <3>3 DEF StreamInv
    <3> QED
      BY <3>2, <3>3
  <2> QED
    BY <2>3, <2>4
<1> QED
  BY <1>3, <1>4 DEF WholeInv

\* Steps that touch neither a run, nor a buffer, nor a stream
LEMMA WholeUnchanged == ASSUME WholeInv, UNCHANGED <<buffers, run, stream>> PROVE WholeInv'
<1>1. \A s \in Streams : StreamInv(s)'
  BY StreamStays DEF WholeInv
<1> QED
  BY <1>1 DEF WholeInv, BuffersInv

LEMMA WholeNext == ASSUME Inv, TableInv, WholeInv, [Next]_vars PROVE WholeInv'
<1>1. CASE UNCHANGED vars
  BY <1>1, WholeUnchanged DEF vars, service
<1>2. CASE \E r \in Runs : Send(r) \/ Finish(r)
  BY <1>2, SendWhole, FinishWhole
<1>3. CASE \E s \in Streams : Replay(s) \/ Take(s) \/ Disconnect(s)
  BY <1>3, ReplayWhole, TakeWhole, DisconnectWhole
<1>4. CASE \E s \in Streams, r \in Runs : Subscribe(s, r)
  BY <1>4, SubscribeWhole
<1>5. CASE Poll
  BY <1>5, WholeUnchanged DEF Poll
<1>6. CASE Tick
  BY <1>6, WholeUnchanged DEF Tick, service
<1> QED
  BY <1>1, <1>2, <1>3, <1>4, <1>5, <1>6, RestartWhole DEF Next

LEMMA InitTable == Init => TableInv /\ WholeInv
<1> SUFFICES ASSUME Init PROVE TableInv /\ WholeInv
  OBVIOUS
<1>1. /\ remembered = <<>> /\ \A r \in Runs : run[r].state = "new" /\ run[r].sent = 0 /\ buffers[r] = <<>>
      /\ \A s \in Streams : stream[s].pc = "closed"
  BY DEF Init, Fresh
<1>2. TableInv
  BY <1>1, EmptySeq DEF TableInv, OneEach, Finals
<1>3. Live(0, 1) = <<>>
  BY LiveShape, EmptySeq
<1>4. BuffersInv
  <2>1. \A r \in Runs : 1 \in 1..(run[r].sent + 1) /\ buffers[r] = Live(run[r].sent, 1)
    BY <1>1, <1>3
  <2> QED
    BY <2>1 DEF BuffersInv
<1> QED
  BY <1>1, <1>2, <1>4 DEF WholeInv, StreamInv

FullInv == Inv /\ TableInv /\ WholeInv

LEMMA FullInvHolds == Spec => []FullInv
<1>1. Init => FullInv
  BY InitInv, InitTable DEF FullInv
<1>2. FullInv /\ [Next]_vars => FullInv'
  BY NextKeeps, TableNext, WholeNext DEF FullInv
<1> QED
  BY <1>1, <1>2, PTL DEF Spec

\* The outcome of a run can be asked for until it expires or until MaxTerminal other
\* runs have ended at the same time or later: neither the sweep nor the cap of
\* _remember_terminal takes an entry that a late subscriber is still owed.
THEOREM OutcomesAreKept == Spec => []OutcomeIsKept
<1>1. FullInv => OutcomeIsKept
  BY TableAnswers DEF FullInv
<1> QED
  BY <1>1, FullInvHolds, PTL

\* What an EventSource has received, and will from its list and its queue, is one
\* unbroken piece of its run's history, ending with the terminal event and the done
\* marker when the run has ended: subscribing between two sends loses nothing and
\* repeats nothing (send, subscribe and the generator of the route).
THEOREM StreamsAreWhole == Spec => []StreamIsWhole
<1>1. FullInv => StreamIsWhole
  BY WholeImplies DEF FullInv
<1> QED
  BY <1>1, FullInvHolds, PTL
=============================================================================
