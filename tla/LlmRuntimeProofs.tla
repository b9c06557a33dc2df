-------------------------- MODULE LlmRuntimeProofs --------------------------
(***************************************************************************)
(* Proofs about LlmRuntime, for any number of requests, calls, seats,      *)
(* retries and keys.                                                       *)
(***************************************************************************)
EXTENDS LlmRuntime, FiniteSetTheorems, TLAPS

\* Only calls of the runtime wait, for a seat or for their next attempt.
PausesAreSeated == \A c \in Calls : stage[c] \in {"waiting", "resting"} => kind[c] \in Seated

SeatInv == TypeOK /\ PausesAreSeated /\ SeatsAddUp /\ NoSeatIdles

\* The types the other proofs add.
KeyTypes ==
  /\ headers \in [Requests -> Headers]
  /\ redirecting \in [Calls -> BOOLEAN]
  /\ went \in [Calls -> Routes]
  /\ collector \in [Requests -> [Models -> Nat]]
  /\ told \in [Requests -> [Models -> Nat]]
  /\ \A i \in DOMAIN clients : clients[i] \in Keys /\ CacheKey(clients[i]) = i

\* What a call c that goes on to one of the stages S does to the others: at most
\* one of them leaves the line with a seat.
Moves(c, S) ==
  /\ stage'[c] \in S
  /\ \A e \in Calls \ {c} :
       stage'[e] = stage[e] \/ (stage[e] = "waiting" /\ stage'[e] = "granted")

-----------------------------------------------------------------------------
(* Counting seats.                                                         *)

LEMMA CallsFinite == IsFiniteSet(Calls)
  BY RuntimeAssumption, FS_Interval DEF Calls

LEMMA HoldersFinite == IsFiniteSet(Holders)
  BY CallsFinite, FS_Subset DEF Holders

\* A holder that leaves frees one seat.
LEMMA OneLeaves ==
  ASSUME NEW S, IsFiniteSet(S), NEW c \in S, NEW n \in Nat, NEW N \in Nat,
         n + Cardinality(S) = N
  PROVE  n + 1 + Cardinality(S \ {c}) = N /\ n + 1 \in 0..N
  <1>1. Cardinality(S \ {c}) = Cardinality(S) - 1 /\ IsFiniteSet(S \ {c})
    BY FS_RemoveElement
  <1>2. Cardinality(S) \in Nat /\ Cardinality(S \ {c}) \in Nat
    BY <1>1, FS_CardinalityType
  <1> QED
    BY <1>1, <1>2

\* A call that sits down takes one.
LEMMA OneComes ==
  ASSUME NEW S, IsFiniteSet(S), NEW c, c \notin S, NEW n \in Nat, NEW N \in Nat,
         n + Cardinality(S) = N, n > 0
  PROVE  n - 1 + Cardinality(S \cup {c}) = N /\ n - 1 \in 0..N
  <1>1. Cardinality(S \cup {c}) = Cardinality(S) + 1
    BY FS_AddElement
  <1>2. Cardinality(S) \in Nat
    BY FS_CardinalityType
  <1> QED
    BY <1>1, <1>2

\* A seat that is handed over stays taken.
LEMMA OneForOne ==
  ASSUME NEW S, IsFiniteSet(S), NEW c \in S, NEW d, d \notin S
  PROVE  Cardinality((S \ {c}) \cup {d}) = Cardinality(S)
  <1>1. Cardinality(S \ {c}) = Cardinality(S) - 1 /\ IsFiniteSet(S \ {c})
    BY FS_RemoveElement
  <1>2. Cardinality((S \ {c}) \cup {d}) = Cardinality(S \ {c}) + 1
    BY <1>1, FS_AddElement
  <1>3. Cardinality(S) \in Nat
    BY FS_CardinalityType
  <1> QED
    BY <1>1, <1>2, <1>3

-----------------------------------------------------------------------------
(* The two operations of the semaphore.                                    *)

\* However an attempt ends, the seat goes to the line or back.
LEMMA ReleasedKeeps ==
  ASSUME SeatInv, NEW c \in Calls, stage[c] \in {"granted", "flying"},
         NEW s \in {"answered", "resting", "failed"}, s = "resting" => kind[c] \in Seated,
         Released(c, s), UNCHANGED kind
  PROVE  /\ Moves(c, {s})
         /\ stage' \in [Calls -> Stages] /\ ahead' \in [Calls -> SUBSET Calls]
         /\ seats' \in 0..MaxConcurrency
         /\ PausesAreSeated' /\ SeatsAddUp' /\ NoSeatIdles'
  <1> DEFINE handed == kind[c] \in Seated /\ Waiting # {}
  <1>t. /\ seats \in Nat /\ MaxConcurrency \in Nat
        /\ seats + Cardinality(Holders) = MaxConcurrency
    BY RuntimeAssumption DEF SeatInv, TypeOK, SeatsAddUp
  <1>1. CASE handed
    <2>1. PICK d \in Waiting : /\ stage' = [stage EXCEPT ![c] = s, ![d] = "granted"]
                               /\ ahead' = [e \in Calls |-> ahead[e] \ {d}]
                               /\ seats' = seats
      BY <1>1 DEF Released
    <2>2. d \in Calls /\ stage[d] = "waiting" /\ d # c
      BY DEF Waiting
    <2>3. stage' \in [Calls -> Stages] /\ ahead' \in [Calls -> SUBSET Calls]
      BY <2>1, <2>2 DEF SeatInv, TypeOK, Stages
    <2>4. /\ stage'[c] = s /\ stage'[d] = "granted"
          /\ \A e \in Calls \ {c, d} : stage'[e] = stage[e]
      BY <2>1, <2>2 DEF SeatInv, TypeOK
    <2>5. Holders' = (Holders \ {c}) \cup {d} /\ c \in Holders /\ d \notin Holders
      BY <1>1, <2>2, <2>4 DEF Holders, SeatInv, PausesAreSeated
    <2>6. SeatsAddUp'
      BY <1>t, <2>1, <2>5, HoldersFinite, OneForOne DEF SeatsAddUp
    <2>7. NoSeatIdles'
      BY <1>1, <2>1 DEF NoSeatIdles, SeatInv
    <2>8. PausesAreSeated'
      BY <2>4 DEF PausesAreSeated, SeatInv
    <2>9. Moves(c, {s})
      BY <2>2, <2>4 DEF Moves
    <2> QED
      BY <2>1, <2>3, <2>6, <2>7, <2>8, <2>9 DEF SeatInv, TypeOK
  <1>2. CASE ~handed
    <2>1. /\ stage' = [stage EXCEPT ![c] = s]
          /\ seats' = (IF kind[c] \in Seated THEN seats + 1 ELSE seats)
          /\ ahead' = ahead
      BY <1>2 DEF Released
    <2>2. stage' \in [Calls -> Stages]
      BY <2>1 DEF SeatInv, TypeOK, Stages
    <2>3. stage'[c] = s /\ \A e \in Calls \ {c} : stage'[e] = stage[e]
      BY <2>1 DEF SeatInv, TypeOK
    <2>4. Holders' = Holders \ {c}
      BY <2>3 DEF Holders
    <2>5. seats' \in 0..MaxConcurrency /\ SeatsAddUp'
      <3>1. CASE kind[c] \in Seated
        <4>1. c \in Holders
          BY <3>1 DEF Holders
        <4> QED
          BY <1>t, <2>1, <2>4, <3>1, <4>1, HoldersFinite, OneLeaves DEF SeatsAddUp
      <3>2. CASE kind[c] \notin Seated
        <4>1. Holders \ {c} = Holders
          BY <3>2 DEF Holders
        <4> QED
          BY <1>t, <2>1, <2>4, <3>2, <4>1 DEF SeatsAddUp, SeatInv, TypeOK
      <3> QED
        BY <3>1, <3>2
    <2>6. NoSeatIdles'
      <3>1. Waiting' \subseteq Waiting
        BY <2>3 DEF Waiting
      <3> QED
        BY <1>2, <2>1, <3>1 DEF NoSeatIdles, SeatInv
    <2>7. PausesAreSeated'
      BY <2>3 DEF PausesAreSeated, SeatInv
    <2>8. Moves(c, {s})
      BY <2>3 DEF Moves
    <2> QED
      BY <2>1, <2>2, <2>5, <2>6, <2>7, <2>8 DEF SeatInv, TypeOK
  <1> QED
    BY <1>1, <1>2

\* A call that asks for a seat gets one or waits.
LEMMA JoinedKeeps ==
  ASSUME SeatInv, NEW c \in Calls, stage[c] \in {"new", "resting"}, Joined(c),
         kind' \in [Calls -> Kinds], kind'[c] \in Seated,
         \A e \in Calls \ {c} : kind'[e] = kind[e]
  PROVE  /\ Moves(c, {"granted", "waiting"})
         /\ stage' \in [Calls -> Stages] /\ ahead' \in [Calls -> SUBSET Calls]
         /\ seats' \in 0..MaxConcurrency
         /\ PausesAreSeated' /\ SeatsAddUp' /\ NoSeatIdles'
  <1>t. /\ seats \in Nat /\ MaxConcurrency \in Nat
        /\ seats + Cardinality(Holders) = MaxConcurrency
        /\ c \notin Holders
    BY RuntimeAssumption DEF SeatInv, TypeOK, SeatsAddUp, Holders
  <1>1. CASE seats > 0
    <2>1. /\ stage' = [stage EXCEPT ![c] = "granted"]
          /\ seats' = seats - 1 /\ ahead' = ahead
      BY <1>1 DEF Joined
    <2>2. /\ stage' \in [Calls -> Stages]
          /\ stage'[c] = "granted" /\ \A e \in Calls \ {c} : stage'[e] = stage[e]
      BY <2>1 DEF SeatInv, TypeOK, Stages
    <2>3. Holders' = Holders \cup {c}
      BY <2>2 DEF Holders
    <2>4. SeatsAddUp' /\ seats' \in 0..MaxConcurrency
      BY <1>1, <1>t, <2>1, <2>3, HoldersFinite, OneComes DEF SeatsAddUp
    <2>5. Waiting' \subseteq Waiting
      BY <2>2 DEF Waiting
    <2>6. NoSeatIdles'
      BY <1>1, <2>5 DEF NoSeatIdles, SeatInv
    <2>7. PausesAreSeated'
      BY <2>2 DEF PausesAreSeated, SeatInv
    <2>8. Moves(c, {"granted", "waiting"})
      BY <2>2 DEF Moves
    <2> QED
      BY <2>1, <2>2, <2>4, <2>6, <2>7, <2>8 DEF SeatInv, TypeOK
  <1>2. CASE ~(seats > 0)
    <2>1. /\ stage' = [stage EXCEPT ![c] = "waiting"]
          /\ seats' = seats /\ ahead' = [ahead EXCEPT ![c] = Waiting]
      BY <1>2 DEF Joined
    <2>2. /\ stage' \in [Calls -> Stages]
          /\ stage'[c] = "waiting" /\ \A e \in Calls \ {c} : stage'[e] = stage[e]
      BY <2>1 DEF SeatInv, TypeOK, Stages
    <2>3. Holders' = Holders
      BY <1>t, <2>2 DEF Holders
    <2>4. ahead' \in [Calls -> SUBSET Calls]
      BY <2>1 DEF SeatInv, TypeOK, Waiting
    <2>5. SeatsAddUp' /\ NoSeatIdles' /\ PausesAreSeated'
      BY <1>2, <1>t, <2>1, <2>2, <2>3 DEF SeatsAddUp, NoSeatIdles, PausesAreSeated, SeatInv
    <2>6. Moves(c, {"granted", "waiting"})
      BY <2>2 DEF Moves
    <2> QED
      BY <2>1, <2>2, <2>4, <2>5, <2>6 DEF SeatInv, TypeOK
  <1> QED
    BY <1>1, <1>2

\* A call outside the semaphore that starts, or one that stops where it holds
\* no seat, changes nothing about the seats.
LEMMA UnseatedKeeps ==
  ASSUME SeatInv, NEW c \in Calls, c \notin Holders, NEW s \in {"granted", "failed"},
         stage' = [stage EXCEPT ![c] = s], UNCHANGED seats,
         s = "granted" => kind'[c] \notin Seated,
         \A e \in Calls \ {c} : kind'[e] = kind[e]
  PROVE  /\ Moves(c, {s})
         /\ stage' \in [Calls -> Stages]
         /\ PausesAreSeated' /\ SeatsAddUp' /\ NoSeatIdles'
  <1>1. /\ stage' \in [Calls -> Stages]
        /\ stage'[c] = s /\ \A e \in Calls \ {c} : stage'[e] = stage[e]
    BY DEF SeatInv, TypeOK, Stages
  <1>2. Holders' = Holders
    BY <1>1 DEF Holders
  <1>3. Waiting' \subseteq Waiting
    BY <1>1 DEF Waiting
  <1> QED
    BY <1>1, <1>2, <1>3 DEF Moves, PausesAreSeated, SeatsAddUp, NoSeatIdles, SeatInv

-----------------------------------------------------------------------------
(* Types and seats.                                                        *)

LEMMA SeatInit == Init => SeatInv
  <1> SUFFICES ASSUME Init PROVE SeatInv
    OBVIOUS
  <1>1. Holders = {} /\ Waiting = {}
    BY DEF Init, Holders, Waiting
  <1>2. TypeOK
    BY RuntimeAssumption DEF Init, TypeOK, Phases, Stages, Kinds, Contexts, NoContext
  <1> QED
    BY <1>1, <1>2, FS_EmptySet, RuntimeAssumption
       DEF Init, SeatInv, PausesAreSeated, SeatsAddUp, NoSeatIdles

\* A step of a request that makes no call leaves the calls alone.
LEMMA SeatRequest ==
  ASSUME SeatInv, NEW r \in Requests, KeyTypes,
         Enter(r) \/ Answered(r) \/ Raised(r) \/ Finish(r) \/ FinishUnstored(r) \/ Leave(r)
  PROVE  SeatInv'
  <1>1. /\ phase' \in [Requests -> Phases] /\ context' \in [Requests -> Contexts]
        /\ left' \subseteq Calls
    <2> DEFINE entered == [collector |-> IF headers[r].tracking THEN r ELSE Absent,
                           override |-> headers[r].key,
                           tier |-> headers[r].tier /\ headers[r].key = Absent]
    <2>1. CASE Enter(r)
      <3>1. entered \in Contexts
        BY DEF KeyTypes, Headers, Contexts
      <3>2. context' = [context EXCEPT ![r] = entered] /\ left' = left
        BY <2>1 DEF Enter
      <3>3. phase' = [phase EXCEPT ![r] = IF headers[r].form = "pipeline" THEN "running"
                                          ELSE "serving"]
        BY <2>1 DEF Enter
      <3> QED
        BY <3>1, <3>2, <3>3 DEF SeatInv, TypeOK, Phases
    <2>2. CASE Answered(r)
      BY <2>2 DEF SeatInv, TypeOK, Phases, Answered
    <2>3. CASE Finish(r)
      BY <2>3 DEF SeatInv, TypeOK, Phases, Active, Finish
    <2>4. CASE FinishUnstored(r)
      BY <2>4 DEF SeatInv, TypeOK, Phases, Active, FinishUnstored
    <2>5. CASE Leave(r)
      BY <2>5 DEF SeatInv, TypeOK, Phases, Leave
    <2>6. CASE Raised(r)
      BY <2>6 DEF SeatInv, TypeOK, Phases, Raised
    <2> QED
      BY <2>1, <2>2, <2>3, <2>4, <2>5, <2>6
  <1>2. UNCHANGED <<seats, ahead, stage, attempt, of, kind>>
    BY DEF Enter, Answered, Raised, Finish, FinishUnstored, Leave, lineVars
  <1>3. Holders' = Holders /\ Waiting' = Waiting
    BY <1>2 DEF Holders, Waiting
  <1> QED
    BY <1>1, <1>2, <1>3 DEF SeatInv, TypeOK, PausesAreSeated, SeatsAddUp, NoSeatIdles

LEMMA SeatBegin ==
  ASSUME SeatInv, NEW r \in Requests, NEW c \in Calls, NEW k \in Kinds, Begin(c, r, k)
  PROVE  SeatInv' /\ Moves(c, {"granted", "waiting"})
  <1>1. /\ kind' \in [Calls -> Kinds] /\ kind'[c] = k
        /\ \A e \in Calls \ {c} : kind'[e] = kind[e]
        /\ of' \in [Calls -> Requests \cup {Absent}]
        /\ UNCHANGED <<phase, context, left, attempt>> /\ stage[c] = "new"
    BY DEF SeatInv, TypeOK, Begin, requestVars
  <1>2. CASE k \in Seated
    <2>1. Joined(c)
      BY <1>2 DEF Begin
    <2> QED
      BY <1>1, <1>2, <2>1, JoinedKeeps DEF SeatInv, TypeOK
  <1>3. CASE k \notin Seated
    <2>1. stage' = [stage EXCEPT ![c] = "granted"] /\ seats' = seats /\ ahead' = ahead
      BY <1>3 DEF Begin, lineVars
    <2>2. c \notin Holders
      BY <1>1 DEF Holders
    <2> QED
      BY <1>1, <1>3, <2>1, <2>2, UnseatedKeeps DEF SeatInv, TypeOK, Moves
  <1> QED
    BY <1>2, <1>3

LEMMA SeatSend ==
  ASSUME SeatInv, NEW c \in Calls, Send(c)
  PROVE  SeatInv' /\ Moves(c, {"flying"})
  <1>1. /\ stage' \in [Calls -> Stages] /\ stage[c] = "granted"
        /\ stage'[c] = "flying" /\ \A e \in Calls \ {c} : stage'[e] = stage[e]
        /\ UNCHANGED <<phase, context, left, seats, ahead, attempt, of, kind>>
    BY DEF SeatInv, TypeOK, Stages, Send, requestVars, lineVars
  <1>2. Holders' = Holders /\ Waiting' = Waiting
    BY <1>1 DEF Holders, Waiting
  <1> QED
    BY <1>1, <1>2 DEF SeatInv, TypeOK, PausesAreSeated, SeatsAddUp, NoSeatIdles, Moves

LEMMA SeatEnds ==
  ASSUME SeatInv, NEW c \in Calls, Ends(c) \/ CancelHolder(c)
  PROVE  SeatInv' /\ Moves(c, {"answered", "resting", "failed"})
  <1>1. /\ stage[c] \in {"granted", "flying"}
        /\ UNCHANGED <<phase, context, left, of, kind>>
        /\ attempt' \in [Calls -> 0..BusyRetries]
    BY RuntimeAssumption
       DEF SeatInv, TypeOK, Ends, Answer, Busy, Fail, CancelHolder, requestVars, Forgotten
  <1>2. PICK s \in {"answered", "resting", "failed"} :
          Released(c, s) /\ (s = "resting" => kind[c] \in Seated)
    BY DEF Ends, Answer, Busy, Fail, CancelHolder
  <1>3. /\ Moves(c, {s}) /\ stage' \in [Calls -> Stages] /\ ahead' \in [Calls -> SUBSET Calls]
        /\ seats' \in 0..MaxConcurrency /\ PausesAreSeated' /\ SeatsAddUp' /\ NoSeatIdles'
    BY <1>1, <1>2, ReleasedKeeps
  <1> QED
    BY <1>1, <1>3 DEF SeatInv, TypeOK, Moves

LEMMA SeatWake ==
  ASSUME SeatInv, NEW c \in Calls, Wake(c)
  PROVE  SeatInv' /\ Moves(c, {"granted", "waiting"})
  <1>1. /\ stage[c] = "resting" /\ Joined(c) /\ kind[c] \in Seated
        /\ UNCHANGED <<phase, context, left, attempt, of, kind>>
    BY DEF SeatInv, PausesAreSeated, Wake, requestVars
  <1> QED
    BY <1>1, JoinedKeeps DEF SeatInv, TypeOK

LEMMA SeatCancelIdle ==
  ASSUME SeatInv, NEW c \in Calls, CancelIdle(c)
  PROVE  SeatInv' /\ Moves(c, {"failed"})
  <1>1. /\ stage[c] \in {"waiting", "resting"} /\ stage' = [stage EXCEPT ![c] = "failed"]
        /\ UNCHANGED <<phase, context, left, seats, of, kind>>
        /\ attempt' \in [Calls -> 0..BusyRetries] /\ ahead' \in [Calls -> SUBSET Calls]
    BY RuntimeAssumption DEF SeatInv, TypeOK, CancelIdle, requestVars, Forgotten
  <1>2. c \notin Holders
    BY <1>1 DEF Holders
  <1> QED
    BY <1>1, <1>2, UnseatedKeeps DEF SeatInv, TypeOK, Moves

LEMMA SeatStep ==
  ASSUME SeatInv, KeyTypes, [Next]_vars
  PROVE  SeatInv'
  <1>1. ASSUME NEW r \in Requests, RequestStep(r)
        PROVE  SeatInv'
    <2>1. CASE Enter(r) \/ Answered(r) \/ Raised(r) \/ Finish(r) \/ FinishUnstored(r) \/ Leave(r)
      BY <2>1, SeatRequest
    <2>2. ASSUME NEW c \in Calls, NEW k \in Kinds, Begin(c, r, k)
          PROVE  SeatInv'
      BY <2>2, SeatBegin
    <2> QED
      BY <1>1, <2>1, <2>2 DEF RequestStep
  <1>2. ASSUME NEW c \in Calls, CallStep(c)
        PROVE  SeatInv'
    BY <1>2, SeatSend, SeatEnds, SeatWake, SeatCancelIdle DEF CallStep
  <1>3. CASE UNCHANGED vars
    BY <1>3 DEF vars, SeatInv, TypeOK, PausesAreSeated, SeatsAddUp, NoSeatIdles, Holders, Waiting
  <1> QED
    BY <1>1, <1>2, <1>3 DEF Next

-----------------------------------------------------------------------------
(* Keys.                                                                   *)

\* The context of a request is what its headers asked for, calls belong to
\* requests that have entered, and only an attempt under way is redirected.
KeyInv ==
  /\ KeyTypes
  /\ \A r \in Requests : phase[r] # "away" =>
       /\ context[r].override = headers[r].key
       /\ context[r].collector = IF headers[r].tracking THEN r ELSE Absent
  /\ \A c \in Calls : stage[c] # "new" => of[c] \in Requests /\ phase[of[c]] # "away"
  /\ \A c \in Calls : redirecting[c] => stage[c] = "flying"
  /\ EveryCallUsesItsKey

LEMMA KeyInit == Init => KeyInv
  <1> SUFFICES ASSUME Init PROVE KeyInv
    OBVIOUS
  <1>1. KeyTypes
    BY RuntimeAssumption DEF Init, KeyTypes, Routes, NoRoute, Models, NoRows
  <1> QED
    BY <1>1 DEF Init, KeyInv, EveryCallUsesItsKey

\* The client of a key holds that key: the cache never mixes two of them.
LEMMA ClientHoldsItsKey ==
  ASSUME KeyTypes, NEW k \in Keys
  PROVE  /\ Client(k) = k
         /\ \A i \in DOMAIN Cached(k) : Cached(k)[i] \in Keys /\ CacheKey(Cached(k)[i]) = i
  <1>1. Client(k) = k
    BY RuntimeAssumption DEF Client, KeyTypes
  <1>2. CASE CacheKey(k) \in DOMAIN clients
    BY <1>1, <1>2 DEF Cached, KeyTypes
  <1>3. CASE CacheKey(k) \notin DOMAIN clients
    <2> DEFINE kept == IF Cardinality(DOMAIN clients) > MaxClients THEN {} ELSE DOMAIN clients
    <2>1. Cached(k) = [i \in kept \cup {CacheKey(k)} |-> IF i = CacheKey(k) THEN k ELSE clients[i]]
      BY <1>3 DEF Cached
    <2>2. kept \subseteq DOMAIN clients
      OBVIOUS
    <2> HIDE DEF kept
    <2> QED
      BY <1>1, <2>1, <2>2 DEF KeyTypes
  <1> QED
    BY <1>1, <1>2, <1>3

LEMMA KeyRequest ==
  ASSUME SeatInv, KeyInv, NEW r \in Requests,
         Enter(r) \/ Answered(r) \/ Raised(r) \/ Finish(r) \/ FinishUnstored(r) \/ Leave(r)
  PROVE  KeyInv'
  <1>1. UNCHANGED <<headers, stage, of, kind, redirecting, went, clients, collector>>
    BY DEF Enter, Answered, Raised, Finish, FinishUnstored, Leave
  <1>2. told' \in [Requests -> [Models -> Nat]]
    <2>1. CASE Finish(r)
      <3>1. phase[r] # "away" /\ told' = IF context[r].collector = Absent THEN told
                            ELSE [told EXCEPT ![r] = collector[context[r].collector]]
        BY <2>1 DEF Finish
      <3>2. context[r].collector \in {r, Absent}
        BY <3>1 DEF KeyInv
      <3> QED
        BY <3>1, <3>2 DEF KeyInv, KeyTypes
    <2>2. CASE Answered(r)
      BY <2>2 DEF KeyInv, KeyTypes, Answered
    <2>3. CASE Enter(r) \/ Raised(r) \/ FinishUnstored(r) \/ Leave(r)
      BY <2>3 DEF KeyInv, KeyTypes, Enter, Raised, FinishUnstored, Leave
    <2> QED
      BY <2>1, <2>2, <2>3
  <1>3. /\ \A q \in Requests \ {r} : phase'[q] = phase[q] /\ context'[q] = context[q]
        /\ phase'[r] # "away"
        /\ context'[r].override = headers[r].key
        /\ context'[r].collector = IF headers[r].tracking THEN r ELSE Absent
    BY DEF SeatInv, TypeOK, KeyInv, Enter, Answered, Raised, Finish, FinishUnstored, Leave
  <1>4. KeyTypes'
    BY <1>1, <1>2 DEF KeyInv, KeyTypes
  <1>5. EveryCallUsesItsKey'
    BY <1>1 DEF KeyInv, EveryCallUsesItsKey
  <1> QED
    BY <1>1, <1>3, <1>4, <1>5 DEF KeyInv

\* A step of a call c that keeps the requests and the calls' requests: what is
\* left to show is about c alone.
LEMMA KeyCall ==
  ASSUME SeatInv, KeyInv, SeatInv', NEW c \in Calls, NEW S, Moves(c, S), stage[c] # "new",
         UNCHANGED <<headers, phase, context, of, kind>>, KeyTypes',
         \A e \in Calls \ {c} : redirecting'[e] = redirecting[e] /\ went'[e] = went[e],
         redirecting'[c] => stage'[c] = "flying",
         stage'[c] \in {"flying", "answered", "resting"} =>
           went'[c].key = IF kind[c] \in {"chat", "direct", "stream"} /\ headers[of[c]].key # Absent
                          THEN headers[of[c]].key ELSE Server
  PROVE  KeyInv'
  <1>1. \A e \in Calls : stage'[e] # "new" => of'[e] \in Requests /\ phase'[of'[e]] # "away"
    BY DEF KeyInv, Moves
  <1>2. \A e \in Calls : redirecting'[e] => stage'[e] = "flying"
    BY DEF KeyInv, Moves
  <1>3. EveryCallUsesItsKey'
    BY DEF KeyInv, Moves, EveryCallUsesItsKey
  <1> QED
    BY <1>1, <1>2, <1>3 DEF KeyInv

LEMMA KeyBegin ==
  ASSUME SeatInv, KeyInv, NEW r \in Requests, NEW c \in Calls, NEW k \in Kinds, Begin(c, r, k)
  PROVE  KeyInv'
  <1>1. Moves(c, {"granted", "waiting"})
    BY SeatBegin
  <1>2. /\ UNCHANGED <<headers, phase, context, told, collector, redirecting, went, clients>>
        /\ stage[c] = "new" /\ of'[c] = r /\ phase[r] # "away"
        /\ \A e \in Calls \ {c} : of'[e] = of[e] /\ kind'[e] = kind[e]
    BY DEF SeatInv, TypeOK, Begin, requestVars
  <1>3. KeyTypes'
    BY <1>2 DEF KeyInv, KeyTypes
  <1>4. EveryCallUsesItsKey'
    BY <1>1, <1>2 DEF KeyInv, Moves, EveryCallUsesItsKey
  <1> QED
    BY <1>1, <1>2, <1>3, <1>4 DEF KeyInv, Moves

LEMMA KeySend ==
  ASSUME SeatInv, KeyInv, NEW c \in Calls, Send(c)
  PROVE  KeyInv'
  <1>1. SeatInv' /\ Moves(c, {"flying"})
    BY SeatSend
  <1>2. /\ UNCHANGED <<headers, phase, context, told, of, kind, collector>>
        /\ stage[c] = "granted"
        /\ went' = [went EXCEPT ![c] = Route(c)]
        /\ redirecting' = [redirecting EXCEPT ![c] = Redirects(c)]
        /\ clients' = IF Redirects(c) THEN Cached(context[of[c]].override) ELSE clients
    BY DEF Send, requestVars
  <1>3. /\ of[c] \in Requests /\ ~redirecting[c]
        /\ context[of[c]].override = headers[of[c]].key
    BY <1>2 DEF KeyInv
  <1>4. headers[of[c]].key \in Keys \cup {Absent}
    BY <1>3 DEF KeyInv, KeyTypes, Headers
  <1>5. Redirects(c) <=> kind[c] \in {"chat", "direct", "stream"} /\ headers[of[c]].key # Absent
    BY <1>3 DEF Redirects
  <1>6. Redirects(c) => /\ Client(headers[of[c]].key) = headers[of[c]].key
                        /\ \A i \in DOMAIN clients' : clients'[i] \in Keys /\ CacheKey(clients'[i]) = i
    BY <1>2, <1>3, <1>4, <1>5, ClientHoldsItsKey DEF KeyInv
  <1>7. /\ Route(c) \in Routes
        /\ Route(c).key = IF Redirects(c) THEN headers[of[c]].key ELSE Server
    BY <1>3, <1>4, <1>5, <1>6 DEF Route, Routes, Models, Tiered
  <1>8. Redirects(c) \in BOOLEAN
    BY DEF Redirects
  <1>9. /\ went' \in [Calls -> Routes] /\ went'[c] = Route(c)
        /\ redirecting' \in [Calls -> BOOLEAN]
        /\ \A e \in Calls \ {c} : redirecting'[e] = redirecting[e] /\ went'[e] = went[e]
    BY <1>2, <1>7, <1>8 DEF KeyInv, KeyTypes
  <1>10. KeyTypes'
    BY <1>2, <1>6, <1>9 DEF KeyInv, KeyTypes
  <1> QED
    BY <1>1, <1>2, <1>5, <1>7, <1>9, <1>10, KeyCall DEF Moves

\* Adding a record to the collector of the context.
LEMMA RecordedRow ==
  ASSUME SeatInv, KeyInv, NEW c \in Calls, stage[c] # "new"
  PROVE  /\ of[c] \in Requests /\ went[c].model \in Models
         /\ Recorded(c) = IF headers[of[c]].tracking
                          THEN [collector EXCEPT ![of[c]] =
                                  [collector[of[c]] EXCEPT ![went[c].model] = @ + 1]]
                          ELSE collector
         /\ Recorded(c) \in [Requests -> [Models -> Nat]]
  <1>1. of[c] \in Requests /\ went[c].model \in Models /\ of[c] # Absent
    BY RuntimeAssumption DEF KeyInv, KeyTypes, Routes
  <1>2. context[of[c]].collector = IF headers[of[c]].tracking THEN of[c] ELSE Absent
    BY DEF KeyInv
  <1>3. Recorded(c) = IF headers[of[c]].tracking
                      THEN [collector EXCEPT ![of[c]] =
                              [collector[of[c]] EXCEPT ![went[c].model] = @ + 1]]
                      ELSE collector
    BY <1>1, <1>2 DEF Recorded, KeyInv, KeyTypes
  <1>4. [collector[of[c]] EXCEPT ![went[c].model] = @ + 1] \in [Models -> Nat]
    BY <1>1 DEF KeyInv, KeyTypes
  <1> QED
    BY <1>1, <1>3, <1>4 DEF KeyInv, KeyTypes

LEMMA KeyEnds ==
  ASSUME SeatInv, KeyInv, NEW c \in Calls, Ends(c) \/ CancelHolder(c)
  PROVE  KeyInv'
  <1>1. SeatInv' /\ Moves(c, {"answered", "resting", "failed"})
    BY SeatEnds
  <1>2. /\ UNCHANGED <<headers, phase, context, told, of, kind, clients>>
        /\ stage[c] \in {"granted", "flying"}
        /\ redirecting' = Unredirected(c)
        /\ collector' \in {collector, Recorded(c)}
        /\ \/ stage[c] = "flying" /\ went' = went
           \/ went' = [went EXCEPT ![c] = NoRoute] /\ Released(c, "failed")
    BY DEF Ends, Answer, Busy, Fail, CancelHolder, requestVars
  <1>3. went' \in [Calls -> Routes] /\ \A e \in Calls \ {c} : went'[e] = went[e]
    BY <1>2 DEF KeyInv, KeyTypes, Routes, NoRoute, Models
  <1>4. /\ redirecting' \in [Calls -> BOOLEAN] /\ ~redirecting'[c]
        /\ \A e \in Calls \ {c} : redirecting'[e] = redirecting[e]
    BY <1>2 DEF KeyInv, KeyTypes, Unredirected
  <1>5. KeyTypes'
    <2>1. Recorded(c) \in [Requests -> [Models -> Nat]]
      BY <1>2, RecordedRow
    <2>2. collector' \in [Requests -> [Models -> Nat]]
      BY <1>2, <2>1 DEF KeyInv, KeyTypes
    <2> QED
      BY <1>2, <1>3, <1>4, <2>2 DEF KeyInv, KeyTypes
  <1>6. Released(c, "failed") => stage'[c] = "failed"
    BY <1>2, ReleasedKeeps DEF Moves
  <1> QED
    BY <1>1, <1>2, <1>3, <1>4, <1>5, <1>6, KeyCall DEF KeyInv, EveryCallUsesItsKey, Moves

LEMMA KeyPause ==
  ASSUME SeatInv, KeyInv, NEW c \in Calls, Wake(c) \/ CancelIdle(c)
  PROVE  KeyInv'
  <1>1. SeatInv' /\ Moves(c, {"granted", "waiting", "failed"})
    BY SeatWake, SeatCancelIdle DEF Moves
  <1>2. /\ UNCHANGED <<headers, phase, context, told, of, kind, clients, collector, redirecting>>
        /\ stage[c] \in {"waiting", "resting"}
        /\ went' = went \/ went' = [went EXCEPT ![c] = NoRoute]
    BY DEF Wake, CancelIdle, requestVars
  <1>3. went' \in [Calls -> Routes] /\ \A e \in Calls \ {c} : went'[e] = went[e]
    BY <1>2 DEF KeyInv, KeyTypes, Routes, NoRoute, Models
  <1>4. KeyTypes' /\ ~redirecting'[c]
    BY <1>2, <1>3 DEF KeyInv, KeyTypes
  <1> QED
    BY <1>1, <1>2, <1>3, <1>4, KeyCall DEF Moves

LEMMA KeyStep ==
  ASSUME SeatInv, KeyInv, [Next]_vars
  PROVE  KeyInv'
  <1>1. ASSUME NEW r \in Requests, RequestStep(r)
        PROVE  KeyInv'
    <2>1. CASE Enter(r) \/ Answered(r) \/ Raised(r) \/ Finish(r) \/ FinishUnstored(r) \/ Leave(r)
      BY <2>1, KeyRequest
    <2>2. ASSUME NEW c \in Calls, NEW k \in Kinds, Begin(c, r, k)
          PROVE  KeyInv'
      BY <2>2, KeyBegin
    <2> QED
      BY <1>1, <2>1, <2>2 DEF RequestStep
  <1>2. ASSUME NEW c \in Calls, CallStep(c)
        PROVE  KeyInv'
    BY <1>2, KeySend, KeyEnds, KeyPause DEF CallStep
  <1>3. CASE UNCHANGED vars
    BY <1>3 DEF vars, KeyInv, KeyTypes, EveryCallUsesItsKey
  <1> QED
    BY <1>1, <1>2, <1>3 DEF Next

-----------------------------------------------------------------------------
(* Usage.                                                                  *)

Over == {"ended", "raised", "unstored", "gone"}

\* Only calls of requests that are over are left behind, and no other call of
\* a request that was told is still under way.
LeftInv ==
  /\ \A c \in left : stage[c] # "new" /\ phase[of[c]] \in Over
  /\ \A r \in Requests : phase[r] = "ended" => Active(r) \subseteq left

RowInv == RowsCountAnswers /\ ToldCountsAnswers /\ LeftInv

LEMMA AnswersFinite ==
  ASSUME NEW r, NEW m
  PROVE  IsFiniteSet(AnswersOf(r, m)) /\ Cardinality(AnswersOf(r, m)) \in Nat
  <1>1. IsFiniteSet(AnswersOf(r, m))
    BY CallsFinite, FS_Subset DEF AnswersOf
  <1> QED
    BY <1>1, FS_CardinalityType

LEMMA RowInit == Init => RowInv
  <1> SUFFICES ASSUME Init PROVE RowInv
    OBVIOUS
  <1>1. \A r \in Requests, m \in Models : AnswersOf(r, m) = {}
    BY DEF Init, AnswersOf
  <1>2. Cardinality({}) = 0
    BY FS_EmptySet
  <1> QED
    BY <1>1, <1>2 DEF Init, RowInv, RowsCountAnswers, ToldCountsAnswers, LeftInv, NoRows

\* The answers that were there before an answer to call c.
LEMMA AnswersKept ==
  ASSUME SeatInv, NEW c \in Calls, NEW S, Moves(c, S), stage[c] # "answered",
         \A e \in Calls \ {c} : of'[e] = of[e] /\ went'[e].model = went[e].model,
         NEW r \in Requests, NEW m \in Models
  PROVE  AnswersOf(r, m)' =
           IF stage'[c] = "answered" /\ of'[c] = r /\ went'[c].model = m
           THEN AnswersOf(r, m) \cup {c} ELSE AnswersOf(r, m)
  BY DEF AnswersOf, Moves

LEMMA RowRequest ==
  ASSUME SeatInv, KeyInv, RowInv, NEW r \in Requests,
         Enter(r) \/ Answered(r) \/ Raised(r) \/ Finish(r) \/ FinishUnstored(r) \/ Leave(r)
  PROVE  RowInv'
  <1>1. UNCHANGED <<headers, stage, of, went, collector>>
    BY DEF Enter, Answered, Raised, Finish, FinishUnstored, Leave
  <1>2. \A q \in Requests : Active(q)' = Active(q)
    BY <1>1 DEF Active, Settled
  <1>3. \A q \in Requests, m \in Models : AnswersOf(q, m)' = AnswersOf(q, m)
    BY <1>1 DEF AnswersOf
  <1>4. RowsCountAnswers'
    BY <1>1, <1>3 DEF RowInv, RowsCountAnswers
  <1>5. /\ phase[r] \in {"away", "serving", "running"}
        /\ \A q \in Requests \ {r} : phase'[q] = phase[q] /\ told'[q] = told[q]
        /\ phase'[r] \in {"serving", "running"} \cup Over
        /\ left' \in {left, left \cup Active(r)}
        /\ phase'[r] \notin Over => left' = left /\ phase[r] = "away"
    BY DEF SeatInv, TypeOK, KeyInv, KeyTypes, Over, Enter, Answered, Raised, Finish, FinishUnstored, Leave
  <1>6. phase'[r] = "ended" =>
          /\ Active(r) \subseteq left'
          /\ headers[r].tracking => told'[r] = collector[r]
    <2>1. CASE Finish(r)
      <3>1. phase[r] # "away" /\ left' = left \cup Active(r)
            /\ told' = IF context[r].collector = Absent THEN told
                       ELSE [told EXCEPT ![r] = collector[context[r].collector]]
        BY <2>1 DEF Finish
      <3>2. headers[r].tracking => context[r].collector = r
        BY <3>1 DEF KeyInv
      <3>3. r # Absent
        BY RuntimeAssumption
      <3> QED
        BY <3>1, <3>2, <3>3 DEF KeyInv, KeyTypes
    <2>2. CASE Answered(r)
      BY <2>2 DEF KeyInv, KeyTypes, Answered
    <2>3. CASE Enter(r) \/ Raised(r) \/ FinishUnstored(r) \/ Leave(r)
      BY <2>3 DEF SeatInv, TypeOK, Enter, Raised, FinishUnstored, Leave
    <2> QED
      BY <2>1, <2>2, <2>3
  <1>7. \A c \in left : of[c] # r
    BY <1>5 DEF RowInv, LeftInv, Over
  <1>8. \A c \in Active(r) : c \in Calls /\ stage[c] # "new" /\ of[c] = r /\ stage[c] # "answered"
    BY DEF Active, Settled
  <1>9. LeftInv'
    <2>1. ASSUME NEW c \in left' PROVE stage'[c] # "new" /\ phase'[of'[c]] \in Over
      <3>1. CASE c \in left
        <4>1. stage[c] # "new" /\ phase[of[c]] \in Over /\ of[c] \in Requests
          BY <3>1 DEF RowInv, LeftInv, KeyInv, SeatInv, TypeOK
        <4> QED
          BY <1>1, <1>5, <1>7, <3>1, <4>1
      <3>2. CASE c \in Active(r) /\ left' # left
        <4>1. phase'[r] \in Over
          BY <1>5, <3>2
        <4> QED
          BY <1>1, <1>8, <3>2, <4>1
      <3> QED
        BY <1>5, <2>1, <3>1, <3>2
    <2>2. ASSUME NEW q \in Requests, phase'[q] = "ended" PROVE Active(q)' \subseteq left'
      <3>1. CASE q = r
        BY <1>2, <1>6, <2>2, <3>1
      <3>2. CASE q # r
        BY <1>2, <1>5, <2>2, <3>2 DEF RowInv, LeftInv
      <3> QED
        BY <3>1, <3>2
    <2> QED
      BY <2>1, <2>2 DEF LeftInv
  <1>10. ASSUME NEW q \in Requests, phase'[q] = "ended", headers[q].tracking, NEW m \in Models
         PROVE  told'[q][m] = Cardinality(AnswersOf(q, m) \ left')
    <2>1. CASE q = r
      <3>1. AnswersOf(q, m) \ left' = AnswersOf(q, m)
        BY <1>5, <1>7, <1>8, <2>1 DEF AnswersOf
      <3> QED
        BY <1>6, <1>10, <2>1, <3>1 DEF RowInv, RowsCountAnswers
    <2>2. CASE q # r
      <3>1. AnswersOf(q, m) \ left' = AnswersOf(q, m) \ left
        BY <1>5, <1>8, <2>2 DEF AnswersOf
      <3> QED
        BY <1>5, <1>10, <2>2, <3>1 DEF RowInv, ToldCountsAnswers
    <2> QED
      BY <2>1, <2>2
  <1>11. ToldCountsAnswers'
    BY <1>1, <1>3, <1>10 DEF ToldCountsAnswers
  <1> QED
    BY <1>4, <1>9, <1>11 DEF RowInv

\* A step of a call that is not its answer.
LEMMA RowQuiet ==
  ASSUME SeatInv, KeyInv, RowInv, NEW c \in Calls, NEW S, Moves(c, S), "answered" \notin S,
         "new" \notin S, stage[c] \notin {"answered", "failed"},
         stage[c] = "new" => of'[c] \in Requests /\ phase[of'[c]] \notin Over,
         stage[c] # "new" => of'[c] = of[c],
         UNCHANGED <<headers, phase, told, left, collector>>,
         \A e \in Calls \ {c} : of'[e] = of[e] /\ went'[e] = went[e]
  PROVE  RowInv'
  <1>1. \A r \in Requests, m \in Models : AnswersOf(r, m)' = AnswersOf(r, m)
    BY AnswersKept DEF Moves
  <1>2. RowsCountAnswers' /\ ToldCountsAnswers'
    BY <1>1 DEF RowInv, RowsCountAnswers, ToldCountsAnswers
  <1>3. \A e \in left' : stage'[e] # "new" /\ phase'[of'[e]] \in Over
    BY DEF RowInv, LeftInv, Moves, SeatInv, TypeOK
  <1>5. ~Settled(c)
    BY DEF Settled
  <1>4. ASSUME NEW r \in Requests, phase'[r] = "ended"
        PROVE  Active(r)' \subseteq left'
    <2>1. ASSUME NEW e \in Active(r)' PROVE e \in Active(r)
      <3>1. e \in Calls /\ of'[e] = r /\ ~Settled(e)' /\ stage'[e] # "new"
        BY DEF Active
      <3>2. CASE e = c
        <4>1. stage[c] # "new"
          BY <1>4, <3>1, <3>2 DEF Over
        <4> QED
          BY <3>1, <3>2, <4>1, <1>5 DEF Active
      <3>3. CASE e # c
        BY <3>1, <3>3 DEF Active, Settled, Moves
      <3> QED
        BY <3>2, <3>3
    <2> QED
      BY <1>4, <2>1 DEF RowInv, LeftInv
  <1> QED
    BY <1>2, <1>3, <1>4 DEF RowInv, LeftInv

LEMMA RowAnswer ==
  ASSUME SeatInv, KeyInv, RowInv, NEW c \in Calls, Answer(c)
  PROVE  RowInv'
  <1>1. /\ UNCHANGED <<headers, phase, told, left, of, kind, went>>
        /\ stage[c] = "flying" /\ collector' = Recorded(c)
    BY DEF Answer, requestVars
  <1>2. Moves(c, {"answered"})
    BY <1>1, ReleasedKeeps DEF Answer
  <1>3. /\ of[c] \in Requests /\ went[c].model \in Models
        /\ Recorded(c) = IF headers[of[c]].tracking
                         THEN [collector EXCEPT ![of[c]] =
                                 [collector[of[c]] EXCEPT ![went[c].model] = @ + 1]]
                         ELSE collector
    BY <1>1, RecordedRow
  <1>4. \A r \in Requests, m \in Models :
          AnswersOf(r, m)' = IF of[c] = r /\ went[c].model = m
                             THEN AnswersOf(r, m) \cup {c} ELSE AnswersOf(r, m)
    <2>1. stage'[c] = "answered"
      BY <1>2 DEF Moves
    <2>2. \A e \in Calls \ {c} : of'[e] = of[e] /\ went'[e].model = went[e].model
      BY <1>1
    <2>3. stage[c] # "answered"
      BY <1>1
    <2> QED
      BY <1>1, <1>2, <2>1, <2>2, <2>3, AnswersKept
  <1>5. ASSUME NEW r \in Requests, NEW m \in Models
        PROVE  Cardinality(AnswersOf(r, m) \cup {c}) = Cardinality(AnswersOf(r, m)) + 1
    <2>1. c \notin AnswersOf(r, m)
      BY <1>1 DEF AnswersOf
    <2>2. IsFiniteSet(AnswersOf(r, m))
      BY AnswersFinite
    <2> QED
      BY <2>1, <2>2, FS_AddElement
  <1>6. RowsCountAnswers'
    <2> SUFFICES ASSUME NEW r \in Requests, NEW m \in Models
                 PROVE  collector'[r][m] = IF headers[r].tracking
                                           THEN Cardinality(AnswersOf(r, m)') ELSE 0
      BY <1>1 DEF RowsCountAnswers
    <2>1. CASE of[c] = r /\ went[c].model = m
      BY <1>1, <1>3, <1>4, <1>5, <2>1 DEF RowInv, RowsCountAnswers, KeyInv, KeyTypes
    <2>2. CASE ~(of[c] = r /\ went[c].model = m)
      BY <1>1, <1>3, <1>4, <2>2 DEF RowInv, RowsCountAnswers, KeyInv, KeyTypes
    <2> QED
      BY <2>1, <2>2
  <1>7. phase[of[c]] = "ended" => c \in left
    BY <1>1, <1>3 DEF RowInv, LeftInv, Active, Settled
  <1>8. ToldCountsAnswers'
    <2> SUFFICES ASSUME NEW r \in Requests, phase[r] = "ended", headers[r].tracking, NEW m \in Models
                 PROVE  told[r][m] = Cardinality(AnswersOf(r, m)' \ left)
      BY <1>1 DEF ToldCountsAnswers
    <2>1. AnswersOf(r, m)' \ left = AnswersOf(r, m) \ left
      BY <1>4, <1>7
    <2> QED
      BY <2>1 DEF RowInv, ToldCountsAnswers
  <1>9. LeftInv'
    <2>1. \A e \in left' : stage'[e] # "new" /\ phase'[of'[e]] \in Over
      BY <1>1, <1>2 DEF RowInv, LeftInv, Moves, SeatInv, TypeOK
    <2>2. \A r \in Requests : Active(r)' \subseteq Active(r)
      BY <1>1, <1>2 DEF Active, Settled, Moves
    <2> QED
      BY <1>1, <2>1, <2>2 DEF RowInv, LeftInv
  <1> QED
    BY <1>6, <1>8, <1>9 DEF RowInv

LEMMA RowStep ==
  ASSUME SeatInv, KeyInv, RowInv, [Next]_vars
  PROVE  RowInv'
  <1>1. ASSUME NEW r \in Requests, RequestStep(r)
        PROVE  RowInv'
    <2>1. CASE Enter(r) \/ Answered(r) \/ Raised(r) \/ Finish(r) \/ FinishUnstored(r) \/ Leave(r)
      BY <2>1, RowRequest
    <2>2. ASSUME NEW c \in Calls, NEW k \in Kinds, Begin(c, r, k)
          PROVE  RowInv'
      <3>1. Moves(c, {"granted", "waiting"})
        BY <2>2, SeatBegin
      <3>2. /\ UNCHANGED <<headers, phase, told, left, collector, went>>
            /\ stage[c] = "new" /\ of'[c] = r /\ phase[r] \notin Over
            /\ \A e \in Calls \ {c} : of'[e] = of[e]
        BY <2>2 DEF SeatInv, TypeOK, Begin, requestVars, Over
      <3> QED
        BY <3>1, <3>2, RowQuiet
    <2> QED
      BY <1>1, <2>1, <2>2 DEF RequestStep
  <1>2. ASSUME NEW c \in Calls, CallStep(c)
        PROVE  RowInv'
    <2>1. CASE Answer(c)
      BY <2>1, RowAnswer
    <2>2. CASE Send(c)
      <3>1. Moves(c, {"flying"})
        BY <2>2, SeatSend
      <3>2. /\ UNCHANGED <<headers, phase, told, left, collector, of>> /\ stage[c] = "granted"
            /\ \A e \in Calls \ {c} : went'[e] = went[e]
        BY <2>2 DEF Send, requestVars, KeyInv, KeyTypes
      <3> QED
        BY <3>1, <3>2, RowQuiet
    <2>3. CASE Busy(c) \/ Fail(c) \/ CancelHolder(c)
      <3>1. /\ UNCHANGED <<headers, phase, told, left, collector, of, kind>>
            /\ stage[c] \in {"granted", "flying"}
            /\ \A e \in Calls \ {c} : went'[e] = went[e]
        BY <2>3 DEF Busy, Fail, CancelHolder, requestVars, KeyInv, KeyTypes
      <3>2. PICK s \in {"resting", "failed"} : Released(c, s) /\ (s = "resting" => kind[c] \in Seated)
        BY <2>3 DEF Busy, Fail, CancelHolder
      <3>3. Moves(c, {s})
        BY <3>1, <3>2, ReleasedKeeps
      <3> QED
        BY <3>1, <3>3, RowQuiet
    <2>4. CASE Wake(c) \/ CancelIdle(c)
      <3>1. Moves(c, {"granted", "waiting", "failed"})
        BY <2>4, SeatWake, SeatCancelIdle DEF Moves
      <3>2. /\ UNCHANGED <<headers, phase, told, left, collector, of>>
            /\ stage[c] \in {"waiting", "resting"}
            /\ \A e \in Calls \ {c} : went'[e] = went[e]
        BY <2>4 DEF Wake, CancelIdle, requestVars, KeyInv, KeyTypes
      <3> QED
        BY <3>1, <3>2, RowQuiet
    <2> QED
      BY <1>2, <2>1, <2>2, <2>3, <2>4 DEF CallStep, Ends
  <1>3. CASE UNCHANGED vars
    <2>1. \A r \in Requests : Active(r)' = Active(r)
      BY <1>3 DEF vars, Active, Settled
    <2>2. \A r \in Requests, m \in Models : AnswersOf(r, m)' = AnswersOf(r, m)
      BY <1>3 DEF vars, AnswersOf
    <2> QED
      BY <1>3, <2>1, <2>2
         DEF vars, RowInv, RowsCountAnswers, ToldCountsAnswers, LeftInv
  <1> QED
    BY <1>1, <1>2, <1>3 DEF Next

-----------------------------------------------------------------------------
\* All of it together is inductive.
LEMMA Invariance == Spec => [](SeatInv /\ KeyInv /\ RowInv)
  <1>1. Init => SeatInv /\ KeyInv /\ RowInv
    BY SeatInit, KeyInit, RowInit
  <1>2. SeatInv /\ KeyInv /\ RowInv /\ [Next]_vars => (SeatInv /\ KeyInv /\ RowInv)'
    BY SeatStep, KeyStep, RowStep DEF KeyInv
  <1> QED
    BY <1>1, <1>2, PTL DEF Spec

\* Types and the bounds of the retries and of the semaphore hold.
THEOREM TypeCorrect == Spec => []TypeOK
  <1>1. SeatInv => TypeOK
    BY DEF SeatInv
  <1> QED
    BY <1>1, Invariance, PTL

\* Free seats and holders add up, whatever ends an attempt.
THEOREM SeatsAreConserved == Spec => []SeatsAddUp
  <1>1. SeatInv => SeatsAddUp
    BY DEF SeatInv
  <1> QED
    BY <1>1, Invariance, PTL

\* No seat stays free while a call waits.
THEOREM SeatsAreUsed == Spec => []NoSeatIdles
  <1>1. SeatInv => NoSeatIdles
    BY DEF SeatInv
  <1> QED
    BY <1>1, Invariance, PTL

\* Every seat is used by one call, or free while nobody waits.
THEOREM SeatsStayAccounted == Spec => []SeatsAreAccounted
  <1>1. SeatsAddUp /\ NoSeatIdles => SeatsAreAccounted
    BY DEF SeatsAreAccounted
  <1> QED
    BY <1>1, SeatsAreConserved, SeatsAreUsed, PTL

\* Every attempt of every call uses the key of its own request, also a retry
\* and also when the cache of clients has been emptied in between.
THEOREM KeysStayApart == Spec => []EveryCallUsesItsKey
  <1>1. KeyInv => EveryCallUsesItsKey
    BY DEF KeyInv
  <1> QED
    BY <1>1, Invariance, PTL

\* The rows of a request count its own answered calls, each once.
THEOREM UsageIsAttributed == Spec => []RowsCountAnswers
  <1>1. RowInv => RowsCountAnswers
    BY DEF RowInv
  <1> QED
    BY <1>1, Invariance, PTL

\* The backend is told every answer of an ended request, apart from the calls
\* that outlived it.
THEOREM UsageIsReported == Spec => []ToldCountsAnswers
  <1>1. RowInv => ToldCountsAnswers
    BY DEF RowInv
  <1> QED
    BY <1>1, Invariance, PTL

\* A user is told, and billed for, the answers the user's calls received.
THEOREM UsageStaysExact == Spec => []UsageIsExact
  <1>1. RowsCountAnswers /\ ToldCountsAnswers => UsageIsExact
    BY DEF UsageIsExact
  <1> QED
    BY <1>1, UsageIsAttributed, UsageIsReported, PTL
=============================================================================
