------------------------------ MODULE LlmRuntime ------------------------------
(***************************************************************************)
(* What every AI call of the server passes through.  LlmRuntime is the     *)
(* semaphore, the time limit and the retries that the agents of phase 2    *)
(* share; common/usage wraps the client library, sends the calls of a      *)
(* request to the key its user brought and counts them for that request;   *)
(* the middleware sets up, per HTTP request, the context they read.        *)
(*                                                                         *)
(* A call is a task of its own (gather wraps every coroutine), so it has   *)
(* a private copy of the context of the request that started it.  The      *)
(* providers are external: an attempt is answered, refused or runs into    *)
(* the time limit, as the environment likes.                               *)
(***************************************************************************)
EXTENDS Integers, FiniteSets

CONSTANTS
  Requests,        \* the HTTP requests
  MaxCalls,        \* bound: the AI calls they make
  MaxConcurrency,  \* seats of the shared semaphore
  BusyRetries,     \* how often a passing error is retried
  Keys,            \* the keys users bring, a record of address and secret each
  Server,          \* the key of the server itself
  Scenarios,       \* what the requests may ask for
  MaxClients,      \* above this the cache of clients is emptied (256)
  Absent           \* no value

\* A chat or web call of an agent, a chat call or a stream made directly.
Kinds == {"chat", "web", "direct", "stream", "embedding"}

\* Only the agents of phase 2 go through the semaphore.
Seated == {"chat", "web"}

\* Calls are numbered in the order they are made.
Calls == 1..MaxCalls

Forms == {"plain", "stream", "pipeline"}

\* _client_for keeps a client per address and secret.
CacheKey(k) == <<k.url, k.secret>>

Headers == [form: Forms, tracking: BOOLEAN, key: Keys \cup {Absent}, tier: BOOLEAN]

ASSUME RuntimeAssumption ==
  /\ Scenarios \subseteq [Requests -> Headers]
  /\ MaxCalls \in Nat
  /\ MaxConcurrency \in Nat \ {0}
  /\ BusyRetries \in Nat
  /\ MaxClients \in Nat
  /\ Server \notin Keys
  /\ \A k, l \in Keys : CacheKey(k) = CacheKey(l) => k = l
  /\ Absent \notin Keys \cup Requests \cup {Server}

Contexts == [collector: Requests \cup {Absent}, override: Keys \cup {Absent},
             tier: BOOLEAN]
NoContext == [collector |-> Absent, override |-> Absent, tier |-> FALSE]

Models == {"default", "tier", "own", "embedding"}
Routes == [key: Keys \cup {Server}, model: Models]
NoRoute == [key |-> Server, model |-> "default"]
\* A row of a collector: the model stands for kind, service and key as well.
NoRows == [model \in Models |-> 0]

VARIABLES
  headers,      \* what each request asks for
  phase,        \* how far the server is with it
  context,      \* its context variables
  collector,    \* the rows of its collector
  told,         \* the rows reported to the backend
  left,         \* calls still running when their request ended
  seats,        \* free seats of the semaphore
  ahead,        \* the calls before each one in the line of the semaphore
  stage,        \* how far each call is
  attempt,      \* its retries so far
  of,           \* the request that made it
  kind,         \* what it asks for
  redirecting,  \* whether it is inside a redirected request
  went,         \* key and model of its last attempt
  clients       \* cached clients: the secret each one holds

requestVars == <<headers, phase, context, told, left>>
lineVars == <<seats, ahead>>
vars == <<headers, phase, context, collector, told, left, seats, ahead, stage,
          attempt, of, kind, redirecting, went, clients>>

-----------------------------------------------------------------------------
(* The semaphore.                                                          *)

Waiting == {c \in Calls : stage[c] = "waiting"}
Holders == {c \in Calls : kind[c] \in Seated /\ stage[c] \in {"granted", "flying"}}
Settled(c) == stage[c] \in {"answered", "failed"}
Active(r) == {c \in Calls : of[c] = r /\ ~Settled(c) /\ stage[c] # "new"}

\* asyncio.Semaphore wakes the one that waited longest and hands it the seat.
Foremost(c) == c \in Waiting /\ ahead[c] = {}

\* A release that wakes nobody.
ReleasedUnseen(c, s) ==
  /\ stage' = [stage EXCEPT ![c] = s]
  /\ seats' = IF kind[c] \in Seated THEN seats + 1 ELSE seats
  /\ UNCHANGED ahead

\* A seated call c ends its attempt in stage s.
Released(c, s) ==
  IF kind[c] \in Seated /\ Waiting # {}
  THEN \E d \in Waiting :
         /\ Foremost(d)
         /\ stage' = [stage EXCEPT ![c] = s, ![d] = "granted"]
         /\ ahead' = [e \in Calls |-> ahead[e] \ {d}]
         /\ UNCHANGED seats
  ELSE /\ stage' = [stage EXCEPT ![c] = s]
       /\ seats' = IF kind[c] \in Seated THEN seats + 1 ELSE seats
       /\ UNCHANGED ahead

\* The call takes a free seat or joins the line.
Joined(c) ==
  IF seats > 0
  THEN /\ stage' = [stage EXCEPT ![c] = "granted"]
       /\ seats' = seats - 1
       /\ UNCHANGED ahead
  ELSE /\ stage' = [stage EXCEPT ![c] = "waiting"]
       /\ ahead' = [ahead EXCEPT ![c] = Waiting]
       /\ UNCHANGED seats

-----------------------------------------------------------------------------
(* The wrapped client library.                                             *)

\* _apply_tier: only the default model is replaced.
Tiered(r) == IF context[r].tier THEN "tier" ELSE "default"

\* _client_for: the cached client of a key, or a new one.
Client(k) == IF CacheKey(k) \in DOMAIN clients THEN clients[CacheKey(k)] ELSE k

Cached(k) ==
  IF CacheKey(k) \in DOMAIN clients THEN clients
  ELSE LET kept == IF Cardinality(DOMAIN clients) > MaxClients THEN {} ELSE DOMAIN clients
       IN [i \in kept \cup {CacheKey(k)} |-> IF i = CacheKey(k) THEN k ELSE clients[i]]

\* Whether _patched_chat_create sends the call to the user's service.
Redirects(c) ==
  /\ kind[c] \in {"chat", "direct", "stream"}
  /\ context[of[c]].override # Absent
  /\ ~redirecting[c]

Route(c) ==
  IF Redirects(c) THEN [key |-> Client(context[of[c]].override), model |-> "own"]
  ELSE [key |-> Server,
        model |-> IF kind[c] = "embedding" THEN "embedding" ELSE Tiered(of[c])]

\* _record: the collector the context of the call names, if there is one.
Recorded(c) ==
  IF context[of[c]].collector = Absent THEN collector
  ELSE [collector EXCEPT ![context[of[c]].collector][went[c].model] = @ + 1]

\* The local variables of a call that ends are gone.
Forgotten(c) == [attempt EXCEPT ![c] = 0]

\* Without the finally.
StillRedirected(c) == redirecting

\* The finally of _patched_chat_create: however the attempt ends.
Unredirected(c) == [redirecting EXCEPT ![c] = FALSE]

-----------------------------------------------------------------------------
Init ==
  /\ headers \in Scenarios
  /\ phase = [r \in Requests |-> "away"]
  /\ context = [r \in Requests |-> NoContext]
  /\ collector = [r \in Requests |-> NoRows]
  /\ told = [r \in Requests |-> NoRows]
  /\ left = {}
  /\ seats = MaxConcurrency
  /\ ahead = [c \in Calls |-> {}]
  /\ stage = [c \in Calls |-> "new"]
  /\ attempt = [c \in Calls |-> 0]
  /\ of = [c \in Calls |-> Absent]
  /\ kind = [c \in Calls |-> "chat"]
  /\ redirecting = [c \in Calls |-> FALSE]
  /\ went = [c \in Calls |-> NoRoute]
  /\ clients = [i \in {} |-> Server]

(* The requests.                                                           *)

\* dispatch, up to call_next: a user's key switches the tier off.  What the
\* request runs, a stream's generator or a pipeline's task, keeps a copy of this
\* context when the middleware resets its own.
Enter(r) ==
  /\ phase[r] = "away"
  /\ phase' = [phase EXCEPT ![r] = IF headers[r].form = "pipeline" THEN "running" ELSE "serving"]
  /\ context' = [context EXCEPT ![r] =
       [collector |-> IF headers[r].tracking THEN r ELSE Absent,
        override |-> headers[r].key,
        tier |-> headers[r].tier /\ headers[r].key = Absent]]
  /\ UNCHANGED <<headers, told, left, collector, lineVars, stage, attempt, of, kind,
                 redirecting, went, clients>>

\* What a form of request asks of the providers.  (A pipeline embeds as a plain
\* request does.)
KindsOf(r) ==
  CASE headers[r].form = "stream" -> {"stream"}
    [] headers[r].form = "plain" -> {"direct", "embedding"}
    [] OTHER -> {"chat", "web"}

Begin(c, r, k) ==
  /\ stage[c] = "new" /\ \A d \in 1..c - 1 : stage[d] # "new"
  /\ phase[r] \in {"serving", "running"}
  /\ k \in KindsOf(r)
  /\ of' = [of EXCEPT ![c] = r]
  /\ kind' = [kind EXCEPT ![c] = k]
  /\ IF k \in Seated THEN Joined(c)
     ELSE stage' = [stage EXCEPT ![c] = "granted"] /\ UNCHANGED lineVars
  /\ UNCHANGED <<requestVars, collector, attempt, redirecting, went, clients>>

\* The header is written while calls are under way.
AnsweredEarly(r) ==
  /\ phase[r] = "serving"
  /\ phase' = [phase EXCEPT ![r] = "ended"]
  /\ told' = IF headers[r].tracking THEN [told EXCEPT ![r] = collector[r]] ELSE told
  /\ UNCHANGED <<headers, context, left, collector, lineVars, stage, attempt, of, kind,
                 redirecting, went, clients>>

\* A plain answer, also that of an exception the application handles, carries
\* the rows in a header, a stream in its last event.
Answered(r) ==
  /\ phase[r] = "serving"
  /\ Active(r) = {}
  /\ phase' = [phase EXCEPT ![r] = "ended"]
  /\ told' = IF headers[r].tracking THEN [told EXCEPT ![r] = collector[r]] ELSE told
  /\ UNCHANGED <<headers, context, left, collector, lineVars, stage, attempt, of, kind,
                 redirecting, went, clients>>

\* The handler of a plain request raises what no exception handler of the
\* application answers with a response: the 500 is made outside the middleware,
\* which leaves dispatch at call_next and writes no header.
Raised(r) ==
  /\ phase[r] = "serving" /\ headers[r].form = "plain"
  /\ Active(r) = {}
  /\ phase' = [phase EXCEPT ![r] = "raised"]
  /\ UNCHANGED <<headers, context, told, left, collector, lineVars, stage, attempt, of, kind,
                 redirecting, went, clients>>

\* A pipeline ends with an event that holds the rows.  A gather that raised
\* may have left calls behind.
Finish(r) ==
  /\ phase[r] = "running"
  /\ phase' = [phase EXCEPT ![r] = "ended"]
  /\ told' = IF context[r].collector = Absent THEN told
             ELSE [told EXCEPT ![r] = collector[context[r].collector]]
  /\ left' = left \cup Active(r)
  /\ UNCHANGED <<headers, context, collector, lineVars, stage, attempt, of, kind,
                 redirecting, went, clients>>

\* Kafka is off, or the storing of the result is not confirmed: the event of
\* these ends has no rows.
FinishUnstored(r) ==
  /\ phase[r] = "running"
  /\ phase' = [phase EXCEPT ![r] = "unstored"]
  /\ left' = left \cup Active(r)
  /\ UNCHANGED <<headers, context, told, collector, lineVars, stage, attempt, of, kind,
                 redirecting, went, clients>>

\* The reader of a stream goes away: the generator is closed where it is.
Leave(r) ==
  /\ phase[r] = "serving" /\ headers[r].form = "stream"
  /\ phase' = [phase EXCEPT ![r] = "gone"]
  /\ UNCHANGED <<headers, context, told, left, collector, lineVars, stage, attempt, of,
                 kind, redirecting, went, clients>>

-----------------------------------------------------------------------------
(* The calls.                                                              *)

\* The attempt starts: the wrapped create chooses client and model.
Send(c) ==
  /\ stage[c] = "granted"
  /\ stage' = [stage EXCEPT ![c] = "flying"]
  /\ went' = [went EXCEPT ![c] = Route(c)]
  /\ clients' = IF Redirects(c) THEN Cached(context[of[c]].override) ELSE clients
  /\ redirecting' = [redirecting EXCEPT ![c] = Redirects(c)]
  /\ UNCHANGED <<requestVars, collector, lineVars, attempt, of, kind>>

\* The response, or the last chunk of a stream, is there.
Answer(c) ==
  /\ stage[c] = "flying"
  /\ Released(c, "answered")
  /\ collector' = Recorded(c)
  /\ attempt' = Forgotten(c)
  /\ redirecting' = Unredirected(c)
  /\ UNCHANGED <<requestVars, of, kind, went, clients>>

\* A refused attempt is counted like an answered one.
BusyCounted(c) ==
  /\ stage[c] = "flying" /\ kind[c] \in Seated
  /\ attempt[c] < BusyRetries
  /\ Released(c, "resting")
  /\ attempt' = [attempt EXCEPT ![c] = @ + 1]
  /\ collector' = Recorded(c)
  /\ redirecting' = Unredirected(c)
  /\ UNCHANGED <<requestVars, of, kind, went, clients>>

\* A rate limit, a lost connection or an error of the provider.  The seat is
\* free while the call waits for its next attempt.
Busy(c) ==
  /\ stage[c] = "flying" /\ kind[c] \in Seated
  /\ attempt[c] < BusyRetries
  /\ Released(c, "resting")
  /\ attempt' = [attempt EXCEPT ![c] = @ + 1]
  /\ redirecting' = Unredirected(c)
  /\ UNCHANGED <<requestVars, collector, of, kind, went, clients>>

\* The retries or the credit are used up, the error is of another kind, or
\* the time limit cuts the attempt off.
Fail(c) ==
  /\ stage[c] = "flying"
  /\ Released(c, "failed")
  /\ attempt' = Forgotten(c)
  /\ redirecting' = Unredirected(c)
  /\ went' = [went EXCEPT ![c] = NoRoute]
  /\ UNCHANGED <<requestVars, collector, of, kind, clients>>

Wake(c) ==
  /\ stage[c] = "resting"
  /\ Joined(c)
  /\ UNCHANGED <<requestVars, collector, attempt, of, kind, redirecting, went, clients>>

\* The time limit of a stage, or the end of a stream, cancels the task wherever
\* it is; the semaphore takes back a seat it had just granted.
Cancellable(c) ==
  of[c] # Absent /\ (headers[of[c]].form = "pipeline" \/ phase[of[c]] = "gone")

\* The seat goes with the cancelled call.
CancelHolderKept(c) ==
  /\ stage[c] \in {"granted", "flying"} /\ Cancellable(c)
  /\ stage' = [stage EXCEPT ![c] = "failed"]
  /\ attempt' = Forgotten(c)
  /\ redirecting' = Unredirected(c)
  /\ went' = [went EXCEPT ![c] = NoRoute]
  /\ UNCHANGED <<requestVars, collector, lineVars, of, kind, clients>>

CancelHolder(c) ==
  /\ stage[c] \in {"granted", "flying"} /\ Cancellable(c)
  /\ Released(c, "failed")
  /\ attempt' = Forgotten(c)
  /\ redirecting' = Unredirected(c)
  /\ went' = [went EXCEPT ![c] = NoRoute]
  /\ UNCHANGED <<requestVars, collector, of, kind, clients>>

\* A cancelled call keeps its place in the line.
CancelIdleKept(c) ==
  /\ stage[c] \in {"waiting", "resting"} /\ Cancellable(c)
  /\ stage' = [stage EXCEPT ![c] = "failed"]
  /\ attempt' = Forgotten(c)
  /\ went' = [went EXCEPT ![c] = NoRoute]
  /\ UNCHANGED <<requestVars, collector, lineVars, of, kind, redirecting, clients>>

CancelIdle(c) ==
  /\ stage[c] \in {"waiting", "resting"} /\ Cancellable(c)
  /\ stage' = [stage EXCEPT ![c] = "failed"]
  /\ ahead' = [e \in Calls |-> IF e = c THEN {} ELSE ahead[e] \ {c}]
  /\ attempt' = Forgotten(c)
  /\ went' = [went EXCEPT ![c] = NoRoute]
  /\ UNCHANGED <<requestVars, collector, seats, of, kind, redirecting, clients>>

RequestStep(r) ==
  \/ Enter(r) \/ Answered(r) \/ Raised(r) \/ Finish(r) \/ FinishUnstored(r) \/ Leave(r)
  \/ \E c \in Calls, k \in Kinds : Begin(c, r, k)

Ends(c) == Answer(c) \/ Busy(c) \/ Fail(c)

CallStep(c) == Send(c) \/ Ends(c) \/ Wake(c) \/ CancelHolder(c) \/ CancelIdle(c)

Next ==
  \/ \E r \in Requests : RequestStep(r)
  \/ \E c \in Calls : CallStep(c)

\* The event loop resumes every task that can go on; the time limit ends
\* every attempt; a sleep ends.  Nothing obliges a request to do anything.
Fairness == \A c \in Calls : WF_vars(Send(c)) /\ WF_vars(Ends(c)) /\ WF_vars(Wake(c))

Spec == Init /\ [][Next]_vars /\ Fairness

-----------------------------------------------------------------------------
(* Properties.                                                             *)

Phases == {"away", "serving", "running", "ended", "raised", "unstored", "gone"}
Stages == {"new", "waiting", "granted", "flying", "resting", "answered", "failed"}

\* Every variable keeps its type, the retries within their bound and the free
\* seats within the semaphore.
TypeOK ==
  /\ phase \in [Requests -> Phases]
  /\ context \in [Requests -> Contexts]
  /\ left \subseteq Calls
  /\ seats \in 0..MaxConcurrency
  /\ ahead \in [Calls -> SUBSET Calls]
  /\ stage \in [Calls -> Stages]
  /\ attempt \in [Calls -> 0..BusyRetries]
  /\ of \in [Calls -> Requests \cup {Absent}]
  /\ kind \in [Calls -> Kinds]

\* No seat is lost and none is made: whatever ends an attempt (an answer, an
\* error, the time limit, a cancelled stage, also between the grant of a seat
\* and its use), free seats and holders add up to the semaphore's size.
SeatsAddUp == seats + Cardinality(Holders) = MaxConcurrency

\* A free seat and a waiting call never meet: a release reaches the line also
\* when calls in it are cancelled.
NoSeatIdles == Waiting # {} => seats = 0

\* Both: every seat is either used by one call or free while nobody waits.
SeatsAreAccounted == SeatsAddUp /\ NoSeatIdles

\* A call made under a user's key never falls on the server's key, nor on
\* another user's, in its first attempt or in a later one, however many
\* requests use the same service at once; web searches and embeddings, and
\* the calls of everybody else, always use the server's.
EveryCallUsesItsKey ==
  \A c \in Calls : stage[c] \in {"flying", "answered", "resting"} =>
    went[c].key = IF kind[c] \in {"chat", "direct", "stream"} /\ headers[of[c]].key # Absent
                  THEN headers[of[c]].key ELSE Server

AnswersOf(r, model) ==
  {c \in Calls : of[c] = r /\ stage[c] = "answered" /\ went[c].model = model}

\* The rows of a tracked request count exactly its answered calls, each once,
\* under the model that answered: none of another request, none for an attempt
\* that was refused and repeated, none of an untracked request.
RowsCountAnswers ==
  \A r \in Requests, model \in Models :
    collector[r][model] =
      IF headers[r].tracking THEN Cardinality(AnswersOf(r, model)) ELSE 0

\* What the backend is told of a request that ended with a report (a header, the
\* last event of a stream, the event of a stored or failed pipeline) is every
\* answer its calls got, apart from the calls that outlived it.  Requests that
\* raised, pipelines not stored and streams not read on report nothing.
ToldCountsAnswers ==
  \A r \in Requests : phase[r] = "ended" /\ headers[r].tracking =>
    \A model \in Models : told[r][model] = Cardinality(AnswersOf(r, model) \ left)

\* Both: a user is told, and billed for, the answers the user's calls received,
\* wherever the server reports them.
UsageIsExact == RowsCountAnswers /\ ToldCountsAnswers

\* Every AI call returns or raises: the line moves, a seat is never kept
\* through a pause, and the retries end.
EveryCallEnds == \A c \in Calls : stage[c] = "waiting" ~> Settled(c)
=============================================================================
