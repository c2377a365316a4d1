-------------------------------- MODULE Push --------------------------------
(***************************************************************************)
(* Push delivery of web/server.py: webhooks and event streams, fed by one  *)
(* dispatcher thread.  Threads of the run put events on its queue, request *)
(* threads change the subscriptions, and nothing is locked: a request      *)
(* thread may come between any two steps of the others.                    *)
(*                                                                         *)
(* An event is abstracted to its labels, its state and its type, which is  *)
(* all that a filter looks at; events are told apart by the order in which *)
(* they were put.                                                          *)
(***************************************************************************)
EXTENDS SubSequences

CONSTANTS
    Hook,       \* clients that register a callback URL, each once
    Streamer,   \* clients that open an event stream, each once
    Asked,      \* the events each client asks for; none stands for all
    Flaky,      \* callback URLs whose POSTs may fail
    Kinds,      \* the events of the run
    MaxEvents   \* bound: how many there are

Client == Hook \cup Streamer

ASSUME PushAssumption ==
    /\ IsFiniteSet(Hook)
    /\ Hook \cap Streamer = {}
    /\ Flaky \subseteq Hook
    /\ DOMAIN Asked = Client
    /\ MaxEvents \in Nat

VARIABLES
    events,     \* every event put on _evq, in order
    taken,      \* how many of them the dispatcher has taken
    webhooks,   \* the registered callbacks, in the order of the dict
    sseQueues,  \* the streams with a queue, in the order of the list
    ids,        \* _ids[0]
    dpc,        \* where the dispatcher is
    round,      \* the copy it goes through
    at,         \* and how far it has got
    cpc,        \* where each client's request is
    wid,        \* the id a registration has been given
    buffer,     \* the queue of each stream
    got,        \* the events each client has received, by number
    since,      \* how many events had been passed when it came
    until       \* how many had been passed when it left

dispatcherVars == <<taken, dpc, round, at>>
hookVars == <<webhooks, ids, wid>>
streamVars == <<sseQueues, buffer>>
clientVars == <<cpc, since, until>>
vars == <<events, got, dispatcherVars, hookVars, streamVars, clientVars>>

Number == 1 .. MaxEvents
Registration == [id : Nat, client : Hook]

TypeOK ==
    /\ events \in Seq(Kinds)
    /\ taken \in 0 .. Len(events)
    /\ webhooks \in Seq(Registration)
    /\ sseQueues \in Seq(Streamer)
    /\ ids \in 0 .. Cardinality(Hook)
    /\ dpc \in {"get", "hooks", "post", "streams", "put"}
    /\ round \in Seq(Client)
    /\ at \in Nat
    /\ dpc \in {"post", "put"} => at \in DOMAIN round
    /\ cpc \in [Client -> {"new", "named", "counted", "in", "out"}]
    /\ wid \in [Hook -> 0 .. Cardinality(Hook)]
    /\ buffer \in [Streamer -> Seq(Number)]
    /\ got \in [Client -> Seq(Number)]
    /\ {since, until} \subseteq [Client -> 0 .. MaxEvents]

Init ==
    /\ events = <<>>
    /\ taken = 0
    /\ webhooks = <<>>
    /\ sseQueues = <<>>
    /\ ids = 0
    /\ dpc = "get"
    /\ round = <<>>
    /\ at = 1
    /\ cpc = [c \in Client |-> "new"]
    /\ wid = [c \in Hook |-> 0]
    /\ buffer = [c \in Streamer |-> <<>>]
    /\ got = [c \in Client |-> <<>>]
    /\ since = [c \in Client |-> 0]
    /\ until = [c \in Client |-> MaxEvents]

(* _match. *)
Matches(e, c) == Asked[c] = {} \/ e \cap Asked[c] # {}

Goto(c, l) == cpc' = [cpc EXCEPT ![c] = l]
Receive(c, n) == got' = [got EXCEPT ![c] = Append(@, n)]

-----------------------------------------------------------------------------
(* The run: the callback of tracker.subscribe. *)
Emit ==
    /\ Len(events) < MaxEvents
    /\ \E e \in Kinds : events' = Append(events, e)
    /\ UNCHANGED <<got, dispatcherVars, hookVars, streamVars, clientVars>>

-----------------------------------------------------------------------------
(* The dispatcher thread. *)

TakeEvent ==
    /\ dpc = "get"
    /\ taken < Len(events)
    /\ taken' = taken + 1
    /\ dpc' = "hooks"
    /\ UNCHANGED <<events, got, round, at, hookVars, streamVars, clientVars>>

(* Go through the clients of s that the event matches, then on to next. *)
GoThrough(s, loop, next) ==
    LET matching == Only(s, {c \in Client : Matches(events[taken], c)})
    IN  /\ round' = matching
        /\ at' = 1
        /\ dpc' = IF matching = <<>> THEN next ELSE loop

(* Slip: one client too many. *)
AdvancePast(next) ==
    IF at <= Len(round)
    THEN at' = at + 1 /\ UNCHANGED <<dpc, round>>
    ELSE at' = 1 /\ dpc' = next /\ round' = <<>>

(* The next client of the copy, or the end of it. *)
Advance(next) ==
    IF at < Len(round)
    THEN at' = at + 1 /\ UNCHANGED <<dpc, round>>
    ELSE at' = 1 /\ dpc' = next /\ round' = <<>>

(* list(webhooks.items()). *)
CopyHooks ==
    /\ dpc = "hooks"
    /\ GoThrough([i \in DOMAIN webhooks |-> webhooks[i].client], "post", "streams")
    /\ UNCHANGED <<events, got, taken, hookVars, streamVars, clientVars>>

(* Slip: a POST that fails ends the thread. *)
PostOrDie ==
    /\ dpc = "post"
    /\ \/ Receive(round[at], taken) /\ Advance("streams")
       \/ round[at] \in Flaky /\ dpc' = "dead" /\ UNCHANGED <<got, round, at>>
    /\ UNCHANGED <<events, taken, hookVars, streamVars, clientVars>>

(* A POST that is refused or times out is forgotten. *)
Post ==
    /\ dpc = "post"
    /\ \/ Receive(round[at], taken)
       \/ round[at] \in Flaky /\ UNCHANGED got
    /\ Advance("streams")
    /\ UNCHANGED <<events, taken, hookVars, streamVars, clientVars>>

(* list(sse_queues). *)
CopyStreams ==
    /\ dpc = "streams"
    /\ GoThrough(sseQueues, "put", "get")
    /\ UNCHANGED <<events, got, taken, hookVars, streamVars, clientVars>>

(* Slip: the list itself is gone through, while handlers remove from it. *)
PutLive ==
    /\ dpc = "put"
    /\ \/ /\ at \in DOMAIN sseQueues
          /\ LET c == sseQueues[at]
             IN  buffer' = [buffer EXCEPT ![c] =
                    IF Matches(events[taken], c) THEN Append(@, taken) ELSE @]
          /\ at' = at + 1
          /\ dpc' = IF at < Len(sseQueues) THEN "put" ELSE "get"
       \/ /\ at \notin DOMAIN sseQueues
          /\ dpc' = "get"
          /\ UNCHANGED <<buffer, at>>
    /\ round' = IF dpc' = "get" THEN <<>> ELSE round
    /\ UNCHANGED <<events, got, taken, hookVars, sseQueues, clientVars>>

(* put_nowait; the queue of a stream that has just ended is never read. *)
Put ==
    /\ dpc = "put"
    /\ buffer' = IF cpc[round[at]] = "out" THEN buffer
                 ELSE [buffer EXCEPT ![round[at]] = Append(@, taken)]
    /\ Advance("get")
    /\ UNCHANGED <<events, got, taken, hookVars, sseQueues, clientVars>>

Dispatch == TakeEvent \/ CopyHooks \/ Post \/ CopyStreams \/ Put

(* Events the dispatcher has copied the subscriptions for. *)
HooksPassed == taken - IF dpc = "hooks" THEN 1 ELSE 0
StreamsPassed == taken - IF dpc \in {"hooks", "post", "streams"} THEN 1 ELSE 0

-----------------------------------------------------------------------------
(* The request threads. *)

(* _subscribe: wid = str(_ids[0]), then _ids[0] += 1.  The call of str ends *)
(* a time slice if any does; the increment has no call in it.               *)
TakeId(c) ==
    /\ cpc[c] = "new"
    /\ wid' = [wid EXCEPT ![c] = ids]
    /\ Goto(c, "named")
    /\ UNCHANGED <<events, got, dispatcherVars, webhooks, ids, streamVars, since, until>>

CountId(c) ==
    /\ cpc[c] = "named"
    /\ ids' = ids + 1
    /\ Goto(c, "counted")
    /\ UNCHANGED <<events, got, dispatcherVars, webhooks, wid, streamVars, since, until>>

(* webhooks[wid] = ...: the place of an id that is there already is kept. *)
Register(c) ==
    /\ cpc[c] = "counted"
    /\ LET new == [id |-> wid[c], client |-> c]
           old == {i \in DOMAIN webhooks : webhooks[i].id = wid[c]}
       IN  webhooks' = IF old = {} THEN Append(webhooks, new)
                       ELSE [i \in DOMAIN webhooks |->
                                IF i \in old THEN new ELSE webhooks[i]]
    /\ since' = [since EXCEPT ![c] = HooksPassed]
    /\ Goto(c, "in")
    /\ UNCHANGED <<events, got, dispatcherVars, ids, wid, streamVars, until>>

(* Slip: popped from a copy. *)
UnsubscribeCopy(c) ==
    /\ cpc[c] = "in"
    /\ until' = [until EXCEPT ![c] = HooksPassed]
    /\ Goto(c, "out")
    /\ UNCHANGED <<events, got, dispatcherVars, hookVars, streamVars, since>>

(* webhooks.pop, by the id that was returned. *)
Unsubscribe(c) ==
    /\ cpc[c] = "in"
    /\ webhooks' = Pick(webhooks, {i \in DOMAIN webhooks : webhooks[i].id # wid[c]})
    /\ until' = [until EXCEPT ![c] = HooksPassed]
    /\ Goto(c, "out")
    /\ UNCHANGED <<events, got, dispatcherVars, ids, wid, streamVars, since>>

(* _sse: the stream's queue, then one event after the other. *)
Connect(c) ==
    /\ cpc[c] = "new"
    /\ sseQueues' = Append(sseQueues, c)
    /\ since' = [since EXCEPT ![c] = StreamsPassed]
    /\ Goto(c, "in")
    /\ UNCHANGED <<events, got, dispatcherVars, hookVars, buffer, until>>

WriteEvent(c) ==
    /\ cpc[c] = "in"
    /\ buffer[c] # <<>>
    /\ buffer' = [buffer EXCEPT ![c] = Tail(@)]
    /\ Receive(c, Head(buffer[c]))
    /\ UNCHANGED <<events, dispatcherVars, hookVars, sseQueues, clientVars>>

(* A write fails, of an event or of a keepalive; what is left of the queue *)
(* nobody reads.                                                           *)
Disconnect(c) ==
    /\ cpc[c] = "in"
    /\ sseQueues' = Only(sseQueues, Streamer \ {c})
    /\ until' = [until EXCEPT ![c] = StreamsPassed]
    /\ Goto(c, "out")
    /\ buffer' = [buffer EXCEPT ![c] = <<>>]
    /\ UNCHANGED <<events, got, dispatcherVars, hookVars, since>>

HookStep(c) == TakeId(c) \/ CountId(c) \/ Register(c) \/ Unsubscribe(c)
StreamStep(c) == Connect(c) \/ WriteEvent(c) \/ Disconnect(c)

Next ==
    \/ Emit
    \/ Dispatch
    \/ \E c \in Hook : HookStep(c)
    \/ \E c \in Streamer : StreamStep(c)

(* The dispatcher and the stream threads are scheduled; a POST has a time  *)
(* limit.  Nothing forces an event, a client, or a failure.                *)
Fairness ==
    /\ WF_vars(Dispatch)
    /\ \A c \in Streamer : WF_vars(WriteEvent(c))

Spec == Init /\ [][Next]_vars /\ Fairness

-----------------------------------------------------------------------------
(* The events up to number n that c is to be told of.                      *)
Due(c, n) ==
    {i \in 1 .. n : i \in since[c] + 1 .. until[c] /\ Matches(events[i], c)}

(* q holds the events of D, each once and in order.                        *)
Lists(q, D) ==
    /\ ToSet(q) = D
    /\ \A i, j \in DOMAIN q : i < j => q[i] < q[j]

(* The registration of c is replaced, or removed, by that of another.      *)
SharesId(c) ==
    c \in Hook /\ \E d \in Hook \ {c} : cpc[d] \in {"in", "out"} /\ wid[c] = wid[d]

Waiting(c) == dpc \in {"post", "put"} /\ \E i \in at .. Len(round) : round[i] = c

(* A callback whose id is its own is called once for each matching event   *)
(* between its registration and its removal, in their order, up to the one *)
(* that is being dispatched, and for no other, whoever else comes and goes *)
(* meanwhile (server.py:94-106, README.md:108-109).                        *)
HooksHearAll ==
    \A c \in Hook \ Flaky :
        cpc[c] \in {"in", "out"} /\ ~SharesId(c) =>
            Lists(got[c], Due(c, HooksPassed - IF Waiting(c) THEN 1 ELSE 0))

(* An open stream has received or has in its queue every matching event    *)
(* since it was opened, in order, and one that has ended the first of them *)
(* (server.py:107-112,128-148).                                            *)
StreamsHearAll ==
    \A c \in Streamer :
        /\ cpc[c] = "in" =>
              Lists(got[c] \o buffer[c],
                    Due(c, StreamsPassed - IF Waiting(c) THEN 1 ELSE 0))
        /\ \E n \in 0 .. StreamsPassed : Lists(got[c], Due(c, n))

(* Once the run has fallen silent, whoever stays has been told of every    *)
(* event that matches, however many of the callbacks fail or hang and      *)
(* however many streams end (server.py:105-106).                           *)
AllTold ==
    \A c \in Client \ Flaky :
        cpc[c] = "in" /\ ~SharesId(c) => Lists(got[c], Due(c, Len(events)))
StayersAreTold == []<>AllTold
=============================================================================
