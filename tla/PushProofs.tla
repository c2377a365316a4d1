----------------------------- MODULE PushProofs -----------------------------
(***************************************************************************)
(* What is proved of the push delivery, for any number of callbacks,       *)
(* streams and events: its types, and who is told of what.                 *)
(***************************************************************************)
EXTENDS Push, SequenceProofs

(* The dispatcher has an event in hand wherever it is but at the queue.    *)
InHand ==
    /\ Len(events) <= MaxEvents
    /\ dpc # "get" => taken > 0

(* Ids are counted once for each registration that got that far.           *)
Counted == ids = Cardinality({c \in Hook : cpc[c] \in {"counted", "in", "out"}})

(* The dict holds the ids it was given, each once, and no callback leaves  *)
(* it but by its own request, unless another has its id.                   *)
Kept ==
    /\ \A i \in DOMAIN webhooks :
          /\ cpc[webhooks[i].client] = "in"
          /\ webhooks[i].id = wid[webhooks[i].client]
    /\ \A i, j \in DOMAIN webhooks : webhooks[i].id = webhooks[j].id => i = j
    /\ \A c \in Hook : cpc[c] = "in" /\ ~SharesId(c) =>
          \E i \in DOMAIN webhooks : webhooks[i].client = c

(* The list holds the open streams, each once.                             *)
Open ==
    /\ IsInjective(sseQueues)
    /\ ToSet(sseQueues) = {c \in Streamer : cpc[c] = "in"}

(* A round is of clients that came, and each is due the event in hand.     *)
Rounds ==
    /\ IsInjective(round)
    /\ dpc \notin {"post", "put"} => round = <<>>
    /\ dpc = "post" => ToSet(round) \subseteq Hook
    /\ dpc = "put" => ToSet(round) \subseteq Streamer
    /\ \A c \in ToSet(round) : cpc[c] \in {"in", "out"} /\ taken \in Due(c, taken)

Passed(c) == IF c \in Hook THEN HooksPassed ELSE StreamsPassed

(* Nobody is told anything before it comes, or asked to leave twice.       *)
Periods ==
    \A c \in Client :
        /\ cpc[c] \notin {"in", "out"} =>
              got[c] = <<>> /\ (c \in Streamer => buffer[c] = <<>>)
        /\ cpc[c] # "out" => until[c] = MaxEvents
        /\ cpc[c] \in {"in", "out"} => since[c] <= Passed(c)
        /\ cpc[c] = "out" => until[c] <= Passed(c)

Pushing == TypeOK /\ InHand /\ Counted /\ Kept /\ Open /\ Rounds /\ Periods

Spoken == Pushing /\ HooksHearAll /\ StreamsHearAll

-----------------------------------------------------------------------------
(* What has been passed, in numbers.                                       *)
LEMMA PassedFacts ==
  ASSUME TypeOK, InHand
  PROVE  /\ Len(events) \in Nat /\ taken \in Nat
         /\ taken <= Len(events) /\ Len(events) <= MaxEvents
         /\ HooksPassed \in 0 .. taken
         /\ StreamsPassed \in 0 .. taken
         /\ \A c \in Client : Passed(c) \in 0 .. MaxEvents
<1>1. Len(events) \in Nat /\ taken \in 0 .. Len(events) /\ Len(events) <= MaxEvents
  BY LenProperties DEF TypeOK, InHand
<1>2. taken \in Nat /\ (dpc # "get" => taken > 0)
  BY <1>1 DEF InHand
<1>3. HooksPassed \in 0 .. taken /\ StreamsPassed \in 0 .. taken
  BY <1>2 DEF HooksPassed, StreamsPassed
<1>4. QED
  BY <1>1, <1>2, <1>3, PushAssumption DEF Passed

(* A copy of the subscriptions goes through those that match, each once.   *)
LEMMA GoThroughFacts ==
  ASSUME NEW s \in Seq(Client), NEW loop, NEW next, loop # next,
         GoThrough(s, loop, next)
  PROVE  /\ round' \in Seq(Client)
         /\ ToSet(round') = {c \in ToSet(s) : Matches(events[taken], c)}
         /\ IsInjective(s) => IsInjective(round')
         /\ at' = 1
         /\ \/ dpc' = loop /\ round' # <<>>
            \/ dpc' = next /\ round' = <<>>
<1> DEFINE R == {c \in Client : Matches(events[taken], c)}
<1>1. round' = Only(s, R) /\ at' = 1 /\ dpc' = IF round' = <<>> THEN next ELSE loop
  BY DEF GoThrough
<1>2. round' \in Seq(Client) /\ ToSet(round') = ToSet(s) \cap R
  BY <1>1, OnlyFacts
<1>3. ToSet(s) \subseteq Client
  BY ElementOfSeq DEF ToSet
<1>4. IsInjective(s) => IsInjective(round')
  BY <1>1, OnlyInjective
<1>5. QED
  BY <1>1, <1>2, <1>3, <1>4

(* Picking places of a sequence keeps what stands there, in order.         *)
LEMMA PickPlaces ==
  ASSUME NEW S, NEW s \in Seq(S), NEW P \in SUBSET DOMAIN s, NEW q, q = Pick(s, P)
  PROVE  /\ \A n \in DOMAIN q : \E i \in P : q[n] = s[i]
         /\ \A i \in P : \E n \in DOMAIN q : q[n] = s[i]
         /\ \A m, n \in DOMAIN q :
               (\A i, j \in P : q[m] = s[i] /\ q[n] = s[j] => i = j) => m = n
<1>1. Len(s) \in Nat /\ DOMAIN s = 1 .. Len(s)
  BY LenProperties
<1>2. P \in SUBSET (1 .. Len(s))
  BY <1>1
<1>3. /\ \A n \in 1 .. Cardinality(P) :
            /\ Nth(P, n) \in P
            /\ Cardinality({j \in P : j <= Nth(P, n)}) = n
      /\ \A i \in P : \E n \in 1 .. Cardinality(P) : Nth(P, n) = i
  BY <1>1, <1>2, NthFacts
<1>4. /\ DOMAIN q = 1 .. Cardinality(P)
      /\ \A n \in 1 .. Cardinality(P) : q[n] = s[Nth(P, n)]
  BY DEF Pick
<1>5. ASSUME NEW m \in 1 .. Cardinality(P), NEW n \in 1 .. Cardinality(P),
             Nth(P, m) = Nth(P, n)
      PROVE  m = n
  BY <1>3, <1>5
<1>6. \A n \in DOMAIN q : \E i \in P : q[n] = s[i]
  BY <1>3, <1>4
<1>7. \A i \in P : \E n \in DOMAIN q : q[n] = s[i]
  BY <1>3, <1>4
<1>8. ASSUME NEW m \in DOMAIN q, NEW n \in DOMAIN q,
             \A i, j \in P : q[m] = s[i] /\ q[n] = s[j] => i = j
      PROVE  m = n
  <2>1. /\ m \in 1 .. Cardinality(P) /\ n \in 1 .. Cardinality(P)
        /\ q[m] = s[Nth(P, m)] /\ q[n] = s[Nth(P, n)]
    BY <1>4
  <2>2. Nth(P, m) \in P /\ Nth(P, n) \in P
    BY <1>3, <2>1
  <2>3. Nth(P, m) = Nth(P, n)
    BY <1>8, <2>1, <2>2
  <2>4. QED
    BY <1>5, <2>1, <2>3
<1>9. QED
  BY <1>6, <1>7, <1>8

-----------------------------------------------------------------------------
(* Types.                                                                  *)

LEMMA AdvanceType ==
  ASSUME TypeOK, dpc \in {"post", "put"}, NEW next \in {"streams", "get"},
         Advance(next)
  PROVE  /\ round' \in Seq(Client) /\ at' \in Nat
         /\ dpc' \in {"get", "hooks", "post", "streams", "put"}
         /\ dpc' \in {"post", "put"} => at' \in DOMAIN round'
<1>1. at \in DOMAIN round /\ round \in Seq(Client) /\ Len(round) \in Nat
      /\ DOMAIN round = 1 .. Len(round)
  BY LenProperties DEF TypeOK
<1>2. CASE at < Len(round)
  BY <1>1, <1>2 DEF Advance, TypeOK
<1>3. CASE ~(at < Len(round))
  BY <1>1, <1>3, EmptySeq DEF Advance
<1>4. QED
  BY <1>2, <1>3

LEMMA InitPushing == ASSUME Init PROVE Pushing
<1>1. Cardinality(Hook) \in Nat /\ MaxEvents \in Nat
  BY PushAssumption, FS_CardinalityType
<1>2. TypeOK
  <2>1. /\ <<>> \in Seq(Kinds) /\ <<>> \in Seq(Registration) /\ <<>> \in Seq(Streamer)
        /\ <<>> \in Seq(Client) /\ <<>> \in Seq(Number) /\ Len(<<>>) = 0
    BY EmptySeq
  <2>2. 0 \in 0 .. Cardinality(Hook) /\ {0, MaxEvents} \subseteq 0 .. MaxEvents
    BY <1>1
  <2>3. QED
    BY <2>1, <2>2 DEF Init, TypeOK
<1>3. InHand
  BY <1>1, EmptySeq DEF Init, InHand
<1>4. Counted
  <2>1. {c \in Hook : cpc[c] \in {"counted", "in", "out"}} = {}
    BY DEF Init, Client
  <2>2. QED
    BY <2>1, FS_EmptySet DEF Init, Counted
<1>5. DOMAIN webhooks = {} /\ DOMAIN sseQueues = {} /\ DOMAIN round = {}
  BY DEF Init
<1>6. Kept
  BY <1>5 DEF Kept, Init, Client
<1>7. Open
  BY <1>5 DEF Open, Init, Client, IsInjective, ToSet
<1>8. Rounds
  BY <1>5 DEF Rounds, Init, IsInjective, ToSet
<1>9. Periods
  BY DEF Periods, Init, Client
<1>10. QED
  BY <1>2, <1>3, <1>4, <1>6, <1>7, <1>8, <1>9 DEF Pushing

(* The dispatcher's steps, as the lists see them.                          *)
LEMMA CopyHooksFacts ==
  ASSUME TypeOK, CopyHooks
  PROVE  /\ round' \in Seq(Client)
         /\ ToSet(round') =
               {c \in {webhooks[i].client : i \in DOMAIN webhooks} :
                   Matches(events[taken], c)}
         /\ at' = 1
         /\ \/ dpc' = "post" /\ round' # <<>>
            \/ dpc' = "streams" /\ round' = <<>>
         /\ (\A i, j \in DOMAIN webhooks :
                webhooks[i].client = webhooks[j].client => i = j)
               => IsInjective(round')
<1> DEFINE s == [i \in DOMAIN webhooks |-> webhooks[i].client]
<1>1. webhooks \in Seq(Registration) /\ Len(webhooks) \in Nat
      /\ DOMAIN webhooks = 1 .. Len(webhooks)
      /\ \A i \in DOMAIN webhooks : webhooks[i].client \in Hook
  <2>1. webhooks \in Seq(Registration)
    BY DEF TypeOK
  <2>2. Len(webhooks) \in Nat /\ DOMAIN webhooks = 1 .. Len(webhooks)
        /\ \A i \in DOMAIN webhooks : webhooks[i] \in Registration
    BY <2>1, LenProperties, ElementOfSeq
  <2>3. QED
    BY <2>1, <2>2 DEF Registration
<1>2. s \in Seq(Client)
  BY <1>1, SeqDef DEF Client
<1>3. ToSet(s) = {webhooks[i].client : i \in DOMAIN webhooks}
  BY DEF ToSet
<1>4. (\A i, j \in DOMAIN webhooks :
          webhooks[i].client = webhooks[j].client => i = j) => IsInjective(s)
  BY DEF IsInjective
<1>5. GoThrough(s, "post", "streams")
  BY DEF CopyHooks
<1> HIDE DEF s
<1>6. QED
  BY <1>2, <1>3, <1>4, <1>5, GoThroughFacts

LEMMA CopyStreamsFacts ==
  ASSUME TypeOK, CopyStreams
  PROVE  /\ round' \in Seq(Client)
         /\ ToSet(round') = {c \in ToSet(sseQueues) : Matches(events[taken], c)}
         /\ at' = 1
         /\ \/ dpc' = "put" /\ round' # <<>>
            \/ dpc' = "get" /\ round' = <<>>
         /\ IsInjective(sseQueues) => IsInjective(round')
<1>1. sseQueues \in Seq(Client)
  BY SeqDef DEF TypeOK, Client
<1>2. GoThrough(sseQueues, "put", "get")
  BY DEF CopyStreams
<1>3. QED
  BY <1>1, <1>2, GoThroughFacts

LEMMA DispatchType ==
  ASSUME TypeOK, InHand, Rounds, Dispatch
  PROVE  TypeOK'
<1>1. /\ events' = events /\ webhooks' = webhooks /\ sseQueues' = sseQueues
      /\ ids' = ids /\ wid' = wid /\ cpc' = cpc /\ since' = since /\ until' = until
  BY DEF Dispatch, TakeEvent, CopyHooks, Post, CopyStreams, Put, hookVars,
         streamVars, clientVars
<1>2. taken' \in 0 .. Len(events')
  <2>1. taken \in Nat /\ Len(events) \in Nat /\ taken <= Len(events)
    BY PassedFacts
  <2>2. taken' = taken \/ (taken' = taken + 1 /\ taken < Len(events))
    BY DEF Dispatch, TakeEvent, CopyHooks, Post, CopyStreams, Put
  <2>3. QED
    BY <1>1, <2>1, <2>2
<1>3. /\ round' \in Seq(Client) /\ at' \in Nat
      /\ dpc' \in {"get", "hooks", "post", "streams", "put"}
      /\ dpc' \in {"post", "put"} => at' \in DOMAIN round'
  <2>1. CASE TakeEvent
    BY <2>1 DEF TakeEvent, TypeOK
  <2>2. ASSUME round' \in Seq(Client), round' # <<>> PROVE 1 \in DOMAIN round'
    <3>1. Len(round') \in Nat /\ DOMAIN round' = 1 .. Len(round') /\ Len(round') # 0
      BY <2>2, LenProperties, EmptySeq
    <3>2. QED
      BY <3>1
  <2>3. CASE CopyHooks
    BY <2>2, <2>3, CopyHooksFacts
  <2>4. CASE CopyStreams
    BY <2>2, <2>4, CopyStreamsFacts
  <2>5. CASE Post
    BY <2>5, AdvanceType DEF Post
  <2>6. CASE Put
    BY <2>6, AdvanceType DEF Put
  <2>7. QED
    BY <2>1, <2>3, <2>4, <2>5, <2>6 DEF Dispatch
<1>4. ASSUME dpc \in {"post", "put"} PROVE round[at] \in Client /\ taken \in Number
  <2>1. taken \in Number
    BY <1>4, PassedFacts, PushAssumption DEF InHand, Number
  <2>2. round \in Seq(Client) /\ at \in DOMAIN round
    BY <1>4 DEF TypeOK
  <2>3. QED
    BY <2>1, <2>2, ElementOfSeq
<1>5. got' \in [Client -> Seq(Number)]
  <2>1. CASE UNCHANGED got
    BY <2>1 DEF TypeOK
  <2>2. CASE ~UNCHANGED got
    <3>1. dpc = "post" /\ Receive(round[at], taken)
      BY <2>2 DEF Dispatch, TakeEvent, CopyHooks, Post, CopyStreams, Put
    <3>2. got[round[at]] \in Seq(Number) /\ taken \in Number
      BY <1>4, <3>1 DEF TypeOK
    <3>3. Append(got[round[at]], taken) \in Seq(Number)
      BY <3>2, AppendProperties
    <3>4. QED
      BY <3>1, <3>3 DEF TypeOK, Receive
  <2>3. QED
    BY <2>1, <2>2
<1>6. buffer' \in [Streamer -> Seq(Number)]
  <2>1. CASE UNCHANGED buffer
    BY <2>1 DEF TypeOK
  <2>2. CASE ~UNCHANGED buffer
    <3>1. dpc = "put" /\ buffer' = [buffer EXCEPT ![round[at]] = Append(@, taken)]
      BY <2>2 DEF Dispatch, TakeEvent, CopyHooks, Post, CopyStreams, Put, streamVars
    <3>2. round[at] \in Streamer
      BY <3>1 DEF TypeOK, Rounds, ToSet
    <3>3. buffer[round[at]] \in Seq(Number) /\ taken \in Number
      BY <1>4, <3>1, <3>2 DEF TypeOK
    <3>4. Append(buffer[round[at]], taken) \in Seq(Number)
      BY <3>3, AppendProperties
    <3>5. QED
      BY <3>1, <3>4 DEF TypeOK
  <2>3. QED
    BY <2>1, <2>2
<1>7. QED
  BY <1>1, <1>2, <1>3, <1>5, <1>6 DEF TypeOK

(* A callback asks for its id and gets a place in the dict.                *)
LEMMA HookType ==
  ASSUME Pushing, NEW c \in Hook, HookStep(c)
  PROVE  TypeOK'
<1>0. TypeOK /\ InHand /\ Counted
  BY DEF Pushing
<1>1. /\ UNCHANGED <<events, got, taken, dpc, round, at, sseQueues, buffer>>
      /\ cpc' \in [Client -> {"new", "named", "counted", "in", "out"}]
  BY <1>0 DEF HookStep, TakeId, CountId, Register, Unsubscribe, Goto, hookVars,
         dispatcherVars, streamVars, TypeOK, Client
<1>2. HooksPassed \in 0 .. MaxEvents
  BY <1>0, PassedFacts DEF Passed, Client
<1>3. {since, until}' \subseteq [Client -> 0 .. MaxEvents]
  BY <1>0, <1>2 DEF HookStep, TakeId, CountId, Register, Unsubscribe, TypeOK
<1>4. wid' \in [Hook -> 0 .. Cardinality(Hook)]
  BY <1>0 DEF HookStep, TakeId, CountId, Register, Unsubscribe, TypeOK
<1>5. ids' \in 0 .. Cardinality(Hook)
  <2> DEFINE D == {d \in Hook : cpc[d] \in {"counted", "in", "out"}}
  <2>1. CASE ~CountId(c)
    BY <1>0, <2>1 DEF HookStep, TakeId, Register, Unsubscribe, TypeOK
  <2>2. CASE CountId(c)
    <3>1. D \subseteq Hook \ {c} /\ IsFiniteSet(Hook) /\ IsFiniteSet(Hook \ {c})
      BY <2>2, PushAssumption, FS_RemoveElement DEF CountId
    <3>2. Cardinality(Hook \ {c}) = Cardinality(Hook) - 1 /\ Cardinality(Hook) \in Nat
      BY <3>1, FS_RemoveElement, FS_CardinalityType
    <3>3. Cardinality(D) <= Cardinality(Hook \ {c}) /\ Cardinality(D) \in Nat
      BY <3>1, FS_Subset, FS_CardinalityType
    <3>4. ids = Cardinality(D)
      BY <1>0 DEF Counted
    <3>5. QED
      BY <2>2, <3>2, <3>3, <3>4 DEF CountId
  <2>3. QED
    BY <2>1, <2>2
<1>6. webhooks' \in Seq(Registration)
  <2>1. CASE TakeId(c) \/ CountId(c)
    BY <1>0, <2>1 DEF TakeId, CountId, TypeOK
  <2>2. CASE Register(c)
    <3> DEFINE new == [id |-> wid[c], client |-> c]
               old == {i \in DOMAIN webhooks : webhooks[i].id = wid[c]}
               put == [i \in DOMAIN webhooks |-> IF i \in old THEN new ELSE webhooks[i]]
    <3>1. webhooks \in Seq(Registration) /\ wid[c] \in Nat
      BY <1>0, PushAssumption, FS_CardinalityType DEF TypeOK
    <3>2. new \in Registration
      BY <3>1 DEF Registration
    <3>3. Append(webhooks, new) \in Seq(Registration)
      BY <3>1, <3>2, AppendProperties
    <3>4. put \in Seq(Registration)
      <4>1. Len(webhooks) \in Nat /\ DOMAIN webhooks = 1 .. Len(webhooks)
            /\ \A i \in DOMAIN webhooks : webhooks[i] \in Registration
        BY <3>1, LenProperties, ElementOfSeq
      <4> HIDE DEF new, old
      <4>2. put \in [1 .. Len(webhooks) -> Registration]
        BY <3>2, <4>1
      <4>3. QED
        BY <4>1, <4>2, SeqDef
    <3>5. webhooks' = IF old = {} THEN Append(webhooks, new) ELSE put
      BY <2>2 DEF Register
    <3>6. QED
      BY <3>3, <3>4, <3>5
  <2>3. CASE Unsubscribe(c)
    <3> DEFINE P == {i \in DOMAIN webhooks : webhooks[i].id # wid[c]}
    <3>1. webhooks \in Seq(Registration) /\ P \in SUBSET DOMAIN webhooks
          /\ webhooks' = Pick(webhooks, P)
      BY <1>0, <2>3 DEF Unsubscribe, TypeOK
    <3> HIDE DEF P
    <3>2. QED
      BY <3>1, PickFacts
  <2>4. QED
    BY <2>1, <2>2, <2>3 DEF HookStep
<1>7. QED
  BY <1>0, <1>1, <1>3, <1>4, <1>5, <1>6 DEF TypeOK

(* A stream opens, writes and ends.                                        *)
LEMMA StreamType ==
  ASSUME TypeOK, InHand, NEW c \in Streamer, StreamStep(c)
  PROVE  TypeOK'
<1>1. /\ UNCHANGED <<events, taken, dpc, round, at, webhooks, ids, wid>>
      /\ cpc' \in [Client -> {"new", "named", "counted", "in", "out"}]
  BY DEF StreamStep, Connect, WriteEvent, Disconnect, Goto, hookVars,
         dispatcherVars, clientVars, TypeOK, Client
<1>2. StreamsPassed \in 0 .. MaxEvents
  BY PassedFacts, PushAssumption
<1>3. {since, until}' \subseteq [Client -> 0 .. MaxEvents]
  <2>1. since \in [Client -> 0 .. MaxEvents] /\ until \in [Client -> 0 .. MaxEvents]
    BY DEF TypeOK
  <2>2. /\ since' \in {since, [since EXCEPT ![c] = StreamsPassed]}
        /\ until' \in {until, [until EXCEPT ![c] = StreamsPassed]}
    BY DEF StreamStep, Connect, WriteEvent, Disconnect, clientVars
  <2>3. QED
    BY <1>2, <2>1, <2>2
<1>4. c \in Client /\ sseQueues \in Seq(Streamer) /\ buffer[c] \in Seq(Number)
      /\ got[c] \in Seq(Number)
  BY DEF TypeOK, Client
<1>5. sseQueues' \in Seq(Streamer)
  <2>1. Append(sseQueues, c) \in Seq(Streamer)
    BY <1>4, AppendProperties
  <2>2. Only(sseQueues, Streamer \ {c}) \in Seq(Streamer)
    BY <1>4, OnlyFacts
  <2>3. QED
    BY <1>4, <2>1, <2>2 DEF StreamStep, Connect, WriteEvent, Disconnect
<1>6. got' \in [Client -> Seq(Number)] /\ buffer' \in [Streamer -> Seq(Number)]
  <2>1. CASE Connect(c)
    BY <2>1 DEF Connect, TypeOK
  <2>2. CASE WriteEvent(c)
    <3>1. Head(buffer[c]) \in Number /\ Tail(buffer[c]) \in Seq(Number)
      BY <1>4, <2>2, HeadTailSet DEF WriteEvent
    <3>2. Append(got[c], Head(buffer[c])) \in Seq(Number)
      BY <1>4, <3>1, AppendProperties
    <3>3. QED
      BY <2>2, <3>1, <3>2 DEF WriteEvent, Receive, TypeOK
  <2>3. CASE Disconnect(c)
    <3>1. <<>> \in Seq(Number)
      BY EmptySeq
    <3>2. QED
      BY <2>3, <3>1 DEF Disconnect, TypeOK
  <2>4. QED
    BY <2>1, <2>2, <2>3 DEF StreamStep
<1>7. QED
  BY <1>1, <1>3, <1>5, <1>6 DEF TypeOK

LEMMA NextPushType ==
  ASSUME Pushing, [Next]_vars PROVE TypeOK'
<1>0. TypeOK /\ InHand /\ Rounds
  BY DEF Pushing
<1>1. CASE Emit
  <2>1. PICK e \in Kinds : events' = Append(events, e)
    BY <1>1 DEF Emit
  <2>2. events' \in Seq(Kinds) /\ Len(events') = Len(events) + 1
    BY <1>0, <2>1, AppendProperties DEF TypeOK
  <2>3. taken \in 0 .. Len(events')
    BY <1>0, <2>2, PassedFacts
  <2>4. QED
    BY <1>0, <1>1, <2>2, <2>3
       DEF Emit, TypeOK, dispatcherVars, hookVars, streamVars, clientVars
<1>2. CASE UNCHANGED vars
  BY <1>0, <1>2 DEF vars, TypeOK, dispatcherVars, hookVars, streamVars, clientVars
<1>3. QED
  BY <1>0, <1>1, <1>2, DispatchType, HookType, StreamType DEF Next

-----------------------------------------------------------------------------
(* The dispatcher and the subscriptions.                                   *)

(* What passed stays passed.                                               *)
LEMMA PassedGrows ==
  ASSUME TypeOK, InHand, [Next]_vars
  PROVE  /\ HooksPassed' >= HooksPassed /\ StreamsPassed' >= StreamsPassed
         /\ \A c \in Client : Passed(c)' >= Passed(c)
<1>1. taken \in Nat /\ (taken' = taken \/ taken' = taken + 1)
  BY PassedFacts DEF Next, vars, dispatcherVars, Emit, Dispatch, TakeEvent, CopyHooks,
     Post, CopyStreams, Put, HookStep, TakeId, CountId, Register, Unsubscribe,
     StreamStep, Connect, WriteEvent, Disconnect
<1>2. /\ HooksPassed = IF dpc = "hooks" THEN taken - 1 ELSE taken
      /\ HooksPassed' = IF dpc' = "hooks" THEN taken' - 1 ELSE taken'
      /\ StreamsPassed =
            IF dpc \in {"hooks", "post", "streams"} THEN taken - 1 ELSE taken
      /\ StreamsPassed' =
            IF dpc' \in {"hooks", "post", "streams"} THEN taken' - 1 ELSE taken'
  <2>1. taken \in Int /\ taken' \in Int
    BY <1>1
  <2>2. \A n \in Int : n - 0 = n
    OBVIOUS
  <2>3. QED
    BY <2>1, <2>2 DEF HooksPassed, StreamsPassed
<1> SUFFICES HooksPassed' >= HooksPassed /\ StreamsPassed' >= StreamsPassed
  BY DEF Passed
<1>3. CASE UNCHANGED <<taken, dpc>>
  BY <1>1, <1>2, <1>3
<1>4. CASE TakeEvent
  BY <1>1, <1>2, <1>4 DEF TakeEvent
<1>5. CASE CopyHooks
  <2>1. dpc = "hooks" /\ taken' = taken /\ dpc' \in {"post", "streams"}
    BY <1>5, CopyHooksFacts DEF CopyHooks
  <2>2. QED
    BY <1>1, <1>2, <2>1
<1>6. CASE Post
  <2>1. dpc = "post" /\ taken' = taken /\ dpc' \in {"post", "streams"}
    BY <1>6 DEF Post, Advance
  <2>2. QED
    BY <1>1, <1>2, <2>1
<1>7. CASE CopyStreams
  <2>1. dpc = "streams" /\ taken' = taken /\ dpc' \in {"put", "get"}
    BY <1>7, CopyStreamsFacts DEF CopyStreams
  <2>2. QED
    BY <1>1, <1>2, <2>1
<1>8. CASE Put
  <2>1. dpc = "put" /\ taken' = taken /\ dpc' \in {"put", "get"}
    BY <1>8 DEF Put, Advance
  <2>2. QED
    BY <1>1, <1>2, <2>1
<1>9. Dispatch \/ UNCHANGED <<taken, dpc>>
  BY DEF Next, vars, dispatcherVars, Emit, HookStep, TakeId, CountId, Register,
         Unsubscribe, StreamStep, Connect, WriteEvent, Disconnect
<1>10. QED
  BY <1>3, <1>4, <1>5, <1>6, <1>7, <1>8, <1>9 DEF Dispatch

LEMMA NextInHand == ASSUME TypeOK, InHand, [Next]_vars PROVE InHand'
<1>1. Len(events) \in Nat /\ Len(events) <= MaxEvents /\ taken \in Nat
      /\ MaxEvents \in Nat
  BY PassedFacts, PushAssumption
<1>2. CASE Emit
  <2>1. PICK e \in Kinds : events' = Append(events, e)
    BY <1>2 DEF Emit
  <2>2. Len(events') = Len(events) + 1
    BY <2>1, AppendProperties DEF TypeOK
  <2>3. QED
    BY <1>1, <1>2, <2>2 DEF Emit, InHand, dispatcherVars
<1>3. CASE Dispatch
  BY <1>1, <1>3 DEF Dispatch, TakeEvent, CopyHooks, GoThrough, Post, CopyStreams,
                    Put, InHand
<1>4. CASE ~Emit /\ ~Dispatch
  <2>1. UNCHANGED <<events, taken, dpc>>
    BY <1>4 DEF Next, vars, dispatcherVars, HookStep, TakeId, CountId, Register,
         Unsubscribe, StreamStep, Connect, WriteEvent, Disconnect
  <2>2. QED
    BY <2>1 DEF InHand
<1>5. QED
  BY <1>2, <1>3, <1>4

(* A request goes from one place to the next, and touches no other's.      *)
LEMMA RequestFacts ==
  ASSUME TypeOK, [Next]_vars, NEW c \in Client
  PROVE  /\ cpc[c] \in {"new", "named", "counted", "in", "out"}
         /\ cpc[c] \in {"in", "out"} =>
               /\ cpc'[c] \in {"in", "out"}
               /\ since'[c] = since[c]
               /\ c \in Hook => wid'[c] = wid[c]
         /\ cpc'[c] = "in" /\ cpc[c] # "in" =>
               cpc[c] \notin {"in", "out"} /\ since'[c] = Passed(c)
         /\ cpc[c] = "out" => cpc'[c] = "out" /\ until'[c] = until[c]
         /\ cpc'[c] = "out" /\ cpc[c] # "out" => cpc[c] = "in" /\ until'[c] = Passed(c)
         /\ cpc'[c] # "out" => until'[c] = until[c]
<1>1. CASE Emit \/ Dispatch \/ UNCHANGED vars
  <2>1. UNCHANGED <<cpc, since, until, wid>>
    BY <1>1 DEF Emit, Dispatch, TakeEvent, CopyHooks, Post, CopyStreams, Put,
         vars, hookVars, clientVars
  <2>2. QED
    BY <2>1 DEF TypeOK
<1>2. ASSUME NEW d \in Hook, HookStep(d)
      PROVE  \/ /\ cpc[d] = "new"
                /\ cpc' = [cpc EXCEPT ![d] = "named"]
                /\ wid' = [wid EXCEPT ![d] = ids]
                /\ UNCHANGED <<since, until>>
             \/ /\ cpc[d] = "named"
                /\ cpc' = [cpc EXCEPT ![d] = "counted"]
                /\ UNCHANGED <<wid, since, until>>
             \/ /\ cpc[d] = "counted"
                /\ cpc' = [cpc EXCEPT ![d] = "in"]
                /\ since' = [since EXCEPT ![d] = HooksPassed]
                /\ UNCHANGED <<wid, until>>
             \/ /\ cpc[d] = "in"
                /\ cpc' = [cpc EXCEPT ![d] = "out"]
                /\ until' = [until EXCEPT ![d] = HooksPassed]
                /\ UNCHANGED <<wid, since>>
  BY <1>2 DEF HookStep, TakeId, CountId, Register, Unsubscribe, Goto
<1>3. ASSUME NEW d \in Streamer, StreamStep(d)
      PROVE  /\ wid' = wid
             /\ \/ /\ cpc[d] = "new"
                   /\ cpc' = [cpc EXCEPT ![d] = "in"]
                   /\ since' = [since EXCEPT ![d] = StreamsPassed]
                   /\ UNCHANGED until
                \/ UNCHANGED <<cpc, since, until>>
                \/ /\ cpc[d] = "in"
                   /\ cpc' = [cpc EXCEPT ![d] = "out"]
                   /\ until' = [until EXCEPT ![d] = StreamsPassed]
                   /\ UNCHANGED since
  BY <1>3 DEF StreamStep, Connect, WriteEvent, Disconnect, Goto, hookVars, clientVars
<1>4. ASSUME NEW d \in Hook, HookStep(d)
      PROVE  /\ cpc[c] \in {"in", "out"} =>
                   /\ cpc'[c] \in {"in", "out"}
                   /\ since'[c] = since[c]
                   /\ c \in Hook => wid'[c] = wid[c]
             /\ cpc'[c] = "in" /\ cpc[c] # "in" =>
                   cpc[c] \notin {"in", "out"} /\ since'[c] = Passed(c)
             /\ cpc[c] = "out" => cpc'[c] = "out" /\ until'[c] = until[c]
             /\ cpc'[c] = "out" /\ cpc[c] # "out" => cpc[c] = "in" /\ until'[c] = Passed(c)
             /\ cpc'[c] # "out" => until'[c] = until[c]
  <2>1. d \in Client /\ Passed(d) = HooksPassed
        /\ cpc \in [Client -> {"new", "named", "counted", "in", "out"}]
        /\ since \in [Client -> 0 .. MaxEvents] /\ until \in [Client -> 0 .. MaxEvents]
        /\ wid \in [Hook -> 0 .. Cardinality(Hook)]
    BY DEF Passed, Client, TypeOK
  <2>2. CASE c = d
    BY <1>2, <1>4, <2>1, <2>2
  <2>3. CASE c # d
    <3>1. /\ cpc'[c] = cpc[c] /\ since'[c] = since[c] /\ until'[c] = until[c]
          /\ c \in Hook => wid'[c] = wid[c]
      BY <1>2, <1>4, <2>1, <2>3
    <3>2. QED
      BY <3>1
  <2>4. QED
    BY <2>2, <2>3
<1>5. ASSUME NEW d \in Streamer, StreamStep(d)
      PROVE  /\ cpc[c] \in {"in", "out"} =>
                   /\ cpc'[c] \in {"in", "out"}
                   /\ since'[c] = since[c]
                   /\ c \in Hook => wid'[c] = wid[c]
             /\ cpc'[c] = "in" /\ cpc[c] # "in" =>
                   cpc[c] \notin {"in", "out"} /\ since'[c] = Passed(c)
             /\ cpc[c] = "out" => cpc'[c] = "out" /\ until'[c] = until[c]
             /\ cpc'[c] = "out" /\ cpc[c] # "out" => cpc[c] = "in" /\ until'[c] = Passed(c)
             /\ cpc'[c] # "out" => until'[c] = until[c]
  BY <1>3, <1>5, PushAssumption DEF TypeOK, Client, Passed
<1>6. cpc[c] \in {"new", "named", "counted", "in", "out"}
  BY DEF TypeOK
<1>7. QED
  BY <1>1, <1>4, <1>5, <1>6 DEF Next

(* An id that is shared stays shared.                                      *)
LEMMA SharedStays ==
  ASSUME TypeOK, [Next]_vars, NEW c \in Hook, cpc[c] \in {"in", "out"}, SharesId(c)
  PROVE  SharesId(c)'
<1>1. PICK d \in Hook \ {c} : cpc[d] \in {"in", "out"} /\ wid[c] = wid[d]
  BY DEF SharesId
<1>2. cpc'[d] \in {"in", "out"} /\ wid'[d] = wid[d] /\ wid'[c] = wid[c]
  BY <1>1, RequestFacts DEF Client
<1>3. QED
  BY <1>1, <1>2 DEF SharesId

LEMMA NextCounted == ASSUME TypeOK, Counted, [Next]_vars PROVE Counted'
<1> DEFINE D == {d \in Hook : cpc[d] \in {"counted", "in", "out"}}
<1>1. CASE UNCHANGED <<ids, cpc>>
  BY <1>1 DEF Counted
<1>2. ASSUME NEW c \in Hook, HookStep(c) PROVE Counted'
  <2>1. CASE CountId(c)
    <3>1. D' = D \cup {c} /\ c \notin D /\ ids' = ids + 1
      BY <2>1 DEF CountId, Goto, TypeOK, Client
    <3>2. IsFiniteSet(D)
      BY PushAssumption, FS_Subset
    <3>3. Cardinality(D \cup {c}) = Cardinality(D) + 1
      BY <3>1, <3>2, FS_AddElement
    <3>4. QED
      BY <3>1, <3>3 DEF Counted
  <2>2. CASE TakeId(c) \/ Register(c) \/ Unsubscribe(c)
    <3>1. D' = D /\ ids' = ids
      BY <2>2 DEF TakeId, Register, Unsubscribe, Goto, TypeOK, Client
    <3>2. QED
      BY <3>1 DEF Counted
  <2>3. QED
    BY <1>2, <2>1, <2>2 DEF HookStep
<1>3. ASSUME NEW c \in Streamer, StreamStep(c) PROVE Counted'
  <2>1. ids' = ids /\ \A d \in Hook : cpc'[d] = cpc[d]
    BY <1>3, PushAssumption DEF StreamStep, Connect, WriteEvent, Disconnect, Goto,
          hookVars, clientVars, TypeOK, Client
  <2>2. D' = D
    BY <2>1
  <2>3. QED
    BY <2>1, <2>2 DEF Counted
<1>4. CASE Emit \/ Dispatch \/ UNCHANGED vars
  <2>1. UNCHANGED <<ids, cpc>>
    BY <1>4 DEF Emit, Dispatch, TakeEvent, CopyHooks, Post, CopyStreams, Put,
         vars, hookVars, clientVars
  <2>2. QED
    BY <1>1, <2>1
<1>5. QED
  BY <1>2, <1>3, <1>4 DEF Next

LEMMA NextOpen == ASSUME TypeOK, Open, [Next]_vars PROVE Open'
<1>0. sseQueues \in Seq(Streamer)
  BY DEF TypeOK
<1>1. ASSUME NEW c \in Streamer, Connect(c) PROVE Open'
  <2>1. sseQueues' = Append(sseQueues, c) /\ c \notin ToSet(sseQueues)
    BY <1>1 DEF Connect, Open
  <2>2. {d \in Streamer : cpc'[d] = "in"} = {d \in Streamer : cpc[d] = "in"} \cup {c}
    BY <1>1 DEF Connect, Goto, TypeOK, Client
  <2>3. IsInjective(sseQueues') /\ ToSet(sseQueues') = ToSet(sseQueues) \cup {c}
    BY <1>0, <2>1, AppendSet DEF Open
  <2>4. QED
    BY <2>2, <2>3 DEF Open
<1>2. ASSUME NEW c \in Streamer, Disconnect(c) PROVE Open'
  <2>1. sseQueues' = Only(sseQueues, Streamer \ {c})
    BY <1>2 DEF Disconnect
  <2>2. {d \in Streamer : cpc'[d] = "in"} = {d \in Streamer : cpc[d] = "in"} \ {c}
    BY <1>2 DEF Disconnect, Goto, TypeOK, Client
  <2>3. ToSet(sseQueues') = ToSet(sseQueues) \cap (Streamer \ {c})
        /\ IsInjective(sseQueues')
    BY <1>0, <2>1, OnlyFacts, OnlyInjective DEF Open
  <2>4. QED
    BY <2>2, <2>3 DEF Open
<1>3. ASSUME NEW c \in Hook, HookStep(c) PROVE Open'
  <2>1. sseQueues' = sseQueues /\ \A d \in Streamer : cpc'[d] = cpc[d]
    BY <1>3, PushAssumption DEF HookStep, TakeId, CountId, Register, Unsubscribe, Goto,
          streamVars, TypeOK, Client
  <2>2. {d \in Streamer : cpc'[d] = "in"} = {d \in Streamer : cpc[d] = "in"}
    BY <2>1
  <2>3. QED
    BY <2>1, <2>2 DEF Open
<1>4. CASE UNCHANGED <<sseQueues, cpc>>
  BY <1>4 DEF Open
<1>5. ASSUME NEW c \in Streamer, WriteEvent(c) PROVE UNCHANGED <<sseQueues, cpc>>
  BY <1>5 DEF WriteEvent, clientVars
<1>6. CASE Emit \/ Dispatch \/ UNCHANGED vars
  <2>1. UNCHANGED <<sseQueues, cpc>>
    BY <1>6 DEF Emit, Dispatch, TakeEvent, CopyHooks, Post, CopyStreams, Put,
         vars, streamVars, clientVars
  <2>2. QED
    BY <1>4, <2>1
<1>7. QED
  BY <1>1, <1>2, <1>3, <1>4, <1>5, <1>6 DEF Next, StreamStep

-----------------------------------------------------------------------------
(* The dict of callbacks.                                                  *)

LEMMA KeptFacts ==
  ASSUME TypeOK
  PROVE  /\ webhooks \in Seq(Registration)
         /\ Len(webhooks) \in Nat /\ DOMAIN webhooks = 1 .. Len(webhooks)
         /\ \A i \in DOMAIN webhooks : webhooks[i] \in Registration
         /\ \A i \in DOMAIN webhooks : webhooks[i].client \in Hook
         /\ cpc \in [Client -> {"new", "named", "counted", "in", "out"}]
         /\ wid \in [Hook -> 0 .. Cardinality(Hook)]
         /\ Hook \subseteq Client
<1>1. webhooks \in Seq(Registration)
  BY DEF TypeOK
<1>2. Len(webhooks) \in Nat /\ DOMAIN webhooks = 1 .. Len(webhooks)
      /\ \A i \in DOMAIN webhooks : webhooks[i] \in Registration
  BY <1>1, LenProperties, ElementOfSeq
<1>3. QED
  BY <1>1, <1>2 DEF Registration, TypeOK, Client

(* As long as no callback moves, neither does the dict.                    *)
LEMMA KeptStands ==
  ASSUME TypeOK, Kept, UNCHANGED <<webhooks, wid>>,
         \A c \in Hook : cpc'[c] = cpc[c]
  PROVE  Kept'
<1>1. \A c \in Hook : SharesId(c)' <=> SharesId(c)
  BY DEF SharesId
<1>2. \A i \in DOMAIN webhooks : webhooks[i].client \in Hook
  BY KeptFacts
<1>3. QED
  BY <1>1, <1>2 DEF Kept

LEMMA AskKept ==
  ASSUME TypeOK, Kept, NEW c \in Hook, TakeId(c) \/ CountId(c)
  PROVE  Kept'
<1>1. /\ webhooks' = webhooks /\ cpc[c] \notin {"in", "out"}
      /\ cpc'[c] \notin {"in", "out"}
      /\ \A d \in Hook \ {c} : cpc'[d] = cpc[d] /\ wid'[d] = wid[d]
  BY KeptFacts DEF TakeId, CountId, Goto
<1>2. \A i \in DOMAIN webhooks : webhooks[i].client \in Hook \ {c}
  BY <1>1, KeptFacts DEF Kept
<1>3. ASSUME NEW d \in Hook, cpc'[d] = "in", ~SharesId(d)'
      PROVE  \E i \in DOMAIN webhooks : webhooks[i].client = d
  <2>1. d # c /\ cpc[d] = "in"
    BY <1>1, <1>3
  <2>2. ~SharesId(d)
    BY <1>1, <1>3, <2>1, KeptFacts DEF SharesId
  <2>3. QED
    BY <2>1, <2>2 DEF Kept
<1>4. QED
  BY <1>1, <1>2, <1>3 DEF Kept

LEMMA RegisterKept ==
  ASSUME TypeOK, Kept, NEW c \in Hook, Register(c)
  PROVE  Kept'
<1> DEFINE new == [id |-> wid[c], client |-> c]
           old == {i \in DOMAIN webhooks : webhooks[i].id = wid[c]}
<1>0. /\ webhooks \in Seq(Registration)
      /\ Len(webhooks) \in Nat /\ DOMAIN webhooks = 1 .. Len(webhooks)
      /\ new.id = wid[c] /\ new.client = c
  BY KeptFacts
<1>1. new \in Registration
  BY KeptFacts, PushAssumption, FS_CardinalityType DEF Registration
<1>2. /\ wid' = wid /\ cpc[c] = "counted" /\ cpc'[c] = "in"
      /\ \A d \in Hook \ {c} : cpc'[d] = cpc[d]
  BY KeptFacts DEF Register, Goto
<1>3. \A i \in DOMAIN webhooks : webhooks[i].client \in Hook \ {c}
  BY <1>2, KeptFacts DEF Kept
<1>4. webhooks' = IF old = {} THEN Append(webhooks, new)
                  ELSE [i \in DOMAIN webhooks |-> IF i \in old THEN new ELSE webhooks[i]]
  BY DEF Register
<1>5. ASSUME NEW d \in Hook \ {c}, cpc'[d] = "in", ~SharesId(d)'
      PROVE  \E i \in DOMAIN webhooks : webhooks[i].client = d /\ i \notin old
  <2>1. ~SharesId(d)
    BY <1>2, <1>5, KeptFacts DEF SharesId
  <2>2. PICK i \in DOMAIN webhooks : webhooks[i].client = d
    BY <1>2, <1>5, <2>1 DEF Kept
  <2>3. wid[d] # wid[c]
    BY <1>2, <1>5 DEF SharesId
  <2>4. QED
    BY <2>2, <2>3 DEF Kept
<1>6. CASE old = {}
  <2>1. /\ DOMAIN webhooks' = 1 .. (Len(webhooks) + 1)
        /\ \A i \in DOMAIN webhooks : webhooks'[i] = webhooks[i]
        /\ webhooks'[Len(webhooks) + 1] = new
    BY <1>0, <1>1, <1>4, <1>6, AppendProperties, LenProperties
  <2>2. \A i \in DOMAIN webhooks' : i \in DOMAIN webhooks \/ i = Len(webhooks) + 1
    BY <1>0, <2>1
  <2>3. DOMAIN webhooks \subseteq DOMAIN webhooks' /\ Len(webhooks) + 1 \in DOMAIN webhooks'
    BY <1>0, <2>1
  <2>4. \A i \in DOMAIN webhooks : webhooks[i].id # wid[c]
    BY <1>6
  <2> HIDE DEF new, old
  <2>5. \A i \in DOMAIN webhooks' :
          cpc'[webhooks'[i].client] = "in" /\ webhooks'[i].id = wid'[webhooks'[i].client]
    BY <1>0, <1>2, <1>3, <2>1, <2>2 DEF Kept
  <2>6. \A i, j \in DOMAIN webhooks' : webhooks'[i].id = webhooks'[j].id => i = j
    BY <1>0, <2>1, <2>2, <2>4 DEF Kept
  <2>7. \A d \in Hook : cpc'[d] = "in" /\ ~SharesId(d)' =>
          \E i \in DOMAIN webhooks' : webhooks'[i].client = d
    BY <1>0, <1>5, <2>1, <2>3
  <2>8. QED
    BY <2>5, <2>6, <2>7 DEF Kept
<1>7. CASE old # {}
  <2>1. PICK k \in old : TRUE
    BY <1>7
  <2>2. k \in DOMAIN webhooks /\ webhooks[k].id = wid[c]
    BY <2>1
  <2>3. /\ DOMAIN webhooks' = DOMAIN webhooks
        /\ \A i \in DOMAIN webhooks :
              /\ i \in old => webhooks'[i] = new
              /\ i \notin old => webhooks'[i] = webhooks[i]
    BY <1>4, <1>7
  <2>4. \A i \in DOMAIN webhooks : webhooks'[i].id = webhooks[i].id
    BY <1>0, <2>3
  <2>5. k \in old
    OBVIOUS
  <2> HIDE DEF new, old
  <2>6. \A i \in DOMAIN webhooks' :
          cpc'[webhooks'[i].client] = "in" /\ webhooks'[i].id = wid'[webhooks'[i].client]
    BY <1>0, <1>2, <1>3, <2>3 DEF Kept
  <2>7. \A i, j \in DOMAIN webhooks' : webhooks'[i].id = webhooks'[j].id => i = j
    BY <2>3, <2>4 DEF Kept
  <2>8. \A d \in Hook : cpc'[d] = "in" /\ ~SharesId(d)' =>
          \E i \in DOMAIN webhooks' : webhooks'[i].client = d
    BY <1>0, <1>5, <2>2, <2>3, <2>5
  <2>9. QED
    BY <2>6, <2>7, <2>8 DEF Kept
<1>8. QED
  BY <1>6, <1>7

LEMMA UnsubscribeKept ==
  ASSUME TypeOK, Kept, NEW c \in Hook, Unsubscribe(c)
  PROVE  Kept'
<1> DEFINE P == {i \in DOMAIN webhooks : webhooks[i].id # wid[c]}
<1>1. /\ wid' = wid /\ cpc'[c] = "out"
      /\ \A d \in Hook \ {c} : cpc'[d] = cpc[d]
  BY KeptFacts DEF Unsubscribe, Goto
<1>2. webhooks' = Pick(webhooks, P)
  BY DEF Unsubscribe
<1>3. P \in SUBSET DOMAIN webhooks
  OBVIOUS
<1>4. \A i \in P : webhooks[i].client \in Hook \ {c}
  BY KeptFacts DEF Kept
<1>5. ASSUME NEW d \in Hook, cpc'[d] = "in", ~SharesId(d)'
      PROVE  \E i \in P : webhooks[i].client = d
  <2>1. d # c /\ cpc[d] = "in"
    BY <1>1, <1>5
  <2>2. ~SharesId(d)
    BY <1>1, <1>5, <2>1, KeptFacts DEF SharesId
  <2>3. PICK i \in DOMAIN webhooks : webhooks[i].client = d
    BY <2>1, <2>2 DEF Kept
  <2>4. wid[d] # wid[c]
    BY <1>1, <1>5, <2>1 DEF SharesId
  <2>5. QED
    BY <2>3, <2>4 DEF Kept
<1> HIDE DEF P
<1>6. /\ \A n \in DOMAIN webhooks' : \E i \in P : webhooks'[n] = webhooks[i]
      /\ \A i \in P : \E n \in DOMAIN webhooks' : webhooks'[n] = webhooks[i]
      /\ \A m, n \in DOMAIN webhooks' :
               (\A i, j \in P : webhooks'[m] = webhooks[i] /\ webhooks'[n] = webhooks[j]
                                   => i = j)
                  => m = n
  <2>1. webhooks \in Seq(Registration)
    BY KeptFacts
  <2>2. PICK q : q = Pick(webhooks, P)
    OBVIOUS
  <2>3. /\ \A n \in DOMAIN q : \E i \in P : q[n] = webhooks[i]
        /\ \A i \in P : \E n \in DOMAIN q : q[n] = webhooks[i]
        /\ \A m, n \in DOMAIN q :
               (\A i, j \in P : q[m] = webhooks[i] /\ q[n] = webhooks[j] => i = j) => m = n
    BY <1>3, <2>1, <2>2, PickPlaces
  <2>4. QED
    BY <1>2, <2>2, <2>3
<1>7. \A n \in DOMAIN webhooks' :
        cpc'[webhooks'[n].client] = "in" /\ webhooks'[n].id = wid'[webhooks'[n].client]
  BY <1>1, <1>3, <1>4, <1>6 DEF Kept
<1>8. ASSUME NEW m \in DOMAIN webhooks', NEW n \in DOMAIN webhooks',
             webhooks'[m].id = webhooks'[n].id
      PROVE  m = n
  <2>1. \A i, j \in P : webhooks'[m] = webhooks[i] /\ webhooks'[n] = webhooks[j] => i = j
    BY <1>3, <1>8 DEF Kept
  <2>2. QED
    BY <1>6, <2>1
<1>9. \A d \in Hook : cpc'[d] = "in" /\ ~SharesId(d)' =>
          \E n \in DOMAIN webhooks' : webhooks'[n].client = d
  BY <1>5, <1>6
<1>10. QED
  BY <1>7, <1>8, <1>9 DEF Kept

LEMMA NextKept == ASSUME TypeOK, Kept, [Next]_vars PROVE Kept'
<1>1. ASSUME NEW c \in Hook, HookStep(c) PROVE Kept'
  BY <1>1, AskKept, RegisterKept, UnsubscribeKept DEF HookStep
<1>2. ASSUME NEW c \in Streamer, StreamStep(c) PROVE Kept'
  <2>1. /\ UNCHANGED <<webhooks, wid>>
        /\ cpc' = cpc \/ \E v : cpc' = [cpc EXCEPT ![c] = v]
    BY <1>2 DEF StreamStep, Connect, WriteEvent, Disconnect, Goto, hookVars, clientVars
  <2>2. \A d \in Hook : cpc'[d] = cpc[d]
    BY <2>1, KeptFacts, PushAssumption
  <2>3. QED
    BY <2>1, <2>2, KeptStands
<1>3. CASE Emit \/ Dispatch \/ UNCHANGED vars
  <2>1. UNCHANGED <<webhooks, wid, cpc>>
    BY <1>3 DEF Emit, Dispatch, TakeEvent, CopyHooks, Post, CopyStreams, Put,
         vars, hookVars, clientVars
  <2>2. QED
    BY <2>1, KeptStands
<1>4. QED
  BY <1>1, <1>2, <1>3 DEF Next

-----------------------------------------------------------------------------
(* What is due.                                                            *)

(* Events are only added, and while a client moves the dispatcher does not.*)
LEMMA FrameFacts ==
  ASSUME TypeOK, [Next]_vars
  PROVE  /\ \A i \in 1 .. Len(events) : events'[i] = events[i]
         /\ \/ /\ Dispatch
               /\ UNCHANGED <<events, webhooks, sseQueues, wid, cpc, since, until>>
            \/ UNCHANGED <<taken, dpc, round, at>>
<1>1. CASE Emit
  <2>1. PICK e \in Kinds : events' = Append(events, e)
    BY <1>1 DEF Emit
  <2>2. \A i \in 1 .. Len(events) : events'[i] = events[i]
    BY <2>1, AppendProperties DEF TypeOK
  <2>3. QED
    BY <1>1, <2>2 DEF Emit, dispatcherVars
<1>2. CASE Dispatch
  BY <1>2 DEF Dispatch, TakeEvent, CopyHooks, Post, CopyStreams, Put, hookVars,
              streamVars, clientVars
<1>3. ASSUME NEW c \in Hook, HookStep(c) PROVE UNCHANGED <<events, taken, dpc, round, at>>
  BY <1>3 DEF HookStep, TakeId, CountId, Register, Unsubscribe, dispatcherVars
<1>4. ASSUME NEW c \in Streamer, StreamStep(c)
      PROVE  UNCHANGED <<events, taken, dpc, round, at>>
  BY <1>4 DEF StreamStep, Connect, WriteEvent, Disconnect, dispatcherVars
<1>5. CASE UNCHANGED vars
  BY <1>5 DEF vars, dispatcherVars
<1>6. QED
  BY <1>1, <1>2, <1>3, <1>4, <1>5 DEF Next

LEMMA DueStands ==
  ASSUME TypeOK, [Next]_vars, NEW c \in Client, NEW n \in Nat, n <= Len(events),
         since'[c] = since[c],
         until'[c] = until[c] \/ (n <= until[c] /\ n <= until'[c]),
         TypeOK'
  PROVE  Due(c, n)' = Due(c, n)
<1>1. since[c] \in Nat /\ until[c] \in Nat /\ until'[c] \in Nat /\ Len(events) \in Nat
  BY PushAssumption, LenProperties DEF TypeOK
<1>2. ASSUME NEW i \in 1 .. n
      PROVE  /\ Matches(events'[i], c) <=> Matches(events[i], c)
             /\ i \in since'[c] + 1 .. until'[c] <=> i \in since[c] + 1 .. until[c]
  <2>1. i \in 1 .. Len(events)
    BY <1>1
  <2>2. events'[i] = events[i]
    BY <2>1, FrameFacts
  <2>3. QED
    BY <1>1, <2>2
<1>3. QED
  BY <1>2 DEF Due

LEMMA PassedIs ==
  ASSUME taken \in Nat
  PROVE  /\ HooksPassed = IF dpc = "hooks" THEN taken - 1 ELSE taken
         /\ StreamsPassed =
               IF dpc \in {"hooks", "post", "streams"} THEN taken - 1 ELSE taken
<1>1. \A n \in Int : n - 0 = n
  OBVIOUS
<1>2. QED
  BY <1>1 DEF HooksPassed, StreamsPassed

(* Who is in a round has been passed by the event in hand.                 *)
LEMMA RoundPassed ==
  ASSUME TypeOK, InHand, Rounds, NEW c \in ToSet(round)
  PROVE  /\ c \in Client /\ Passed(c) = taken /\ taken \in Nat
         /\ c \in Hook => dpc = "post"
         /\ c \in Streamer => dpc = "put"
<1>1. c \in Client
  BY ElementOfSeq DEF TypeOK, ToSet
<1>2. dpc \in {"post", "put"}
  BY DEF Rounds, ToSet
<1>3. taken \in Nat
  BY PassedFacts
<1>4. QED
  BY <1>1, <1>2, <1>3, PassedIs, PushAssumption DEF Rounds, Passed, Client

LEMMA NextPeriods ==
  ASSUME Pushing, [Next]_vars PROVE Periods'
<1>0. TypeOK /\ InHand /\ Rounds /\ Periods
  BY DEF Pushing
<1> SUFFICES ASSUME NEW c \in Client
             PROVE  /\ cpc'[c] \notin {"in", "out"} =>
                          got'[c] = <<>> /\ (c \in Streamer => buffer'[c] = <<>>)
                    /\ cpc'[c] # "out" => until'[c] = MaxEvents
                    /\ cpc'[c] \in {"in", "out"} => since'[c] <= Passed(c)'
                    /\ cpc'[c] = "out" => until'[c] <= Passed(c)'
  BY DEF Periods
<1>1. Passed(c) \in Nat /\ Passed(c)' >= Passed(c) /\ Passed(c)' \in Nat
      /\ since[c] \in Nat /\ until[c] \in Nat
  <2>1. TypeOK' /\ InHand'
    BY <1>0, NextPushType, NextInHand
  <2>2. Passed(c)' \in Nat
    <3>1. taken' \in Nat /\ (dpc' # "get" => taken' > 0)
      BY <2>1, LenProperties DEF TypeOK, InHand
    <3>2. /\ taken' \in Int /\ taken' - 0 = taken'
          /\ dpc' # "get" => taken' - 1 \in Nat
      <4>1. \A n \in Nat : n \in Int /\ n - 0 = n /\ (n > 0 => n - 1 \in Nat)
        OBVIOUS
      <4>2. QED
        BY <3>1, <4>1
    <3>3. /\ HooksPassed' = IF dpc' = "hooks" THEN taken' - 1 ELSE taken'
          /\ StreamsPassed' =
                IF dpc' \in {"hooks", "post", "streams"} THEN taken' - 1 ELSE taken'
      BY <3>2 DEF HooksPassed, StreamsPassed
    <3>4. HooksPassed' \in Nat /\ StreamsPassed' \in Nat
      BY <3>1, <3>2, <3>3
    <3>5. QED
      BY <3>4 DEF Passed
  <2>3. Passed(c) \in Nat /\ Passed(c)' >= Passed(c)
    BY <1>0, PassedFacts, PassedGrows
  <2>4. since[c] \in Nat /\ until[c] \in Nat
    BY <1>0, PushAssumption DEF TypeOK
  <2>5. QED
    BY <2>2, <2>3, <2>4
<1>2. cpc'[c] # "out" => until'[c] = MaxEvents
  BY <1>0, RequestFacts DEF Periods
<1>3. cpc'[c] \in {"in", "out"} => since'[c] <= Passed(c)'
  BY <1>0, <1>1, RequestFacts DEF Periods
<1>4. cpc'[c] = "out" => until'[c] <= Passed(c)'
  BY <1>0, <1>1, RequestFacts DEF Periods
<1>5. ASSUME cpc'[c] \notin {"in", "out"}
      PROVE  got'[c] = <<>> /\ (c \in Streamer => buffer'[c] = <<>>)
  <2>1. cpc[c] \notin {"in", "out"}
    BY <1>0, <1>5, RequestFacts
  <2>2. got[c] = <<>> /\ (c \in Streamer => buffer[c] = <<>>)
    BY <1>0, <2>1 DEF Periods
  <2>3. CASE Dispatch
    <3>1. dpc \in {"post", "put"} => round[at] # c
      BY <1>0, <2>1 DEF Rounds, TypeOK, ToSet
    <3>2. got' \in {got, [got EXCEPT ![round[at]] = Append(@, taken)]}
          /\ (dpc # "post" => got' = got)
      BY <2>3 DEF Dispatch, TakeEvent, CopyHooks, Post, CopyStreams, Put, Receive
    <3>3. buffer' \in {buffer, [buffer EXCEPT ![round[at]] = Append(@, taken)]}
          /\ (dpc # "put" => buffer' = buffer)
      BY <2>3 DEF Dispatch, TakeEvent, CopyHooks, Post, CopyStreams, Put, streamVars
    <3>4. QED
      BY <1>0, <2>2, <3>1, <3>2, <3>3 DEF TypeOK
  <2>4. CASE UNCHANGED <<got, buffer>>
    BY <2>2, <2>4
  <2>5. ASSUME NEW d \in Streamer, WriteEvent(d) \/ Disconnect(d)
        PROVE  got'[c] = got[c] /\ (c \in Streamer => buffer'[c] = buffer[c])
    <3>1. d # c
      BY <2>1, <2>5 DEF WriteEvent, Disconnect
    <3>2. /\ got' = got \/ got' = [got EXCEPT ![d] = Append(@, Head(buffer[d]))]
          /\ \E b : buffer' = [buffer EXCEPT ![d] = b]
      BY <2>5 DEF WriteEvent, Disconnect, Receive
    <3>3. QED
      BY <1>0, <3>1, <3>2 DEF TypeOK
  <2>6. QED
    BY <2>2, <2>3, <2>4, <2>5 DEF Next, Emit, HookStep, TakeId, CountId, Register,
       Unsubscribe, StreamStep, Connect, vars, streamVars
<1>6. QED
  BY <1>2, <1>3, <1>4, <1>5

LEMMA NextRounds ==
  ASSUME Pushing, [Next]_vars PROVE Rounds'
<1>0. TypeOK /\ InHand /\ Kept /\ Open /\ Rounds /\ Periods /\ TypeOK'
  BY NextPushType DEF Pushing
<1>1. /\ taken \in Nat /\ taken <= Len(events) /\ Len(events) \in Nat
      /\ Len(events) <= MaxEvents /\ MaxEvents \in Nat
      /\ (dpc # "get" => taken > 0)
      /\ since \in [Client -> 0 .. MaxEvents] /\ until \in [Client -> 0 .. MaxEvents]
  BY <1>0, PassedFacts, PushAssumption DEF InHand, TypeOK
<1>2. ASSUME round' = <<>>, dpc' \notin {"post", "put"} PROVE Rounds'
  <2>1. DOMAIN round' = {}
    BY <1>2
  <2>2. ToSet(round') = {} /\ IsInjective(round')
    BY <2>1 DEF ToSet, IsInjective
  <2>3. QED
    BY <1>2, <2>2 DEF Rounds
<1>3. CASE UNCHANGED <<taken, dpc, round>>
  <2>1. ASSUME NEW c \in ToSet(round)
        PROVE  cpc'[c] \in {"in", "out"} /\ taken' \in Due(c, taken)'
    <3>1. c \in Client /\ Passed(c) = taken /\ taken > 0
      BY <1>0, <1>1, RoundPassed DEF Rounds, ToSet
    <3>2. taken \in Due(c, taken) /\ cpc[c] \in {"in", "out"}
      BY <1>0 DEF Rounds
    <3>3. cpc'[c] \in {"in", "out"} /\ since'[c] = since[c]
          /\ until'[c] \in {until[c], taken}
      BY <1>0, <3>1, <3>2, RequestFacts
    <3>4. taken <= until[c]
      BY <1>1, <3>1, <3>2 DEF Due
    <3>5. PICK n \in Nat : n = taken
      BY <1>1
    <3>6. until'[c] = until[c] \/ (n <= until[c] /\ n <= until'[c])
      BY <1>1, <3>3, <3>4, <3>5
    <3>7. Due(c, n)' = Due(c, n)
      BY <1>0, <1>1, <3>1, <3>3, <3>5, <3>6, DueStands
    <3>8. Due(c, taken)' = Due(c, n)'
      BY <1>3, <3>5 DEF Due
    <3>9. QED
      BY <1>3, <3>2, <3>3, <3>5, <3>7, <3>8
  <2>2. QED
    BY <1>0, <1>3, <2>1 DEF Rounds
<1>4. ASSUME NEW c \in Client, cpc[c] = "in", dpc # "get", Matches(events[taken], c),
             Passed(c) = taken - 1
      PROVE  taken \in Due(c, taken)
  BY <1>0, <1>1, <1>4 DEF Due, Periods
<1>5. CASE CopyHooks
  <2>1. /\ dpc = "hooks" /\ UNCHANGED <<taken, events, cpc, since, until>>
    BY <1>5 DEF CopyHooks, clientVars
  <2>2. \A i, j \in DOMAIN webhooks : webhooks[i].client = webhooks[j].client => i = j
    BY <1>0 DEF Kept
  <2>3. IsInjective(round') /\ ToSet(round') \subseteq Hook
        /\ \A c \in ToSet(round') : cpc[c] = "in" /\ Matches(events[taken], c)
    <3>1. IsInjective(round')
          /\ \A c \in ToSet(round') : Matches(events[taken], c)
                /\ \E i \in DOMAIN webhooks : c = webhooks[i].client
      BY <1>0, <1>5, <2>2, CopyHooksFacts
    <3>2. \A i \in DOMAIN webhooks :
            webhooks[i].client \in Hook /\ cpc[webhooks[i].client] = "in"
      BY <1>0, KeptFacts DEF Kept
    <3>3. QED
      BY <3>1, <3>2
  <2>4. \A c \in Hook : c \in Client /\ Passed(c) = taken - 1
    BY <1>1, <2>1, PassedIs DEF Passed, Client
  <2>5. \A c \in ToSet(round') : taken \in Due(c, taken)
    BY <1>4, <2>1, <2>3, <2>4
  <2>6. \A c \in ToSet(round') : taken' \in Due(c, taken)'
    BY <2>1, <2>5 DEF Due
  <2>7. CASE dpc' = "post"
    BY <2>1, <2>3, <2>6, <2>7 DEF Rounds
  <2>8. QED
    BY <1>0, <1>2, <1>5, <2>7, CopyHooksFacts
<1>6. CASE CopyStreams
  <2>1. /\ dpc = "streams" /\ UNCHANGED <<taken, events, cpc, since, until>>
    BY <1>6 DEF CopyStreams, clientVars
  <2>2. IsInjective(round') /\ ToSet(round') \subseteq Streamer
        /\ \A c \in ToSet(round') : cpc[c] = "in" /\ Matches(events[taken], c)
    BY <1>0, <1>6, CopyStreamsFacts DEF Open
  <2>3. \A c \in Streamer : c \in Client /\ Passed(c) = taken - 1
    BY <1>1, <2>1, PassedIs, PushAssumption DEF Passed, Client
  <2>4. \A c \in ToSet(round') : taken \in Due(c, taken)
    BY <1>4, <2>1, <2>2, <2>3
  <2>5. \A c \in ToSet(round') : taken' \in Due(c, taken)'
    BY <2>1, <2>4 DEF Due
  <2>6. CASE dpc' = "put"
    BY <2>1, <2>2, <2>5, <2>6 DEF Rounds
  <2>7. QED
    BY <1>0, <1>2, <1>6, <2>6, CopyStreamsFacts
<1>7. CASE TakeEvent
  BY <1>0, <1>2, <1>7 DEF TakeEvent, Rounds
<1>8. CASE Post
  BY <1>2, <1>3, <1>8 DEF Post, Advance
<1>9. CASE Put
  BY <1>2, <1>3, <1>9 DEF Put, Advance
<1>10. QED
  BY <1>0, <1>3, <1>5, <1>6, <1>7, <1>8, <1>9, FrameFacts DEF Dispatch

LEMMA NextPushing == ASSUME Pushing, [Next]_vars PROVE Pushing'
BY NextPushType, NextInHand, NextCounted, NextKept, NextOpen, NextRounds, NextPeriods
   DEF Pushing

(* The thread and the handlers stay in step with the types of their state  *)
(* (server.py:85-148).                                                     *)
THEOREM PushTypeCorrect == Spec => []TypeOK
<1>1. Pushing /\ [Next]_vars => Pushing'
  BY NextPushing
<1>2. Pushing => TypeOK
  BY DEF Pushing
<1>3. QED
  BY <1>1, <1>2, InitPushing, PTL DEF Spec

-----------------------------------------------------------------------------
(* Who is told of what.                                                    *)

LEMMA NumberSeq == ASSUME NEW q \in Seq(Number) PROVE q \in Seq(Nat)
<1>1. Len(q) \in Nat /\ q \in [1 .. Len(q) -> Number]
  BY LenProperties
<1>2. Number \subseteq Nat
  BY PushAssumption DEF Number
<1>3. q \in [1 .. Len(q) -> Nat]
  BY <1>1, <1>2
<1>4. QED
  BY <1>1, <1>3, SeqDef

LEMMA ListsNothing == Lists(<<>>, {})
<1>1. DOMAIN <<>> = {}
  OBVIOUS
<1>2. QED
  BY <1>1 DEF Lists, ToSet

LEMMA ListsAppend ==
  ASSUME NEW q \in Seq(Nat), NEW D, Lists(q, D), NEW n \in Nat, \A d \in D : d < n
  PROVE  Lists(Append(q, n), D \cup {n})
<1> DEFINE a == Append(q, n)
<1>1. /\ Len(q) \in Nat /\ DOMAIN q = 1 .. Len(q) /\ DOMAIN a = 1 .. (Len(q) + 1)
      /\ \A i \in 1 .. Len(q) : a[i] = q[i]
      /\ a[Len(q) + 1] = n
  BY AppendProperties, LenProperties
<1>2. ToSet(a) = ToSet(q) \cup {n}
  BY AppendSet
<1> HIDE DEF a
<1>3. \A i \in 1 .. Len(q) : q[i] \in D /\ q[i] < n
  BY <1>1 DEF Lists, ToSet
<1>4. ASSUME NEW i \in DOMAIN a, NEW j \in DOMAIN a, i < j PROVE a[i] < a[j]
  <2>1. i \in 1 .. Len(q) /\ (j \in 1 .. Len(q) \/ j = Len(q) + 1)
    BY <1>1, <1>4
  <2>2. QED
    BY <1>1, <1>3, <2>1, <1>4 DEF Lists
<1>5. QED
  BY <1>2, <1>4 DEF Lists, a

(* The front of a list of D lists the smallest of D.                       *)
LEMMA ListsFront ==
  ASSUME NEW m \in Nat, NEW g \in Seq(Nat), NEW b \in Seq(Nat), NEW D \in SUBSET (1 .. m),
         Lists(g \o b, D)
  PROVE  \E n \in 0 .. m : Lists(g, {d \in D : d <= n})
<1> DEFINE c == g \o b
<1>1. /\ Len(g) \in Nat /\ Len(b) \in Nat
      /\ DOMAIN g = 1 .. Len(g) /\ DOMAIN b = 1 .. Len(b)
      /\ DOMAIN c = 1 .. (Len(g) + Len(b))
      /\ \A i \in 1 .. (Len(g) + Len(b)) :
            c[i] = IF i <= Len(g) THEN g[i] ELSE b[i - Len(g)]
  BY ConcatProperties, LenProperties
<1>2. ToSet(c) = ToSet(g) \cup ToSet(b) /\ ToSet(c) = D
  BY ConcatSet DEF Lists
<1>3. \A i, j \in DOMAIN c : i < j => c[i] < c[j]
  BY DEF Lists
<1> HIDE DEF c
<1>4. \A i \in DOMAIN g : i \in DOMAIN c /\ c[i] = g[i]
  BY <1>1
<1>5. \A i, j \in DOMAIN g : i < j => g[i] < g[j]
  BY <1>3, <1>4
<1>6. CASE b = <<>>
  <2>1. ToSet(b) = {}
    BY <1>6 DEF ToSet
  <2>2. ToSet(g) = {d \in D : d <= m}
    <3>1. \A d \in D : d <= m
      OBVIOUS
    <3>2. ToSet(g) = D
      BY <1>2, <2>1
    <3>3. QED
      BY <3>1, <3>2
  <2>3. QED
    BY <1>5, <2>2 DEF Lists
<1>7. CASE b # <<>>
  <2>1. 1 \in DOMAIN b
    <3>1. Len(b) # 0
      BY <1>7, EmptySeq
    <3>2. QED
      BY <1>1, <3>1
  <2>2. b[1] \in D
    BY <1>2, <2>1 DEF ToSet
  <2>3. PICK n \in 0 .. m : b[1] = n + 1
    <3>1. b[1] \in 1 .. m
      BY <2>2
    <3>2. b[1] - 1 \in 0 .. m /\ b[1] = (b[1] - 1) + 1
      BY <3>1
    <3>3. QED
      BY <3>2
  <2>4. Len(g) + 1 \in DOMAIN c /\ c[Len(g) + 1] = n + 1
    <3>1. PICK k \in 1 .. (Len(g) + Len(b)) : k = Len(g) + 1
      BY <1>1, <2>1
    <3>2. ~(k <= Len(g)) /\ k - Len(g) = 1
      BY <1>1, <3>1
    <3>3. c[k] = b[k - Len(g)]
      BY <1>1, <3>2
    <3>4. QED
      BY <1>1, <2>3, <3>1, <3>2, <3>3
  <2>5. ASSUME NEW i \in DOMAIN g PROVE g[i] \in D /\ g[i] <= n
    <3>1. g[i] \in D /\ g[i] \in Nat
      <4>1. \A d \in D : d \in Nat
        OBVIOUS
      <4>2. g[i] \in ToSet(g)
        BY DEF ToSet
      <4>3. QED
        BY <1>2, <4>1, <4>2
    <3>2. g[i] < n + 1
      <4>1. i < Len(g) + 1 /\ i \in DOMAIN c /\ c[i] = g[i]
        BY <1>1, <1>4
      <4>2. QED
        BY <1>3, <2>4, <4>1
    <3>3. QED
      BY <3>1, <3>2
  <2>6. ASSUME NEW j \in DOMAIN b, b[j] <= n PROVE b[j] \in ToSet(g)
    <3>1. Len(g) + j \in DOMAIN c /\ c[Len(g) + j] = b[j]
      BY <1>1
    <3>2. j = 1 \/ Len(g) + 1 < Len(g) + j
      BY <1>1
    <3>3. b[j] \in Nat
      BY <1>1, ElementOfSeq
    <3>4. b[j] >= n + 1
      BY <1>3, <2>3, <2>4, <3>1, <3>2, <3>3
    <3>5. QED
      BY <2>6, <3>3, <3>4
  <2>7. ToSet(g) = {d \in D : d <= n}
    <3>1. ToSet(g) \subseteq {d \in D : d <= n}
      BY <2>5 DEF ToSet
    <3>2. ASSUME NEW d \in D, d <= n PROVE d \in ToSet(g)
      BY <1>2, <2>6, <3>2 DEF ToSet
    <3>3. QED
      BY <3>1, <3>2
  <2>8. QED
    BY <1>5, <2>7 DEF Lists
<1>8. QED
  BY <1>6, <1>7

(* One event more is due, or none.                                         *)
LEMMA DueFacts ==
  ASSUME NEW c, NEW n \in Nat
  PROVE  /\ Due(c, n) \in SUBSET (1 .. n)
         /\ n + 1 \in Due(c, n + 1) => Due(c, n + 1) = Due(c, n) \cup {n + 1}
         /\ n + 1 \notin Due(c, n + 1) => Due(c, n + 1) = Due(c, n)
         /\ \A m \in 0 .. n : {d \in Due(c, n) : d <= m} = Due(c, m)
<1>1. \A i : i \in 1 .. (n + 1) <=> (i \in 1 .. n \/ i = n + 1)
  OBVIOUS
<1>2. \A m \in 0 .. n : \A i : i \in 1 .. m <=> (i \in 1 .. n /\ i <= m)
  OBVIOUS
<1>3. QED
  BY <1>1, <1>2 DEF Due

Told(c) == Passed(c) - IF Waiting(c) THEN 1 ELSE 0

LEMMA ToldFacts ==
  ASSUME TypeOK, InHand, Rounds, NEW c \in Client
  PROVE  /\ Told(c) = IF Waiting(c) THEN Passed(c) - 1 ELSE Passed(c)
         /\ Told(c) \in Nat /\ Told(c) <= Passed(c) /\ Passed(c) \in 0 .. taken
         /\ Waiting(c) => c \in ToSet(round)
<1>1. Passed(c) \in 0 .. taken /\ taken \in Nat
  BY PassedFacts DEF Passed
<1>2. ASSUME Waiting(c) PROVE c \in ToSet(round) /\ Passed(c) > 0
  <2>1. PICK i \in at .. Len(round) : round[i] = c
    BY <1>2 DEF Waiting
  <2>2. at \in DOMAIN round /\ DOMAIN round = 1 .. Len(round) /\ Len(round) \in Nat
    BY <1>2, LenProperties DEF Waiting, TypeOK
  <2>3. i \in DOMAIN round
    BY <2>1, <2>2
  <2>4. c \in ToSet(round)
    BY <2>1, <2>3 DEF ToSet
  <2>5. Passed(c) = taken /\ dpc # "get"
    BY <1>2, <2>4, RoundPassed DEF Waiting
  <2>6. QED
    BY <2>4, <2>5 DEF InHand
<1>3. Told(c) = IF Waiting(c) THEN Passed(c) - 1 ELSE Passed(c)
  <2>1. \A n \in Int : n - 0 = n
    OBVIOUS
  <2>2. QED
    BY <1>1, <2>1 DEF Told
<1>4. QED
  BY <1>1, <1>2, <1>3

(* After a copy, who is in it waits; after a step, who was its turn does   *)
(* not wait any more.                                                      *)
LEMMA CopyWaits ==
  ASSUME round' \in Seq(Client), at' = 1,
         dpc' \in {"post", "put"} \/ round' = <<>>, NEW c
  PROVE  Waiting(c)' <=> c \in ToSet(round')
<1>1. Len(round') \in Nat /\ DOMAIN round' = 1 .. Len(round')
  BY LenProperties
<1>2. CASE round' = <<>>
  BY <1>1, <1>2, EmptySeq DEF Waiting, ToSet
<1>3. CASE dpc' \in {"post", "put"}
  BY <1>1, <1>3 DEF Waiting, ToSet
<1>4. QED
  BY <1>2, <1>3

LEMMA TurnWaits ==
  ASSUME TypeOK, Rounds, dpc \in {"post", "put"}, NEW next \in {"streams", "get"},
         Advance(next), NEW c
  PROVE  /\ Waiting(c)' <=> Waiting(c) /\ c # round[at]
         /\ Waiting(round[at]) /\ round[at] \in ToSet(round)
<1>1. at \in DOMAIN round /\ DOMAIN round = 1 .. Len(round) /\ Len(round) \in Nat
  BY LenProperties DEF TypeOK
<1>2. \A i \in at .. Len(round) : i # at => round[i] # round[at]
  BY <1>1 DEF Rounds, IsInjective
<1>3. Waiting(c) <=> \E i \in at .. Len(round) : round[i] = c
  BY DEF Waiting
<1>4. Waiting(round[at]) /\ round[at] \in ToSet(round)
  BY <1>1 DEF Waiting, ToSet
<1>5. CASE at < Len(round)
  <2>1. at' = at + 1 /\ dpc' = dpc /\ round' = round
    BY <1>5 DEF Advance
  <2>2. Waiting(c)' <=> \E i \in at + 1 .. Len(round) : round[i] = c
    BY <2>1 DEF Waiting
  <2>3. \A i : i \in at .. Len(round) <=> (i = at \/ i \in at + 1 .. Len(round))
    BY <1>1
  <2>4. \A i \in at + 1 .. Len(round) : i # at
    BY <1>1
  <2>5. QED
    BY <1>2, <1>3, <1>4, <2>2, <2>3, <2>4
<1>6. CASE ~(at < Len(round))
  <2>1. dpc' = next
    BY <1>6 DEF Advance
  <2>2. ~Waiting(c)'
    BY <2>1 DEF Waiting
  <2>3. \A i \in at .. Len(round) : i = at
    BY <1>1, <1>6
  <2>4. QED
    BY <1>3, <1>4, <2>2, <2>3
<1>7. QED
  BY <1>5, <1>6

(* What has been passed after a step of the dispatcher.                    *)
LEMMA PassedNext ==
  ASSUME TypeOK, InHand, [Next]_vars
  PROVE  /\ taken' \in Nat
         /\ HooksPassed' = IF dpc' = "hooks" THEN taken' - 1 ELSE taken'
         /\ StreamsPassed' =
               IF dpc' \in {"hooks", "post", "streams"} THEN taken' - 1 ELSE taken'
<1>1. taken \in Nat /\ (taken' = taken \/ taken' = taken + 1)
  BY PassedFacts DEF Next, vars, dispatcherVars, Emit, Dispatch, TakeEvent, CopyHooks,
     Post, CopyStreams, Put, HookStep, TakeId, CountId, Register, Unsubscribe,
     StreamStep, Connect, WriteEvent, Disconnect
<1>2. taken' \in Nat
  BY <1>1
<1>3. \A n \in Nat : n - 0 = n
  OBVIOUS
<1>4. QED
  BY <1>2, <1>3 DEF HooksPassed, StreamsPassed

Served(c) == (Post \/ Put) /\ c = round[at]

(* A step of the dispatcher takes what a client is to have been told one   *)
(* further when it is its turn, and otherwise leaves it as it is.          *)
LEMMA DispatchTold ==
  ASSUME Pushing, Dispatch, NEW c \in Client,
         cpc[c] = "in" \/ (c \in Hook /\ cpc[c] = "out"), c \in Hook => ~SharesId(c)
  PROVE  /\ Served(c) => /\ Due(c, Told(c))' = Due(c, Told(c)) \cup {taken}
                         /\ taken \in Nat
                         /\ \A d \in Due(c, Told(c)) : d < taken
         /\ ~Served(c) => Due(c, Told(c))' = Due(c, Told(c))
<1>0. TypeOK /\ InHand /\ Kept /\ Open /\ Rounds /\ Periods
  BY DEF Pushing
<1>1. [Next]_vars /\ UNCHANGED <<events, webhooks, sseQueues, wid, cpc, since, until>>
  BY DEF Next, Dispatch, TakeEvent, CopyHooks, Post, CopyStreams, Put, hookVars,
         streamVars, clientVars
<1>2. Rounds'
  BY <1>1, NextRounds
<1>3. /\ taken \in Nat /\ taken <= MaxEvents /\ (dpc # "get" => taken > 0)
      /\ Told(c) = IF Waiting(c) THEN Passed(c) - 1 ELSE Passed(c)
      /\ Told(c) \in Nat /\ Passed(c) \in 0 .. taken
      /\ since[c] \in Nat /\ until[c] \in Nat
  BY <1>0, PassedFacts, ToldFacts, PushAssumption DEF InHand, TypeOK
<1>4. PICK n \in Nat : n = Told(c)
  BY <1>3
<1>5. ASSUME NEW m \in Nat, Told(c)' = m PROVE Due(c, Told(c))' = Due(c, m)
  BY <1>1, <1>5 DEF Due, Matches
<1>6. ASSUME Passed(c)' \in Nat
      PROVE  Told(c)' = IF Waiting(c)' THEN Passed(c)' - 1 ELSE Passed(c)'
  <2>1. \A i \in Nat : i - 0 = i
    OBVIOUS
  <2>2. QED
    BY <1>6, <2>1 DEF Told
<1>7. ASSUME Passed(c)' = Passed(c), Waiting(c)' <=> Waiting(c), ~Served(c)
      PROVE  ~Served(c) /\ Due(c, Told(c))' = Due(c, Told(c))
  <2>1. Told(c)' = n
    BY <1>3, <1>4, <1>6, <1>7
  <2>2. QED
    BY <1>4, <1>5, <1>7, <2>1
<1>8. ASSUME Passed(c) = taken - 1, Passed(c)' = taken, ~Waiting(c), taken > 0,
             ~Waiting(c)' => taken \notin Due(c, taken), ~Served(c)
      PROVE  ~Served(c) /\ Due(c, Told(c))' = Due(c, Told(c))
  <2>1. n + 1 = taken /\ n = Told(c)
    BY <1>3, <1>4, <1>8
  <2>2. CASE Waiting(c)'
    <3>1. Told(c)' = n
      BY <1>3, <1>6, <1>8, <2>1, <2>2
    <3>2. QED
      BY <1>4, <1>5, <1>8, <3>1
  <2>3. CASE ~Waiting(c)'
    <3>1. Told(c)' = taken
      BY <1>3, <1>6, <1>8, <2>3
    <3>2. Due(c, Told(c))' = Due(c, n + 1) /\ n + 1 \notin Due(c, n + 1)
      BY <1>3, <1>5, <1>8, <2>1, <2>3, <3>1
    <3>3. QED
      BY <1>8, <2>1, <3>2, DueFacts
  <2>4. QED
    BY <2>2, <2>3
<1>9. ASSUME cpc[c] = "out", Passed(c) = taken - 1 PROVE taken \notin Due(c, taken)
  BY <1>0, <1>3, <1>9 DEF Due, Periods
<1>10. /\ c \in Hook => Passed(c)' = HooksPassed' /\ Passed(c) = HooksPassed
       /\ c \in Streamer => Passed(c)' = StreamsPassed' /\ Passed(c) = StreamsPassed
  BY PushAssumption DEF Passed, Client
<1>11. CASE TakeEvent
  <2>1. dpc = "get" /\ dpc' = "hooks" /\ taken' = taken + 1
    BY <1>11 DEF TakeEvent
  <2>2. ~Served(c) /\ ~Waiting(c) /\ ~Waiting(c)'
    BY <2>1 DEF Served, Post, Put, Waiting
  <2>3. Passed(c)' = Passed(c)
    BY <1>0, <1>1, <1>3, <1>10, <2>1, PassedIs, PassedNext DEF Client
  <2>4. QED
    BY <1>7, <2>2, <2>3
<1>12. CASE CopyHooks
  <2>1. dpc = "hooks" /\ dpc' \in {"post", "streams"} /\ taken' = taken /\ taken > 0
    BY <1>0, <1>3, <1>12, CopyHooksFacts DEF CopyHooks
  <2>2. ~Served(c) /\ ~Waiting(c)
    BY <2>1 DEF Served, Post, Put, Waiting
  <2>3. Waiting(c)' <=> c \in ToSet(round')
    BY <1>0, <1>12, CopyHooksFacts, CopyWaits
  <2>4. CASE c \in Hook
    <3>1. Passed(c) = taken - 1 /\ Passed(c)' = taken
      BY <1>0, <1>1, <1>3, <1>10, <2>1, <2>4, PassedIs, PassedNext
    <3>2. ASSUME ~Waiting(c)' PROVE taken \notin Due(c, taken)
      <4>1. CASE cpc[c] = "in"
        <5>1. \E i \in DOMAIN webhooks : webhooks[i].client = c
          BY <1>0, <2>4, <4>1 DEF Kept
        <5>2. ~Matches(events[taken], c)
          BY <1>0, <1>12, <2>3, <3>2, <5>1, CopyHooksFacts
        <5>3. QED
          BY <5>2 DEF Due
      <4>2. QED
        BY <1>9, <3>1, <4>1
    <3>3. QED
      BY <1>8, <2>1, <2>2, <3>1, <3>2
  <2>5. CASE c \in Streamer
    <3>1. Passed(c)' = Passed(c)
      BY <1>0, <1>1, <1>3, <1>10, <2>1, <2>5, PassedIs, PassedNext
    <3>2. c \notin ToSet(round')
      <4>1. ToSet(round') = {d \in {webhooks[i].client : i \in DOMAIN webhooks} :
                                Matches(events[taken], d)}
        BY <1>0, <1>12, CopyHooksFacts
      <4>2. \A i \in DOMAIN webhooks : webhooks[i].client \in Hook
        BY <1>0, KeptFacts
      <4>3. QED
        BY <2>5, <4>1, <4>2, PushAssumption
    <3>3. QED
      BY <1>7, <2>2, <2>3, <3>1, <3>2
  <2>6. QED
    BY <2>4, <2>5 DEF Client
<1>13. CASE CopyStreams
  <2>1. dpc = "streams" /\ dpc' \in {"put", "get"} /\ taken' = taken /\ taken > 0
    BY <1>0, <1>3, <1>13, CopyStreamsFacts DEF CopyStreams
  <2>2. ~Served(c) /\ ~Waiting(c)
    BY <2>1 DEF Served, Post, Put, Waiting
  <2>3. Waiting(c)' <=> c \in ToSet(round')
    BY <1>0, <1>13, CopyStreamsFacts, CopyWaits
  <2>4. ToSet(round') = {d \in ToSet(sseQueues) : Matches(events[taken], d)}
    BY <1>0, <1>13, CopyStreamsFacts
  <2>5. CASE c \in Streamer
    <3>1. Passed(c) = taken - 1 /\ Passed(c)' = taken
      BY <1>0, <1>1, <1>3, <1>10, <2>1, <2>5, PassedIs, PassedNext
    <3>2. c \in ToSet(sseQueues)
      BY <1>0, <2>5, PushAssumption DEF Open
    <3>3. ASSUME ~Waiting(c)' PROVE taken \notin Due(c, taken)
      BY <2>3, <2>4, <3>2, <3>3 DEF Due
    <3>4. QED
      BY <1>8, <2>1, <2>2, <3>1, <3>3
  <2>6. CASE c \in Hook
    <3>1. Passed(c)' = Passed(c)
      BY <1>0, <1>1, <1>3, <1>10, <2>1, <2>6, PassedIs, PassedNext
    <3>2. c \notin ToSet(round')
      BY <1>0, <2>4, <2>6, PushAssumption DEF Open
    <3>3. QED
      BY <1>7, <2>2, <2>3, <3>1, <3>2
  <2>7. QED
    BY <2>5, <2>6 DEF Client
<1>14. CASE Post \/ Put
  <2>1. /\ dpc \in {"post", "put"} /\ taken' = taken
        /\ dpc = "post" => dpc' \in {"post", "streams"}
        /\ dpc = "put" => dpc' \in {"put", "get"}
        /\ \E next \in {"streams", "get"} : Advance(next)
    BY <1>14 DEF Post, Put, Advance
  <2>2. Passed(c)' = Passed(c)
    BY <1>0, <1>1, <1>3, <1>10, <2>1, PassedIs, PassedNext DEF Client
  <2>3. /\ Waiting(c)' <=> Waiting(c) /\ c # round[at]
        /\ Waiting(round[at]) /\ round[at] \in ToSet(round)
    BY <1>0, <2>1, TurnWaits
  <2>4. CASE c # round[at]
    BY <1>7, <2>2, <2>3, <2>4 DEF Served
  <2>5. CASE c = round[at]
    <3>1. c \in ToSet(round) /\ Waiting(c) /\ ~Waiting(c)' /\ Served(c)
      BY <1>14, <2>3, <2>5 DEF Served
    <3>2. Passed(c) = taken /\ taken \in Due(c, taken)
      BY <1>0, <3>1, RoundPassed DEF Rounds
    <3>3. n + 1 = taken /\ Told(c)' = taken
      BY <1>3, <1>4, <1>6, <2>2, <3>1, <3>2
    <3>4. Due(c, n + 1) = Due(c, n) \cup {n + 1} /\ Due(c, n) \in SUBSET (1 .. n)
      BY <3>2, <3>3, DueFacts
    <3>5. Due(c, Told(c))' = Due(c, taken)
      BY <1>3, <1>5, <3>3
    <3>6. \A d \in Due(c, n) : d < taken
      BY <3>3, <3>4
    <3>7. QED
      BY <1>3, <1>4, <3>1, <3>3, <3>4, <3>5, <3>6
  <2>6. QED
    BY <2>4, <2>5
<1>15. QED
  BY <1>11, <1>12, <1>13, <1>14 DEF Dispatch

(* While the dispatcher rests, a client that is there has been told of the *)
(* same events, and for one that has just come there were none.            *)
LEMMA RequestTold ==
  ASSUME Pushing, [Next]_vars, UNCHANGED <<taken, dpc, round, at>>, NEW c \in Client
  PROVE  /\ cpc[c] \in {"in", "out"} => Due(c, Told(c))' = Due(c, Told(c))
         /\ cpc[c] \notin {"in", "out"} /\ cpc'[c] = "in" => Due(c, Told(c))' = {}
<1>0. TypeOK /\ InHand /\ Rounds /\ Periods /\ TypeOK'
  BY NextPushType DEF Pushing
<1>1. /\ Told(c) \in Nat /\ Told(c) <= Passed(c) /\ Passed(c) \in Nat
      /\ Told(c) <= Len(events) /\ Told(c) <= MaxEvents
  BY <1>0, PassedFacts, ToldFacts, PushAssumption
<1>2. PICK n \in Nat : n = Told(c)
  BY <1>1
<1>3. Passed(c)' = Passed(c) /\ Told(c)' = n
  BY <1>2 DEF Passed, HooksPassed, StreamsPassed, Told, Waiting
<1>4. Due(c, Told(c))' = Due(c, n)'
  BY <1>3 DEF Due
<1>5. CASE cpc[c] \in {"in", "out"}
  <2>1. since'[c] = since[c] /\ until[c] \in Nat /\ until'[c] \in Nat
    <3>1. since'[c] = since[c]
      BY <1>0, <1>5, RequestFacts
    <3>2. until[c] \in 0 .. MaxEvents /\ until'[c] \in 0 .. MaxEvents /\ MaxEvents \in Nat
      BY <1>0, PushAssumption DEF TypeOK
    <3>3. QED
      BY <3>1, <3>2
  <2>2. until'[c] = until[c] \/ (cpc[c] = "in" /\ until'[c] = Passed(c))
    BY <1>0, <1>5, RequestFacts
  <2>3. cpc[c] = "in" => until[c] = MaxEvents
    BY <1>0 DEF Periods
  <2>4. until'[c] = until[c] \/ (n <= until[c] /\ n <= until'[c])
    BY <1>1, <1>2, <2>2, <2>3
  <2>5. Due(c, n)' = Due(c, n)
    BY <1>0, <1>1, <1>2, <2>1, <2>4, DueStands
  <2>6. QED
    BY <1>2, <1>4, <1>5, <2>5
<1>6. CASE cpc[c] \notin {"in", "out"} /\ cpc'[c] = "in"
  <2>1. since'[c] = Passed(c)
    BY <1>0, <1>6, RequestFacts
  <2>2. Due(c, n)' = {}
    BY <1>1, <1>2, <2>1 DEF Due
  <2>3. QED
    BY <1>4, <1>6, <2>2
<1>7. QED
  BY <1>5, <1>6

LEMMA ServedMoves ==
  ASSUME TypeOK, NEW c, Served(c) PROVE ~UNCHANGED <<taken, dpc, round, at>>
<1>1. at \in Nat
  BY DEF TypeOK
<1>2. CASE Post
  <2>1. dpc = "post" /\ (at' = at + 1 \/ dpc' = "streams")
    BY <1>2 DEF Post, Advance
  <2>2. QED
    BY <1>1, <2>1
<1>3. CASE Put
  <2>1. dpc = "put" /\ (at' = at + 1 \/ dpc' = "get")
    BY <1>3 DEF Put, Advance
  <2>2. QED
    BY <1>1, <2>1
<1>4. QED
  BY <1>2, <1>3 DEF Served

(* What a callback has received is changed by its own turn alone.          *)
LEMMA HookHears ==
  ASSUME Pushing, [Next]_vars, NEW c \in Hook \ Flaky
  PROVE  /\ Served(c) => got'[c] = Append(got[c], taken)
         /\ ~Served(c) => got'[c] = got[c]
<1>0. TypeOK /\ Rounds
  BY DEF Pushing
<1>1. c \in Client /\ c \notin Streamer /\ got \in [Client -> Seq(Number)]
  BY <1>0, PushAssumption DEF Client, TypeOK
<1>2. CASE Post
  <2>1. \/ got' = [got EXCEPT ![round[at]] = Append(@, taken)]
        \/ round[at] \in Flaky /\ got' = got
    BY <1>2 DEF Post, Receive
  <2>2. QED
    BY <1>1, <1>2, <2>1 DEF Served
<1>3. CASE Put
  <2>1. got' = got
    BY <1>3 DEF Put
  <2>2. c # round[at]
    BY <1>0, <1>1, <1>3 DEF Put, Rounds, TypeOK, ToSet
  <2>3. QED
    BY <2>1, <2>2 DEF Served
<1>4. CASE ~Post /\ ~Put
  <2>1. got'[c] = got[c]
    <3>1. ASSUME NEW d \in Streamer, WriteEvent(d) PROVE got'[c] = got[c]
      BY <1>1, <3>1 DEF WriteEvent, Receive
    <3>2. QED
      BY <1>4, <3>1 DEF Next, vars, Emit, Dispatch, TakeEvent, CopyHooks, CopyStreams,
         HookStep, TakeId, CountId, Register, Unsubscribe, StreamStep, Connect, Disconnect
  <2>2. QED
    BY <1>4, <2>1 DEF Served
<1>5. QED
  BY <1>2, <1>3, <1>4

LEMMA NextHooksHear ==
  ASSUME Pushing, HooksHearAll, [Next]_vars PROVE HooksHearAll'
<1>0. TypeOK /\ InHand /\ Rounds /\ Periods
  BY DEF Pushing
<1> SUFFICES ASSUME NEW c \in Hook \ Flaky, cpc'[c] \in {"in", "out"}, ~SharesId(c)'
             PROVE  Lists(got'[c], Due(c, Told(c))')
  <2>1. ASSUME NEW c \in Hook PROVE Told(c)' = (HooksPassed - IF Waiting(c) THEN 1 ELSE 0)'
    BY DEF Told, Passed
  <2>2. QED
    BY <2>1 DEF HooksHearAll, Lists, Due
<1>1. c \in Client /\ c \in Hook /\ c \notin Streamer /\ got[c] \in Seq(Nat)
  <2>1. c \in Client /\ c \in Hook /\ c \notin Streamer
    BY PushAssumption DEF Client
  <2>2. got[c] \in Seq(Number)
    BY <1>0, <2>1 DEF TypeOK
  <2>3. QED
    BY <2>1, <2>2, NumberSeq
<1>2. CASE cpc[c] \in {"in", "out"}
  <2>1. ~SharesId(c)
    BY <1>0, <1>2, SharedStays
  <2>2. Lists(got[c], Due(c, Told(c)))
    BY <1>2, <2>1 DEF HooksHearAll, Told, Passed
  <2>3. CASE Dispatch
    <3>1. cpc[c] = "in" \/ (c \in Hook /\ cpc[c] = "out")
      BY <1>1, <1>2
    <3>2. /\ Served(c) => /\ Due(c, Told(c))' = Due(c, Told(c)) \cup {taken}
                          /\ taken \in Nat
                          /\ \A d \in Due(c, Told(c)) : d < taken
          /\ ~Served(c) => Due(c, Told(c))' = Due(c, Told(c))
      BY <1>1, <2>1, <2>3, <3>1, DispatchTold
    <3>3. CASE Served(c)
      <4>1. got'[c] = Append(got[c], taken)
        BY <3>3, HookHears
      <4>2. Lists(Append(got[c], taken), Due(c, Told(c)) \cup {taken})
        BY <1>1, <2>2, <3>2, <3>3, ListsAppend
      <4>3. QED
        BY <3>2, <3>3, <4>1, <4>2
    <3>4. CASE ~Served(c)
      BY <2>2, <3>2, <3>4, HookHears
    <3>5. QED
      BY <3>3, <3>4
  <2>4. CASE UNCHANGED <<taken, dpc, round, at>>
    <3>1. ~Served(c)
      BY <1>0, <2>4, ServedMoves
    <3>2. Due(c, Told(c))' = Due(c, Told(c))
      BY <1>1, <1>2, <2>4, RequestTold
    <3>3. QED
      BY <2>2, <3>1, <3>2, HookHears
  <2>5. QED
    BY <1>0, <2>3, <2>4, FrameFacts
<1>3. CASE cpc[c] \notin {"in", "out"}
  <2>1. cpc'[c] = "in"
    BY <1>0, <1>1, <1>3, RequestFacts
  <2>2. UNCHANGED <<taken, dpc, round, at>>
    BY <1>0, <1>3, <2>1, FrameFacts
  <2>3. ~Served(c) /\ got[c] = <<>>
    BY <1>0, <1>1, <1>3, <2>2, ServedMoves DEF Periods
  <2>4. Due(c, Told(c))' = {}
    BY <1>1, <1>3, <2>1, <2>2, RequestTold
  <2>5. QED
    BY <2>3, <2>4, HookHears, ListsNothing
<1>4. QED
  BY <1>2, <1>3

(* One element more at the end, or moved from one part to the other.       *)
LEMMA JoinFacts ==
  ASSUME NEW S, NEW q \in Seq(S), NEW b \in Seq(S), NEW e \in S
  PROVE  /\ q \o Append(b, e) = Append(q \o b, e)
         /\ b # <<>> => Append(q, Head(b)) \o Tail(b) = q \o b
<1>1. q \o Append(b, e) = Append(q \o b, e)
  <2>1. Append(b, e) = b \o <<e>> /\ Append(q \o b, e) = (q \o b) \o <<e>> /\ <<e>> \in Seq(S)
    BY AppendIsConcat, ConcatProperties
  <2>2. QED
    BY <2>1, ConcatAssociative
<1>2. ASSUME b # <<>> PROVE Append(q, Head(b)) \o Tail(b) = q \o b
  <2>1. Head(b) \in S /\ Tail(b) \in Seq(S) /\ <<Head(b)>> \in Seq(S)
    BY <1>2, HeadTailProperties
  <2>2. Append(q, Head(b)) = q \o <<Head(b)>>
    BY <2>1, AppendIsConcat
  <2>3. <<Head(b)>> \o Tail(b) = b
    BY <1>2, ConcatSimplifications, HeadTailProperties
  <2>4. (q \o <<Head(b)>>) \o Tail(b) = q \o (<<Head(b)>> \o Tail(b))
    BY <2>1, ConcatAssociative
  <2>5. QED
    BY <2>2, <2>3, <2>4
<1>3. QED
  BY <1>1, <1>2

(* What a stream has received or has in its queue is changed by its own    *)
(* turn alone: writing only moves it on.                                   *)
LEMMA StreamHears ==
  ASSUME Pushing, [Next]_vars, NEW c \in Streamer, cpc'[c] = "in"
  PROVE  /\ Served(c) => got'[c] \o buffer'[c] = Append(got[c] \o buffer[c], taken)
         /\ ~Served(c) => got'[c] \o buffer'[c] = got[c] \o buffer[c]
<1>0. TypeOK /\ InHand /\ Rounds
  BY DEF Pushing
<1>1. /\ c \in Client /\ c \notin Hook
      /\ got \in [Client -> Seq(Number)] /\ buffer \in [Streamer -> Seq(Number)]
      /\ got[c] \in Seq(Number) /\ buffer[c] \in Seq(Number)
  BY <1>0, PushAssumption DEF Client, TypeOK
<1>2. CASE Post
  <2>1. round[at] \in Hook /\ buffer' = buffer
    BY <1>0, <1>2 DEF Post, Rounds, TypeOK, ToSet, streamVars
  <2>2. got' = got \/ got' = [got EXCEPT ![round[at]] = Append(@, taken)]
    BY <1>2 DEF Post, Receive
  <2>3. QED
    BY <1>1, <1>2, <2>1, <2>2 DEF Served
<1>3. CASE Put
  <2>1. got' = got /\ cpc' = cpc
    BY <1>3 DEF Put, clientVars
  <2>2. buffer' = IF cpc[round[at]] = "out" THEN buffer
                  ELSE [buffer EXCEPT ![round[at]] = Append(@, taken)]
    BY <1>3 DEF Put
  <2>3. round[at] \in Streamer /\ taken \in Number
    BY <1>0, <1>3, PassedFacts, PushAssumption
       DEF Put, Rounds, TypeOK, ToSet, InHand, Number
  <2>4. CASE c = round[at]
    <3>1. buffer'[c] = Append(buffer[c], taken)
      BY <1>1, <2>1, <2>2, <2>4
    <3>2. got[c] \o Append(buffer[c], taken) = Append(got[c] \o buffer[c], taken)
      BY <1>1, <2>3, JoinFacts
    <3>3. QED
      BY <1>3, <2>1, <2>4, <3>1, <3>2 DEF Served
  <2>5. CASE c # round[at]
    BY <1>1, <2>1, <2>2, <2>5 DEF Served
  <2>6. QED
    BY <2>4, <2>5
<1>4. CASE ~Post /\ ~Put
  <2>1. CASE UNCHANGED <<got, buffer>>
    BY <1>4, <2>1 DEF Served
  <2>2. ASSUME NEW d \in Streamer, d # c, WriteEvent(d) \/ Disconnect(d)
        PROVE  got'[c] = got[c] /\ buffer'[c] = buffer[c]
    <3>1. /\ got' = got \/ got' = [got EXCEPT ![d] = Append(@, Head(buffer[d]))]
          /\ \E b : buffer' = [buffer EXCEPT ![d] = b]
      BY <2>2 DEF WriteEvent, Disconnect, Receive
    <3>2. QED
      BY <1>1, <2>2, <3>1
  <2>3. CASE WriteEvent(c)
    <3>1. buffer[c] # <<>> /\ buffer'[c] = Tail(buffer[c])
          /\ got'[c] = Append(got[c], Head(buffer[c]))
      BY <1>1, <2>3 DEF WriteEvent, Receive
    <3>2. Head(buffer[c]) \in Number
      BY <1>1, <3>1, HeadTailProperties
    <3>3. QED
      BY <1>1, <1>4, <3>1, <3>2, JoinFacts DEF Served
  <2>4. ~Disconnect(c)
    BY <1>0, <1>1 DEF Disconnect, Goto, TypeOK
  <2>5. \/ UNCHANGED <<got, buffer>>
        \/ \E d \in Streamer : WriteEvent(d) \/ Disconnect(d)
    BY <1>4 DEF Next, vars, Emit, Dispatch, TakeEvent, CopyHooks, CopyStreams,
       HookStep, TakeId, CountId, Register, Unsubscribe, StreamStep, Connect, streamVars
  <2>6. QED
    BY <1>4, <2>1, <2>2, <2>3, <2>4, <2>5 DEF Served
<1>5. QED
  BY <1>2, <1>3, <1>4

(* The queue of an open stream.                                            *)
LEMMA NextQueued ==
  ASSUME Pushing, StreamsHearAll, [Next]_vars, NEW c \in Streamer, cpc'[c] = "in"
  PROVE  Lists(got'[c] \o buffer'[c], Due(c, Told(c))')
<1>0. TypeOK /\ InHand /\ Rounds /\ Periods
  BY DEF Pushing
<1>1. c \in Client /\ c \notin Hook /\ got[c] \in Seq(Number) /\ buffer[c] \in Seq(Number)
  BY <1>0, PushAssumption DEF Client, TypeOK
<1>2. got[c] \o buffer[c] \in Seq(Nat)
  BY <1>1, ConcatProperties, NumberSeq
<1>3. CASE cpc[c] = "in"
  <2>1. Lists(got[c] \o buffer[c], Due(c, Told(c)))
    BY <1>1, <1>3 DEF StreamsHearAll, Told, Passed
  <2>2. CASE Dispatch
    <3>1. /\ Served(c) => /\ Due(c, Told(c))' = Due(c, Told(c)) \cup {taken}
                          /\ taken \in Nat
                          /\ \A d \in Due(c, Told(c)) : d < taken
          /\ ~Served(c) => Due(c, Told(c))' = Due(c, Told(c))
      BY <1>1, <1>3, <2>2, DispatchTold
    <3>2. CASE Served(c)
      <4>1. got'[c] \o buffer'[c] = Append(got[c] \o buffer[c], taken)
        BY <3>2, StreamHears
      <4>2. Lists(Append(got[c] \o buffer[c], taken), Due(c, Told(c)) \cup {taken})
        BY <1>2, <2>1, <3>1, <3>2, ListsAppend
      <4>3. QED
        BY <3>1, <3>2, <4>1, <4>2
    <3>3. CASE ~Served(c)
      BY <2>1, <3>1, <3>3, StreamHears
    <3>4. QED
      BY <3>2, <3>3
  <2>3. CASE UNCHANGED <<taken, dpc, round, at>>
    <3>1. ~Served(c)
      BY <1>0, <2>3, ServedMoves
    <3>2. Due(c, Told(c))' = Due(c, Told(c))
      BY <1>1, <1>3, <2>3, RequestTold
    <3>3. QED
      BY <2>1, <3>1, <3>2, StreamHears
  <2>4. QED
    BY <1>0, <2>2, <2>3, FrameFacts
<1>4. CASE cpc[c] # "in"
  <2>1. cpc[c] \notin {"in", "out"}
    BY <1>0, <1>1, <1>4, RequestFacts
  <2>2. UNCHANGED <<taken, dpc, round, at>>
    BY <1>0, <1>4, FrameFacts
  <2>3. ~Served(c) /\ got[c] = <<>> /\ buffer[c] = <<>>
    BY <1>0, <1>1, <2>1, <2>2, ServedMoves DEF Periods
  <2>4. Due(c, Told(c))' = {}
    BY <1>1, <2>1, <2>2, RequestTold
  <2>5. <<>> \o <<>> = <<>>
    BY EmptySeq, ConcatSimplifications
  <2>6. QED
    BY <2>3, <2>4, <2>5, StreamHears, ListsNothing
<1>5. QED
  BY <1>3, <1>4

LEMMA NextStreamsHear ==
  ASSUME Pushing, StreamsHearAll, [Next]_vars PROVE StreamsHearAll'
<1>0. /\ TypeOK /\ InHand /\ Rounds /\ Periods
      /\ TypeOK' /\ InHand' /\ Rounds' /\ Periods'
  BY NextPushing DEF Pushing
<1>1. /\ StreamsPassed \in 0 .. taken /\ taken <= Len(events) /\ taken \in Nat
      /\ Len(events) <= MaxEvents /\ Len(events) \in Nat /\ MaxEvents \in Nat
      /\ StreamsPassed' >= StreamsPassed /\ StreamsPassed' \in Nat
  <2>1. /\ StreamsPassed \in 0 .. taken /\ taken <= Len(events) /\ taken \in Nat
        /\ Len(events) <= MaxEvents /\ Len(events) \in Nat /\ MaxEvents \in Nat
        /\ StreamsPassed' >= StreamsPassed
    BY <1>0, PassedFacts, PassedGrows, PushAssumption
  <2>2. taken' \in Nat
        /\ StreamsPassed' = IF dpc' \in {"hooks", "post", "streams"} THEN taken' - 1
                            ELSE taken'
    BY <1>0, PassedNext
  <2>3. dpc' # "get" => taken' > 0
    BY <1>0 DEF InHand
  <2>4. \A i \in Nat : i > 0 => i - 1 \in Nat
    OBVIOUS
  <2>5. StreamsPassed' \in Nat
    BY <2>2, <2>3, <2>4
  <2>6. QED
    BY <2>1, <2>5
<1> SUFFICES ASSUME NEW c \in Streamer
             PROVE  /\ cpc'[c] = "in" => Lists(got'[c] \o buffer'[c], Due(c, Told(c))')
                    /\ \E n \in 0 .. StreamsPassed' : Lists(got'[c], Due(c, n)')
  <2>1. ASSUME NEW c \in Streamer PROVE Told(c)' = (StreamsPassed - IF Waiting(c) THEN 1 ELSE 0)'
    BY PushAssumption DEF Told, Passed
  <2>2. QED
    BY <2>1 DEF StreamsHearAll, Lists, Due
<1>2. /\ c \in Client /\ c \notin Hook /\ Passed(c) = StreamsPassed
      /\ Passed(c)' = StreamsPassed'
      /\ got'[c] \in Seq(Number) /\ buffer'[c] \in Seq(Number)
  BY <1>0, PushAssumption DEF Client, TypeOK, Passed
<1>3. cpc'[c] = "in" => Lists(got'[c] \o buffer'[c], Due(c, Told(c))')
  BY NextQueued
<1>4. CASE cpc'[c] = "in"
  <2>1. PICK m \in 0 .. StreamsPassed' : Told(c)' = m
    <3>1. Waiting(c)' => StreamsPassed' > 0
      <4>1. ASSUME Waiting(c)' PROVE dpc' = "put" \/ dpc' = "post"
        BY <4>1 DEF Waiting
      <4>2. ASSUME Waiting(c)' PROVE c \in ToSet(round')
        <5>1. at' \in DOMAIN round' /\ DOMAIN round' = 1 .. Len(round')
              /\ Len(round') \in Nat
          BY <1>0, <4>1, <4>2, LenProperties DEF TypeOK
        <5>2. PICK i \in at' .. Len(round') : round'[i] = c
          BY <4>2 DEF Waiting
        <5>3. i \in DOMAIN round'
          BY <5>1, <5>2
        <5>4. QED
          BY <5>2, <5>3 DEF ToSet
      <4>3. ASSUME Waiting(c)' PROVE dpc' = "put" /\ taken' > 0
        BY <1>0, <1>2, <4>1, <4>2, <4>3 DEF Rounds, InHand
      <4>4. QED
        BY <1>0, <4>3, PassedNext
    <3>2. Told(c)' = IF Waiting(c)' THEN StreamsPassed' - 1 ELSE StreamsPassed'
      <4>1. \A i \in Nat : i - 0 = i
        OBVIOUS
      <4>2. QED
        BY <1>1, <1>2, <4>1 DEF Told
    <3>3. Told(c)' \in 0 .. StreamsPassed'
      <4>1. \A i \in Nat : i \in 0 .. i /\ (i > 0 => i - 1 \in 0 .. i)
        OBVIOUS
      <4>2. QED
        BY <1>1, <3>1, <3>2, <4>1
    <3>4. QED
      BY <3>3
  <2>2. m \in Nat
    BY <1>1
  <2>3. PICK D : D = Due(c, Told(c))'
    OBVIOUS
  <2>4. D = Due(c, m)'
    BY <2>1, <2>3 DEF Due
  <2>5. D \in SUBSET (1 .. m)
    BY <2>4 DEF Due
  <2>6. PICK g \in Seq(Nat), b \in Seq(Nat) : g = got'[c] /\ b = buffer'[c]
    BY <1>2, NumberSeq
  <2>7. Lists(g \o b, D)
    BY <1>3, <1>4, <2>3, <2>6
  <2>8. PICK n \in 0 .. m : Lists(g, {d \in D : d <= n})
    BY <2>2, <2>5, <2>7, ListsFront
  <2>9. {d \in D : d <= n} = Due(c, n)'
    <3>1. \A i : i \in 1 .. n <=> (i \in 1 .. m /\ i <= n)
      BY <2>2
    <3>2. QED
      BY <2>4, <3>1 DEF Due
  <2>10. n \in 0 .. StreamsPassed'
    BY <1>1, <2>2
  <2>11. QED
    BY <1>3, <2>6, <2>8, <2>9, <2>10
<1>5. CASE cpc'[c] = "out"
  <2>1. cpc[c] \in {"in", "out"}
    BY <1>0, <1>2, <1>5, RequestFacts
  <2>2. got'[c] = got[c]
    <3>1. CASE Post
      <4>1. round[at] \in Hook
        BY <1>0, <3>1 DEF Post, Rounds, TypeOK, ToSet
      <4>2. got' = got \/ got' = [got EXCEPT ![round[at]] = Append(@, taken)]
        BY <3>1 DEF Post, Receive
      <4>3. QED
        BY <1>0, <1>2, <4>1, <4>2 DEF TypeOK
    <3>2. ASSUME NEW d \in Streamer, WriteEvent(d) PROVE got'[c] = got[c]
      <4>1. cpc' = cpc /\ cpc[d] = "in"
        BY <3>2 DEF WriteEvent, clientVars
      <4>2. QED
        BY <1>0, <1>2, <1>5, <3>2, <4>1 DEF WriteEvent, Receive, TypeOK
    <3>3. QED
      BY <3>1, <3>2 DEF Next, vars, Emit, Dispatch, TakeEvent, CopyHooks, CopyStreams, Put,
       HookStep, TakeId, CountId, Register, Unsubscribe, StreamStep, Connect, Disconnect
  <2>3. PICK n \in 0 .. StreamsPassed : Lists(got[c], Due(c, n))
    BY DEF StreamsHearAll
  <2>4. n \in Nat /\ n <= Len(events) /\ n <= MaxEvents /\ n <= Passed(c)
        /\ n \in 0 .. StreamsPassed'
    BY <1>1, <1>2
  <2>5. since'[c] = since[c]
    BY <1>0, <1>2, <2>1, RequestFacts
  <2>6. until'[c] = until[c] \/ (until[c] = MaxEvents /\ until'[c] = Passed(c))
    BY <1>0, <1>2, <1>5, RequestFacts DEF Periods
  <2>7. Due(c, n)' = Due(c, n)
    BY <1>0, <1>2, <2>4, <2>5, <2>6, DueStands
  <2>8. QED
    BY <1>3, <2>2, <2>3, <2>4, <2>7
<1>6. CASE cpc'[c] \notin {"in", "out"}
  <2>1. got'[c] = <<>>
    BY <1>0, <1>2, <1>6 DEF Periods
  <2>2. Due(c, 0)' = {}
    BY DEF Due
  <2>3. 0 \in 0 .. StreamsPassed'
    BY <1>1
  <2>4. QED
    BY <1>3, <2>1, <2>2, <2>3, ListsNothing
<1>7. QED
  BY <1>4, <1>5, <1>6

LEMMA InitHears == ASSUME Init PROVE HooksHearAll /\ StreamsHearAll
<1>1. HooksHearAll
  BY DEF Init, HooksHearAll, Client
<1>2. StreamsPassed = 0
  BY PassedIs DEF Init
<1>3. ASSUME NEW c \in Streamer PROVE cpc[c] # "in" /\ got[c] = <<>> /\ Due(c, 0) = {}
  BY DEF Init, Client, Due
<1>4. StreamsHearAll
  BY <1>2, <1>3, ListsNothing DEF StreamsHearAll
<1>5. QED
  BY <1>1, <1>4

(* A callback whose id is its own is called once for each event that       *)
(* matches between its registration and its removal, in their order, and   *)
(* for no other, whoever else registers, fails or leaves in between        *)
(* (server.py:94-106).                                                     *)
THEOREM HooksAreToldAll == Spec => []HooksHearAll
<1>1. Pushing /\ HooksHearAll /\ [Next]_vars => Pushing' /\ HooksHearAll'
  BY NextPushing, NextHooksHear
<1>2. Init => Pushing /\ HooksHearAll
  BY InitPushing, InitHears
<1>3. QED
  BY <1>1, <1>2, PTL DEF Spec

(* What an open stream has received and what is in its queue are together  *)
(* the events that match since it was opened, each once and in order; what *)
(* any stream ever received are the first of them (server.py:107-112,      *)
(* 128-148).                                                               *)
THEOREM StreamsAreToldAll == Spec => []StreamsHearAll
<1>1. Pushing /\ StreamsHearAll /\ [Next]_vars => Pushing' /\ StreamsHearAll'
  BY NextPushing, NextStreamsHear
<1>2. Init => Pushing /\ StreamsHearAll
  BY InitPushing, InitHears
<1>3. QED
  BY <1>1, <1>2, PTL DEF Spec
=============================================================================
