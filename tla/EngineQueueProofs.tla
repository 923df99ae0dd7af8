-------------------------- MODULE EngineQueueProofs --------------------------
(***************************************************************************)
(* The order of barriers and acknowledged writes, and the count of the     *)
(* samples queued, for any number of concurrent requests and wherever the  *)
(* engine stops or panics.                                                 *)
(***************************************************************************)
EXTENDS EngineQueue, SequenceTheorems, FiniteSetTheorems, TLAPS

\* What a sent command does to the channel.
LEMMA SentFacts ==
    ASSUME PlacesOK, NEW x \in Requests \cup {Stop}, channel' = Append(channel, x)
    PROVE  /\ channel' \in Seq(Requests \cup {Stop})
           /\ Len(channel) \in Nat
           /\ Len(channel') = Len(channel) + 1
           /\ \A i \in 1..Len(channel) : channel'[i] = channel[i]
           /\ channel'[Len(channel) + 1] = x
           /\ \A e : Contains(channel', e) <=> Contains(channel, e) \/ e = x
<1>1. channel \in Seq(Requests \cup {Stop}) /\ Len(channel) \in Nat
  BY DEF PlacesOK
<1>2. /\ channel' \in Seq(Requests \cup {Stop})
      /\ Len(channel') = Len(channel) + 1
      /\ \A i \in 1..Len(channel) : channel'[i] = channel[i]
      /\ channel'[Len(channel) + 1] = x
  BY <1>1, AppendProperties
<1>3. ASSUME NEW e PROVE Contains(channel', e) <=> Contains(channel, e) \/ e = x
  <2>1. ASSUME Contains(channel', e) PROVE Contains(channel, e) \/ e = x
    <3>1. PICK i \in 1..Len(channel) + 1 : channel'[i] = e
      BY <1>2, <2>1 DEF Contains
    <3>2. CASE i = Len(channel) + 1
      BY <1>2, <3>1, <3>2
    <3>3. CASE i \in 1..Len(channel)
      BY <1>2, <3>1, <3>3 DEF Contains
    <3> QED
      BY <1>1, <3>1, <3>2, <3>3
  <2>2. ASSUME Contains(channel, e) PROVE Contains(channel', e)
    <3>1. PICK i \in 1..Len(channel) : channel[i] = e
      BY <2>2 DEF Contains
    <3>2. i \in 1..Len(channel') /\ channel'[i] = e
      BY <1>1, <1>2, <3>1
    <3> QED
      BY <3>2 DEF Contains
  <2>3. Contains(channel', x)
    <3>1. Len(channel) + 1 \in 1..Len(channel')
      BY <1>1, <1>2
    <3> QED
      BY <1>2, <3>1 DEF Contains
  <2> QED
    BY <2>1, <2>2, <2>3
<1> QED
  BY <1>1, <1>2, <1>3

\* What receiving the first command does to the channel.
LEMMA ReceivedFacts ==
    ASSUME PlacesOK, channel # <<>>, channel' = Tail(channel)
    PROVE  /\ channel' \in Seq(Requests \cup {Stop})
           /\ Len(channel) \in Nat
           /\ Len(channel') = Len(channel) - 1
           /\ Head(channel) \in Requests \cup {Stop}
           /\ Head(channel) = channel[1]
           /\ 1 \in 1..Len(channel)
           /\ \A i \in 1..Len(channel') : channel'[i] = channel[i + 1]
           /\ \A e : Contains(channel', e) => Contains(channel, e)
           /\ \A e : Contains(channel, e) => Contains(channel', e) \/ e = Head(channel)
<1>1. channel \in Seq(Requests \cup {Stop}) /\ Len(channel) \in Nat
  BY DEF PlacesOK
<1>2. /\ Head(channel) \in Requests \cup {Stop}
      /\ channel' \in Seq(Requests \cup {Stop})
      /\ Len(channel') = Len(channel) - 1
      /\ \A i \in 1..Len(channel') : channel'[i] = channel[i + 1]
  BY <1>1, HeadTailProperties
<1>3. Len(channel) > 0 /\ Head(channel) = channel[1]
  BY <1>1
<1>4. ASSUME NEW e, Contains(channel', e) PROVE Contains(channel, e)
  <2>1. PICK i \in 1..Len(channel') : channel'[i] = e
    BY <1>4 DEF Contains
  <2>2. i + 1 \in 1..Len(channel) /\ channel[i + 1] = e
    BY <1>1, <1>2, <2>1
  <2> QED
    BY <2>2 DEF Contains
<1>5. ASSUME NEW e, Contains(channel, e) PROVE Contains(channel', e) \/ e = Head(channel)
  <2>1. PICK i \in 1..Len(channel) : channel[i] = e
    BY <1>5 DEF Contains
  <2>2. CASE i = 1
    BY <1>3, <2>1, <2>2
  <2>3. CASE i # 1
    <3>1. i - 1 \in 1..Len(channel') /\ channel'[i - 1] = e
      BY <1>1, <1>2, <2>1, <2>3
    <3> QED
      BY <3>1 DEF Contains
  <2> QED
    BY <2>2, <2>3
<1> QED
  BY <1>1, <1>2, <1>3, <1>4, <1>5

----------------------------------------------------------------------------
(* Each step preserves the invariant.                                      *)

\* A handler that only moves on, and acknowledges nothing.
LEMMA MoveKeeps ==
    ASSUME BarrierInvariant, NEW r \in Requests, NEW state \in PcStates,
           Become(r, state), pc[r] # "acked", state # "acked",
           r \in Barriers => state # "new" /\ state # "answered",
           UNCHANGED <<channel, engine, ingested, ackedBefore>>
    PROVE  BarrierInvariant'
<1>1. PlacesOK /\ PlacesOK'
  BY DEF BarrierInvariant, PlacesOK, Become
<1>2. Acked' = Acked
  BY <1>1 DEF Acked, Become, PlacesOK
<1>3. \A b \in Barriers : /\ pc[b] # "new" => pc'[b] # "new"
                          /\ pc'[b] = "answered" => pc[b] = "answered"
  BY <1>1 DEF Become, PlacesOK, Requests
<1> QED
  BY <1>1, <1>2, <1>3
     DEF BarrierInvariant, AckedOnTheWay, AckedBeforeStays, SentWasChecked, AckedAhead,
         BarrierBehindAckedWrites, Alive, Serving

\* A barrier remembers the writes acknowledged before it was sent.
LEMMA CheckKeeps ==
    ASSUME BarrierInvariant, NEW r \in Requests, CheckRunning(r)
    PROVE  BarrierInvariant'
<1> DEFINE next == IF running THEN "checked" ELSE "stopped"
<1>1. next \in PcStates /\ next \notin {"acked", "new", "answered"}
  BY DEF PcStates
<1>2. Become(r, next) /\ pc[r] = "new" /\ UNCHANGED <<channel, engine, ingested>>
  BY DEF CheckRunning, engineVars
<1> HIDE DEF next
<1>3. CASE r \notin Barriers
  BY <1>1, <1>2, <1>3, MoveKeeps DEF CheckRunning
<1>4. CASE r \in Barriers
  <2>1. PlacesOK
    BY DEF BarrierInvariant
  <2>2. ackedBefore' = [ackedBefore EXCEPT ![r] = Acked]
    BY <1>4 DEF CheckRunning
  <2>3. PlacesOK'
    BY <1>1, <1>2, <2>1, <2>2 DEF PlacesOK, Become, Acked
  <2>4. Acked' = Acked
    BY <1>1, <1>2, <2>1 DEF Acked, Become, PlacesOK
  <2>5. \A b \in Barriers : b # r => ackedBefore'[b] = ackedBefore[b] /\ pc'[b] = pc[b]
    BY <1>2, <2>1, <2>2 DEF PlacesOK, Become, Requests
  <2>6. ackedBefore'[r] = Acked /\ pc'[r] = next
    BY <1>2, <1>4, <2>1, <2>2 DEF PlacesOK, Become
  <2>7. ~Contains(channel, r) /\ engine.command # r
    BY <1>2, <1>4 DEF BarrierInvariant, SentWasChecked
  <2>8. \A i \in 1..Len(channel) : channel[i] # r
    BY <2>7 DEF Contains
  <2>9. AckedOnTheWay' /\ AckedBeforeStays' /\ SentWasChecked'
    BY <1>1, <1>2, <2>4, <2>5, <2>6
       DEF BarrierInvariant, AckedOnTheWay, AckedBeforeStays, SentWasChecked, Alive, Serving
  <2>10. AckedAhead'
    BY <1>2, <2>5, <2>7, <2>8 DEF BarrierInvariant, AckedAhead, Alive, Serving
  <2>11. BarrierBehindAckedWrites'
    BY <1>1, <1>2, <2>5, <2>6 DEF BarrierInvariant, BarrierBehindAckedWrites
  <2> QED
    BY <2>3, <2>9, <2>10, <2>11 DEF BarrierInvariant
<1> QED
  BY <1>3, <1>4

\* A command sent joins the channel behind all the others; a write is
\* acknowledged when it is sent.
LEMMA SendKeeps ==
    ASSUME BarrierInvariant, NEW x \in Requests \cup {Stop},
           channel' = Append(channel, x),
           UNCHANGED <<engine, ingested, ackedBefore>>,
           \/ x = Stop /\ UNCHANGED pc
           \/ x \in Writes /\ pc[x] # "acked" /\ Become(x, "acked")
           \/ x \in Asks \cup Barriers /\ Become(x, "waiting")
    PROVE  BarrierInvariant'
<1>1. PlacesOK /\ Stop \notin Requests
  BY QueueAssumption DEF BarrierInvariant
<1>2. /\ channel' \in Seq(Requests \cup {Stop})
      /\ Len(channel) \in Nat
      /\ Len(channel') = Len(channel) + 1
      /\ \A i \in 1..Len(channel) : channel'[i] = channel[i]
      /\ channel'[Len(channel) + 1] = x
      /\ \A e : Contains(channel', e) <=> Contains(channel, e) \/ e = x
  BY <1>1, SentFacts
<1>3. PlacesOK'
  BY <1>1, <1>2 DEF PlacesOK, Become, PcStates
<1>4. \A w \in Acked' : w \in Acked \/ w = x
  BY <1>1 DEF Acked, Become, PlacesOK, Requests
<1>5. Acked \subseteq Acked'
  <2>1. Asks \cap Writes = {} /\ Barriers \cap Writes = {}
    BY QueueAssumption
  <2> QED
    BY <1>1, <2>1 DEF Acked, Become, PlacesOK, Requests
<1>6. \A b \in Barriers : /\ b # x => pc'[b] = pc[b]
                          /\ b = x => pc'[b] = "waiting"
  <2>1. Stop \notin Barriers /\ Writes \cap Barriers = {}
    BY <1>1, QueueAssumption DEF Requests
  <2> QED
    BY <1>1, <2>1 DEF Become, PlacesOK, Requests
<1>7. AckedOnTheWay'
  BY <1>2, <1>4 DEF BarrierInvariant, AckedOnTheWay, Alive, Serving
<1>8. AckedBeforeStays'
  BY <1>5 DEF BarrierInvariant, AckedBeforeStays
<1>9. SentWasChecked'
  BY <1>2, <1>6 DEF BarrierInvariant, SentWasChecked
<1>10. AckedAhead'
  <2> SUFFICES ASSUME Alive', NEW b \in Barriers
               PROVE  /\ \A i \in 1..Len(channel') : channel'[i] = b =>
                            \A w \in ackedBefore[b] : \/ w \in ingested
                                                      \/ \E j \in 1..i - 1 : channel'[j] = w
                                                      \/ Serving(w)
                      /\ engine.command = b => ackedBefore[b] \subseteq ingested
    BY DEF AckedAhead, Serving
  <2>1. Alive
    BY DEF Alive
  <2>2. engine.command = b => ackedBefore[b] \subseteq ingested
    BY <2>1 DEF BarrierInvariant, AckedAhead
  <2>3. ASSUME NEW i \in 1..Len(channel'), channel'[i] = b, NEW w \in ackedBefore[b]
        PROVE  \/ w \in ingested
               \/ \E j \in 1..i - 1 : channel'[j] = w
               \/ Serving(w)
    <3>1. CASE i = Len(channel) + 1
      <4>1. w \in ingested \/ Contains(channel, w) \/ Serving(w)
        BY <2>1, <2>3 DEF BarrierInvariant, AckedBeforeStays, AckedOnTheWay
      <4>2. ASSUME Contains(channel, w) PROVE \E j \in 1..i - 1 : channel'[j] = w
        <5>1. PICK j \in 1..Len(channel) : channel[j] = w
          BY <4>2 DEF Contains
        <5>2. j \in 1..i - 1 /\ channel'[j] = w
          BY <1>2, <3>1, <5>1
        <5> QED
          BY <5>2
      <4> QED
        BY <4>1, <4>2
    <3>2. CASE i \in 1..Len(channel)
      <4>1. channel[i] = b
        BY <1>2, <2>3, <3>2
      <4>2. \/ w \in ingested
            \/ \E j \in 1..i - 1 : channel[j] = w
            \/ Serving(w)
        BY <2>1, <2>3, <3>2, <4>1 DEF BarrierInvariant, AckedAhead
      <4>3. \A j \in 1..i - 1 : channel'[j] = channel[j]
        BY <1>2, <3>2
      <4> QED
        BY <4>2, <4>3
    <3> QED
      BY <1>2, <2>3, <3>1, <3>2
  <2> QED
    BY <2>2, <2>3
<1>11. BarrierBehindAckedWrites'
  BY <1>6 DEF BarrierInvariant, BarrierBehindAckedWrites
<1> QED
  BY <1>3, <1>7, <1>8, <1>9, <1>10, <1>11 DEF BarrierInvariant

\* The first command of the channel is served next, or stops the engine.
LEMMA ReceiveKeeps ==
    ASSUME BarrierInvariant, Receive
    PROVE  BarrierInvariant'
<1>1. PlacesOK
  BY DEF BarrierInvariant
<1>2. /\ channel' \in Seq(Requests \cup {Stop})
      /\ Len(channel) \in Nat
      /\ Len(channel') = Len(channel) - 1
      /\ Head(channel) \in Requests \cup {Stop}
      /\ Head(channel) = channel[1]
      /\ 1 \in 1..Len(channel)
      /\ \A i \in 1..Len(channel') : channel'[i] = channel[i + 1]
      /\ \A e : Contains(channel', e) => Contains(channel, e)
      /\ \A e : Contains(channel, e) => Contains(channel', e) \/ e = Head(channel)
  BY <1>1, ReceivedFacts DEF Receive
<1>3. UNCHANGED <<pc, ingested, ackedBefore>> /\ engine.at = "receiving" /\ Alive
  BY DEF Receive, Alive
<1>4. \A w : ~Serving(w)
  BY <1>3 DEF Serving
<1>5. engine' = IF Head(channel) = Stop THEN [at |-> "exiting", command |-> NoCommand]
                ELSE [at |-> "serving", command |-> Head(channel)]
  BY DEF Receive, At
<1>6. PlacesOK'
  BY <1>1, <1>2, <1>3, <1>5 DEF PlacesOK
<1>7. Acked' = Acked
  BY <1>3 DEF Acked
<1>8. AckedBeforeStays' /\ BarrierBehindAckedWrites'
  BY <1>3, <1>7 DEF BarrierInvariant, AckedBeforeStays, BarrierBehindAckedWrites
<1>9. NoCommand \notin Barriers
  BY QueueAssumption DEF Requests
<1>10. Contains(channel, Head(channel))
  BY <1>2 DEF Contains
<1>11. SentWasChecked'
  BY <1>2, <1>3, <1>5, <1>9, <1>10 DEF BarrierInvariant, SentWasChecked
<1>12. CASE Head(channel) = Stop
  <2>1. ~Alive'
    BY <1>5, <1>12 DEF Alive
  <2> QED
    BY <1>6, <1>8, <1>11, <2>1 DEF BarrierInvariant, AckedOnTheWay, AckedAhead
<1>13. CASE Head(channel) # Stop
  <2>1. engine' = [at |-> "serving", command |-> Head(channel)]
    BY <1>5, <1>13
  <2>2. \A w : Serving(w)' <=> w = Head(channel)
    BY <2>1 DEF Serving
  <2>3. AckedOnTheWay'
    BY <1>2, <1>3, <1>4, <1>7, <2>2 DEF BarrierInvariant, AckedOnTheWay
  <2>4. ASSUME NEW b \in Barriers, NEW i \in 1..Len(channel), channel[i] = b,
               NEW w \in ackedBefore[b]
        PROVE  w \in ingested \/ \E j \in 1..i - 1 : channel[j] = w
    BY <1>3, <1>4, <2>4 DEF BarrierInvariant, AckedAhead
  <2>5. ASSUME NEW b \in Barriers, NEW i \in 1..Len(channel'), channel'[i] = b,
               NEW w \in ackedBefore[b]
        PROVE  \/ w \in ingested
               \/ \E j \in 1..i - 1 : channel'[j] = w
               \/ w = Head(channel)
    <3>1. i + 1 \in 1..Len(channel) /\ channel[i + 1] = b
      BY <1>2, <2>5
    <3>2. w \in ingested \/ \E j \in 1..(i + 1) - 1 : channel[j] = w
      BY <2>4, <3>1
    <3>3. ASSUME NEW j \in 1..(i + 1) - 1, channel[j] = w
          PROVE  w = Head(channel) \/ \E k \in 1..i - 1 : channel'[k] = w
      <4>1. CASE j = 1
        BY <1>2, <3>3, <4>1
      <4>2. CASE j # 1
        <5>1. j - 1 \in 1..i - 1 /\ j - 1 \in 1..Len(channel')
          BY <1>2, <2>5, <3>3, <4>2
        <5>2. channel'[j - 1] = w
          BY <1>2, <3>3, <5>1
        <5> QED
          BY <5>1, <5>2
      <4> QED
        BY <4>1, <4>2
    <3> QED
      BY <3>2, <3>3
  <2>6. ASSUME NEW b \in Barriers, Head(channel) = b
        PROVE  ackedBefore[b] \subseteq ingested
    <3>1. \A w \in ackedBefore[b] : w \in ingested \/ \E j \in 1..1 - 1 : channel[j] = w
      BY <1>2, <2>4, <2>6
    <3> QED
      BY <3>1
  <2>7. AckedAhead'
    BY <1>3, <2>1, <2>2, <2>5, <2>6 DEF AckedAhead
  <2> QED
    BY <1>6, <1>8, <1>11, <2>3, <2>7 DEF BarrierInvariant
<1> QED
  BY <1>12, <1>13

\* The engine is done with a part of a command: it has what was ingested,
\* and answers only what it serves.
LEMMA ServeKeeps ==
    ASSUME BarrierInvariant, Alive,
           UNCHANGED <<channel, ackedBefore>>,
           NEW place \in {"receiving", "ran", "published", "exiting"},
           NEW command \in {engine.command, NoCommand}, At(place, command),
           ingested \subseteq ingested', ingested' \subseteq Writes,
           \A w \in Writes : Serving(w) /\ place # "exiting" => w \in ingested',
           \/ UNCHANGED pc
           \/ engine.command \in Asks \cup Barriers /\ Become(engine.command, "answered")
    PROVE  BarrierInvariant'
<1> DEFINE r == engine.command
<1>1. PlacesOK /\ NoCommand \notin Requests
  BY QueueAssumption DEF BarrierInvariant
<1>2. r \in Asks \cup Barriers => r \in Requests /\ r \notin Writes
  BY QueueAssumption DEF Requests
<1>3. engine' = [at |-> place, command |-> command]
  BY DEF At
<1>4. pc' \in [Requests -> PcStates]
  BY <1>1, <1>2 DEF PlacesOK, Become, PcStates
<1>5. PlacesOK'
  BY <1>1, <1>3, <1>4 DEF PlacesOK
<1>6. Acked' = Acked
  BY <1>1, <1>2 DEF Acked, Become, PlacesOK, Requests
<1>7. \A b \in Barriers : /\ pc[b] # "new" => pc'[b] # "new"
                          /\ pc'[b] = "answered" => pc[b] = "answered" \/ engine.command = b
  <2> HIDE DEF r
  <2> SUFFICES ASSUME NEW b \in Barriers
               PROVE  /\ pc[b] # "new" => pc'[b] # "new"
                      /\ pc'[b] = "answered" => pc[b] = "answered" \/ r = b
    BY DEF r
  <2>1. CASE UNCHANGED pc
    BY <2>1
  <2>2. CASE Become(r, "answered")
    <3>1. b \in DOMAIN pc
      BY <1>1 DEF PlacesOK, Requests
    <3>2. CASE b = r
      BY <2>2, <3>1, <3>2 DEF Become
    <3>3. CASE b # r
      BY <2>2, <3>1, <3>3 DEF Become
    <3> QED
      BY <3>2, <3>3
  <2> QED
    BY <2>1, <2>2 DEF r
<1>8. \A b \in Barriers : engine'.command = b => engine.command = b
  BY <1>1, <1>3 DEF Requests
<1>9. \A w \in Writes : Serving(w) => w \in ingested' \/ ~Alive'
  BY <1>3 DEF Alive
<1>10. AckedOnTheWay'
  BY <1>6, <1>9 DEF BarrierInvariant, AckedOnTheWay, Acked
<1>11. AckedBeforeStays' /\ SentWasChecked'
  BY <1>6, <1>7, <1>8 DEF BarrierInvariant, AckedBeforeStays, SentWasChecked
<1>12. \A b \in Barriers : ackedBefore[b] \subseteq Writes
  BY <1>1 DEF PlacesOK
<1>13. AckedAhead'
  BY <1>8, <1>9, <1>12 DEF BarrierInvariant, AckedAhead
<1>14. BarrierBehindAckedWrites'
  BY <1>7 DEF BarrierInvariant, AckedAhead, BarrierBehindAckedWrites
<1> QED
  BY <1>5, <1>10, <1>11, <1>13, <1>14 DEF BarrierInvariant

\* An engine that has ended serves nothing, and answers no barrier.
LEMMA EndKeeps ==
    ASSUME BarrierInvariant, DropReceiver \/ ClearRunning
    PROVE  BarrierInvariant'
<1>1. PlacesOK /\ NoCommand \notin Requests
  BY QueueAssumption DEF BarrierInvariant
<1>2. /\ ~Alive'
      /\ engine' \in [at : {"dropped", "exited"}, command : {NoCommand}]
      /\ UNCHANGED <<ingested, ackedBefore>>
  BY DEF DropReceiver, ClearRunning, At, Alive
<1>3. channel' \in {channel, <<>>}
  BY DEF DropReceiver, ClearRunning
<1>4. \A r \in Requests : \/ pc'[r] = pc[r]
                          \/ pc[r] = "waiting" /\ pc'[r] = "stopped"
  <2>1. CASE DropReceiver
    <3>1. pc' = [r \in Requests |-> IF r \in Abandoned THEN "stopped" ELSE pc[r]]
      BY <2>1 DEF DropReceiver
    <3>2. \A r \in Abandoned : pc[r] = "waiting"
      BY DEF Abandoned
    <3> QED
      BY <3>1, <3>2
  <2>2. CASE ClearRunning
    BY <2>2 DEF ClearRunning
  <2> QED
    BY <2>1, <2>2
<1>5. PlacesOK'
  <2>1. pc' \in [Requests -> PcStates]
    <3>1. CASE DropReceiver
      <4>1. pc' = [r \in Requests |-> IF r \in Abandoned THEN "stopped" ELSE pc[r]]
        BY <3>1 DEF DropReceiver
      <4> QED
        BY <1>1, <4>1 DEF PlacesOK, PcStates
    <3>2. CASE ClearRunning
      BY <1>1, <3>2 DEF ClearRunning, PlacesOK
    <3> QED
      BY <3>1, <3>2
  <2>2. channel' \in Seq(Requests \cup {Stop})
    <3>1. channel \in Seq(Requests \cup {Stop})
      BY <1>1 DEF PlacesOK
    <3>2. <<>> \in Seq(Requests \cup {Stop})
      OBVIOUS
    <3> QED
      BY <1>3, <3>1, <3>2
  <2> QED
    BY <1>1, <1>2, <2>1, <2>2 DEF PlacesOK
<1>6. Acked' = Acked
  BY <1>4 DEF Acked, Requests
<1>7. \A e : Contains(channel', e) => Contains(channel, e)
  <2>1. \A e : ~Contains(<<>>, e)
    BY DEF Contains
  <2> QED
    BY <1>3, <2>1
<1>8. AckedOnTheWay' /\ AckedAhead'
  BY <1>2 DEF AckedOnTheWay, AckedAhead
<1>9. AckedBeforeStays'
  BY <1>2, <1>6 DEF BarrierInvariant, AckedBeforeStays
<1>10. SentWasChecked'
  BY <1>1, <1>2, <1>4, <1>7 DEF BarrierInvariant, SentWasChecked, Requests
<1>11. BarrierBehindAckedWrites'
  BY <1>2, <1>4 DEF BarrierInvariant, BarrierBehindAckedWrites, Requests
<1> QED
  BY <1>5, <1>8, <1>9, <1>10, <1>11 DEF BarrierInvariant

\* A step that leaves every request where it is.
LEMMA RestKeeps ==
    ASSUME BarrierInvariant, UNCHANGED vars
    PROVE  BarrierInvariant'
  BY DEF BarrierInvariant, vars, PlacesOK, AckedOnTheWay, AckedBeforeStays,
         SentWasChecked, AckedAhead, BarrierBehindAckedWrites, Acked, Alive, Serving

\* A handler's step.
LEMMA HandlerKeeps ==
    ASSUME BarrierInvariant, NEW r \in Requests, Handler(r)
    PROVE  BarrierInvariant'
<1>1. CASE CheckRunning(r)
  BY <1>1, CheckKeeps
<1>2. ASSUME r \in Writes, WriteStep(r) PROVE BarrierInvariant'
  <2>1. r \notin Barriers
    BY <1>2, QueueAssumption
  <2>2. CASE LoadQueued(r)
    BY <2>1, <2>2, MoveKeeps DEF LoadQueued, engineVars, PcStates
  <2>3. CASE Admit(r)
    <3>1. /\ UNCHANGED <<channel, engine, ingested, ackedBefore>>
          /\ pc[r] = "loaded"
          /\ Become(r, "busy") \/ Become(r, "admitted") \/ UNCHANGED pc
      BY <2>3 DEF Admit, engineVars
    <3>2. CASE UNCHANGED pc
      BY <3>1, <3>2 DEF BarrierInvariant, PlacesOK, AckedOnTheWay, AckedBeforeStays,
             SentWasChecked, AckedAhead, BarrierBehindAckedWrites, Acked, Alive, Serving
    <3> QED
      BY <2>1, <3>1, <3>2, MoveKeeps DEF PcStates
  <2>4. CASE SendWrite(r)
    <3>1. CASE receiving
      BY <1>2, <2>4, <3>1, SendKeeps DEF SendWrite, engineVars
    <3>2. CASE ~receiving
      BY <2>1, <2>4, <3>2, MoveKeeps DEF SendWrite, engineVars, PcStates
    <3> QED
      BY <3>1, <3>2
  <2>5. CASE UndoAdmission(r)
    BY <2>1, <2>5, MoveKeeps DEF UndoAdmission, engineVars, PcStates
  <2> QED
    BY <1>2, <2>2, <2>3, <2>4, <2>5 DEF WriteStep
<1>3. ASSUME r \in Asks, SendAsk(r) PROVE BarrierInvariant'
  <2>1. CASE receiving
    BY <1>3, <2>1, SendKeeps DEF SendAsk, engineVars
  <2>2. CASE ~receiving
    BY <1>3, <2>2, MoveKeeps DEF SendAsk, engineVars, PcStates
  <2> QED
    BY <2>1, <2>2
<1>4. ASSUME r \in Barriers, SendBarrier(r) PROVE BarrierInvariant'
  <2>1. CASE receiving
    BY <1>4, <2>1, SendKeeps DEF SendBarrier, engineVars
  <2>2. CASE ~receiving
    BY <1>4, <2>2, MoveKeeps DEF SendBarrier, engineVars, PcStates
  <2> QED
    BY <2>1, <2>2
<1> QED
  BY <1>1, <1>2, <1>3, <1>4 DEF Handler

\* A step of the engine thread, which may panic.
LEMMA EngineKeeps ==
    ASSUME BarrierInvariant, Engine \/ Panic
    PROVE  BarrierInvariant'
<1>1. PlacesOK
  BY DEF BarrierInvariant
<1>2. CASE Receive
  BY <1>2, ReceiveKeeps
<1>3. CASE ServeAsk
  <2>1. engine.command \in Asks /\ engine.command \notin Writes
    BY <1>3, QueueAssumption DEF ServeAsk
  <2> QED
    BY <1>1, <1>3, <2>1, ServeKeeps DEF ServeAsk, Alive, Serving, PlacesOK
<1>4. ASSUME NEW place \in {"receiving", "ran", "published", "exiting"},
             NEW command \in {engine.command, NoCommand}, At(place, command),
             Alive, UNCHANGED <<pc, channel, ackedBefore>>,
             ingested \subseteq ingested', ingested' \subseteq Writes,
             \A w \in Writes : Serving(w) /\ place # "exiting" => w \in ingested'
      PROVE  BarrierInvariant'
  BY <1>4, ServeKeeps
<1>5. CASE Run
  BY <1>1, <1>4, <1>5 DEF Run, Alive, Serving, PlacesOK
<1>6. CASE Publish
  BY <1>1, <1>4, <1>6 DEF Publish, Alive, Serving, PlacesOK
<1>7. CASE ReleaseSamples
  BY <1>1, <1>4, <1>7 DEF ReleaseSamples, Alive, Serving, PlacesOK
<1>8. CASE ReplyBarrier
  BY <1>1, <1>8, ServeKeeps DEF ReplyBarrier, Alive, Serving, PlacesOK
<1>9. CASE Panic
  BY <1>1, <1>4, <1>9 DEF Panic, Alive, Serving, PlacesOK
<1>10. CASE DropReceiver \/ ClearRunning
  BY <1>10, EndKeeps
<1> QED
  BY <1>2, <1>3, <1>5, <1>6, <1>7, <1>8, <1>9, <1>10 DEF Engine

\* Every step preserves the invariant.
LEMMA NextKeeps ==
    ASSUME BarrierInvariant, [Next]_vars
    PROVE  BarrierInvariant'
<1>1. ASSUME NEW w \in Writes, Retry(w) PROVE BarrierInvariant'
  <2>1. w \in Requests /\ w \notin Barriers
    BY QueueAssumption DEF Requests
  <2> QED
    BY <1>1, <2>1, MoveKeeps DEF Retry, engineVars, PcStates
<1>2. CASE SendStop
  BY <1>2, SendKeeps DEF SendStop, engineVars
<1> QED
  BY <1>1, <1>2, RestKeeps, HandlerKeeps, EngineKeeps DEF Next

\* The invariant holds at the start.
LEMMA InitHolds ==
    ASSUME Init
    PROVE  BarrierInvariant
<1>1. \A e : ~Contains(channel, e)
  BY DEF Init, Contains
<1>2. PlacesOK
  BY DEF Init, PlacesOK, PcStates
<1>3. Acked = {} /\ \A b \in Barriers : ackedBefore[b] = {} /\ engine.command # b
  BY QueueAssumption DEF Init, Acked, Requests
<1> QED
  BY <1>1, <1>2, <1>3 DEF Init, BarrierInvariant, AckedOnTheWay, AckedBeforeStays,
                         SentWasChecked, AckedAhead, BarrierBehindAckedWrites, Requests

----------------------------------------------------------------------------
(* The theorems.                                                           *)

\* The inductive invariant holds in every state the queue reaches.
THEOREM BarrierInvariantHolds == Spec => []BarrierInvariant
<1>1. Init => BarrierInvariant
  BY InitHolds
<1>2. BarrierInvariant /\ [Next]_vars => BarrierInvariant'
  BY NextKeeps
<1> QED
  BY <1>1, <1>2, PTL DEF Spec

\* A barrier answers only after every write acknowledged before it was
\* ingested, wherever the engine stops or panics.
THEOREM BarriersFollowAckedWrites == Spec => []BarrierBehindAckedWrites
<1>1. BarrierInvariant => BarrierBehindAckedWrites
  BY DEF BarrierInvariant
<1> QED
  BY <1>1, BarrierInvariantHolds, PTL


----------------------------------------------------------------------------
(* The samples of a set of writes.                                         *)

\* A write's samples are as many as it says.
LEMMA SamplesOfOne ==
    ASSUME NEW w \in Writes
    PROVE  LET own == {w} \X (1..CountOf[w])
           IN  IsFiniteSet(own) /\ Cardinality(own) = CountOf[w] /\ own # {}
<1> DEFINE n == CountOf[w]
<1>1. n \in Nat \ {0}
  BY QueueAssumption
<1> HIDE DEF n
<1>2. IsFiniteSet({w}) /\ Cardinality({w}) = 1
  BY FS_Singleton
<1>3. IsFiniteSet(1..n) /\ Cardinality(1..n) = n
  BY <1>1, FS_Interval
<1>4. IsFiniteSet({w} \X (1..n)) /\ Cardinality({w} \X (1..n)) = n
  <2>1. /\ IsFiniteSet({w} \X (1..n))
        /\ Cardinality({w} \X (1..n)) = Cardinality({w}) * Cardinality(1..n)
    BY <1>2, <1>3, FS_Product, Zenon
  <2> QED
    BY <1>1, <1>2, <1>3, <2>1
<1>5. <<w, 1>> \in {w} \X (1..n)
  BY <1>1
<1> QED
  BY <1>4, <1>5 DEF n

\* A write that joins adds its samples.
LEMMA SamplesJoin ==
    ASSUME NEW W \in SUBSET Writes, NEW w \in Writes \ W, IsFiniteSet(SamplesOf(W))
    PROVE  /\ IsFiniteSet(SamplesOf(W \cup {w}))
           /\ Cardinality(SamplesOf(W \cup {w})) = Cardinality(SamplesOf(W)) + CountOf[w]
<1> DEFINE own == {w} \X (1..CountOf[w])
<1>1. IsFiniteSet(own) /\ Cardinality(own) = CountOf[w]
  BY SamplesOfOne
<1>2. SamplesOf(W \cup {w}) = SamplesOf(W) \cup own
  BY DEF SamplesOf
<1>3. SamplesOf(W) \cap own = {}
  BY DEF SamplesOf
<1>4. Cardinality(SamplesOf(W)) \in Nat /\ CountOf[w] \in Nat
  BY FS_CardinalityType, QueueAssumption
<1> HIDE DEF own
<1>5. /\ IsFiniteSet(SamplesOf(W) \cup own)
      /\ Cardinality(SamplesOf(W) \cup own) =
            Cardinality(SamplesOf(W)) + Cardinality(own) - Cardinality(SamplesOf(W) \cap own)
  BY <1>1, FS_Union, Zenon
<1>6. Cardinality(SamplesOf(W) \cap own) = 0
  BY <1>3, FS_EmptySet
<1>7. Cardinality(SamplesOf(W) \cup own) = Cardinality(SamplesOf(W)) + CountOf[w]
  BY <1>1, <1>4, <1>5, <1>6
<1> QED
  BY <1>2, <1>5, <1>7, Zenon

\* A write that leaves takes its samples with it.
LEMMA SamplesLeave ==
    ASSUME NEW W \in SUBSET Writes, NEW w \in W, IsFiniteSet(SamplesOf(W))
    PROVE  /\ IsFiniteSet(SamplesOf(W \ {w}))
           /\ Cardinality(SamplesOf(W \ {w})) = Cardinality(SamplesOf(W)) - CountOf[w]
<1> DEFINE V == W \ {w}
<1>1. V \in SUBSET Writes /\ w \in Writes \ V /\ V \cup {w} = W
  OBVIOUS
<1>2. SamplesOf(V) \subseteq SamplesOf(W)
  BY DEF SamplesOf
<1> HIDE DEF V
<1>3. IsFiniteSet(SamplesOf(V))
  BY <1>2, FS_Subset
<1>4. Cardinality(SamplesOf(W)) = Cardinality(SamplesOf(V)) + CountOf[w]
  BY <1>1, <1>3, SamplesJoin
<1>5. Cardinality(SamplesOf(V)) \in Nat /\ CountOf[w] \in Nat
  BY <1>1, <1>3, FS_CardinalityType, QueueAssumption
<1> QED
  BY <1>3, <1>4, <1>5 DEF V

\* Only no writes have no samples.
LEMMA NoSamples ==
    ASSUME NEW W \in SUBSET Writes, IsFiniteSet(SamplesOf(W))
    PROVE  Cardinality(SamplesOf(W)) = 0 <=> W = {}
<1>1. SamplesOf(W) = {} <=> W = {}
  <2>1. ASSUME NEW w \in W PROVE SamplesOf(W) # {}
    BY SamplesOfOne DEF SamplesOf
  <2> QED
    BY <2>1 DEF SamplesOf
<1> QED
  BY <1>1, FS_EmptySet

----------------------------------------------------------------------------
(* Each step preserves the queue invariant.                                *)

\* The counter and the writes it counts, by what a step does to them: leaves
\* them, admits a write, or lets one go.
LEMMA CountKeeps ==
    ASSUME QueueInvariant,
           \/ UNCHANGED <<queued, Counted>>
           \/ \E w \in Writes \ Counted :
                 /\ Counted' = Counted \cup {w}
                 /\ queued' = queued + CountOf[w]
                 /\ Admits(queued, CountOf[w])
           \/ \E w \in Counted :
                 Counted' = Counted \ {w} /\ queued' = queued - CountOf[w]
    PROVE  /\ queued' \in Nat
           /\ IsFiniteSet(SamplesOf(Counted))'
           /\ QueuedIsCounted'
           /\ AloneOverBound'
<1>1. /\ Counted \subseteq Writes
      /\ IsFiniteSet(SamplesOf(Counted))
      /\ queued = Cardinality(SamplesOf(Counted))
      /\ queued \in Nat
      /\ queued > MaxQueued => \E w \in Writes : Counted = {w}
      /\ MaxQueued \in Nat
  BY QueueAssumption DEF QueueInvariant, QueuedIsCounted, AloneOverBound, TypeOK, Counted
<1>2. \A W : SamplesOf(W)' = SamplesOf(W)
  BY DEF SamplesOf
<1>3. CASE UNCHANGED <<queued, Counted>>
  BY <1>1, <1>3 DEF QueuedIsCounted, AloneOverBound, SamplesOf
<1>4. ASSUME NEW w \in Writes \ Counted, Counted' = Counted \cup {w},
             queued' = queued + CountOf[w], Admits(queued, CountOf[w])
      PROVE  /\ queued' \in Nat
             /\ IsFiniteSet(SamplesOf(Counted))'
             /\ QueuedIsCounted'
             /\ AloneOverBound'
  <2>1. CountOf[w] \in Nat
    BY QueueAssumption
  <2>2. /\ IsFiniteSet(SamplesOf(Counted'))
        /\ Cardinality(SamplesOf(Counted')) = Cardinality(SamplesOf(Counted)) + CountOf[w]
    BY <1>1, <1>4, SamplesJoin
  <2>3. AloneOverBound'
    <3>1. queued = 0 => Counted = {}
      BY <1>1, NoSamples
    <3> QED
      BY <1>1, <1>4, <2>1, <3>1 DEF AloneOverBound, Admits
  <2> QED
    BY <1>1, <1>4, <2>1, <2>2, <2>3 DEF QueuedIsCounted, SamplesOf
<1>5. ASSUME NEW w \in Counted, Counted' = Counted \ {w}, queued' = queued - CountOf[w]
      PROVE  /\ queued' \in Nat
             /\ IsFiniteSet(SamplesOf(Counted))'
             /\ QueuedIsCounted'
             /\ AloneOverBound'
  <2>1. CountOf[w] \in Nat
    BY <1>1, QueueAssumption
  <2>2. /\ IsFiniteSet(SamplesOf(Counted'))
        /\ Cardinality(SamplesOf(Counted')) = Cardinality(SamplesOf(Counted)) - CountOf[w]
    BY <1>1, <1>5, SamplesLeave
  <2>3. queued' = Cardinality(SamplesOf(Counted')) /\ queued' \in Nat
    BY <1>1, <1>5, <2>2, FS_CardinalityType
  <2>4. AloneOverBound'
    <3> SUFFICES ASSUME queued' > MaxQueued PROVE FALSE
      BY DEF AloneOverBound
    <3>1. Counted = {w}
      BY <1>1, <1>5, <2>1
    <3>2. queued' = 0
      BY <1>1, <1>5, <2>2, <2>3, <3>1, NoSamples
    <3> QED
      BY <1>1, <3>2
  <2> QED
    BY <2>2, <2>3, <2>4 DEF QueuedIsCounted, SamplesOf
<1> QED
  BY <1>3, <1>4, <1>5


\* A handler that moves on: its write is counted from its admission to its
\* acknowledgement.
LEMMA MoveCounts ==
    ASSUME QueueInvariant, NEW r \in Requests, NEW state \in PcStates,
           Become(r, state), pc[r] # "acked", UNCHANGED released
    PROVE  /\ pc' \in [Requests -> PcStates]
           /\ Acked \subseteq Acked'
           /\ r \in Counted <=> r \in Writes /\ pc[r] \in {"admitted", "undo"}
           /\ Counted' = IF r \in Writes /\ state \in {"admitted", "undo", "acked"}
                         THEN Counted \cup {r} ELSE Counted \ {r}
<1>1. pc \in [Requests -> PcStates] /\ released \subseteq Acked /\ Writes \subseteq Requests
  BY DEF QueueInvariant, TypeOK, PlacesOK, OnePlace, Requests
<1>2. /\ pc' \in [Requests -> PcStates]
      /\ pc'[r] = state
      /\ \A w \in Requests : w # r => pc'[w] = pc[w]
  BY <1>1 DEF Become
<1>3. r \notin released
  BY <1>1 DEF Acked
<1>4. Acked \subseteq Acked'
  BY <1>1, <1>2 DEF Acked
<1>5. r \in Counted <=> r \in Writes /\ pc[r] \in {"admitted", "undo"}
  BY DEF Counted
<1>6. ASSUME NEW w \in Writes
      PROVE  w \in Counted' <=> IF w = r THEN state \in {"admitted", "undo", "acked"}
                                ELSE w \in Counted
  <2>1. w = r => pc'[w] = state /\ w \notin released'
    BY <1>2, <1>3
  <2>2. w # r => pc'[w] = pc[w] /\ released' = released
    BY <1>1, <1>2
  <2> QED
    BY <2>1, <2>2 DEF Counted
<1>7. Counted \subseteq Writes /\ Counted' \subseteq Writes
  BY DEF Counted
<1> QED
  BY <1>2, <1>4, <1>5, <1>6, <1>7

\* The places stay what they are when no command moves.
LEMMA PlacesStay ==
    ASSUME QueueInvariant, Acked \subseteq Acked',
           UNCHANGED <<channel, engine, ingested, published, released>>
    PROVE  OnePlace' /\ PublishedFirst'
<1>1. \A w \in Writes : UnderWay(w) => UnderWay(w)'
  BY DEF UnderWay, Acked
<1> QED
  BY <1>1 DEF QueueInvariant, OnePlace, PublishedFirst

\* A handler that moves on without sending anything, and whose write neither
\* joins nor leaves those counted.
LEMMA QueueMoveKeeps ==
    ASSUME QueueInvariant, NEW r \in Requests, NEW state \in PcStates,
           Become(r, state), pc[r] # "acked",
           state \notin {"admitted", "acked"},
           r \in Writes => pc[r] \notin {"admitted", "undo"} /\ state # "undo",
           UNCHANGED <<engineVars, queued, channel>>,
           seen' \in [Writes -> Nat], ackedBefore' \in [Barriers -> SUBSET Writes]
    PROVE  QueueInvariant'
<1>1. UNCHANGED <<engine, ingested, published, released, receiving, running>>
  BY DEF engineVars
<1>2. /\ pc' \in [Requests -> PcStates]
      /\ Acked \subseteq Acked'
      /\ Counted' = Counted
  BY <1>1, MoveCounts
<1>3. /\ queued' \in Nat
      /\ IsFiniteSet(SamplesOf(Counted))'
      /\ QueuedIsCounted'
      /\ AloneOverBound'
  BY <1>2, CountKeeps
<1>4. TypeOK'
  BY <1>1, <1>2, <1>3 DEF QueueInvariant, TypeOK, PlacesOK
<1>5. OnePlace' /\ PublishedFirst'
  BY <1>1, <1>2, PlacesStay
<1> QED
  BY <1>3, <1>4, <1>5 DEF QueueInvariant

\* A write is admitted, or what a failed send had admitted is undone.
LEMMA AdmissionKeeps ==
    ASSUME QueueInvariant, NEW w \in Writes,
           \/ /\ pc[w] = "loaded" /\ Become(w, "admitted")
              /\ queued' = queued + CountOf[w]
              /\ Admits(queued, CountOf[w])
           \/ /\ pc[w] = "undo" /\ Become(w, "stopped")
              /\ queued' = queued - CountOf[w],
           UNCHANGED <<engineVars, channel, seen, ackedBefore>>
    PROVE  QueueInvariant'
<1>1. UNCHANGED <<engine, ingested, published, released, receiving, running>>
  BY DEF engineVars
<1>2. w \in Requests /\ {"admitted", "stopped"} \subseteq PcStates
  BY DEF Requests, PcStates
<1>3. /\ pc' \in [Requests -> PcStates]
      /\ Acked \subseteq Acked'
      /\ w \in Counted <=> pc[w] = "undo"
      /\ Counted' = IF pc[w] = "loaded" THEN Counted \cup {w} ELSE Counted \ {w}
  BY <1>1, <1>2, MoveCounts
<1>4. /\ queued' \in Nat
      /\ IsFiniteSet(SamplesOf(Counted))'
      /\ QueuedIsCounted'
      /\ AloneOverBound'
  BY <1>3, CountKeeps
<1>5. TypeOK'
  BY <1>1, <1>3, <1>4 DEF QueueInvariant, TypeOK, PlacesOK
<1>6. OnePlace' /\ PublishedFirst'
  BY <1>1, <1>3, PlacesStay
<1> QED
  BY <1>4, <1>5, <1>6 DEF QueueInvariant

\* A command is sent: a write that was admitted, and that is acknowledged
\* with it, or another command.
LEMMA QueueSendKeeps ==
    ASSUME QueueInvariant, NEW x \in Requests \cup {Stop},
           channel' = Append(channel, x),
           \/ x = Stop /\ UNCHANGED pc
           \/ x \in Writes /\ pc[x] = "admitted" /\ Become(x, "acked")
           \/ x \in Asks \cup Barriers /\ pc[x] # "acked" /\ Become(x, "waiting"),
           UNCHANGED <<engineVars, seen, queued, ackedBefore>>
    PROVE  QueueInvariant'
<1>1. UNCHANGED <<engine, ingested, published, released, receiving, running>>
  BY DEF engineVars
<1>2. PlacesOK /\ Stop \notin Requests /\ Writes \cap (Asks \cup Barriers) = {}
  BY QueueAssumption DEF QueueInvariant, TypeOK
<1>3. /\ channel' \in Seq(Requests \cup {Stop})
      /\ Len(channel) \in Nat
      /\ Len(channel') = Len(channel) + 1
      /\ \A i \in 1..Len(channel) : channel'[i] = channel[i]
      /\ channel'[Len(channel) + 1] = x
  BY <1>2, SentFacts
<1>4. /\ pc' \in [Requests -> PcStates]
      /\ Acked \subseteq Acked'
      /\ Counted' = Counted
  <2>1. CASE x = Stop
    BY <1>1, <1>2, <2>1 DEF PlacesOK, Acked, Counted, Requests
  <2>2. CASE x # Stop
    <3>1. x \in Requests /\ {"acked", "waiting"} \subseteq PcStates
      BY <2>2 DEF PcStates
    <3> QED
      BY <1>1, <1>2, <2>2, <3>1, MoveCounts
  <2> QED
    BY <2>1, <2>2
<1>5. /\ queued' \in Nat
      /\ IsFiniteSet(SamplesOf(Counted))'
      /\ QueuedIsCounted'
      /\ AloneOverBound'
  BY <1>4, CountKeeps
<1>6. TypeOK'
  BY <1>1, <1>3, <1>4, <1>5 DEF QueueInvariant, TypeOK, PlacesOK
<1>7. PublishedFirst'
  BY <1>1 DEF QueueInvariant, PublishedFirst
<1>8. \A w \in Writes : UnderWay(w) => UnderWay(w)'
  BY <1>1, <1>4 DEF UnderWay, Acked
<1>9. x \in Writes => UnderWay(x)' /\ ~UnderWay(x)
  <2> SUFFICES ASSUME x \in Writes PROVE UnderWay(x)' /\ ~UnderWay(x)
    OBVIOUS
  <2>1. pc[x] = "admitted" /\ Become(x, "acked") /\ x \in Requests
    BY <1>2 DEF Requests
  <2>2. pc'[x] = "acked"
    BY <1>2, <2>1 DEF PlacesOK, Become
  <2>3. x \notin released
    BY <2>1 DEF QueueInvariant, OnePlace, Acked
  <2> QED
    BY <1>1, <2>1, <2>2, <2>3 DEF UnderWay
<1>10. OnePlace'
  <2>1. ASSUME NEW i \in 1..Len(channel'), NEW w \in Writes, channel'[i] = w
        PROVE  /\ UnderWay(w)'
               /\ w # engine.command
               /\ \A j \in 1..Len(channel') : channel'[j] = w => j = i
    <3>1. \A j \in 1..Len(channel) : channel[j] \in Writes =>
             /\ UnderWay(channel[j])
             /\ channel[j] # engine.command
             /\ \A k \in 1..Len(channel) : channel[k] = channel[j] => k = j
      BY DEF QueueInvariant, OnePlace
    <3>2. engine.command \in Writes => UnderWay(engine.command)
      BY DEF QueueInvariant, OnePlace
    <3>3. \A j \in 1..Len(channel') : j \in 1..Len(channel) \/ j = Len(channel) + 1
      <4>1. Len(channel) \in Nat /\ Len(channel') = Len(channel) + 1
        BY <1>3
      <4> QED
        BY <4>1
    <3>4. CASE i = Len(channel) + 1
      <4>1. w = x
        BY <1>3, <2>1, <3>4
      <4>2. \A j \in 1..Len(channel) : channel[j] # w
        BY <1>9, <3>1, <4>1
      <4>3. \A j \in 1..Len(channel') : channel'[j] = w => j = i
        BY <1>3, <3>3, <3>4, <4>2
      <4> QED
        BY <1>9, <3>2, <4>1, <4>3
    <3>5. CASE i \in 1..Len(channel)
      <4>1. channel[i] = w
        BY <1>3, <2>1, <3>5
      <4>2. UnderWay(w) /\ w # x
        BY <1>9, <3>1, <3>5, <4>1
      <4>3. w # engine.command /\ \A k \in 1..Len(channel) : channel[k] = w => k = i
        BY <3>1, <3>5, <4>1
      <4>4. \A j \in 1..Len(channel') : channel'[j] = w => j = i
        BY <1>3, <3>3, <4>2, <4>3
      <4> QED
        BY <1>8, <4>2, <4>3, <4>4
    <3> QED
      BY <3>3, <3>4, <3>5
  <2>2. ASSUME NEW w \in Writes, engine'.command = w PROVE UnderWay(w)'
    BY <1>1, <1>8, <2>2 DEF QueueInvariant, OnePlace
  <2>3. released' \subseteq Acked'
    BY <1>1, <1>4 DEF QueueInvariant, OnePlace
  <2> QED
    BY <1>1, <2>1, <2>2, <2>3 DEF OnePlace, UnderWay
<1> QED
  BY <1>5, <1>6, <1>7, <1>10 DEF QueueInvariant


\* The first command of the channel is with the engine next.
LEMMA QueueReceiveKeeps ==
    ASSUME QueueInvariant, Receive
    PROVE  QueueInvariant'
<1>1. PlacesOK /\ NoCommand \notin Writes /\ Stop \notin Writes
  BY QueueAssumption DEF QueueInvariant, TypeOK, Requests
<1>2. /\ channel' \in Seq(Requests \cup {Stop})
      /\ Len(channel) \in Nat
      /\ Len(channel') = Len(channel) - 1
      /\ Head(channel) \in Requests \cup {Stop}
      /\ Head(channel) = channel[1]
      /\ 1 \in 1..Len(channel)
      /\ \A i \in 1..Len(channel') : channel'[i] = channel[i + 1]
  BY <1>1, ReceivedFacts DEF Receive
<1>3. UNCHANGED <<pc, seen, queued, receiving, running, ingested, published, released,
                  ackedBefore>>
  BY DEF Receive
<1>4. engine' = IF Head(channel) = Stop THEN [at |-> "exiting", command |-> NoCommand]
                ELSE [at |-> "serving", command |-> Head(channel)]
  BY DEF Receive, At
<1>5. Counted' = Counted /\ Acked' = Acked /\ \A w : UnderWay(w)' = UnderWay(w)
  BY <1>3 DEF Counted, Acked, UnderWay
<1>6. /\ queued' \in Nat
      /\ IsFiniteSet(SamplesOf(Counted))'
      /\ QueuedIsCounted'
      /\ AloneOverBound'
  BY <1>3, <1>5, CountKeeps
<1>7. TypeOK'
  BY <1>2, <1>3, <1>4, <1>6 DEF QueueInvariant, TypeOK, PlacesOK
<1>8. PublishedFirst'
  BY <1>3, <1>4 DEF QueueInvariant, PublishedFirst
<1>9. engine'.command \in Writes => engine'.command = channel[1]
  BY <1>1, <1>2, <1>4
<1>10. \A j \in 1..Len(channel) : channel[j] \in Writes =>
          /\ UnderWay(channel[j])
          /\ \A k \in 1..Len(channel) : channel[k] = channel[j] => k = j
  BY DEF QueueInvariant, OnePlace
<1>11. ASSUME NEW i \in 1..Len(channel'), NEW w \in Writes, channel'[i] = w
       PROVE  /\ UnderWay(w)
              /\ w # engine'.command
              /\ \A j \in 1..Len(channel') : channel'[j] = w => j = i
  <2>1. i + 1 \in 1..Len(channel) /\ channel[i + 1] = w /\ i \in Nat /\ i + 1 # 1
    BY <1>2, <1>11
  <2>2. UnderWay(w) /\ \A k \in 1..Len(channel) : channel[k] = w => k = i + 1
    BY <1>10, <2>1
  <2>3. w # engine'.command
    BY <1>2, <1>9, <2>1, <2>2
  <2>4. ASSUME NEW j \in 1..Len(channel'), channel'[j] = w PROVE j = i
    <3>1. j + 1 \in 1..Len(channel) /\ channel[j + 1] = w
      BY <1>2, <2>4
    <3>2. j + 1 = i + 1
      BY <2>2, <3>1
    <3> QED
      BY <2>1, <3>2
  <2> QED
    BY <2>2, <2>3, <2>4
<1>12. ASSUME NEW w \in Writes, engine'.command = w PROVE UnderWay(w)
  BY <1>2, <1>9, <1>10, <1>12
<1>13. OnePlace'
  BY <1>3, <1>5, <1>11, <1>12 DEF QueueInvariant, OnePlace
<1> QED
  BY <1>6, <1>7, <1>8, <1>13 DEF QueueInvariant

\* The engine is at the next part of its command, or done with one that no
\* write waits for.
LEMMA QueueServeKeeps ==
    ASSUME QueueInvariant,
           NEW place \in {"receiving", "ran", "published", "exiting", "exited"},
           NEW command \in {engine.command, NoCommand}, At(place, command),
           UNCHANGED <<channel, seen, queued, receiving, released, ackedBefore>>,
           running' \in BOOLEAN,
           \/ UNCHANGED pc
           \/ engine.command \in Asks \cup Barriers /\ Become(engine.command, "answered"),
           published' \in {published, ingested}, ingested \subseteq ingested',
           ingested' \subseteq Writes,
           command \in Writes => /\ place = "ran" => command \in ingested'
                                 /\ place = "published" => command \in published'
    PROVE  QueueInvariant'
<1>1. PlacesOK /\ published \subseteq ingested /\ NoCommand \notin Writes
  BY QueueAssumption DEF QueueInvariant, TypeOK, PublishedFirst, Requests
<1>2. /\ pc' \in [Requests -> PcStates]
      /\ \A w \in Writes : pc'[w] = pc[w]
  <2>1. CASE UNCHANGED pc
    BY <1>1, <2>1 DEF PlacesOK
  <2>2. CASE engine.command \in Asks \cup Barriers /\ Become(engine.command, "answered")
    <3>1. engine.command \in Requests /\ engine.command \notin Writes
      BY <2>2, QueueAssumption DEF Requests
    <3> QED
      BY <1>1, <2>2, <3>1 DEF PlacesOK, Become, PcStates, Requests
  <2> QED
    BY <2>1, <2>2
<1>3. engine' = [at |-> place, command |-> command]
  BY DEF At
<1>4. Counted' = Counted /\ Acked' = Acked
  BY <1>2 DEF Counted, Acked
<1>5. \A w \in Writes : UnderWay(w)' = UnderWay(w)
  BY <1>2 DEF UnderWay
<1>6. /\ queued' \in Nat
      /\ IsFiniteSet(SamplesOf(Counted))'
      /\ QueuedIsCounted'
      /\ AloneOverBound'
  BY <1>4, CountKeeps
<1>7. TypeOK'
  BY <1>1, <1>2, <1>3, <1>6 DEF QueueInvariant, TypeOK, PlacesOK
<1>8. PublishedFirst'
  BY <1>1, <1>3 DEF QueueInvariant, PublishedFirst
<1>9. engine'.command \in Writes => engine'.command = engine.command
  BY <1>1, <1>3
<1>10. OnePlace'
  <2>1. \A i \in 1..Len(channel) : channel[i] \in Writes =>
           /\ UnderWay(channel[i])
           /\ channel[i] # engine.command
           /\ \A j \in 1..Len(channel) : channel[j] = channel[i] => j = i
    BY DEF QueueInvariant, OnePlace
  <2>2. \A i \in 1..Len(channel) : channel[i] \in Writes =>
           UnderWay(channel[i])' /\ channel[i] # engine'.command
    BY <1>5, <1>9, <2>1
  <2>3. ASSUME NEW w \in Writes, engine'.command = w PROVE UnderWay(w)'
    BY <1>5, <1>9, <2>3 DEF QueueInvariant, OnePlace
  <2>4. released' \subseteq Acked'
    BY <1>4 DEF QueueInvariant, OnePlace
  <2> QED
    BY <2>1, <2>2, <2>3, <2>4 DEF OnePlace
<1> QED
  BY <1>6, <1>7, <1>8, <1>10 DEF QueueInvariant

\* A write's samples leave the queue after its counters are published.
LEMMA ReleaseKeeps ==
    ASSUME QueueInvariant, ReleaseSamples
    PROVE  QueueInvariant'
<1> DEFINE w == engine.command
<1>1. PlacesOK /\ NoCommand \notin Writes
  BY QueueAssumption DEF QueueInvariant, TypeOK, Requests
<1>2. /\ w \in Writes
      /\ queued' = queued - CountOf[w]
      /\ released' = released \cup {w}
      /\ engine' = [at |-> "receiving", command |-> NoCommand]
      /\ engine.at = "published"
      /\ UNCHANGED <<pc, seen, channel, receiving, running, ingested, published, ackedBefore>>
  BY DEF ReleaseSamples, At
<1>3. UnderWay(w) /\ w \in published
  BY <1>2 DEF QueueInvariant, OnePlace, PublishedFirst
<1> HIDE DEF w
<1>4. w \in Counted /\ Counted' = Counted \ {w} /\ w \in Acked /\ Acked' = Acked
  BY <1>2, <1>3 DEF UnderWay, Counted, Acked
<1>5. /\ queued' \in Nat
      /\ IsFiniteSet(SamplesOf(Counted))'
      /\ QueuedIsCounted'
      /\ AloneOverBound'
  BY <1>2, <1>4, CountKeeps
<1>6. TypeOK'
  BY <1>1, <1>2, <1>5 DEF QueueInvariant, TypeOK, PlacesOK
<1>7. PublishedFirst'
  BY <1>1, <1>2, <1>3 DEF QueueInvariant, PublishedFirst
<1>8. \A v \in Writes : UnderWay(v) /\ v # w => UnderWay(v)'
  BY <1>2 DEF UnderWay
<1>9. OnePlace'
  <2>1. \A i \in 1..Len(channel) : channel[i] \in Writes =>
           /\ UnderWay(channel[i])
           /\ channel[i] # w
           /\ \A j \in 1..Len(channel) : channel[j] = channel[i] => j = i
    BY DEF QueueInvariant, OnePlace, w
  <2>2. \A i \in 1..Len(channel) : channel[i] \in Writes => UnderWay(channel[i])'
    BY <1>2, <1>8, <2>1
  <2>3. engine'.command \notin Writes
    BY <1>1, <1>2
  <2>4. \A i \in 1..Len(channel) : channel[i] \in Writes => channel[i] # engine'.command
    BY <2>3
  <2>5. released' \subseteq Acked'
    BY <1>2, <1>4 DEF QueueInvariant, OnePlace
  <2> QED
    BY <1>2, <2>1, <2>2, <2>3, <2>4, <2>5 DEF OnePlace
<1> QED
  BY <1>5, <1>6, <1>7, <1>9 DEF QueueInvariant

\* The commands left when the receiver is dropped are gone, and the samples
\* of their writes stay counted.
LEMMA DropKeeps ==
    ASSUME QueueInvariant, DropReceiver
    PROVE  QueueInvariant'
<1>1. PlacesOK /\ NoCommand \notin Writes
  BY QueueAssumption DEF QueueInvariant, TypeOK, Requests
<1>2. /\ pc' = [r \in Requests |-> IF r \in Abandoned THEN "stopped" ELSE pc[r]]
      /\ channel' = <<>>
      /\ receiving' = FALSE
      /\ engine' = [at |-> "dropped", command |-> NoCommand]
      /\ UNCHANGED <<seen, queued, running, ingested, published, released, ackedBefore>>
  BY DEF DropReceiver, At
<1>3. \A r \in Requests : \/ pc'[r] = pc[r]
                          \/ pc[r] = "waiting" /\ pc'[r] = "stopped"
  <2>1. \A r \in Abandoned : pc[r] = "waiting"
    BY DEF Abandoned
  <2>2. pc' = [r \in Requests |-> IF r \in Abandoned THEN "stopped" ELSE pc[r]]
    BY <1>2
  <2> QED
    BY <2>1, <2>2
<1>4. Counted' = Counted /\ Acked' = Acked
  BY <1>2, <1>3 DEF Counted, Acked, Requests
<1>5. /\ queued' \in Nat
      /\ IsFiniteSet(SamplesOf(Counted))'
      /\ QueuedIsCounted'
      /\ AloneOverBound'
  BY <1>2, <1>4, CountKeeps
<1>6. pc' \in [Requests -> PcStates] /\ <<>> \in Seq(Requests \cup {Stop})
  BY <1>1, <1>2 DEF PlacesOK, PcStates
<1>7. TypeOK'
  BY <1>1, <1>2, <1>5, <1>6 DEF QueueInvariant, TypeOK, PlacesOK
<1>8. OnePlace' /\ PublishedFirst'
  BY <1>1, <1>2, <1>4 DEF QueueInvariant, OnePlace, PublishedFirst
<1> QED
  BY <1>5, <1>7, <1>8 DEF QueueInvariant

\* A step that leaves every request where it is.
LEMMA QueueRestKeeps ==
    ASSUME QueueInvariant, UNCHANGED vars
    PROVE  QueueInvariant'
<1>1. UNCHANGED <<pc, seen, queued, channel, receiving, running, engine, ingested,
                  published, released, ackedBefore>>
  BY DEF vars
<1>2. Counted' = Counted /\ Acked' = Acked
  BY <1>1 DEF Counted, Acked
<1>3. OnePlace' /\ PublishedFirst'
  BY <1>1, <1>2, PlacesStay
<1>4. TypeOK'
  BY <1>1 DEF QueueInvariant, TypeOK, PlacesOK
<1> QED
  BY <1>1, <1>2, <1>3, <1>4, CountKeeps DEF QueueInvariant

\* A step of a write's handler, or its sender's retry.
LEMMA WriteKeeps ==
    ASSUME QueueInvariant, NEW w \in Writes, WriteStep(w) \/ Retry(w)
    PROVE  QueueInvariant'
<1>1. /\ w \in Requests /\ w \notin Asks \cup Barriers
      /\ PlacesOK /\ seen \in [Writes -> Nat] /\ queued \in Nat
      /\ ackedBefore \in [Barriers -> SUBSET Writes]
  BY QueueAssumption DEF QueueInvariant, TypeOK, PlacesOK, Requests
<1>2. CASE LoadQueued(w)
  BY <1>1, <1>2, QueueMoveKeeps DEF LoadQueued, PcStates
<1>3. CASE Admit(w)
  <2>1. CASE ~Admits(seen[w], CountOf[w]) /\ Become(w, "busy") /\ UNCHANGED <<seen, queued>>
    BY <1>1, <1>3, <2>1, QueueMoveKeeps DEF Admit, PcStates
  <2>2. CASE /\ Admits(seen[w], CountOf[w])
             /\ queued = seen[w]
             /\ queued' = queued + CountOf[w]
             /\ Become(w, "admitted")
             /\ UNCHANGED seen
    BY <1>3, <2>2, AdmissionKeeps DEF Admit
  <2>3. CASE seen' = [seen EXCEPT ![w] = queued] /\ UNCHANGED <<pc, queued>>
    <3>1. UNCHANGED <<engine, ingested, published, released, receiving, running, channel,
                      ackedBefore>>
      BY <1>3 DEF Admit, engineVars
    <3>2. Counted' = Counted /\ Acked' = Acked
      BY <2>3, <3>1 DEF Counted, Acked
    <3>3. OnePlace' /\ PublishedFirst'
      BY <3>1, <3>2, PlacesStay
    <3>4. TypeOK'
      BY <1>1, <2>3, <3>1 DEF QueueInvariant, TypeOK, PlacesOK
    <3> QED
      BY <2>3, <3>2, <3>3, <3>4, CountKeeps DEF QueueInvariant
  <2> QED
    BY <1>3, <2>1, <2>2, <2>3 DEF Admit
<1>4. CASE SendWrite(w)
  <2>1. CASE receiving
    BY <1>1, <1>4, <2>1, QueueSendKeeps DEF SendWrite
  <2>2. CASE ~receiving
    <3>1. /\ pc[w] = "admitted" /\ Become(w, "undo") /\ "undo" \in PcStates
          /\ UNCHANGED <<engineVars, seen, queued, channel, ackedBefore>>
      BY <1>4, <2>2 DEF SendWrite, PcStates
    <3>2. UNCHANGED <<engine, ingested, published, released, receiving, running>>
      BY <3>1 DEF engineVars
    <3>3. /\ pc' \in [Requests -> PcStates]
          /\ Acked \subseteq Acked'
          /\ Counted' = Counted
      BY <1>1, <3>1, <3>2, MoveCounts
    <3>4. OnePlace' /\ PublishedFirst'
      BY <3>1, <3>2, <3>3, PlacesStay
    <3>5. TypeOK'
      BY <3>1, <3>2, <3>3 DEF QueueInvariant, TypeOK, PlacesOK
    <3> QED
      BY <3>1, <3>3, <3>4, <3>5, CountKeeps DEF QueueInvariant
  <2> QED
    BY <2>1, <2>2
<1>5. CASE UndoAdmission(w)
  BY <1>5, AdmissionKeeps DEF UndoAdmission
<1>6. CASE Retry(w)
  BY <1>1, <1>6, QueueMoveKeeps DEF Retry, PcStates
<1> QED
  BY <1>2, <1>3, <1>4, <1>5, <1>6 DEF WriteStep

\* A handler's step.
LEMMA QueueHandlerKeeps ==
    ASSUME QueueInvariant, NEW r \in Requests, Handler(r)
    PROVE  QueueInvariant'
<1>1. /\ PlacesOK /\ seen \in [Writes -> Nat]
      /\ ackedBefore \in [Barriers -> SUBSET Writes]
      /\ Writes \cap (Asks \cup Barriers) = {}
  BY QueueAssumption DEF QueueInvariant, TypeOK, PlacesOK
<1>2. CASE CheckRunning(r)
  <2>1. /\ pc[r] = "new"
        /\ UNCHANGED <<engineVars, seen, queued, channel>>
        /\ ackedBefore' \in [Barriers -> SUBSET Writes]
    BY <1>1, <1>2 DEF CheckRunning, Acked
  <2>2. Become(r, "checked") \/ Become(r, "stopped")
    BY <1>2 DEF CheckRunning
  <2> QED
    BY <1>1, <2>1, <2>2, QueueMoveKeeps DEF PcStates
<1>3. ASSUME r \in Writes, WriteStep(r) PROVE QueueInvariant'
  BY <1>3, WriteKeeps
<1>4. ASSUME r \in Asks, SendAsk(r) PROVE QueueInvariant'
  <2>1. CASE receiving
    BY <1>4, <2>1, QueueSendKeeps DEF SendAsk
  <2>2. CASE ~receiving
    BY <1>1, <1>4, <2>2, QueueMoveKeeps DEF SendAsk, PcStates
  <2> QED
    BY <2>1, <2>2
<1>5. ASSUME r \in Barriers, SendBarrier(r) PROVE QueueInvariant'
  <2>1. CASE receiving
    BY <1>5, <2>1, QueueSendKeeps DEF SendBarrier
  <2>2. CASE ~receiving
    BY <1>1, <1>5, <2>2, QueueMoveKeeps DEF SendBarrier, PcStates
  <2> QED
    BY <2>1, <2>2
<1> QED
  BY <1>2, <1>3, <1>4, <1>5 DEF Handler

\* A step of the engine thread, which may panic.
LEMMA QueueEngineKeeps ==
    ASSUME QueueInvariant, Engine \/ Panic
    PROVE  QueueInvariant'
<1>1. /\ PlacesOK /\ running \in BOOLEAN
      /\ Writes \cap (Asks \cup Barriers) = {} /\ NoCommand \notin Writes
      /\ engine.command \in Writes /\ engine.at \in {"ran", "published"} =>
            engine.command \in ingested
  BY QueueAssumption DEF QueueInvariant, TypeOK, PublishedFirst, Requests
<1>2. CASE ServeAsk
  BY <1>1, <1>2, QueueServeKeeps DEF ServeAsk, PlacesOK
<1>3. CASE Run
  BY <1>1, <1>3, QueueServeKeeps DEF Run, PlacesOK
<1>4. CASE Publish
  BY <1>1, <1>4, QueueServeKeeps DEF Publish, PlacesOK
<1>5. CASE ReplyBarrier
  BY <1>1, <1>5, QueueServeKeeps DEF ReplyBarrier, PlacesOK
<1>6. CASE Panic
  BY <1>1, <1>6, QueueServeKeeps DEF Panic, PlacesOK
<1>7. CASE ClearRunning
  BY <1>1, <1>7, QueueServeKeeps DEF ClearRunning, PlacesOK
<1> QED
  BY <1>2, <1>3, <1>4, <1>5, <1>6, <1>7, QueueReceiveKeeps, ReleaseKeeps, DropKeeps
     DEF Engine

\* Every step preserves the queue invariant.
LEMMA QueueNextKeeps ==
    ASSUME QueueInvariant, [Next]_vars
    PROVE  QueueInvariant'
<1>1. CASE SendStop
  BY <1>1, QueueSendKeeps DEF SendStop
<1> QED
  BY <1>1, QueueRestKeeps, QueueHandlerKeeps, QueueEngineKeeps, WriteKeeps DEF Next

\* It holds at the start.
LEMMA QueueInitHolds ==
    ASSUME Init
    PROVE  QueueInvariant
<1>1. Counted = {} /\ Acked = {} /\ NoCommand \notin Writes
  BY QueueAssumption DEF Init, Counted, Acked, Requests
<1>2. SamplesOf(Counted) = {}
  BY <1>1 DEF SamplesOf
<1>3. IsFiniteSet(SamplesOf(Counted)) /\ QueuedIsCounted
  BY <1>2, FS_EmptySet DEF Init, QueuedIsCounted
<1>4. TypeOK
  BY DEF Init, TypeOK, PlacesOK, PcStates
<1>5. OnePlace /\ PublishedFirst
  BY <1>1 DEF Init, OnePlace, PublishedFirst
<1>6. AloneOverBound
  BY QueueAssumption DEF Init, AloneOverBound
<1> QED
  BY <1>3, <1>4, <1>5, <1>6 DEF QueueInvariant

----------------------------------------------------------------------------
(* The theorems on the queue.                                              *)

\* The queue's inductive invariant holds in every state the queue reaches.
THEOREM QueueInvariantHolds == Spec => []QueueInvariant
<1>1. Init => QueueInvariant
  BY QueueInitHolds
<1>2. QueueInvariant /\ [Next]_vars => QueueInvariant'
  BY QueueNextKeeps
<1> QED
  BY <1>1, <1>2, PTL DEF Spec

\* The variables keep their types; queued_samples never goes below zero.
THEOREM QueueTypes == Spec => []TypeOK
<1>1. QueueInvariant => TypeOK
  BY DEF QueueInvariant
<1> QED
  BY <1>1, QueueInvariantHolds, PTL

\* queued_samples is the number of samples admitted and not released, however
\* admissions, releases and failed sends interleave.
THEOREM QueuedSamplesAreCounted == Spec => []QueuedIsCounted
<1>1. QueueInvariant => QueuedIsCounted
  BY DEF QueueInvariant
<1> QED
  BY <1>1, QueueInvariantHolds, PTL

\* More samples than the bound wait only when one request alone is larger.
THEOREM QueueStaysBounded == Spec => []QueueBounded
<1>1. QueueInvariant => QueueBounded
  BY FS_Singleton DEF QueueInvariant, AloneOverBound, QueueBounded
<1> QED
  BY <1>1, QueueInvariantHolds, PTL

\* An empty queue means that the published stats include every acknowledged
\* write, whether the engine still serves or not.
THEOREM EmptyQueuesArePublished == Spec => []EmptyQueueIsPublished
<1>1. QueueInvariant => EmptyQueueIsPublished
  <2> SUFFICES ASSUME QueueInvariant, queued = 0, NEW w \in Acked PROVE w \in published
    BY DEF EmptyQueueIsPublished
  <2>1. Counted \in SUBSET Writes
    BY DEF Counted
  <2>2. Counted = {}
    BY <2>1, NoSamples DEF QueueInvariant, QueuedIsCounted
  <2>3. w \in released
    BY <2>2 DEF Counted, Acked
  <2> QED
    BY <2>3 DEF QueueInvariant, PublishedFirst
<1> QED
  BY <1>1, QueueInvariantHolds, PTL

=============================================================================
