------------------------- MODULE EventConsumerProofs -------------------------
(***************************************************************************)
(* Theorems about EventConsumer, for any members, events and hours, any    *)
(* number of attempts and faults, and any length of the topic.             *)
(***************************************************************************)
EXTENDS EventConsumer, SumTheorems

\* What the owner has passed and its group has not committed was applied or put
\* aside, unless the owner is deaf.
PassedIsSettled ==
  \A w \in Workers : Owns(w) /\ mode[w] # "deaf" =>
    \A i \in 1..pos[w] : i > committed[w[1]] => <<w[1], topic[i]>> \in processed \cup dlq

\* The owner of the partition is never behind what its group has committed.
OwnerIsAhead == \A w \in Workers : Owns(w) => committed[w[1]] <= pos[w]

IInv == TypeOK /\ PassedIsSettled /\ OwnerIsAhead /\ MetricsCountProcessed

-----------------------------------------------------------------------------

LEMMA WorkerFacts ==
  /\ \A w \in Workers : w[1] \in Groups /\ w[2] \in Members /\ w = <<w[1], w[2]>>
  /\ \A g \in Groups, m \in Members : <<g, m>> \in Workers /\ <<g, m>>[1] = g
BY DEF Workers

\* The event of a handler.
LEMMA CurrentEvent ==
  ASSUME TypeOK, NEW w \in Workers, pc[w] # "idle"
  PROVE  /\ pos[w] + 1 \in 1..Len(topic) /\ Current(w) \in Events
         /\ Row(w) \in Groups \X Events /\ Current(w) \in Range(topic)
<1>1. pos[w] \in 0..Len(topic) /\ pos[w] < Len(topic) /\ topic \in Seq(Events)
  BY DEF TypeOK
<1>2. pos[w] + 1 \in 1..Len(topic)
  BY <1>1
<1>3. Current(w) \in Events /\ Current(w) \in Range(topic)
  BY <1>1, <1>2 DEF Current, Range
<1>4. QED
  BY <1>2, <1>3, WorkerFacts DEF Row

LEMMA InitInv == Init => IInv
<1> SUFFICES ASSUME Init PROVE IInv
  OBVIOUS
<1>1. TypeOK
  BY WorkerFacts, ConsumerAssumption DEF Init, TypeOK
<1>2. PassedIsSettled /\ OwnerIsAhead
  BY ConsumerAssumption, WorkerFacts DEF Init, PassedIsSettled, OwnerIsAhead, Owns
<1>3. MetricsCountProcessed
  <2>1. \A b \in Hours \X Counted :
          {e \in Events : <<"analytics", e>> \in processed /\ Bucket(e) = b} = {}
    BY DEF Init
  <2>2. QED
    BY <2>1, FS_EmptySet DEF Init, MetricsCountProcessed
<1>4. QED
  BY <1>1, <1>2, <1>3 DEF IInv

\* A message is added at the end of the topic.
LEMMA AppendInv ==
  ASSUME IInv, NEW e \in Events, topic' = Append(topic, e),
         UNCHANGED <<dlq, processed, metrics, told, owner, committed, member, faults>>
  PROVE  IInv'
<1>1. /\ topic \in Seq(Events) /\ topic' \in Seq(Events) /\ Len(topic') = Len(topic) + 1
      /\ \A i \in 1..Len(topic) : topic'[i] = topic[i]
  BY DEF IInv, TypeOK
<1>2. UNCHANGED <<dlq, processed, metrics, told, owner, committed, pos, attempt, mode, pc, faults>>
  BY DEF member
<1>3. TypeOK'
  BY <1>1, <1>2 DEF IInv, TypeOK
<1>4. PassedIsSettled'
  <2>1. \A w \in Workers : pos[w] \in 0..Len(topic)
    BY DEF IInv, TypeOK
  <2>2. \A w \in Workers : \A i \in 1..pos[w] : topic'[i] = topic[i]
    BY <1>1, <2>1
  <2>3. QED
    BY <1>2, <2>2 DEF IInv, PassedIsSettled, Owns
<1>5. OwnerIsAhead' /\ MetricsCountProcessed'
  BY <1>2 DEF IInv, OwnerIsAhead, Owns, MetricsCountProcessed, Bucket
<1>6. QED
  BY <1>3, <1>4, <1>5 DEF IInv

\* A step that leaves the data as they are, where the owner moves on over a processed
\* message or starts after what its group has committed.
OffsetStep ==
  /\ UNCHANGED <<topic, dlq, processed, metrics>>
  /\ TypeOK'
  /\ OwnerIsAhead'
  /\ \A w \in Workers : Owns(w)' /\ mode'[w] # "deaf" =>
       \/ pos'[w] = committed'[w[1]]
       \/ /\ Owns(w) /\ mode[w] # "deaf" /\ committed'[w[1]] = committed[w[1]]
          /\ pos'[w] = pos[w] \/ (pos'[w] = pos[w] + 1 /\ Row(w) \in processed)

LEMMA OffsetInv ==
  ASSUME IInv, OffsetStep
  PROVE  IInv'
<1>1. UNCHANGED <<topic, dlq, processed, metrics>>
  BY DEF OffsetStep
<1>2. ASSUME NEW w \in Workers, Owns(w)', mode'[w] # "deaf",
             NEW i \in 1..pos'[w], i > committed'[w[1]]
      PROVE  <<w[1], topic[i]>> \in processed \cup dlq
  <2>1. /\ pos[w] \in Nat /\ committed'[w[1]] \in Nat /\ i \in Nat /\ i >= 1
        /\ i <= pos'[w] /\ pos'[w] \in Nat
    BY <1>2, WorkerFacts DEF IInv, OffsetStep, TypeOK
  <2>2. ~(pos'[w] = committed'[w[1]])
    BY <1>2, <2>1
  <2>3. /\ Owns(w) /\ mode[w] # "deaf" /\ committed'[w[1]] = committed[w[1]]
        /\ pos'[w] = pos[w] \/ (pos'[w] = pos[w] + 1 /\ Row(w) \in processed)
    BY <1>2, <2>2 DEF OffsetStep
  <2>4. CASE i = pos[w] + 1 /\ Row(w) \in processed
    BY <2>4 DEF Row, Current
  <2>5. CASE i \in 1..pos[w]
    BY <1>2, <2>3, <2>5 DEF IInv, PassedIsSettled
  <2>6. QED
    BY <2>1, <2>3, <2>4, <2>5
<1>3. PassedIsSettled'
  BY <1>1, <1>2 DEF PassedIsSettled
<1>4. MetricsCountProcessed'
  BY <1>1 DEF IInv, MetricsCountProcessed, Bucket
<1>5. QED
  BY <1>3, <1>4 DEF IInv, OffsetStep

LEMMA AssignInv ==
  ASSUME IInv, NEW g \in Groups, NEW m \in Members, Assign(g, m)
  PROVE  IInv'
<1>1. PICK w \in Workers : w = <<g, m>> /\ w[1] = g /\ w[2] = m
  BY WorkerFacts
<1>2. /\ pc[w] = "idle" /\ owner' = [owner EXCEPT ![g] = m]
      /\ pos' = [pos EXCEPT ![w] = committed[g]]
      /\ mode' = [mode EXCEPT ![w] = IF @ = "starting" THEN "running" ELSE @]
      /\ UNCHANGED <<topic, dlq, processed, metrics, told, committed, attempt, pc>>
  BY <1>1 DEF Assign
<1>3. faults' \in 0..MaxFaults
  BY ConsumerAssumption DEF Assign, IInv, TypeOK
<1>4. TypeOK'
  <2>1. mode' \in [Workers -> {"starting", "running", "deaf"}]
    BY <1>2 DEF IInv, TypeOK
  <2>2. QED
    BY <1>2, <1>3, <2>1 DEF IInv, TypeOK
<1>5. ASSUME NEW v \in Workers, owner'[v[1]] = v[2]
      PROVE  \/ v = w /\ pos'[v] = committed[v[1]]
             \/ Owns(v) /\ pos'[v] = pos[v] /\ mode'[v] = mode[v]
  <2>1. CASE v = w
    BY <1>1, <1>2, <2>1 DEF IInv, TypeOK
  <2>2. CASE v # w
    <3>1. v[1] # g
      BY <1>1, <1>2, <1>5, <2>2, WorkerFacts DEF IInv, TypeOK
    <3>2. Owns(v)
      BY <1>2, <1>5, <3>1, WorkerFacts DEF Owns, IInv, TypeOK
    <3>3. QED
      BY <1>2, <2>2, <3>2 DEF IInv, TypeOK
  <2>3. QED
    BY <2>1, <2>2
<1>6. OwnerIsAhead'
  <2>1. SUFFICES ASSUME NEW v \in Workers, owner'[v[1]] = v[2]
                 PROVE  committed[v[1]] <= pos'[v]
    BY <1>2 DEF OwnerIsAhead, Owns
  <2>2. committed[v[1]] \in Nat
    BY WorkerFacts DEF IInv, TypeOK
  <2>3. QED
    BY <1>5, <2>1, <2>2 DEF IInv, OwnerIsAhead
<1>7. OffsetStep
  BY <1>2, <1>4, <1>5, <1>6 DEF OffsetStep, Owns
<1>8. QED
  BY <1>7, OffsetInv

LEMMA CommitStopInv ==
  ASSUME IInv, NEW w \in Workers, Commit(w) \/ Stop(w)
  PROVE  IInv'
<1>1. /\ committed' = [committed EXCEPT ![w[1]] = IF Owns(w) THEN pos[w] ELSE @]
      /\ owner' = owner \/ owner' = [owner EXCEPT ![w[1]] = IF Owns(w) THEN Nobody ELSE @]
      /\ UNCHANGED <<topic, dlq, processed, metrics, told, pos, attempt, pc>>
  BY DEF Commit, Stop, member, Leave
<1>2. faults' \in 0..MaxFaults
  BY ConsumerAssumption DEF Commit, Stop, IInv, TypeOK
<1>3. mode' = mode \/ (mode' = [mode EXCEPT ![w] = "starting"] /\ Stop(w))
  BY DEF Commit, Stop, Restart, member
<1>4. TypeOK'
  <2>1. committed' \in [Groups -> 0..Len(topic)]
    BY <1>1, WorkerFacts DEF IInv, TypeOK
  <2>2. owner' \in [Groups -> Members \cup {Nobody}]
    BY <1>1 DEF IInv, TypeOK
  <2>3. mode' \in [Workers -> {"starting", "running", "deaf"}]
    BY <1>3 DEF IInv, TypeOK
  <2>4. QED
    BY <1>1, <1>2, <2>1, <2>2, <2>3 DEF IInv, TypeOK
<1>5. ASSUME NEW v \in Workers, owner'[v[1]] = v[2]
      PROVE  /\ Owns(v)
             /\ \/ v = w /\ committed'[v[1]] = pos[v]
                \/ committed'[v[1]] = committed[v[1]] /\ mode'[v] = mode[v]
  <2>1. /\ v[1] \in Groups /\ v[2] # Nobody /\ v = <<v[1], v[2]>>
        /\ w[1] \in Groups /\ w = <<w[1], w[2]>> /\ committed \in [Groups -> 0..Len(topic)]
        /\ owner \in [Groups -> Members \cup {Nobody}]
    BY WorkerFacts, ConsumerAssumption DEF IInv, TypeOK
  <2>2. Owns(v)
    BY <1>1, <1>5, <2>1 DEF Owns
  <2>3. CASE v = w
    BY <1>1, <2>1, <2>2, <2>3
  <2>4. CASE v # w
    <3>1. v[1] # w[1] \/ ~Owns(w)
      BY <2>1, <2>2, <2>4 DEF Owns
    <3>2. committed'[v[1]] = committed[v[1]]
      BY <1>1, <2>1, <3>1
    <3>3. QED
      BY <1>3, <2>2, <2>4, <3>2 DEF IInv, TypeOK
  <2>5. QED
    BY <2>3, <2>4
<1>6. OwnerIsAhead'
  <2>1. SUFFICES ASSUME NEW v \in Workers, owner'[v[1]] = v[2]
                 PROVE  committed'[v[1]] <= pos[v]
    BY <1>1 DEF OwnerIsAhead, Owns
  <2>2. pos[v] \in Nat
    BY DEF IInv, TypeOK
  <2>3. QED
    BY <1>5, <2>1, <2>2 DEF IInv, OwnerIsAhead
<1>7. OffsetStep
  BY <1>1, <1>4, <1>5, <1>6 DEF OffsetStep, Owns
<1>8. QED
  BY <1>7, OffsetInv

\* Steps of a member that pass nothing and settle nothing.
LEMMA QuietInv ==
  ASSUME IInv, NEW w \in Workers,
         Crash(w) \/ StopTooEarly(w) \/ Fetch(w) \/ Begin(w) \/ HandlerFails(w) \/ ParkFails(w)
  PROVE  IInv'
<1>1. /\ UNCHANGED <<topic, dlq, processed, metrics, committed, pos>>
      /\ owner' = owner \/ owner' = [owner EXCEPT ![w[1]] = IF Owns(w) THEN Nobody ELSE @]
  BY DEF Crash, Leave, StopTooEarly, Fetch, Begin, HandlerFails, Caught, ParkFails
<1>2. \/ mode' = mode
      \/ mode' = [mode EXCEPT ![w] = "deaf"]
      \/ /\ mode' = [mode EXCEPT ![w] = "starting"]
         /\ owner' = [owner EXCEPT ![w[1]] = IF Owns(w) THEN Nobody ELSE @]
  BY DEF Crash, Leave, Restart, StopTooEarly, Fetch, Begin, HandlerFails, ParkFails
<1>0. faults \in 0..MaxFaults /\ MaxFaults \in Nat /\ MaxAttempts \in Nat \ {0}
  BY ConsumerAssumption DEF IInv, TypeOK
<1>3. faults' \in 0..MaxFaults /\ owner' \in [Groups -> Members \cup {Nobody}]
  <2>1. faults' = faults \/ (faults < MaxFaults /\ faults' = faults + 1)
    BY DEF Crash, StopTooEarly, Fetch, Begin, HandlerFails, ParkFails
  <2>2. faults' \in 0..MaxFaults
    BY <1>0, <2>1
  <2>3. QED
    BY <1>1, <2>2 DEF IInv, TypeOK
<1>4. told' \in [Events -> Nat]
  <2>1. CASE Begin(w)
    <3>1. Current(w) \in Events
      BY <2>1, CurrentEvent DEF IInv, Begin
    <3>2. QED
      BY <2>1, <3>1 DEF Begin, IInv, TypeOK
  <2>2. CASE Crash(w) \/ StopTooEarly(w) \/ Fetch(w) \/ HandlerFails(w) \/ ParkFails(w)
    BY <2>2 DEF Crash, StopTooEarly, Fetch, HandlerFails, ParkFails, IInv, TypeOK
  <2>3. QED
    BY <2>1, <2>2
<1>5. /\ attempt' \in [Workers -> 0..MaxAttempts]
      /\ pc' \in [Workers -> {"idle", "look", "write", "park"}]
      /\ \A v \in Workers : pc'[v] # "idle" => pos[v] < Len(topic) /\ attempt'[v] > 0
  <2>1. CASE Crash(w) \/ ParkFails(w)
    BY <2>1 DEF Crash, ParkFails, IInv, TypeOK
  <2>2. CASE StopTooEarly(w)
    BY <2>2 DEF StopTooEarly, IInv, TypeOK
  <2>3. CASE Fetch(w)
    BY <1>0, <2>3 DEF Fetch, HasNext, IInv, TypeOK
  <2>4. CASE Begin(w)
    BY <2>4 DEF Begin, IInv, TypeOK
  <2>5. CASE HandlerFails(w)
    <3>1. /\ attempt \in [Workers -> 0..MaxAttempts]
          /\ pc \in [Workers -> {"idle", "look", "write", "park"}]
          /\ \A v \in Workers : pc[v] # "idle" => pos[v] < Len(topic) /\ attempt[v] > 0
          /\ pc[w] # "idle"
      BY <2>5 DEF HandlerFails, IInv, TypeOK
    <3>2. CASE attempt[w] < MaxAttempts
      BY <1>0, <2>5, <3>1, <3>2 DEF HandlerFails, Caught
    <3>3. CASE ~(attempt[w] < MaxAttempts)
      BY <1>0, <2>5, <3>1, <3>3 DEF HandlerFails, Caught
    <3>4. QED
      BY <3>2, <3>3
  <2>6. QED
    BY <2>1, <2>2, <2>3, <2>4, <2>5
<1>6. TypeOK'
  <2>1. mode' \in [Workers -> {"starting", "running", "deaf"}]
    BY <1>2 DEF IInv, TypeOK
  <2>2. QED
    BY <1>1, <1>3, <1>4, <1>5, <2>1 DEF IInv, TypeOK
<1>7. ASSUME NEW v \in Workers, owner'[v[1]] = v[2]
      PROVE  Owns(v) /\ (mode'[v] # "deaf" => mode[v] # "deaf")
  <2>1. /\ v[1] \in Groups /\ v[2] # Nobody /\ w[1] \in Groups
        /\ owner \in [Groups -> Members \cup {Nobody}] /\ mode \in [Workers -> {"starting", "running", "deaf"}]
    BY WorkerFacts, ConsumerAssumption DEF IInv, TypeOK
  <2>2. Owns(v)
    BY <1>1, <1>7, <2>1 DEF Owns
  <2>3. CASE mode' = mode \/ mode' = [mode EXCEPT ![w] = "deaf"]
    BY <2>1, <2>2, <2>3
  <2>4. CASE /\ mode' = [mode EXCEPT ![w] = "starting"]
             /\ owner' = [owner EXCEPT ![w[1]] = IF Owns(w) THEN Nobody ELSE @]
    <3>1. v # w
      BY <1>7, <2>1, <2>2, <2>4
    <3>2. QED
      BY <2>1, <2>2, <2>4, <3>1
  <2>5. QED
    BY <1>2, <2>3, <2>4
<1>8. OwnerIsAhead'
  BY <1>1, <1>7 DEF IInv, OwnerIsAhead, Owns
<1>9. OffsetStep
  BY <1>1, <1>6, <1>7, <1>8 DEF OffsetStep, Owns
<1>10. QED
  BY <1>9, OffsetInv

\* The end of a message.
LEMMA ReturnType ==
  ASSUME TypeOK, NEW w \in Workers, pc[w] # "idle", Return(w)
  PROVE  /\ pos' \in [Workers -> 0..Len(topic)] /\ pos'[w] = pos[w] + 1
         /\ pc' \in [Workers -> {"idle", "look", "write", "park"}]
         /\ \A v \in Workers : pos'[v] >= pos[v] /\ (v # w => pos'[v] = pos[v])
         /\ \A v \in Workers : pc'[v] # "idle" => pos'[v] < Len(topic) /\ attempt[v] > 0
         /\ UNCHANGED <<topic, owner, committed, attempt, mode, faults>>
<1>1. pos[w] < Len(topic) /\ pos \in [Workers -> 0..Len(topic)] /\ Len(topic) \in Nat
  BY DEF TypeOK
<1>2. pos' = [pos EXCEPT ![w] = @ + 1] /\ pc' = [pc EXCEPT ![w] = "idle"]
  BY DEF Return
<1>3. QED
  BY <1>1, <1>2 DEF Return, TypeOK

LEMMA SkipInv ==
  ASSUME IInv, NEW w \in Workers, SkipProcessed(w)
  PROVE  IInv'
<1>1. Return(w) /\ pc[w] # "idle" /\ Row(w) \in processed
      /\ UNCHANGED <<dlq, processed, metrics, told>>
  BY DEF SkipProcessed
<1>2. /\ pos' \in [Workers -> 0..Len(topic)] /\ pos'[w] = pos[w] + 1
      /\ pc' \in [Workers -> {"idle", "look", "write", "park"}]
      /\ \A v \in Workers : pos'[v] >= pos[v] /\ (v # w => pos'[v] = pos[v])
      /\ \A v \in Workers : pc'[v] # "idle" => pos'[v] < Len(topic) /\ attempt[v] > 0
      /\ UNCHANGED <<topic, owner, committed, attempt, mode, faults>>
  BY <1>1, ReturnType DEF IInv
<1>3. TypeOK'
  BY <1>1, <1>2 DEF IInv, TypeOK
<1>4. OwnerIsAhead'
  BY <1>2, WorkerFacts DEF IInv, OwnerIsAhead, Owns, TypeOK
<1>5. OffsetStep
  BY <1>1, <1>2, <1>3, <1>4 DEF OffsetStep, Owns, IInv, TypeOK
<1>6. QED
  BY <1>5, OffsetInv

\* A deaf process passes a message.
LEMMA IgnoreInv ==
  ASSUME IInv, NEW w \in Workers, Ignore(w)
  PROVE  IInv'
<1>1. /\ mode[w] = "deaf" /\ pc[w] = "idle" /\ pos[w] < Len(topic)
      /\ pos' = [pos EXCEPT ![w] = @ + 1]
      /\ UNCHANGED <<topic, dlq, processed, metrics, told, owner, committed, attempt, mode, pc, faults>>
  BY DEF Ignore, HasNext
<1>2. /\ pos' \in [Workers -> 0..Len(topic)]
      /\ \A v \in Workers : pos'[v] >= pos[v] /\ (v # w => pos'[v] = pos[v])
  BY <1>1 DEF IInv, TypeOK
<1>3. TypeOK'
  BY <1>1, <1>2 DEF IInv, TypeOK
<1>4. OwnerIsAhead'
  BY <1>1, <1>2, WorkerFacts DEF IInv, OwnerIsAhead, Owns, TypeOK
<1>5. OffsetStep
  BY <1>1, <1>2, <1>3, <1>4 DEF OffsetStep, Owns, IInv, TypeOK
<1>6. QED
  BY <1>5, OffsetInv

\* The message goes to the DLQ and is passed.
LEMMA ParkInv ==
  ASSUME IInv, NEW w \in Workers, Park(w)
  PROVE  IInv'
<1>1. /\ Return(w) /\ pc[w] # "idle" /\ dlq' = dlq \cup {Row(w)}
      /\ UNCHANGED <<processed, metrics, told>>
  BY DEF Park
<1>2. /\ pos' \in [Workers -> 0..Len(topic)] /\ pos'[w] = pos[w] + 1
      /\ pc' \in [Workers -> {"idle", "look", "write", "park"}]
      /\ \A v \in Workers : pos'[v] >= pos[v] /\ (v # w => pos'[v] = pos[v])
      /\ \A v \in Workers : pc'[v] # "idle" => pos'[v] < Len(topic) /\ attempt[v] > 0
      /\ UNCHANGED <<topic, owner, committed, attempt, mode, faults>>
  BY <1>1, ReturnType DEF IInv
<1>3. Row(w) \in Groups \X Events
  BY <1>1, CurrentEvent DEF IInv
<1>4. TypeOK'
  BY <1>1, <1>2, <1>3 DEF IInv, TypeOK
<1>5. OwnerIsAhead'
  BY <1>2, WorkerFacts DEF IInv, OwnerIsAhead, Owns, TypeOK
<1>6. PassedIsSettled'
  <2>1. ASSUME NEW v \in Workers, Owns(v), mode[v] # "deaf", NEW i \in 1..pos'[v],
               i > committed[v[1]]
        PROVE  <<v[1], topic[i]>> \in processed \cup dlq'
    <3>1. CASE v = w /\ i = pos[w] + 1
      BY <1>1, <3>1 DEF Row, Current
    <3>2. CASE i \in 1..pos[v]
      BY <1>1, <2>1, <3>2 DEF IInv, PassedIsSettled
    <3>3. QED
      BY <1>2, <2>1, <3>1, <3>2 DEF IInv, TypeOK
  <2>2. QED
    BY <1>1, <1>2, <2>1 DEF PassedIsSettled, Owns
<1>7. MetricsCountProcessed'
  BY <1>1 DEF IInv, MetricsCountProcessed, Bucket
<1>8. QED
  BY <1>4, <1>5, <1>6, <1>7 DEF IInv

\* One more event is processed, and counted in its bucket if analytics counts it.
LEMMA WriteCounts ==
  ASSUME IInv, NEW w \in Workers, Write(w)
  PROVE  /\ metrics' \in [Hours \X Counted -> Nat]
         /\ MetricsCountProcessed'
<1> DEFINE e == Current(w)
           Marked(b, rows) == {x \in Events : <<"analytics", x>> \in rows /\ Bucket(x) = b}
<1>1. /\ processed' = processed \cup {<<w[1], e>>} /\ <<w[1], e>> \notin processed
      /\ metrics' = IF w[1] = "analytics" /\ KindOf[e] \in Counted
                    THEN [metrics EXCEPT ![Bucket(e)] = @ + 1] ELSE metrics
  BY DEF Write, RowIsFree, Row
<1>2. e \in Events /\ metrics \in [Hours \X Counted -> Nat]
  BY CurrentEvent DEF IInv, Write, TypeOK
<1>3. metrics' \in [Hours \X Counted -> Nat]
  BY <1>1, <1>2 DEF Hours, Bucket
<1>4. \A b : IsFiniteSet(Marked(b, processed)) /\ Cardinality(Marked(b, processed)) \in Nat
  BY ConsumerAssumption, FS_Subset, FS_CardinalityType
<1>5. ASSUME NEW b \in Hours \X Counted
      PROVE  metrics'[b] = Cardinality(Marked(b, processed'))
  <2>1. metrics[b] = Cardinality(Marked(b, processed))
    BY DEF IInv, MetricsCountProcessed
  <2>2. CASE w[1] = "analytics" /\ Bucket(e) = b
    <3>1. KindOf[e] \in Counted
      BY <2>2 DEF Bucket
    <3>2. metrics'[b] = metrics[b] + 1
      BY <1>1, <1>2, <2>2, <3>1
    <3>3. /\ Marked(b, processed') = Marked(b, processed) \cup {e}
          /\ e \notin Marked(b, processed)
      BY <1>1, <1>2, <2>2
    <3>4. Cardinality(Marked(b, processed) \cup {e}) = Cardinality(Marked(b, processed)) + 1
      <4> HIDE DEF Marked, e
      <4>1. QED
        BY <1>4, <3>3, FS_AddElement
    <3>5. QED
      BY <2>1, <3>2, <3>3, <3>4
  <2>3. CASE ~(w[1] = "analytics" /\ Bucket(e) = b)
    <3>1. metrics'[b] = metrics[b]
      BY <1>1, <1>2, <2>3
    <3>2. Marked(b, processed') = Marked(b, processed)
      BY <1>1, <2>3
    <3>3. QED
      BY <2>1, <3>1, <3>2
  <2>4. QED
    BY <2>2, <2>3
<1>6. QED
  BY <1>3, <1>5 DEF MetricsCountProcessed, Bucket

LEMMA WriteInv ==
  ASSUME IInv, NEW w \in Workers, HandlerReturns(w) \/ CommitUnanswered(w)
  PROVE  IInv'
<1>1. Write(w) /\ pc[w] # "idle" /\ UNCHANGED <<topic, dlq, told, owner, committed, mode, faults>>
  BY DEF HandlerReturns, CommitUnanswered, Write, Return
<1>2. processed' = processed \cup {Row(w)} /\ Row(w) \in Groups \X Events
  BY <1>1, CurrentEvent DEF IInv, Write
<1>3. metrics' \in [Hours \X Counted -> Nat] /\ MetricsCountProcessed'
  BY <1>1, WriteCounts
<1>4. /\ pos' \in [Workers -> 0..Len(topic)]
      /\ \A v \in Workers : pos'[v] >= pos[v] /\ (v # w => pos'[v] = pos[v])
      /\ pos'[w] = pos[w] \/ pos'[w] = pos[w] + 1
      /\ attempt' \in [Workers -> 0..MaxAttempts]
      /\ pc' \in [Workers -> {"idle", "look", "write", "park"}]
      /\ \A v \in Workers : pc'[v] # "idle" => pos'[v] < Len(topic) /\ attempt'[v] > 0
  <2>1. CASE HandlerReturns(w)
    BY <1>1, <2>1, ReturnType DEF HandlerReturns, IInv, TypeOK
  <2>2. CASE CommitUnanswered(w)
    <3>1. /\ attempt \in [Workers -> 0..MaxAttempts] /\ MaxAttempts \in Nat \ {0}
          /\ pc \in [Workers -> {"idle", "look", "write", "park"}]
          /\ pos \in [Workers -> 0..Len(topic)] /\ Len(topic) \in Nat
          /\ \A v \in Workers : pc[v] # "idle" => pos[v] < Len(topic) /\ attempt[v] > 0
      BY ConsumerAssumption DEF IInv, TypeOK
    <3>2. Caught(w) /\ pos' = pos
      BY <2>2 DEF CommitUnanswered, Caught
    <3>3. \A v \in Workers : pos'[v] >= pos[v] /\ (v # w => pos'[v] = pos[v])
      BY <3>1, <3>2
    <3>4. /\ attempt' \in [Workers -> 0..MaxAttempts]
          /\ pc' \in [Workers -> {"idle", "look", "write", "park"}]
          /\ \A v \in Workers : pc'[v] # "idle" => pos[v] < Len(topic) /\ attempt'[v] > 0
      <4>0. pc[w] # "idle"
        BY <1>1
      <4>1. CASE attempt[w] < MaxAttempts
        <5>1. attempt[w] + 1 \in 0..MaxAttempts /\ attempt[w] + 1 > 0
          BY <3>1, <4>1
        <5>2. /\ attempt' = [attempt EXCEPT ![w] = attempt[w] + 1]
              /\ pc' = [pc EXCEPT ![w] = "look"]
          BY <3>2, <4>1 DEF Caught
        <5>3. QED
          BY <3>1, <4>0, <5>1, <5>2
      <4>2. CASE ~(attempt[w] < MaxAttempts)
        <5>1. attempt' = attempt /\ pc' = [pc EXCEPT ![w] = "park"]
          BY <3>2, <4>2 DEF Caught
        <5>2. QED
          BY <3>1, <4>0, <5>1
      <4>3. QED
        BY <4>1, <4>2
    <3>5. QED
      BY <3>1, <3>2, <3>3, <3>4
  <2>3. QED
    BY <2>1, <2>2
<1>5. TypeOK'
  BY <1>1, <1>2, <1>3, <1>4 DEF IInv, TypeOK
<1>6. OwnerIsAhead'
  BY <1>1, <1>4, WorkerFacts DEF IInv, OwnerIsAhead, Owns, TypeOK
<1>7. PassedIsSettled'
  <2>1. ASSUME NEW v \in Workers, Owns(v), mode[v] # "deaf", NEW i \in 1..pos'[v],
               i > committed[v[1]]
        PROVE  <<v[1], topic[i]>> \in processed' \cup dlq
    <3>1. CASE v = w /\ i = pos[w] + 1
      BY <1>2, <3>1 DEF Row, Current
    <3>2. CASE i \in 1..pos[v]
      BY <1>2, <2>1, <3>2 DEF IInv, PassedIsSettled
    <3>3. QED
      BY <1>4, <2>1, <3>1, <3>2 DEF IInv, TypeOK
  <2>2. QED
    BY <1>1, <1>2, <2>1 DEF PassedIsSettled, Owns
<1>8. QED
  BY <1>3, <1>5, <1>6, <1>7 DEF IInv

\* A publication, by the publisher or by the script.
LEMMA PublishInv ==
  ASSUME IInv, (\E e \in Events : Publish(e)) \/ (\E d \in dlq : Reprocess(d))
  PROVE  IInv'
<1>1. \A d \in dlq : d[2] \in Events
  BY DEF IInv, TypeOK
<1>2. QED
  BY <1>1, AppendInv DEF Publish, Reprocess

LEMMA NextInv == IInv /\ [Next]_vars => IInv'
<1> SUFFICES ASSUME IInv, [Next]_vars PROVE IInv'
  OBVIOUS
<1>1. CASE UNCHANGED vars
  <2>1. UNCHANGED <<topic, dlq, processed, metrics, told, owner, committed, pos, attempt, mode, pc, faults>>
    BY <1>1 DEF vars, member
  <2>2. TypeOK' /\ PassedIsSettled'
    BY <2>1 DEF IInv, TypeOK, PassedIsSettled, Owns
  <2>3. OwnerIsAhead' /\ MetricsCountProcessed'
    BY <2>1 DEF IInv, OwnerIsAhead, Owns, MetricsCountProcessed, Bucket
  <2>4. QED
    BY <2>2, <2>3 DEF IInv
<1>2. CASE (\E e \in Events : Publish(e)) \/ (\E d \in dlq : Reprocess(d))
  BY <1>2, PublishInv
<1>3. CASE \E g \in Groups, m \in Members : Assign(g, m)
  BY <1>3, AssignInv
<1>4. CASE \E w \in Workers : \/ Step(w) \/ Commit(w)
                              \/ Stop(w) \/ StopTooEarly(w) \/ Crash(w) \/ ParkFails(w)
  BY <1>4, CommitStopInv, QuietInv, IgnoreInv, SkipInv, ParkInv, WriteInv DEF Step
<1>5. QED
  BY <1>1, <1>2, <1>3, <1>4 DEF Next

-----------------------------------------------------------------------------
(* What the groups promise about every event *)

Fates == [g \in Groups |-> [e \in Events |-> FateOf(g, e)]]

LEMMA FateInitially == Init => D!Init
<1> SUFFICES ASSUME Init PROVE D!Init
  OBVIOUS
<1>1. ASSUME NEW g \in Groups, NEW e \in Events PROVE FateOf(g, e) = "unpublished"
  BY DEF Init, FateOf, Coming, Range
<1>2. Deaf = {}
  BY WorkerFacts DEF Init, Deaf
<1>3. QED
  BY <1>1, <1>2 DEF D!Init

LEMMA AppendPublishes ==
  ASSUME IInv, NEW e \in Events, topic' = Append(topic, e),
         UNCHANGED <<dlq, processed, committed, mode>>
  PROVE  D!Publish(e)
<1>1. /\ topic \in Seq(Events) /\ Len(topic') = Len(topic) + 1 /\ topic'[Len(topic) + 1] = e
      /\ \A i \in 1..Len(topic) : topic'[i] = topic[i]
      /\ DOMAIN topic = 1..Len(topic) /\ DOMAIN topic' = 1..Len(topic')
      /\ Len(topic) \in Nat
  BY DEF IInv, TypeOK
<1>2. ASSUME NEW g \in Groups
      PROVE  FateOf(g, e)' = IF FateOf(g, e) = "applied" THEN "applied" ELSE "coming"
  <2>1. committed[g] \in 0..Len(topic)
    BY DEF IInv, TypeOK
  <2>2. Coming(g, e)'
    BY <1>1, <2>1 DEF Coming
  <2>3. QED
    BY <2>2 DEF FateOf
<1>3. ASSUME NEW g \in Groups, NEW f \in Events, f # e
      PROVE  FateOf(g, f)' = FateOf(g, f)
  <2>1. Coming(g, f)' = Coming(g, f)
    BY <1>1, <1>3 DEF Coming
  <2>2. f \in Range(topic') <=> f \in Range(topic)
    BY <1>1, <1>3 DEF Range
  <2>3. QED
    BY <2>1, <2>2 DEF FateOf
<1>4. Deaf' = Deaf
  BY DEF Deaf
<1>5. QED
  BY <1>2, <1>3, <1>4 DEF D!Publish

\* A handler's transaction commits.
LEMMA WriteApplies ==
  ASSUME IInv, NEW w \in Workers, Write(w), UNCHANGED <<topic, dlq, committed, mode>>
  PROVE  D!Apply(w[1], Current(w))
<1>1. PICK g \in Groups, e \in Events : g = w[1] /\ e = Current(w) /\ e \in Range(topic)
  BY CurrentEvent, WorkerFacts DEF IInv, Write
<1>2. <<g, e>> \notin processed /\ processed' = processed \cup {<<g, e>>}
  BY <1>1 DEF Write, RowIsFree, Row
<1>3. FateOf(g, e) \in {"coming", "parked", "lost"}
  BY <1>1, <1>2 DEF FateOf
<1>4. FateOf(g, e)' = "applied"
  BY <1>2 DEF FateOf
<1>5. ASSUME NEW h \in Groups, NEW f \in Events, h # g \/ f # e
      PROVE  FateOf(h, f)' = FateOf(h, f)
  BY <1>2, <1>5 DEF FateOf, Coming
<1>6. D!Apply(g, e)
  <2>1. Fates' = [Fates EXCEPT ![g][e] = "applied"]
    BY <1>4, <1>5 DEF Fates
  <2>2. Deaf' = Deaf
    BY DEF Deaf
  <2>3. QED
    BY <1>3, <2>1, <2>2 DEF D!Apply, Fates
<1>7. QED
  BY <1>1, <1>6

\* A group moves past events: it had put them aside, or the process that passed them
\* is deaf.
LEMMA CommitPasses ==
  ASSUME IInv, NEW w \in Workers, Commit(w) \/ Stop(w), Owns(w)
  PROVE  \E S \in SUBSET Events : \E f \in [S -> {"parked", "lost"}] : D!Pass(w[1], S, f)
<1>1. PICK g \in Groups : g = w[1] /\ w = <<g, w[2]>> /\ w[2] \in Members
  BY WorkerFacts
<1>2. /\ committed[g] <= pos[w] /\ committed[g] \in Nat /\ pos[w] \in Nat
      /\ committed' = [committed EXCEPT ![g] = pos[w]]
      /\ UNCHANGED <<topic, dlq, processed>>
  BY <1>1 DEF Commit, Stop, IInv, OwnerIsAhead, TypeOK
<1>3. committed'[g] = pos[w]
  BY <1>2 DEF IInv, TypeOK
<1> DEFINE S == {e \in Events : FateOf(g, e) = "coming" /\ FateOf(g, e)' # "coming"}
           f == [e \in S |-> FateOf(g, e)']
<1>4. ASSUME NEW e \in S
      PROVE  FateOf(g, e)' \in {"parked", "lost"} /\ (FateOf(g, e)' = "lost" => g \in Deaf)
  <2>1. <<g, e>> \notin processed /\ Coming(g, e) /\ ~Coming(g, e)'
    BY <1>2 DEF FateOf
  <2>2. PICK i \in 1..Len(topic) : topic[i] = e /\ i > committed[g] /\ i <= pos[w]
    BY <1>2, <1>3, <2>1 DEF Coming, IInv, TypeOK
  <2>3. e \in Range(topic)
    BY <2>2 DEF Range, IInv, TypeOK
  <2>4. FateOf(g, e)' \in {"parked", "lost"}
    BY <1>2, <2>1, <2>3 DEF FateOf
  <2>5. CASE mode[w] = "deaf"
    <3>1. g \in Deaf
      BY <1>1, <2>5 DEF Deaf
    <3>2. QED
      BY <2>4, <3>1
  <2>6. CASE mode[w] # "deaf"
    <3>1. <<g, e>> \in dlq
      BY <1>1, <1>2, <2>1, <2>2, <2>6 DEF IInv, PassedIsSettled
    <3>2. FateOf(g, e)' = "parked"
      BY <1>2, <2>1, <3>1 DEF FateOf
    <3>3. QED
      BY <3>2
  <2>7. QED
    BY <2>5, <2>6
<1>5. ASSUME NEW e \in Events \ S PROVE FateOf(g, e)' = FateOf(g, e)
  <2>1. Coming(g, e)' => Coming(g, e)
    BY <1>2, <1>3 DEF Coming, IInv, TypeOK
  <2>2. QED
    BY <1>2, <2>1 DEF FateOf
<1>6. ASSUME NEW h \in Groups, h # g, NEW e \in Events PROVE FateOf(h, e)' = FateOf(h, e)
  BY <1>2, <1>6 DEF FateOf, Coming, IInv, TypeOK
<1>7. Deaf' = Deaf
  <2>1. CASE Commit(w)
    BY <2>1 DEF Commit, member, Deaf
  <2>2. CASE Stop(w)
    <3>1. mode[w] = "running" /\ mode' = [mode EXCEPT ![w] = "starting"]
      BY <2>2 DEF Stop, Restart
    <3>2. \A v \in Workers : mode'[v] = "deaf" <=> mode[v] = "deaf"
      BY <3>1 DEF IInv, TypeOK
    <3>3. QED
      BY <3>2, WorkerFacts DEF Deaf
  <2>3. QED
    BY <2>1, <2>2
<1>8. S \in SUBSET Events /\ f \in [S -> {"parked", "lost"}]
  BY <1>4
<1>9. \A e \in S : Fates[g][e] = "coming" /\ (f[e] = "lost" => g \in Deaf)
  BY <1>4 DEF Fates
<1>10. Fates' = [Fates EXCEPT ![g] = [e \in Events |-> IF e \in S THEN f[e] ELSE Fates[g][e]]]
  <2>1. \A e \in S : f[e] = FateOf(g, e)'
    OBVIOUS
  <2> HIDE DEF S, f
  <2>2. QED
    BY <1>5, <1>6, <2>1 DEF Fates
<1>11. D!Pass(g, S, f)
  <2> HIDE DEF S, f
  <2>1. QED
    BY <1>7, <1>9, <1>10 DEF D!Pass, Fates
<1>12. QED
  <2> HIDE DEF S, f
  <2>1. QED
    BY <1>1, <1>8, <1>11

\* Putting an event aside changes its fate only where it was lost: otherwise it is
\* still coming until the group has moved past it.
LEMMA ParkPutsAside ==
  ASSUME IInv, NEW w \in Workers, Park(w)
  PROVE  Fates' = Fates \/ D!PutAside(w[1], Current(w))
<1>1. PICK g \in Groups, e \in Events : g = w[1] /\ e = Current(w) /\ e \in Range(topic)
  BY CurrentEvent, WorkerFacts DEF IInv, Park
<1>2. dlq' = dlq \cup {<<g, e>>} /\ UNCHANGED <<topic, processed, committed, mode>>
  BY <1>1 DEF Park, Return, Row
<1>3. ASSUME NEW h \in Groups, NEW f \in Events, h # g \/ f # e
      PROVE  FateOf(h, f)' = FateOf(h, f)
  BY <1>2, <1>3 DEF FateOf, Coming
<1>4. CASE FateOf(g, e)' = FateOf(g, e)
  <2>1. Fates' = Fates
    BY <1>3, <1>4 DEF Fates
  <2>2. QED
    BY <2>1
<1>5. CASE FateOf(g, e)' # FateOf(g, e)
  <2>1. FateOf(g, e) = "lost" /\ FateOf(g, e)' = "parked"
    BY <1>1, <1>2, <1>5 DEF FateOf, Coming
  <2>2. Fates' = [Fates EXCEPT ![g][e] = "parked"]
    BY <1>3, <2>1 DEF Fates
  <2>3. Deaf' = Deaf
    BY <1>2 DEF Deaf
  <2>4. QED
    BY <1>1, <2>1, <2>2, <2>3 DEF D!PutAside, Fates
<1>6. QED
  BY <1>4, <1>5

LEMMA SameFates == UNCHANGED <<topic, dlq, processed, committed>> => Fates' = Fates
BY DEF Fates, FateOf, Coming

\* Where the fates stay, processes may become deaf or end.
LEMMA SameFatesStep == Fates' = Fates => D!Next
<1>1. Deaf' \in SUBSET Groups
  BY DEF Deaf
<1>2. QED
  BY <1>1 DEF D!Next, D!Restart, Fates

LEMMA NextDelivers == IInv /\ [Next]_vars => [D!Next]_<<Fates, Deaf>>
<1> SUFFICES ASSUME IInv, [Next]_vars PROVE D!Next
  OBVIOUS
<1>1. CASE (\E e \in Events : Publish(e)) \/ (\E d \in dlq : Reprocess(d))
  <2>1. PICK e \in Events : topic' = Append(topic, e) /\ UNCHANGED <<dlq, processed, committed, mode>>
    BY <1>1 DEF Publish, Reprocess, member, IInv, TypeOK
  <2>2. QED
    BY <2>1, AppendPublishes DEF D!Next
<1>2. ASSUME NEW w \in Workers, HandlerReturns(w) \/ CommitUnanswered(w)
      PROVE  D!Next
  <2>1. Write(w) /\ UNCHANGED <<topic, dlq, committed, mode>>
    BY <1>2 DEF HandlerReturns, CommitUnanswered, Return
  <2>2. w[1] \in Groups /\ Current(w) \in Events
    BY <2>1, CurrentEvent, WorkerFacts DEF IInv, Write
  <2>3. QED
    BY <2>1, <2>2, WriteApplies DEF D!Next
<1>3. ASSUME NEW w \in Workers, Commit(w) \/ Stop(w) PROVE D!Next
  <2>1. CASE Owns(w)
    BY <1>3, <2>1, CommitPasses, WorkerFacts DEF D!Next
  <2>2. CASE ~Owns(w)
    <3>1. committed' = committed /\ UNCHANGED <<topic, dlq, processed>>
      BY <1>3, <2>2, WorkerFacts DEF Commit, Stop, IInv, TypeOK
    <3>2. QED
      BY <3>1, SameFates, SameFatesStep
  <2>3. QED
    BY <2>1, <2>2
<1>4. ASSUME NEW w \in Workers, Park(w) PROVE D!Next
  <2>1. w[1] \in Groups /\ Current(w) \in Events
    BY <1>4, CurrentEvent, WorkerFacts DEF IInv, Park
  <2>2. QED
    BY <1>4, <2>1, ParkPutsAside, SameFatesStep DEF D!Next
<1>5. CASE \/ \E g \in Groups, m \in Members : Assign(g, m)
           \/ \E w \in Workers : \/ Fetch(w) \/ Ignore(w) \/ SkipProcessed(w) \/ Begin(w)
                                 \/ HandlerFails(w) \/ StopTooEarly(w) \/ Crash(w) \/ ParkFails(w)
           \/ UNCHANGED vars
  <2>1. UNCHANGED <<topic, dlq, processed, committed>>
    BY <1>5 DEF Assign, Fetch, Ignore, SkipProcessed, Return, Begin, HandlerFails, StopTooEarly,
       Crash, ParkFails, vars
  <2>2. QED
    BY <2>1, SameFates, SameFatesStep
<1>6. QED
  BY <1>1, <1>2, <1>3, <1>4, <1>5 DEF Next, Step

-----------------------------------------------------------------------------
(* How often customers are told.  A member that took an event for the group *)
(* "notification" may still tell of it once per attempt it has left; each   *)
(* copy that the owner has reached brings MaxAttempts attempts, and a fault *)
(* pays for every copy that it may have delivered anew.                     *)

Notifiers == {w \in Workers : w[1] = "notification"}
Busy == {w \in Notifiers : pc[w] # "idle"}

\* How often a member may still tell of its event, and of the event e.
Tries(w) == MaxAttempts - attempt[w] + (IF pc[w] = "look" THEN 1 ELSE 0)
Mine(e, w) == IF w \in Busy /\ Current(w) = e THEN Tries(w) ELSE 0
Left(e) == [w \in Workers |-> Mine(e, w)]

CopiesAt(e) == {i \in 1..Len(topic) : topic[i] = e}
Upto(w) == IF pc[w] = "idle" THEN pos[w] ELSE pos[w] + 1
ReachAt(e) == {i \in CopiesAt(e) : \E v \in Notifiers : Owns(v) /\ i <= Upto(v)}

Budget(e) == MaxAttempts * (Copies(e) * faults + Cardinality(ReachAt(e)))

BudgetOK ==
  /\ IsFiniteSet(Busy)
  /\ \A e \in Events : told[e] + SumOf(Left(e), Busy) <= Budget(e)

LEMMA CardinalitiesGrow ==
  ASSUME NEW n \in Nat, NEW P, P \subseteq 1..n, NEW Q, Q \subseteq P
  PROVE  /\ IsFiniteSet(P) /\ IsFiniteSet(Q)
         /\ Cardinality(P) \in Nat /\ Cardinality(Q) \in Nat
         /\ Cardinality(Q) <= Cardinality(P)
<1>1. IsFiniteSet(1..n)
  BY FS_Interval
<1>2. QED
  BY <1>1, FS_Subset, FS_CardinalityType

LEMMA TimesGrows ==
  ASSUME NEW m \in Nat, NEW x \in Nat, NEW y \in Nat, x <= y
  PROVE  m * x <= m * y /\ m * x \in Nat /\ m * y \in Nat
<1>1. PICK d \in Nat : y = x + d
  <2>1. y - x \in Nat /\ y = x + (y - x)
    OBVIOUS
  <2>2. QED
    BY <2>1
<1>2. m * y = m * x + m * d /\ m * d \in Nat /\ m * x \in Nat
  BY <1>1
<1>3. QED
  BY <1>2

\* The budget: c copies, k faults, r of the copies reached.
LEMMA BudgetGrows ==
  ASSUME NEW m \in Nat, NEW c \in Nat, NEW k \in Nat, NEW r \in Nat,
         NEW d \in Nat, NEW l \in Nat, NEW s \in Nat,
         (c <= d /\ l = k /\ r <= s) \/ (d = c /\ l = k + 1 /\ r <= c)
  PROVE  /\ m * (c * k + r) \in Nat /\ m * (d * l + s) \in Nat
         /\ m * (c * k + r) <= m * (d * l + s)
<1>1. c * k \in Nat /\ d * l \in Nat
  OBVIOUS
<1>2. c * k + r <= d * l + s
  <2>1. CASE c <= d /\ l = k /\ r <= s
    <3>1. k * c <= k * d
      BY <2>1, TimesGrows
    <3>2. QED
      BY <1>1, <2>1, <3>1
  <2>2. CASE d = c /\ l = k + 1 /\ r <= c
    <3>1. d * l = c * k + c
      BY <2>2
    <3>2. QED
      BY <1>1, <2>2, <3>1
  <2>3. QED
    BY <2>1, <2>2
<1>3. c * k + r \in Nat /\ d * l + s \in Nat
  BY <1>1
<1>4. QED
  BY <1>2, <1>3, TimesGrows

\* What the budget is made of.
LEMMA BudgetParts ==
  ASSUME TypeOK, NEW e \in Events
  PROVE  /\ IsFiniteSet(CopiesAt(e)) /\ IsFiniteSet(ReachAt(e))
         /\ Copies(e) = Cardinality(CopiesAt(e)) /\ Copies(e) \in Nat
         /\ Cardinality(ReachAt(e)) \in Nat /\ Cardinality(ReachAt(e)) <= Copies(e)
         /\ Budget(e) \in Nat /\ faults \in Nat
<1>1. Len(topic) \in Nat /\ CopiesAt(e) \subseteq 1..Len(topic) /\ ReachAt(e) \subseteq CopiesAt(e)
  BY DEF TypeOK, CopiesAt, ReachAt
<1>2. /\ IsFiniteSet(CopiesAt(e)) /\ IsFiniteSet(ReachAt(e))
      /\ Cardinality(CopiesAt(e)) \in Nat /\ Cardinality(ReachAt(e)) \in Nat
      /\ Cardinality(ReachAt(e)) <= Cardinality(CopiesAt(e))
  BY <1>1, CardinalitiesGrow
<1>3. Copies(e) = Cardinality(CopiesAt(e))
  BY DEF Copies, CopiesAt
<1>4. faults \in Nat /\ MaxAttempts \in Nat
  BY ConsumerAssumption DEF TypeOK
<1>5. Budget(e) \in Nat
  BY <1>2, <1>3, <1>4, BudgetGrows DEF Budget
<1>6. QED
  BY <1>2, <1>3, <1>4, <1>5

LEMMA BudgetPartsNext ==
  ASSUME TypeOK', NEW e \in Events
  PROVE  /\ IsFiniteSet(CopiesAt(e)') /\ IsFiniteSet(ReachAt(e)')
         /\ Copies(e)' = Cardinality(CopiesAt(e)') /\ Copies(e)' \in Nat
         /\ Cardinality(ReachAt(e)') \in Nat /\ Cardinality(ReachAt(e)') <= Copies(e)'
         /\ Budget(e)' \in Nat /\ faults' \in Nat
<1>1. Len(topic') \in Nat /\ CopiesAt(e)' \subseteq 1..Len(topic') /\ ReachAt(e)' \subseteq CopiesAt(e)'
  BY DEF TypeOK, CopiesAt, ReachAt
<1>2. /\ IsFiniteSet(CopiesAt(e)') /\ IsFiniteSet(ReachAt(e)')
      /\ Cardinality(CopiesAt(e)') \in Nat /\ Cardinality(ReachAt(e)') \in Nat
      /\ Cardinality(ReachAt(e)') <= Cardinality(CopiesAt(e)')
  BY <1>1, CardinalitiesGrow
<1>3. Copies(e)' = Cardinality(CopiesAt(e)')
  BY DEF Copies, CopiesAt
<1>4. faults' \in Nat /\ MaxAttempts \in Nat
  BY ConsumerAssumption DEF TypeOK
<1>5. Budget(e)' \in Nat
  BY <1>2, <1>3, <1>4, BudgetGrows DEF Budget
<1>6. QED
  BY <1>2, <1>3, <1>4, <1>5

\* A fault pays for all copies, and more copies or more of them reached cost nothing.
LEMMA BudgetKept ==
  ASSUME TypeOK, TypeOK', NEW e \in Events,
         \/ faults' = faults + 1 /\ topic' = topic
         \/ faults' = faults /\ CopiesAt(e) \subseteq CopiesAt(e)' /\ ReachAt(e) \subseteq ReachAt(e)'
  PROVE  Budget(e) <= Budget(e)'
<1> DEFINE c == Copies(e)
           r == Cardinality(ReachAt(e))
           d == Copies(e)'
           s == Cardinality(ReachAt(e)')
<1>1. c \in Nat /\ r \in Nat /\ r <= c /\ d \in Nat /\ s \in Nat /\ faults \in Nat /\ faults' \in Nat
  BY BudgetParts, BudgetPartsNext
<1>2. (c <= d /\ faults' = faults /\ r <= s) \/ (d = c /\ faults' = faults + 1 /\ r <= c)
  <2>1. CASE faults' = faults + 1 /\ topic' = topic
    BY <1>1, <2>1 DEF Copies
  <2>2. CASE faults' = faults /\ CopiesAt(e) \subseteq CopiesAt(e)' /\ ReachAt(e) \subseteq ReachAt(e)'
    <3>1. IsFiniteSet(CopiesAt(e)') /\ IsFiniteSet(ReachAt(e)')
      BY BudgetPartsNext
    <3>2. c = Cardinality(CopiesAt(e)) /\ d = Cardinality(CopiesAt(e)')
      BY BudgetParts, BudgetPartsNext
    <3>3. QED
      BY <2>2, <3>1, <3>2, FS_Subset
  <2>3. QED
    BY <2>1, <2>2
<1>3. Budget(e) = MaxAttempts * (c * faults + r) /\ Budget(e)' = MaxAttempts * (d * faults' + s)
  BY DEF Budget
<1>4. MaxAttempts \in Nat
  BY ConsumerAssumption
<1>5. MaxAttempts * (c * faults + r) <= MaxAttempts * (d * faults' + s)
  <2> HIDE DEF c, r, d, s
  <2>1. QED
    BY <1>1, <1>2, <1>4, BudgetGrows
<1>6. QED
  BY <1>3, <1>5


\* Members other than w stay where they are; what w may still tell is accounted for.
LEMMA BudgetStep ==
  ASSUME TypeOK, TypeOK', BudgetOK, NEW w \in Workers, topic' = topic,
         \A v \in Workers : v # w => pc'[v] = pc[v] /\ attempt'[v] = attempt[v] /\ pos'[v] = pos[v],
         \A e \in Events :
           told'[e] + Mine(e, w)' + Budget(e) <= told[e] + Mine(e, w) + Budget(e)'
  PROVE  BudgetOK'
<1>1. Busy \ {w} = Busy' \ {w}
  BY DEF Busy, Notifiers
<1>2. IsFiniteSet(Busy')
  <2>1. IsFiniteSet(Busy \cup {w}) /\ Busy' \subseteq Busy \cup {w}
    BY <1>1, FS_AddElement DEF BudgetOK
  <2>2. QED
    BY <2>1, FS_Subset
<1>3. ASSUME NEW e \in Events, NEW v \in Workers
      PROVE  /\ Mine(e, v) \in Int /\ Mine(e, v)' \in Int
             /\ v \notin Busy => Mine(e, v) = 0
             /\ v \notin Busy' => Mine(e, v)' = 0
             /\ Left(e)[v] = Mine(e, v) /\ Left(e)'[v] = Mine(e, v)'
             /\ v # w => Mine(e, v)' = Mine(e, v)
  <2>1. Tries(v) \in Int /\ Tries(v)' \in Int
    BY ConsumerAssumption DEF TypeOK, Tries
  <2>2. /\ Left(e)[v] = Mine(e, v) /\ Left(e)'[v] = Mine(e, v)'
    BY DEF Left
  <2>3. v # w => Mine(e, v)' = Mine(e, v)
    BY DEF Mine, Tries, Current, Busy, Notifiers
  <2>4. QED
    BY <2>1, <2>2, <2>3 DEF Mine
<1>4. ASSUME NEW e \in Events
      PROVE  told'[e] + SumOf(Left(e)', Busy') <= Budget(e)'
  <2> DEFINE sum == SumOf(Left(e), Busy)
             next == SumOf(Left(e)', Busy')
             m == Mine(e, w)
             n == Mine(e, w)'
             b == Budget(e)
             c == Budget(e)'
  <2>1. \A v \in Busy \ {w} : Left(e)[v] = Left(e)'[v] /\ Left(e)[v] \in Int
    BY <1>3 DEF Busy, Notifiers
  <2>2. /\ Left(e)[w] \in Int /\ Left(e)'[w] \in Int
        /\ w \notin Busy => Left(e)[w] = 0
        /\ w \notin Busy' => Left(e)'[w] = 0
    BY <1>3
  <2>3. IsFiniteSet(Busy)
    BY DEF BudgetOK
  <2>4. sum \in Int /\ next \in Int /\ next + Left(e)[w] = sum + Left(e)'[w]
    BY <1>1, <2>1, <2>2, <2>3, SumChange
  <2>5. next + m = sum + n /\ m \in Int /\ n \in Int
    BY <1>3, <2>4
  <2>6. b \in Nat /\ c \in Nat /\ told[e] \in Nat /\ told'[e] \in Nat
    BY BudgetParts, BudgetPartsNext DEF TypeOK
  <2>7. told[e] + sum <= b /\ told'[e] + n + b <= told[e] + m + c
    BY DEF BudgetOK
  <2> HIDE DEF sum, next, m, n, b, c
  <2>8. told'[e] + next <= c
    BY <2>4, <2>5, <2>6, <2>7
  <2> USE DEF next, c
  <2>9. QED
    BY <2>8
<1>5. QED
  BY <1>2, <1>4 DEF BudgetOK

\* Steps that tell nothing and let no member tell more.
LEMMA QuietBudget ==
  ASSUME TypeOK, TypeOK', BudgetOK, NEW w \in Workers, UNCHANGED <<topic, told>>,
         \A v \in Workers : v # w => pc'[v] = pc[v] /\ attempt'[v] = attempt[v] /\ pos'[v] = pos[v],
         \/ pc'[w] = "idle"
         \/ pos'[w] = pos[w] /\ pc[w] # "idle" /\ Tries(w)' <= Tries(w),
         \/ faults' = faults + 1
         \/ /\ faults' = faults
            /\ \A v \in Notifiers : Owns(v) => Owns(v)' /\ Upto(v) <= Upto(v)'
  PROVE  BudgetOK'
<1>1. ASSUME NEW e \in Events PROVE Budget(e) <= Budget(e)'
  <2>1. CASE faults' = faults + 1
    BY <2>1, BudgetKept
  <2>2. CASE /\ faults' = faults
             /\ \A v \in Notifiers : Owns(v) => Owns(v)' /\ Upto(v) <= Upto(v)'
    <3>1. CopiesAt(e)' = CopiesAt(e) /\ CopiesAt(e) \subseteq Nat
      BY DEF CopiesAt, TypeOK
    <3>2. \A v \in Notifiers : Upto(v) \in Nat /\ Upto(v)' \in Nat
      <4>1. \A v \in Notifiers : pos[v] \in Nat /\ pos'[v] \in Nat
        BY DEF Notifiers, TypeOK
      <4>2. QED
        BY <4>1 DEF Upto
    <3>3. Notifiers' = Notifiers
      BY DEF Notifiers
    <3>4. ReachAt(e) \subseteq ReachAt(e)'
      <4>1. SUFFICES ASSUME NEW i \in CopiesAt(e), NEW v \in Notifiers, Owns(v), i <= Upto(v)
                     PROVE  Owns(v)' /\ i <= Upto(v)'
        BY <3>1, <3>3 DEF ReachAt
      <4>2. i \in Nat /\ Upto(v) \in Nat /\ Upto(v)' \in Nat /\ Upto(v) <= Upto(v)' /\ Owns(v)'
        BY <2>2, <3>1, <3>2, <4>1
      <4>3. QED
        BY <4>1, <4>2
    <3>5. QED
      BY <2>2, <3>1, <3>4, BudgetKept
  <2>3. QED
    BY <2>1, <2>2
<1>2. ASSUME NEW e \in Events
      PROVE  Mine(e, w)' <= Mine(e, w) /\ Mine(e, w) \in Int /\ Mine(e, w)' \in Int
  <2>1. Tries(w) \in Nat /\ Tries(w)' \in Nat
    BY ConsumerAssumption DEF TypeOK, Tries
  <2>2. CASE pc'[w] = "idle"
    <3>1. Mine(e, w)' = 0
      BY <2>2 DEF Mine, Busy
    <3>2. QED
      BY <2>1, <3>1 DEF Mine
  <2>3. CASE pos'[w] = pos[w] /\ pc[w] # "idle" /\ Tries(w)' <= Tries(w)
    <3>1. Current(w)' = Current(w) /\ (w \in Busy' => w \in Busy)
      BY <2>3 DEF Current, Busy, Notifiers
    <3>2. QED
      BY <2>1, <2>3, <3>1 DEF Mine
  <2>4. QED
    BY <2>2, <2>3
<1>3. ASSUME NEW e \in Events
      PROVE  told'[e] + Mine(e, w)' + Budget(e) <= told[e] + Mine(e, w) + Budget(e)'
  <2>1. told[e] \in Nat /\ Budget(e) \in Nat /\ Budget(e)' \in Nat /\ told' = told
    BY BudgetParts, BudgetPartsNext DEF TypeOK
  <2> DEFINE m == Mine(e, w)
             n == Mine(e, w)'
             b == Budget(e)
             c == Budget(e)'
  <2>2. b <= c /\ n <= m /\ m \in Int /\ n \in Int /\ b \in Nat /\ c \in Nat
    BY <1>1, <1>2, <2>1
  <2> HIDE DEF m, n, b, c
  <2>3. told'[e] + n + b <= told[e] + m + c
    BY <2>1, <2>2
  <2> USE DEF m, n, b, c
  <2>4. QED
    BY <2>3
<1>4. QED
  BY <1>3, BudgetStep

\* Members in the middle of a message: the end of it, or an attempt that failed.
LEMMA RetryBudget ==
  ASSUME TypeOK, TypeOK', BudgetOK, NEW w \in Workers,
         \/ SkipProcessed(w) \/ HandlerReturns(w) \/ Park(w)
         \/ HandlerFails(w) \/ CommitUnanswered(w)
  PROVE  BudgetOK'
<1>1. UNCHANGED <<topic, told, owner, faults>> /\ pc[w] # "idle"
  BY DEF SkipProcessed, HandlerReturns, Park, HandlerFails, CommitUnanswered, Write, Return
<1>2. \A v \in Workers : v # w => pc'[v] = pc[v] /\ attempt'[v] = attempt[v] /\ pos'[v] = pos[v]
  BY DEF TypeOK, SkipProcessed, HandlerReturns, Park, HandlerFails, CommitUnanswered, Write,
     Return, Caught
<1>3. \/ pc'[w] = "idle" /\ pos'[w] = pos[w] + 1
      \/ pos'[w] = pos[w] /\ pc'[w] # "idle" /\ Tries(w)' <= Tries(w)
  <2>1. CASE SkipProcessed(w) \/ HandlerReturns(w) \/ Park(w)
    BY <2>1 DEF TypeOK, SkipProcessed, HandlerReturns, Park, Return
  <2>2. CASE HandlerFails(w) \/ CommitUnanswered(w)
    <3>1. Caught(w) /\ pc[w] \in {"look", "write"}
      BY <2>2 DEF HandlerFails, CommitUnanswered, Write
    <3>2. attempt[w] \in 0..MaxAttempts /\ MaxAttempts \in Nat
      BY ConsumerAssumption DEF TypeOK
    <3>3. CASE attempt[w] < MaxAttempts
      <4>1. attempt'[w] = attempt[w] + 1 /\ pc'[w] = "look" /\ pos'[w] = pos[w]
        BY <3>1, <3>3 DEF Caught, TypeOK
      <4>2. QED
        BY <3>2, <4>1 DEF Tries
    <3>4. CASE ~(attempt[w] < MaxAttempts)
      <4>1. attempt'[w] = attempt[w] /\ pc'[w] = "park" /\ pos'[w] = pos[w]
        BY <3>1, <3>4 DEF Caught, TypeOK
      <4>2. QED
        BY <3>2, <4>1 DEF Tries
    <3>5. QED
      BY <3>3, <3>4
  <2>3. QED
    BY <2>1, <2>2
<1>4. \A v \in Notifiers : Owns(v) => Owns(v)' /\ Upto(v) <= Upto(v)'
  <2>1. ASSUME NEW v \in Workers PROVE Upto(v) <= Upto(v)'
    <3>1. pos[v] \in Nat
      BY DEF TypeOK
    <3>2. QED
      BY <1>1, <1>2, <1>3, <3>1 DEF Upto
  <2>2. QED
    BY <1>1, <2>1 DEF Owns, Notifiers
<1>5. QED
  BY <1>1, <1>2, <1>3, <1>4, QuietBudget

\* A deaf process passes a message: a copy is reached, and nobody is told.
LEMMA IgnoreBudget ==
  ASSUME TypeOK, TypeOK', BudgetOK, NEW w \in Workers, Ignore(w)
  PROVE  BudgetOK'
<1>1. /\ UNCHANGED <<topic, told, owner, attempt, pc, faults>> /\ pc[w] = "idle"
      /\ pos' = [pos EXCEPT ![w] = @ + 1]
  BY DEF Ignore, HasNext
<1>2. /\ \A v \in Workers : v # w => pc'[v] = pc[v] /\ attempt'[v] = attempt[v] /\ pos'[v] = pos[v]
      /\ \A v \in Workers : pos[v] \in Nat /\ pos'[v] \in Nat /\ pos[v] <= pos'[v]
  BY <1>1 DEF TypeOK
<1>3. \A v \in Notifiers : Owns(v) => Owns(v)' /\ Upto(v) <= Upto(v)'
  BY <1>1, <1>2 DEF Owns, Upto, Notifiers
<1>4. QED
  BY <1>1, <1>2, <1>3, QuietBudget

\* Offsets and membership.
LEMMA OffsetBudget ==
  ASSUME TypeOK, TypeOK', BudgetOK, NEW w \in Workers,
         Commit(w) \/ Stop(w) \/ StopTooEarly(w) \/ Crash(w) \/ ParkFails(w)
  PROVE  BudgetOK'
<1>1. /\ UNCHANGED <<topic, told, pos, attempt>>
      /\ pc' = pc \/ pc' = [pc EXCEPT ![w] = "idle"]
      /\ faults' = faults + 1 \/ UNCHANGED <<faults, owner, pc>>
  BY DEF Commit, Stop, StopTooEarly, Crash, ParkFails, member
<1>2. \A v \in Workers : v # w => pc'[v] = pc[v] /\ attempt'[v] = attempt[v] /\ pos'[v] = pos[v]
  BY <1>1 DEF TypeOK
<1>3. \/ pc'[w] = "idle"
      \/ pos'[w] = pos[w] /\ pc[w] # "idle" /\ Tries(w)' <= Tries(w)
  <2>1. CASE pc' = pc
    <3>1. Tries(w)' = Tries(w) /\ Tries(w) \in Int
      BY <1>1, <2>1, ConsumerAssumption DEF Tries, TypeOK
    <3>2. QED
      BY <1>1, <2>1, <3>1
  <2>2. CASE pc' = [pc EXCEPT ![w] = "idle"]
    BY <2>2 DEF TypeOK
  <2>3. QED
    BY <1>1, <2>1, <2>2
<1>4. CASE UNCHANGED <<faults, owner, pc>>
  <2>1. \A v \in Notifiers : Upto(v)' = Upto(v) /\ Upto(v) \in Nat /\ Owns(v)' = Owns(v)
    BY <1>1, <1>4 DEF Upto, Owns, Notifiers, TypeOK
  <2>2. \A v \in Notifiers : Owns(v) => Owns(v)' /\ Upto(v) <= Upto(v)'
    BY <2>1
  <2>3. QED
    BY <1>1, <1>2, <1>3, <1>4, <2>2, QuietBudget
<1>5. CASE faults' = faults + 1
  BY <1>1, <1>2, <1>3, <1>5, QuietBudget
<1>6. QED
  BY <1>1, <1>4, <1>5

\* A partition that nobody had brings its new owner nothing that was reached.
LEMMA AssignBudget ==
  ASSUME TypeOK, TypeOK', BudgetOK, NEW g \in Groups, NEW m \in Members, Assign(g, m)
  PROVE  BudgetOK'
<1>1. PICK w \in Workers : w = <<g, m>> /\ w[1] = g /\ w[2] = m
  BY WorkerFacts
<1>2. /\ pc[w] = "idle" /\ owner' = [owner EXCEPT ![g] = m]
      /\ pos' = [pos EXCEPT ![w] = committed[g]]
      /\ UNCHANGED <<topic, told, attempt, pc>>
  BY <1>1 DEF Assign
<1>3. \A v \in Workers : v # w => pc'[v] = pc[v] /\ attempt'[v] = attempt[v] /\ pos'[v] = pos[v]
  BY <1>2 DEF TypeOK
<1>4. CASE owner[g] = Nobody
  <2>1. faults' = faults
    BY <1>4 DEF Assign
  <2>2. ASSUME NEW v \in Notifiers, Owns(v) PROVE Owns(v)' /\ Upto(v) <= Upto(v)'
    <3>1. v \in Workers /\ v[1] \in Groups /\ v[2] \in Members /\ v[1] # g
      BY <1>4, <2>2, WorkerFacts, ConsumerAssumption DEF Notifiers, Owns
    <3>2. v # w /\ owner'[v[1]] = owner[v[1]]
      BY <1>1, <1>2, <3>1 DEF TypeOK
    <3>3. pos[v] \in Nat /\ pos'[v] = pos[v] /\ pc'[v] = pc[v]
      BY <1>3, <3>1, <3>2 DEF TypeOK
    <3>4. Upto(v)' = Upto(v) /\ Upto(v) \in Nat
      BY <3>3 DEF Upto
    <3>5. QED
      BY <2>2, <3>2, <3>4 DEF Owns
  <2>3. QED
    BY <1>2, <1>3, <2>1, <2>2, QuietBudget
<1>5. CASE owner[g] # Nobody
  <2>1. faults' = faults + 1
    BY <1>5 DEF Assign
  <2>2. QED
    BY <1>2, <1>3, <2>1, QuietBudget
<1>6. QED
  BY <1>4, <1>5

\* A customer is told: one of the tries of the member is used up.
LEMMA BeginBudget ==
  ASSUME TypeOK, TypeOK', BudgetOK, NEW w \in Workers, Begin(w)
  PROVE  BudgetOK'
<1>1. /\ UNCHANGED <<topic, pos, attempt, owner, faults>> /\ pc[w] = "look"
      /\ pc' = [pc EXCEPT ![w] = "write"]
      /\ told' = IF w[1] = "notification" THEN [told EXCEPT ![Current(w)] = @ + 1] ELSE told
  BY DEF Begin
<1>2. \A v \in Workers : v # w => pc'[v] = pc[v] /\ attempt'[v] = attempt[v] /\ pos'[v] = pos[v]
  BY <1>1 DEF TypeOK
<1>3. Current(w) \in Events /\ Current(w)' = Current(w) /\ pc'[w] = "write"
  BY <1>1, CurrentEvent DEF Current, TypeOK
<1>4. Tries(w) \in Nat /\ Tries(w)' = Tries(w) - 1 /\ (w \in Busy' <=> w \in Busy)
      /\ (w \in Busy <=> w[1] = "notification")
  BY <1>1, <1>3, ConsumerAssumption DEF Tries, TypeOK, Busy, Notifiers
<1>5. ASSUME NEW e \in Events
      PROVE  told'[e] + Mine(e, w)' = told[e] + Mine(e, w) /\ Mine(e, w) \in Int /\ Mine(e, w)' \in Int
  BY <1>1, <1>3, <1>4 DEF Mine, TypeOK
<1>6. ASSUME NEW e \in Events PROVE Budget(e)' = Budget(e)
  <2>1. \A v \in Notifiers : Upto(v)' = Upto(v)
    BY <1>1, <1>2, <1>3 DEF Upto, Notifiers
  <2>2. ReachAt(e)' = ReachAt(e)
    BY <1>1, <2>1 DEF ReachAt, CopiesAt, Owns, Notifiers
  <2>3. QED
    BY <1>1, <2>2 DEF Budget, Copies
<1>7. ASSUME NEW e \in Events
      PROVE  told'[e] + Mine(e, w)' + Budget(e) <= told[e] + Mine(e, w) + Budget(e)'
  <2> DEFINE m == Mine(e, w)
             n == Mine(e, w)'
             b == Budget(e)
             c == Budget(e)'
  <2>1. /\ b \in Nat /\ c = b /\ told[e] \in Nat /\ told'[e] \in Nat
        /\ told'[e] + n = told[e] + m /\ m \in Int /\ n \in Int
    BY <1>5, <1>6, BudgetParts DEF TypeOK
  <2> HIDE DEF m, n, b, c
  <2>2. told'[e] + n + b <= told[e] + m + c
    BY <2>1
  <2> USE DEF m, n, b, c
  <2>3. QED
    BY <2>2
<1>8. QED
  BY <1>1, <1>2, <1>7, BudgetStep


\* The owner takes the next message: a copy is reached, and pays for its attempts.
LEMMA FetchBudget ==
  ASSUME TypeOK, TypeOK', BudgetOK, NEW w \in Workers, Fetch(w)
  PROVE  BudgetOK'
<1>1. /\ UNCHANGED <<topic, told, pos, owner, faults>> /\ pc[w] = "idle" /\ Owns(w)
      /\ pos[w] < Len(topic)
      /\ pc' = [pc EXCEPT ![w] = "look"] /\ attempt' = [attempt EXCEPT ![w] = 1]
  BY DEF Fetch, HasNext
<1>2. /\ \A v \in Workers : v # w => pc'[v] = pc[v] /\ attempt'[v] = attempt[v] /\ pos'[v] = pos[v]
      /\ pc'[w] = "look" /\ attempt'[w] = 1
  BY <1>1 DEF TypeOK
<1>3. Tries(w)' = MaxAttempts /\ MaxAttempts \in Nat /\ Current(w)' = Current(w)
  BY <1>1, <1>2, ConsumerAssumption DEF Tries, Current
<1>4. \A v \in Notifiers : /\ Owns(v)' <=> Owns(v)
                           /\ Upto(v) \in Nat /\ Upto(v)' \in Nat /\ Upto(v) <= Upto(v)'
                           /\ Owns(v) /\ w \in Notifiers => v = w
  <2>1. SUFFICES ASSUME NEW v \in Notifiers
                 PROVE  /\ Owns(v)' <=> Owns(v)
                        /\ Upto(v) \in Nat /\ Upto(v)' \in Nat /\ Upto(v) <= Upto(v)'
                        /\ Owns(v) /\ w \in Notifiers => v = w
    OBVIOUS
  <2>2. v \in Workers /\ pos[v] \in Nat /\ pos' = pos /\ owner' = owner
    BY <1>1 DEF Notifiers, TypeOK
  <2>3. Upto(v) \in Nat /\ Upto(v)' \in Nat /\ Upto(v) <= Upto(v)'
    BY <1>1, <1>2, <2>2 DEF Upto
  <2>4. Owns(v) /\ w \in Notifiers => v = w
    BY <1>1, <2>2, WorkerFacts DEF Owns, Notifiers
  <2>5. QED
    BY <2>2, <2>3, <2>4 DEF Owns
<1>5. ASSUME NEW e \in Events PROVE Budget(e) <= Budget(e)' /\ ReachAt(e) \subseteq ReachAt(e)'
  <2>1. CopiesAt(e)' = CopiesAt(e) /\ CopiesAt(e) \subseteq Nat /\ Notifiers' = Notifiers
    BY <1>1 DEF CopiesAt, Notifiers, TypeOK
  <2>2. ReachAt(e) \subseteq ReachAt(e)'
    <3>1. SUFFICES ASSUME NEW i \in CopiesAt(e), NEW v \in Notifiers, Owns(v), i <= Upto(v)
                   PROVE  Owns(v)' /\ i <= Upto(v)'
      BY <2>1 DEF ReachAt
    <3>2. i \in Nat /\ Upto(v) \in Nat /\ Upto(v)' \in Nat /\ Upto(v) <= Upto(v)' /\ Owns(v)'
      BY <1>4, <2>1, <3>1
    <3>3. QED
      BY <3>1, <3>2
  <2>3. QED
    BY <1>1, <2>1, <2>2, BudgetKept
<1>6. ASSUME NEW e \in Events, w \in Notifiers, Current(w) = e
      PROVE  Budget(e) + MaxAttempts <= Budget(e)'
  <2> DEFINE i == pos[w] + 1
             c == Copies(e)
             r == Cardinality(ReachAt(e))
             s == Cardinality(ReachAt(e)')
  <2>1. i \in 1..Len(topic) /\ pos[w] \in Nat /\ i \in CopiesAt(e) /\ CopiesAt(e)' = CopiesAt(e)
    BY <1>1, <1>6 DEF TypeOK, CopiesAt, Current
  <2>2. i \in ReachAt(e)'
    <3>1. Upto(w)' = i /\ Owns(w)' /\ w \in Notifiers'
      BY <1>1, <1>2, <1>6 DEF Upto, Owns, Notifiers
    <3>2. QED
      BY <2>1, <3>1 DEF ReachAt
  <2>3. i \notin ReachAt(e)
    <3>1. Upto(w) = pos[w]
      BY <1>1 DEF Upto
    <3>2. ~(i <= pos[w])
      BY <2>1
    <3>3. QED
      BY <1>4, <1>6, <3>1, <3>2 DEF ReachAt
  <2>4. r \in Nat /\ s \in Nat /\ c \in Nat /\ faults \in Nat /\ Copies(e)' = c
    BY <1>1, BudgetParts, BudgetPartsNext DEF Copies
  <2>5. r + 1 <= s
    <3>1. IsFiniteSet(ReachAt(e)) /\ IsFiniteSet(ReachAt(e)') /\ ReachAt(e) \cup {i} \subseteq ReachAt(e)'
      BY <1>5, <2>2, BudgetParts, BudgetPartsNext
    <3>2. Cardinality(ReachAt(e) \cup {i}) = r + 1
      BY <2>3, <3>1, FS_AddElement
    <3>3. Cardinality(ReachAt(e) \cup {i}) <= s
      BY <3>1, FS_Subset
    <3>4. QED
      BY <3>2, <3>3
  <2>6. /\ Budget(e) = MaxAttempts * (c * faults + r)
        /\ Budget(e)' = MaxAttempts * (c * faults + s)
    BY <1>1, <2>4 DEF Budget
  <2>7. MaxAttempts * (c * faults + r) + MaxAttempts <= MaxAttempts * (c * faults + s)
    <3> HIDE DEF c, r, s
    <3>1. c * faults \in Nat
      BY <2>4
    <3>2. c * faults + r \in Nat /\ (c * faults + r) + 1 \in Nat /\ c * faults + s \in Nat
      BY <2>4, <3>1
    <3>3. (c * faults + r) + 1 <= c * faults + s
      BY <2>4, <2>5, <3>1
    <3>4. MaxAttempts * ((c * faults + r) + 1) <= MaxAttempts * (c * faults + s)
      BY <1>3, <3>2, <3>3, TimesGrows
    <3>5. MaxAttempts * ((c * faults + r) + 1) = MaxAttempts * (c * faults + r) + MaxAttempts
      BY <1>3, <3>2
    <3>6. QED
      BY <3>4, <3>5
  <2>8. QED
    BY <2>6, <2>7
<1>7. ASSUME NEW e \in Events
      PROVE  told'[e] + Mine(e, w)' + Budget(e) <= told[e] + Mine(e, w) + Budget(e)'
  <2> DEFINE n == Mine(e, w)'
             b == Budget(e)
             c == Budget(e)'
  <2>1. b \in Nat /\ c \in Nat /\ told[e] \in Nat /\ told' = told /\ b <= c /\ MaxAttempts \in Nat
    BY <1>1, <1>3, <1>5, BudgetParts, BudgetPartsNext DEF TypeOK
  <2>2. Mine(e, w) = 0
    BY <1>1 DEF Mine, Busy
  <2>3. n = 0 \/ (n = MaxAttempts /\ b + MaxAttempts <= c)
    <3>1. CASE w \in Notifiers /\ Current(w) = e
      <4>1. n = MaxAttempts
        BY <1>2, <1>3, <3>1 DEF Mine, Busy, Notifiers
      <4>2. QED
        BY <1>6, <3>1, <4>1
    <3>2. CASE ~(w \in Notifiers /\ Current(w) = e)
      BY <1>3, <3>2 DEF Mine, Busy, Notifiers
    <3>3. QED
      BY <3>1, <3>2
  <2> HIDE DEF n, b, c
  <2>4. told'[e] + n + b <= told[e] + Mine(e, w) + c
    BY <2>1, <2>2, <2>3
  <2> USE DEF n, b, c
  <2>5. QED
    BY <2>4
<1>8. QED
  BY <1>1, <1>2, <1>7, BudgetStep

\* A copy more; nobody has reached it yet.
LEMMA AppendBudget ==
  ASSUME TypeOK, TypeOK', BudgetOK, NEW x \in Events, topic' = Append(topic, x),
         UNCHANGED <<told, owner, member, faults>>
  PROVE  BudgetOK'
<1>1. /\ topic \in Seq(Events) /\ Len(topic) \in Nat /\ Len(topic') = Len(topic) + 1
      /\ \A i \in 1..Len(topic) : topic'[i] = topic[i]
      /\ UNCHANGED <<pos, attempt, pc>>
  BY DEF TypeOK, member
<1>2. Busy' = Busy /\ Notifiers' = Notifiers
  BY <1>1 DEF Busy, Notifiers
<1>3. ASSUME NEW e \in Events
      PROVE  told'[e] + SumOf(Left(e)', Busy') <= Budget(e)'
  <2>1. CopiesAt(e) \subseteq CopiesAt(e)'
    BY <1>1 DEF CopiesAt
  <2>2. ReachAt(e) \subseteq ReachAt(e)'
    BY <1>1, <1>2, <2>1 DEF ReachAt, Upto, Owns
  <2>3. Budget(e) <= Budget(e)'
    BY <2>1, <2>2, BudgetKept
  <2>4. ASSUME NEW v \in Busy PROVE Left(e)[v] = Left(e)'[v] /\ Left(e)[v] \in Int
    <3>1. v \in Workers /\ pc[v] # "idle" /\ v \in Busy'
      BY <1>2 DEF Busy, Notifiers
    <3>2. Current(v)' = Current(v)
      BY <1>1, <3>1, CurrentEvent DEF Current
    <3>3. Tries(v)' = Tries(v) /\ Tries(v) \in Int
      BY <1>1, <3>1, ConsumerAssumption DEF Tries, TypeOK
    <3>4. QED
      BY <3>1, <3>2, <3>3 DEF Left, Mine
  <2> DEFINE sum == SumOf(Left(e), Busy)
             next == SumOf(Left(e)', Busy')
             b == Budget(e)
             c == Budget(e)'
  <2>5. sum \in Int /\ next = sum
    BY <1>2, <2>4, SumSame, SumIsInt DEF BudgetOK
  <2>6. told[e] + sum <= b /\ told[e] \in Nat /\ told' = told /\ b \in Nat /\ c \in Nat
    BY BudgetParts, BudgetPartsNext DEF BudgetOK, TypeOK
  <2> HIDE DEF sum, next, b, c
  <2>7. told'[e] + next <= c
    <3>1. b <= c
      BY <2>3 DEF b, c
    <3>2. QED
      BY <2>5, <2>6, <3>1
  <2> USE DEF next, c
  <2>8. QED
    BY <2>7
<1>4. QED
  BY <1>2, <1>3 DEF BudgetOK

LEMMA InitBudget == Init => BudgetOK
<1> SUFFICES ASSUME Init PROVE BudgetOK
  OBVIOUS
<1>1. Busy = {}
  BY DEF Init, Busy, Notifiers
<1>2. ASSUME NEW e \in Events PROVE told[e] + SumOf(Left(e), Busy) <= Budget(e)
  <2>1. Budget(e) \in Nat
    BY InitInv, BudgetParts DEF IInv
  <2>2. told[e] = 0 /\ SumOf(Left(e), Busy) = 0
    BY <1>1, SumOfNothing DEF Init
  <2>3. QED
    BY <2>1, <2>2
<1>3. QED
  BY <1>1, <1>2, FS_EmptySet DEF BudgetOK

LEMMA NextBudget == IInv /\ BudgetOK /\ [Next]_vars => BudgetOK'
<1> SUFFICES ASSUME IInv, BudgetOK, [Next]_vars PROVE BudgetOK'
  OBVIOUS
<1>1. TypeOK /\ TypeOK'
  BY NextInv DEF IInv
<1>2. CASE UNCHANGED vars
  <2>1. UNCHANGED <<topic, told, owner, pos, attempt, pc, faults>>
    BY <1>2 DEF vars, member
  <2>2. Busy' = Busy
    BY <2>1 DEF Busy, Notifiers
  <2>3. \A e \in Events : Left(e)' = Left(e) /\ Budget(e)' = Budget(e)
    BY <2>1, <2>2 DEF Left, Mine, Tries, Current, Budget, Copies, ReachAt, CopiesAt, Upto,
       Owns, Notifiers
  <2>4. QED
    BY <2>1, <2>2, <2>3 DEF BudgetOK
<1>3. CASE (\E e \in Events : Publish(e)) \/ (\E d \in dlq : Reprocess(d))
  <2>1. \A d \in dlq : d[2] \in Events
    BY <1>1 DEF TypeOK
  <2>2. QED
    BY <1>1, <1>3, <2>1, AppendBudget DEF Publish, Reprocess
<1>4. CASE \E g \in Groups, m \in Members : Assign(g, m)
  BY <1>1, <1>4, AssignBudget
<1>5. CASE \E w \in Workers : \/ Step(w) \/ Commit(w)
                              \/ Stop(w) \/ StopTooEarly(w) \/ Crash(w) \/ ParkFails(w)
  BY <1>1, <1>5, FetchBudget, IgnoreBudget, BeginBudget, RetryBudget, OffsetBudget DEF Step
<1>6. QED
  BY <1>2, <1>3, <1>4, <1>5 DEF Next

\* The budget is within what is promised, and what members have left is not negative.
LEMMA BudgetBounds == IInv /\ BudgetOK => ToldBoundedly
<1> SUFFICES ASSUME IInv, BudgetOK, NEW e \in Events
             PROVE  told[e] <= MaxAttempts * Copies(e) * (1 + faults)
  BY DEF ToldBoundedly
<1> DEFINE sum == SumOf(Left(e), Busy)
           c == Copies(e)
           r == Cardinality(ReachAt(e))
<1>1. TypeOK /\ MaxAttempts \in Nat
  BY ConsumerAssumption DEF IInv
<1>2. c \in Nat /\ r \in Nat /\ r <= c /\ faults \in Nat /\ told[e] \in Nat
  BY <1>1, BudgetParts DEF TypeOK
<1>3. ASSUME NEW v \in Busy PROVE Left(e)[v] \in Nat
  <2>1. v \in Workers /\ attempt[v] \in 0..MaxAttempts
    BY <1>1 DEF Busy, Notifiers, TypeOK
  <2>2. Tries(v) \in Nat
    BY <1>1, <2>1 DEF Tries
  <2>3. QED
    BY <2>1, <2>2 DEF Left, Mine
<1>4. sum \in Int /\ 0 <= sum
  <2>1. IsFiniteSet(Busy) /\ {} \subseteq Busy
    BY DEF BudgetOK
  <2>2. SumOf(Left(e), {}) <= sum
    BY <1>3, <2>1, SumOfFewer
  <2>3. QED
    BY <1>3, <2>1, <2>2, SumIsInt, SumOfNothing
<1>5. told[e] + sum <= MaxAttempts * (c * faults + r)
  BY DEF BudgetOK, Budget
<1>6. QED
  <2> HIDE DEF sum, c, r
  <2>1. c * faults \in Nat /\ c * (1 + faults) = c * faults + c
    BY <1>2
  <2>2. MaxAttempts * (c * faults + r) <= MaxAttempts * (c * (1 + faults))
    <3>1. c * faults + r \in Nat /\ c * (1 + faults) \in Nat /\ c * faults + r <= c * (1 + faults)
      BY <1>2, <2>1
    <3>2. QED
      BY <1>1, <3>1, TimesGrows
  <2>3. /\ MaxAttempts * (c * faults + r) \in Nat
        /\ MaxAttempts * (c * (1 + faults)) = MaxAttempts * c * (1 + faults)
        /\ MaxAttempts * c * (1 + faults) \in Nat
    BY <1>1, <1>2, <2>1
  <2>4. told[e] <= MaxAttempts * c * (1 + faults)
    BY <1>2, <1>4, <1>5, <2>2, <2>3
  <2>5. QED
    BY <2>4 DEF c

-----------------------------------------------------------------------------

\* The variables keep their types.
THEOREM TypeCorrect == Spec => []TypeOK
<1>1. IInv => TypeOK
  BY DEF IInv
<1>2. QED
  BY <1>1, InitInv, NextInv, PTL DEF Spec

\* Every bucket of the metrics counts each processed event once, however often it
\* was delivered, retried, handled by two members or sent again.
THEOREM MetricsAreExact == Spec => []MetricsCountProcessed
<1>1. IInv => MetricsCountProcessed
  BY DEF IInv
<1>2. QED
  BY <1>1, InitInv, NextInv, PTL DEF Spec

\* A customer is told at most once per attempt, for each copy of the event and each
\* fault that may have had it delivered anew.
THEOREM ToldIsBounded == Spec => []ToldBoundedly
BY InitInv, NextInv, InitBudget, NextBudget, BudgetBounds, PTL DEF Spec

\* Between the offsets, the retries and the DLQ, whatever crashes, no event is lost to
\* a group that has no process which was told to stop before its consumer ran.
THEOREM ConsumersDeliver == Spec => DeliverySpec
<1>1. IInv /\ [Next]_vars
        => [D!Next]_<<[g \in Groups |-> [e \in Events |-> FateOf(g, e)]], Deaf>>
  BY NextDelivers DEF Fates
<1>2. QED
  BY <1>1, InitInv, NextInv, FateInitially, PTL DEF Spec, DeliverySpec, D!Spec
=============================================================================
