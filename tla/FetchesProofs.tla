--------------------------- MODULE FetchesProofs ----------------------------
(* Theorems about Fetches, for every number of calls and every setting of    *)
(* the limiter and of the retries.                                           *)
EXTENDS FetchesProperties, FiniteSetTheorems, TLAPS

Waiting == {c \in Batch : pc[c] = "wait"}

\* What the limiter may add to a call's wait.
Queue(c) == IF c \in Batch THEN LongestWait ELSE 0

\* The time that the tokens of a set of calls take.
Tokens(S) == Interval * Cardinality(S)

-----------------------------------------------------------------------------
(* Tokens of sets of calls.                                                  *)

LEMMA TokensNat ==
    ASSUME NEW S, IsFiniteSet(S)
    PROVE  Tokens(S) \in Nat
<1>1. Cardinality(S) \in Nat
  BY FS_CardinalityType
<1> QED
  BY <1>1, FetchesAssumption DEF Tokens

LEMMA TokensAdd ==
    ASSUME NEW S, IsFiniteSet(S), NEW x, x \notin S
    PROVE  Tokens(S \cup {x}) = Tokens(S) + Interval
<1>1. Cardinality(S) \in Nat /\ Cardinality(S \cup {x}) = Cardinality(S) + 1
  BY FS_CardinalityType, FS_AddElement
<1> DEFINE n == Cardinality(S)
<1>2. Interval * (n + 1) = Interval * n + Interval
  BY <1>1, FetchesAssumption
<1> QED
  BY <1>1, <1>2 DEF Tokens

LEMMA TokensMonotone ==
    ASSUME NEW T, IsFiniteSet(T), NEW S, S \subseteq T
    PROVE  Tokens(S) <= Tokens(T)
<1>1. /\ IsFiniteSet(S) /\ Cardinality(S) <= Cardinality(T)
      /\ Cardinality(S) \in Nat /\ Cardinality(T) \in Nat
  BY FS_Subset, FS_CardinalityType
<1>2. \A m, n \in Nat : m <= n => Interval * m <= Interval * n
  BY FetchesAssumption
<1> QED
  BY <1>1, <1>2 DEF Tokens

LEMMA TokensBatch == LongestWait = Tokens(Batch) /\ LongestWait \in Nat
<1>1. Cardinality(Batch) \in Nat
  BY FS_CardinalityType, FetchesAssumption
<1>2. Cardinality(Batch) * Interval = Interval * Cardinality(Batch)
  BY <1>1, FetchesAssumption
<1> QED
  BY <1>1, <1>2, FetchesAssumption DEF LongestWait, Tokens

\* Of a limiter that is not limited nobody waits for anybody.
LEMMA TokensFree ==
    ASSUME NEW S, IsFiniteSet(S), Interval = 0
    PROVE  Tokens(S) = 0
<1>1. Cardinality(S) \in Nat
  BY FS_CardinalityType
<1> QED
  BY <1>1 DEF Tokens

LEMMA WaitingFinite ==
    /\ Waiting \subseteq Batch /\ IsFiniteSet(Waiting)
    /\ \A S : S \subseteq Waiting => IsFiniteSet(S)
BY FS_Subset, FetchesAssumption DEF Waiting

-----------------------------------------------------------------------------
(* The inductive invariant.                                                  *)

FetchesType ==
    /\ now \in Nat
    /\ pc \in [Call -> FetchPc]
    /\ start \in [Call -> Nat]
    /\ wake \in [Call -> Nat]
    /\ attempts \in [Call -> Nat]
    /\ outcome \in [Call -> {"none", "ok", "permanent", "spent", "cancelled"}]
    /\ slot \in Nat
    /\ lastSent \in Int

\* A call is never late, and how long it may take is fixed when it starts to
\* wait: for the limiter, for the node or for the pause.
TimeInv ==
    \A c \in Call :
        /\ pc[c] \in {"wait", "flight", "pause"} =>
               now <= wake[c] /\ start[c] <= now
        /\ pc[c] = "wait" =>
               c \in Batch /\ wake[c] <= start[c] + Budget + LongestWait
        /\ pc[c] = "flight" =>
               wake[c] <= start[c] + Budget + Queue(c) + MaxRequest
        /\ pc[c] = "pause" => wake[c] <= start[c] + Budget

\* The first attempt pays for the limiter and for its own request only.
AttemptInv ==
    \A c \in Call :
        /\ pc[c] = "idle" => attempts[c] = 0
        /\ pc[c] \in {"flight", "pause"} => attempts[c] >= 1
        /\ pc[c] = "wait" /\ attempts[c] = 0 =>
               wake[c] <= start[c] + LongestWait
        /\ pc[c] = "flight" /\ attempts[c] = 1 =>
               wake[c] <= start[c] + Queue(c) + MaxRequest
        /\ outcome[c] = "spent" =>
               pc[c] = "done" /\ (Roomy(c) => attempts[c] > 1)

\* Tokens are an interval apart, of each other and of the last request.
RateInv ==
    /\ lastSent + Interval <= slot
    /\ \A c \in Waiting :
           lastSent + Interval <= wake[c] /\ wake[c] + Interval <= slot
    /\ \A c, d \in Waiting :
           c # d => \/ wake[c] + Interval <= wake[d]
                    \/ wake[d] + Interval <= wake[c]

Behind(c) == {d \in Waiting : wake[c] <= wake[d]}

\* The next token is no further away than the calls that hold one explain, from
\* now and from each of them.  A wait that is given up leaves its token unused:
\* this holds until the batch is cancelled.
QueueInv ==
    "batch" \notin cancelled =>
        /\ slot <= now + Tokens(Waiting) + Interval
        /\ \A c \in Waiting : slot <= wake[c] + Tokens(Behind(c))

FInv == FetchesType /\ TimeInv /\ AttemptInv /\ RateInv /\ QueueInv

LEMMA FInvEnds == FInv => EndsInTime
<1> SUFFICES ASSUME FInv, NEW c \in Call, pc[c] \notin {"idle", "done"}
             PROVE  now - start[c] <= Budget + MaxRequest + Queue(c)
  BY DEF EndsInTime, Queue
<1>1. pc[c] \in {"wait", "flight", "pause"}
  BY DEF FInv, FetchesType, FetchPc
<1>2. now <= wake[c] /\ wake[c] <= start[c] + Budget + Queue(c) + MaxRequest
  BY <1>1, FetchesAssumption, TokensBatch
  DEF FInv, TimeInv, FetchesType, Queue
<1> QED
  BY <1>2, FetchesAssumption, TokensBatch DEF FInv, FetchesType, Queue

LEMMA FInvRetried == FInv => RetriedInBudget
BY DEF FInv, AttemptInv, RetriedInBudget

LEMMA InitFInv == FetchesInit => FInv
<1> SUFFICES ASSUME FetchesInit PROVE FInv
  OBVIOUS
<1>1. FetchesType
  BY FetchesAssumption DEF FetchesInit, FetchesType, FetchPc
<1>2. TimeInv /\ AttemptInv
  BY DEF FetchesInit, TimeInv, AttemptInv
<1>3. Waiting = {}
  BY DEF FetchesInit, Waiting, Call
<1>4. RateInv
  BY <1>3, FetchesAssumption DEF FetchesInit, RateInv
<1>5. Tokens(Waiting) \in Nat
  BY TokensNat, WaitingFinite
<1>6. QueueInv
  BY <1>3, <1>5, FetchesAssumption DEF FetchesInit, QueueInv
<1> QED
  BY <1>1, <1>2, <1>4, <1>6 DEF FInv

-----------------------------------------------------------------------------
(* The steps.                                                                *)

\* A call takes the next token, at its first attempt or after a pause.
LEMMA ReserveFInv ==
    ASSUME FInv, NEW c \in Batch, NEW s \in Nat,
           pc[c] \in {"idle", "pause"}, "batch" \notin cancelled,
           s <= now, now <= s + Budget, attempts[c] = 0 => s = now,
           Reserve(c), start' = [start EXCEPT ![c] = s],
           UNCHANGED <<now, outcome, cancelled>>
    PROVE  FInv'
<1> USE DEF FInv
<1> PICK at : at = IF slot > now THEN slot ELSE now
  OBVIOUS
<1>0. /\ now \in Nat /\ slot \in Nat /\ Interval \in Nat /\ at \in Nat
      /\ LongestWait \in Nat /\ c \in Call /\ Budget \in Nat
      /\ lastSent \in Int
  BY FetchesAssumption, TokensBatch DEF FetchesType, Call
<1>1. /\ pc' = [pc EXCEPT ![c] = "wait"] /\ wake' = [wake EXCEPT ![c] = at]
      /\ slot' = at + Interval /\ attempts' = attempts /\ lastSent' = lastSent
  BY DEF Reserve
<1>2. FetchesType'
  BY <1>0, <1>1 DEF FetchesType, FetchPc
<1>3. c \notin Waiting /\ Waiting' = Waiting \cup {c}
  BY <1>0, <1>1 DEF Waiting, FetchesType, Call
<1>4. /\ wake'[c] = at /\ start'[c] = s /\ pc'[c] = "wait"
      /\ \A d \in Call : d # c => /\ wake'[d] = wake[d] /\ start'[d] = start[d]
                                  /\ pc'[d] = pc[d]
  BY <1>0, <1>1 DEF FetchesType
<1>5. at <= now + LongestWait
  <2>1. Waiting \cup {c} \subseteq Batch /\ IsFiniteSet(Waiting)
    BY WaitingFinite
  <2>2. Tokens(Waiting) + Interval <= LongestWait
    <3>1. Tokens(Waiting \cup {c}) = Tokens(Waiting) + Interval
      BY <1>3, <2>1, TokensAdd
    <3>2. Tokens(Waiting \cup {c}) <= Tokens(Batch)
      BY <2>1, TokensMonotone, FetchesAssumption
    <3> QED
      BY <3>1, <3>2, TokensBatch
  <2>3. Tokens(Waiting) \in Nat
    BY <2>1, TokensNat
  <2> QED
    BY <1>0, <2>2, <2>3 DEF QueueInv
<1>6. TimeInv'
  <2> SUFFICES ASSUME NEW d \in Call
               PROVE  /\ pc'[d] \in {"wait", "flight", "pause"} =>
                             now <= wake'[d] /\ start'[d] <= now
                      /\ pc'[d] = "wait" =>
                             /\ d \in Batch
                             /\ wake'[d] <= start'[d] + Budget + LongestWait
                      /\ pc'[d] = "flight" =>
                             wake'[d] <= start'[d] + Budget + Queue(d) + MaxRequest
                      /\ pc'[d] = "pause" => wake'[d] <= start'[d] + Budget
    BY <1>1 DEF TimeInv, Queue, LongestWait
  <2>1. CASE d = c
    BY <1>0, <1>4, <1>5, <2>1
  <2>2. CASE d # c
    BY <1>4, <2>2 DEF TimeInv
  <2> QED
    BY <2>1, <2>2
<1>7. AttemptInv'
  <2> SUFFICES ASSUME NEW d \in Call
               PROVE  /\ pc'[d] = "idle" => attempts[d] = 0
                      /\ pc'[d] \in {"flight", "pause"} => attempts[d] >= 1
                      /\ pc'[d] = "wait" /\ attempts[d] = 0 =>
                             wake'[d] <= start'[d] + LongestWait
                      /\ pc'[d] = "flight" /\ attempts[d] = 1 =>
                             wake'[d] <= start'[d] + Queue(d) + MaxRequest
                      /\ outcome[d] = "spent" =>
                             pc'[d] = "done" /\ (Roomy(d) => attempts[d] > 1)
    BY <1>1 DEF AttemptInv, Queue, LongestWait, Roomy
  <2>1. CASE d = c
    BY <1>0, <1>4, <1>5, <2>1 DEF AttemptInv
  <2>2. CASE d # c
    BY <1>4, <2>2 DEF AttemptInv
  <2> QED
    BY <2>1, <2>2
<1>8. /\ slot <= at /\ now <= at
      /\ \A d \in Waiting : /\ d # c /\ d \in Call /\ wake'[d] = wake[d]
                            /\ wake[d] \in Nat
                            /\ wake[d] + Interval <= slot /\ now <= wake[d]
  BY <1>0, <1>3, <1>4 DEF Waiting, RateInv, TimeInv, FetchesType, Call
<1>9. RateInv'
  BY <1>0, <1>1, <1>3, <1>4, <1>8 DEF RateInv
<1>10. QueueInv'
  <2>1. at + Interval <= now + Tokens(Waiting') + Interval
    <3>1. Tokens(Waiting') = Tokens(Waiting) + Interval /\ Tokens(Waiting) \in Nat
      BY <1>3, WaitingFinite, TokensAdd, TokensNat
    <3> QED
      BY <1>0, <3>1 DEF QueueInv
  <2>2. ASSUME NEW d \in Waiting'
        PROVE  at + Interval <= wake'[d] + Tokens(Behind(d)')
    <3> DEFINE after == {e \in Waiting' : wake'[d] <= wake'[e]}
    <3>1. Behind(d)' = after
      BY DEF Behind
    <3>2. CASE d = c
      <4>1. c \in after
        BY <1>0, <1>3, <1>4, <3>2
      <4>2. after \subseteq Waiting \cup {c} /\ IsFiniteSet(after)
        BY <1>3, WaitingFinite, FS_AddElement, FS_Subset
      <4>3. Tokens({} \cup {c}) = Tokens({}) + Interval /\ Tokens({}) \in Nat
        BY FS_EmptySet, TokensAdd, TokensNat
      <4>4. {} \cup {c} \subseteq after
        BY <4>1
      <4>5. Tokens({} \cup {c}) <= Tokens(after)
        BY <4>2, <4>4, TokensMonotone
      <4>6. Tokens(after) \in Nat
        BY <4>2, TokensNat
      <4>7. Interval <= Tokens(after)
        BY <1>0, <4>3, <4>5, <4>6
      <4> HIDE DEF after
      <4> QED
        BY <1>0, <1>4, <3>1, <3>2, <4>6, <4>7
    <3>3. CASE d # c
      <4>1. d \in Waiting
        BY <1>3, <3>3
      <4>2. slot = at
        BY <1>0, <1>8, <4>1
      <4>3. after = Behind(d) \cup {c}
        BY <1>0, <1>3, <1>4, <1>8, <4>1, <4>2 DEF Behind
      <4>4. /\ IsFiniteSet(Behind(d)) /\ c \notin Behind(d)
        BY <1>3, WaitingFinite DEF Behind
      <4>5. Tokens(after) = Tokens(Behind(d)) + Interval
            /\ Tokens(Behind(d)) \in Nat
        BY <4>3, <4>4, TokensAdd, TokensNat
      <4>6. slot <= wake[d] + Tokens(Behind(d))
        BY <4>1 DEF QueueInv
      <4> HIDE DEF after
      <4> QED
        BY <1>0, <1>8, <3>1, <4>1, <4>2, <4>5, <4>6
    <3> QED
      BY <3>2, <3>3
  <2> QED
    BY <1>1, <2>1, <2>2 DEF QueueInv
<1> QED
  BY <1>2, <1>6, <1>7, <1>9, <1>10

\* What a step of call c, which is not waiting afterwards, has to show when the
\* limiter is left alone.
LEMMA StepFInv ==
    ASSUME FInv, NEW c \in Call,
           FetchesType', now' = now, slot' = slot,
           \A d \in Call : d # c => /\ pc'[d] = pc[d] /\ start'[d] = start[d]
                                   /\ wake'[d] = wake[d]
                                   /\ attempts'[d] = attempts[d]
                                   /\ outcome'[d] = outcome[d],
           pc'[c] \in {"flight", "pause", "done"},
           pc'[c] # "done" => now <= wake'[c] /\ start'[c] <= now,
           pc'[c] = "flight" =>
               wake'[c] <= start'[c] + Budget + Queue(c) + MaxRequest,
           pc'[c] = "pause" => wake'[c] <= start'[c] + Budget,
           pc'[c] # "done" => attempts'[c] >= 1 /\ outcome'[c] # "spent",
           pc'[c] = "flight" /\ attempts'[c] = 1 =>
               wake'[c] <= start'[c] + Queue(c) + MaxRequest,
           outcome'[c] = "spent" => (Roomy(c) => attempts'[c] > 1),
           RateInv', QueueInv'
    PROVE  FInv'
<1>1. TimeInv'
  <2> SUFFICES ASSUME NEW d \in Call
               PROVE  /\ pc'[d] \in {"wait", "flight", "pause"} =>
                             now <= wake'[d] /\ start'[d] <= now
                      /\ pc'[d] = "wait" =>
                             /\ d \in Batch
                             /\ wake'[d] <= start'[d] + Budget + LongestWait
                      /\ pc'[d] = "flight" =>
                             wake'[d] <= start'[d] + Budget + Queue(d) + MaxRequest
                      /\ pc'[d] = "pause" => wake'[d] <= start'[d] + Budget
    BY DEF TimeInv, Queue, LongestWait
  <2>1. CASE d = c
    BY <2>1
  <2>2. CASE d # c
    BY <2>2 DEF FInv, TimeInv
  <2> QED
    BY <2>1, <2>2
<1>2. AttemptInv'
  <2> SUFFICES ASSUME NEW d \in Call
               PROVE  /\ pc'[d] = "idle" => attempts'[d] = 0
                      /\ pc'[d] \in {"flight", "pause"} => attempts'[d] >= 1
                      /\ pc'[d] = "wait" /\ attempts'[d] = 0 =>
                             wake'[d] <= start'[d] + LongestWait
                      /\ pc'[d] = "flight" /\ attempts'[d] = 1 =>
                             wake'[d] <= start'[d] + Queue(d) + MaxRequest
                      /\ outcome'[d] = "spent" =>
                             pc'[d] = "done" /\ (Roomy(d) => attempts'[d] > 1)
    BY DEF AttemptInv, Queue, LongestWait, Roomy
  <2>1. CASE d = c
    BY <2>1
  <2>2. CASE d # c
    BY <2>2 DEF FInv, AttemptInv
  <2> QED
    BY <2>1, <2>2
<1> QED
  BY <1>1, <1>2 DEF FInv

\* When call c stops waiting, nobody waits for it.
LEMMA StopsWaiting ==
    ASSUME NEW c \in Call, UNCHANGED <<cancelled, now, slot>>, FetchesType,
           pc'[c] # "wait",
           \A d \in Call : d # c => pc'[d] = pc[d] /\ wake'[d] = wake[d],
           FInv, c \in Waiting => wake[c] = now
    PROVE  Waiting' = Waiting \ {c} /\ QueueInv'
<1>0. /\ now \in Nat /\ slot \in Nat /\ Interval \in Nat
      /\ \A d \in Waiting : d \in Call /\ wake[d] \in Nat /\ now <= wake[d]
  BY FetchesAssumption DEF FetchesType, Waiting, Call, FInv, TimeInv
<1>1. Waiting' = Waiting \ {c}
  BY DEF Waiting, Call
<1>2. CASE c \notin Waiting
  <2>1. Waiting' = Waiting
    BY <1>1, <1>2
  <2>2. \A d \in Waiting : d # c /\ wake'[d] = wake[d]
    BY <1>0, <1>2
  <2>3. \A d \in Waiting : Behind(d)' = Behind(d)
    BY <2>1, <2>2 DEF Behind
  <2>4. \A d \in Waiting : Tokens(Behind(d)') = Tokens(Behind(d))
    BY <2>3
  <2>5. QueueInv'
    BY <2>1, <2>2, <2>4 DEF FInv, QueueInv, Tokens
  <2> QED
    BY <1>1, <2>5
<1>3. CASE c \in Waiting /\ "batch" \notin cancelled
  <2>1. slot <= now + Tokens(Waiting)
    <3>1. Behind(c) \subseteq Waiting /\ IsFiniteSet(Waiting)
      BY WaitingFinite DEF Behind
    <3>2. /\ Tokens(Behind(c)) <= Tokens(Waiting)
          /\ Tokens(Waiting) \in Nat /\ Tokens(Behind(c)) \in Nat
      BY <3>1, TokensMonotone, TokensNat, WaitingFinite
    <3>3. slot <= now + Tokens(Behind(c))
      BY <1>3 DEF FInv, QueueInv
    <3> QED
      BY <1>0, <3>2, <3>3
  <2>2. slot <= now + Tokens(Waiting') + Interval
    <3>1. Waiting = Waiting' \cup {c} /\ c \notin Waiting'
      BY <1>1, <1>3
    <3>2. IsFiniteSet(Waiting')
      BY <1>1, WaitingFinite
    <3>3. Tokens(Waiting) = Tokens(Waiting') + Interval
      BY <3>1, <3>2, TokensAdd
    <3>4. Tokens(Waiting') \in Nat
      BY <3>2, TokensNat
    <3> QED
      BY <1>0, <2>1, <3>3, <3>4
  <2>3. ASSUME NEW d \in Waiting'
        PROVE  slot <= wake'[d] + Tokens(Behind(d)')
    <3>1. d \in Waiting /\ d # c /\ wake'[d] = wake[d]
      BY <1>0, <1>1
    <3>2. slot <= wake[d] + Tokens(Behind(d))
      BY <1>3, <3>1 DEF FInv, QueueInv
    <3>3. CASE wake[d] <= now
      <4>1. Interval = 0
        BY <1>0, <1>3, <3>1, <3>3 DEF FInv, RateInv
      <4>2. IsFiniteSet(Behind(d)) /\ IsFiniteSet(Behind(d)')
        BY <1>1, WaitingFinite DEF Behind
      <4>3. Tokens(Behind(d)) = 0 /\ Tokens(Behind(d)') = 0
        BY <4>1, <4>2, TokensFree
      <4> QED
        BY <1>0, <3>1, <3>2, <4>3
    <3>4. CASE ~(wake[d] <= now)
      <4>1. Behind(d)' = Behind(d)
        BY <1>0, <1>1, <1>3, <3>1, <3>4 DEF Behind
      <4>2. Tokens(Behind(d)') = Tokens(Behind(d))
        BY <4>1
      <4> QED
        BY <3>1, <3>2, <4>2
    <3> QED
      BY <3>3, <3>4
  <2>4. QueueInv'
    BY <2>2, <2>3 DEF QueueInv, Tokens
  <2> QED
    BY <1>1, <2>4
<1> QED
  BY <1>1, <1>2, <1>3 DEF QueueInv

\* A call sends its request: backfill's when its token has come.
LEMMA RequestFInv ==
    ASSUME FInv, NEW c \in Call, NEW s \in Nat,
           c \in Batch => pc[c] = "wait" /\ wake[c] <= now,
           c \notin Batch => pc[c] # "wait",
           s <= now, now <= s + Budget + Queue(c),
           attempts[c] = 0 => now <= s + Queue(c), outcome[c] # "spent",
           Request(c), start' = [start EXCEPT ![c] = s],
           UNCHANGED <<now, outcome, cancelled>>
    PROVE  FInv'
<1> USE DEF FInv
<1>0. /\ now \in Nat /\ slot \in Nat /\ Interval \in Nat /\ lastSent \in Int
      /\ MaxRequest \in Nat /\ Budget \in Nat /\ LongestWait \in Nat
      /\ attempts[c] \in Nat /\ Queue(c) \in Nat
  BY FetchesAssumption, TokensBatch DEF FetchesType, Queue
<1>1. /\ pc' = [pc EXCEPT ![c] = "flight"]
      /\ wake' = [wake EXCEPT ![c] = now + MaxRequest]
      /\ attempts' = [attempts EXCEPT ![c] = @ + 1]
      /\ lastSent' = IF c \in Batch THEN now ELSE lastSent
      /\ slot' = slot
  BY DEF Request
<1>2. FetchesType'
  BY <1>0, <1>1 DEF FetchesType, FetchPc
<1>3. /\ wake'[c] = now + MaxRequest /\ start'[c] = s /\ pc'[c] = "flight"
      /\ attempts'[c] = attempts[c] + 1 /\ outcome'[c] = outcome[c]
      /\ \A d \in Call : d # c => /\ wake'[d] = wake[d] /\ start'[d] = start[d]
                                  /\ pc'[d] = pc[d] /\ outcome'[d] = outcome[d]
                                  /\ attempts'[d] = attempts[d]
  BY <1>0, <1>1 DEF FetchesType
<1>4. c \in Waiting => wake[c] = now
  BY <1>0 DEF Waiting, TimeInv, FetchesType
<1>5. Waiting' = Waiting \ {c} /\ QueueInv'
  BY <1>1, <1>3, <1>4, StopsWaiting
<1>6. c \in Waiting <=> c \in Batch
  BY DEF Waiting
<1>7. \A d \in Waiting :
        /\ d \in Call /\ wake[d] \in Nat /\ now <= wake[d]
        /\ d # c => wake'[d] = wake[d]
  BY <1>3 DEF Waiting, TimeInv, FetchesType, Call
<1>8. RateInv'
  <2>1. lastSent' + Interval <= slot
    BY <1>0, <1>1, <1>4, <1>6 DEF RateInv
  <2>2. ASSUME NEW d \in Waiting'
        PROVE  lastSent' + Interval <= wake'[d] /\ wake'[d] + Interval <= slot
    <3>1. d \in Waiting /\ d # c /\ wake'[d] = wake[d]
      BY <1>5, <1>7
    <3>2. CASE c \in Batch
      BY <1>0, <1>1, <1>4, <1>6, <1>7, <3>1, <3>2 DEF RateInv
    <3>3. CASE c \notin Batch
      BY <1>1, <3>1, <3>3 DEF RateInv
    <3> QED
      BY <3>2, <3>3
  <2>3. ASSUME NEW d \in Waiting', NEW e \in Waiting', d # e
        PROVE  \/ wake'[d] + Interval <= wake'[e]
               \/ wake'[e] + Interval <= wake'[d]
    BY <1>5, <1>7, <2>3 DEF RateInv
  <2> QED
    BY <1>1, <2>1, <2>2, <2>3 DEF RateInv
<1>9. now + MaxRequest <= s + Budget + Queue(c) + MaxRequest
  BY <1>0
<1>10. attempts'[c] >= 1
       /\ (attempts'[c] = 1 => wake'[c] <= s + Queue(c) + MaxRequest)
  BY <1>0, <1>3
<1>11. now <= wake'[c]
  BY <1>0, <1>3
<1> QED
  BY <1>1, <1>2, <1>3, <1>5, <1>8, <1>9, <1>10, <1>11, StepFInv

\* A call that is not waiting, or is cancelled, returns.
LEMMA ReturnFInv ==
    ASSUME FInv, NEW c \in Call,
           NEW o \in {"ok", "permanent", "spent", "cancelled"},
           pc[c] = "wait" => "batch" \in cancelled,
           o = "spent" => (Roomy(c) => attempts[c] > 1),
           Return(c, o), cancelled \subseteq cancelled'
    PROVE  FInv'
<1> USE DEF FInv
<1>1. /\ pc' = [pc EXCEPT ![c] = "done"]
      /\ outcome' = [outcome EXCEPT ![c] = o]
      /\ start' = [start EXCEPT ![c] = 0]
      /\ wake' = [wake EXCEPT ![c] = 0]
      /\ UNCHANGED <<now, attempts, slot, lastSent>>
  BY DEF Return
<1>2. FetchesType'
  BY <1>1 DEF FetchesType, FetchPc
<1>3. /\ pc'[c] = "done" /\ outcome'[c] = o /\ attempts'[c] = attempts[c]
      /\ \A d \in Call : d # c => /\ wake'[d] = wake[d] /\ start'[d] = start[d]
                                  /\ pc'[d] = pc[d] /\ outcome'[d] = outcome[d]
                                  /\ attempts'[d] = attempts[d]
  BY <1>1 DEF FetchesType
<1>4. /\ Waiting' = Waiting \ {c}
      /\ \A d \in Waiting : d # c => wake'[d] = wake[d]
  BY <1>3 DEF Waiting, Call
<1>5. RateInv'
  BY <1>1, <1>4 DEF RateInv
<1>6. QueueInv'
  <2>1. CASE "batch" \in cancelled
    BY <2>1 DEF QueueInv
  <2>2. CASE c \notin Waiting
    <3>1. Waiting' = Waiting /\ \A d \in Waiting : wake'[d] = wake[d]
      BY <1>4, <2>2
    <3>2. \A d \in Waiting : Behind(d)' = Behind(d)
      BY <3>1 DEF Behind
    <3>3. \A d \in Waiting : Tokens(Behind(d)') = Tokens(Behind(d))
      BY <3>2
    <3> QED
      BY <1>1, <3>1, <3>3 DEF QueueInv, Tokens
  <2> QED
    BY <2>1, <2>2 DEF Waiting
<1>7. outcome'[c] = "spent" => (Roomy(c) => attempts'[c] > 1)
  BY <1>3
<1> QED
  BY <1>1, <1>2, <1>3, <1>5, <1>6, <1>7, StepFInv

\* A call pauses after a request that failed.
LEMMA PauseFInv ==
    ASSUME FInv, NEW c \in Call, NEW pause \in Pauses, pc[c] = "flight",
           ~Spent(c, pause),
           pc' = [pc EXCEPT ![c] = "pause"],
           wake' = [wake EXCEPT ![c] = now + pause],
           UNCHANGED <<now, start, attempts, outcome, slot, lastSent, cancelled>>
    PROVE  FInv'
<1> USE DEF FInv
<1>0. /\ now \in Nat /\ pause \in Nat /\ start[c] \in Nat /\ Budget \in Nat
  BY FetchesAssumption DEF FetchesType
<1>1. FetchesType'
  BY <1>0 DEF FetchesType, FetchPc
<1>2. /\ pc'[c] = "pause" /\ wake'[c] = now + pause
      /\ \A d \in Call : d # c => wake'[d] = wake[d] /\ pc'[d] = pc[d]
  BY <1>0 DEF FetchesType
<1>3. c \notin Waiting
  BY DEF Waiting
<1>4. Waiting' = Waiting /\ QueueInv'
  <2>1. Waiting' = Waiting \ {c} /\ QueueInv'
    BY <1>2, <1>3, StopsWaiting
  <2> QED
    BY <1>3, <2>1
<1>5. \A d \in Waiting : wake'[d] = wake[d]
  BY <1>2, <1>3 DEF Waiting, Call
<1>6. RateInv'
  BY <1>4, <1>5 DEF RateInv
<1>7. attempts[c] >= 1 /\ outcome[c] # "spent" /\ start[c] <= now
  BY DEF AttemptInv, TimeInv
<1>8. wake'[c] <= start[c] + Budget /\ now <= wake'[c]
  BY <1>0, <1>2 DEF Spent
<1> QED
  BY <1>1, <1>2, <1>4, <1>6, <1>7, <1>8, StepFInv

LEMMA AttemptFInv ==
    ASSUME FInv, NEW c \in Call, ~Cancelled(c), pc[c] \in {"idle", "pause"},
           NEW s \in Nat, pc[c] = "idle" => s = now,
           pc[c] = "pause" => s = start[c] /\ wake[c] <= now,
           Attempt(c), start' = [start EXCEPT ![c] = s],
           UNCHANGED <<now, outcome, cancelled>>
    PROVE  FInv'
<1>1. /\ s <= now /\ now <= s + Budget /\ (attempts[c] = 0 => s = now)
      /\ outcome[c] # "spent" /\ now \in Nat
  BY FetchesAssumption DEF FInv, FetchesType, TimeInv, AttemptInv
<1>2. CASE c \in Batch
  BY <1>1, <1>2, ReserveFInv DEF Attempt, Cancelled
<1>3. CASE c \notin Batch
  <2>1. Queue(c) = 0 /\ Budget \in Nat
    BY <1>3, FetchesAssumption DEF Queue
  <2>2. now <= s + Budget + Queue(c) /\ (attempts[c] = 0 => now <= s + Queue(c))
    BY <1>1, <2>1
  <2> QED
    BY <1>1, <1>3, <2>2, RequestFInv DEF Attempt
<1> QED
  BY <1>2, <1>3

LEMMA ProgressFInv ==
    ASSUME FInv, NEW c \in Call, Make(c) \/ Progress(c)
    PROVE  FInv'
<1>1. CASE Make(c)
  <2>1. now \in Nat
    BY DEF FInv, FetchesType
  <2> QED
    BY <1>1, <2>1, AttemptFInv DEF Make
<1>2. CASE TokenComes(c)
  <2>1. /\ pc[c] = "wait" /\ wake[c] <= now /\ c \in Batch
        /\ Request(c) /\ UNCHANGED <<now, start, outcome, cancelled>>
    BY <1>2 DEF TokenComes, FInv, TimeInv
  <2>2. start[c] \in Nat /\ start' = [start EXCEPT ![c] = start[c]]
    BY <2>1 DEF FInv, FetchesType
  <2>3. /\ start[c] <= now /\ now <= start[c] + Budget + Queue(c)
        /\ attempts[c] = 0 => now <= start[c] + Queue(c)
        /\ outcome[c] # "spent"
    BY <2>1, FetchesAssumption, TokensBatch
    DEF FInv, FetchesType, TimeInv, AttemptInv, Queue
  <2> QED
    BY <2>1, <2>2, <2>3, RequestFInv
<1>3. CASE PauseEnds(c)
  <2>1. start[c] \in Nat /\ start' = [start EXCEPT ![c] = start[c]]
    BY <1>3 DEF PauseEnds, FInv, FetchesType
  <2> QED
    BY <1>3, <2>1, AttemptFInv DEF PauseEnds
<1>4. CASE Succeed(c) \/ FailForGood(c)
  BY <1>4, ReturnFInv DEF Succeed, FailForGood, ReturnsError
<1>5. CASE FailAndPause(c)
  <2> PICK pause \in Pauses :
          IF Spent(c, pause)
          THEN ReturnsError(c, "spent")
          ELSE /\ pc' = [pc EXCEPT ![c] = "pause"]
               /\ wake' = [wake EXCEPT ![c] = now + pause]
               /\ UNCHANGED <<now, start, attempts, outcome, slot, lastSent,
                              cancelled>>
    BY <1>5 DEF FailAndPause
  <2>1. pc[c] = "flight"
    BY <1>5 DEF FailAndPause
  <2>2. CASE Spent(c, pause)
    <3>1. ASSUME Roomy(c) PROVE attempts[c] > 1
      <4>1. /\ attempts[c] \in Nat /\ attempts[c] >= 1
            /\ now <= wake[c]
            /\ attempts[c] = 1 => wake[c] <= start[c] + Queue(c) + MaxRequest
        BY <2>1 DEF FInv, FetchesType, TimeInv, AttemptInv
      <4>2. Queue(c) + MaxRequest + pause <= Budget
        BY <3>1 DEF Roomy, Queue
      <4>3. /\ now \in Nat /\ start[c] \in Nat /\ wake[c] \in Nat
            /\ Queue(c) \in Nat /\ MaxRequest \in Nat /\ Budget \in Nat
            /\ pause \in Nat
        BY FetchesAssumption, TokensBatch DEF FInv, FetchesType, Queue
      <4> QED
        BY <2>2, <4>1, <4>2, <4>3 DEF Spent
    <3> QED
      BY <2>1, <2>2, <3>1, ReturnFInv DEF ReturnsError
  <2>3. CASE ~Spent(c, pause)
    BY <2>1, <2>3, PauseFInv
  <2> QED
    BY <2>2, <2>3
<1>6. CASE Abort(c)
  <2>1. pc[c] = "wait" => "batch" \in cancelled
    BY <1>6, FetchesAssumption DEF Abort, Cancelled, FInv, TimeInv
  <2> QED
    BY <1>6, <2>1, ReturnFInv DEF Abort
<1> QED
  BY <1>1, <1>2, <1>3, <1>4, <1>5, <1>6 DEF Progress

\* Contexts are cancelled; time passes.
LEMMA OtherFInv ==
    ASSUME FInv, BatchFailed \/ Shutdown \/ Tick \/ UNCHANGED fetchVars
    PROVE  FInv'
<1> USE DEF FInv
<1>1. CASE BatchFailed \/ Shutdown \/ UNCHANGED fetchVars
  <2>1. UNCHANGED <<now, callVars, slot, lastSent>> /\ cancelled \subseteq cancelled'
    BY <1>1 DEF BatchFailed, Shutdown, fetchVars
  <2>2. FetchesType' /\ RateInv'
    BY <2>1 DEF callVars, FetchesType, RateInv, Waiting
  <2>3. TimeInv' /\ AttemptInv'
    BY <2>1 DEF callVars, TimeInv, AttemptInv, Queue, LongestWait, Roomy
  <2>4. QueueInv'
    BY <2>1 DEF callVars, QueueInv, Waiting, Tokens, Behind
  <2> QED
    BY <2>2, <2>3, <2>4
<1>2. CASE Tick
  <2>1. now' = now + 1 /\ UNCHANGED <<callVars, slot, lastSent, cancelled>>
    BY <1>2 DEF Tick
  <2>2. now \in Nat /\ slot \in Nat /\ \A c \in Call : wake[c] \in Nat
    BY DEF FetchesType
  <2>3. FetchesType' /\ RateInv'
    BY <2>1, <2>2 DEF callVars, FetchesType, RateInv, Waiting
  <2>4. \A c \in Call :
          pc[c] \in {"wait", "flight", "pause"} =>
              now + 1 <= wake[c] /\ start[c] <= now + 1
    BY <1>2, <2>2 DEF Tick, Urgent, TimeInv, FetchesType
  <2>5. TimeInv' /\ AttemptInv'
    BY <2>1, <2>4 DEF callVars, TimeInv, AttemptInv, Queue, LongestWait, Roomy
  <2>6. QueueInv'
    <3>1. Waiting' = Waiting /\ \A c \in Waiting : Behind(c)' = Behind(c)
      BY <2>1 DEF callVars, Waiting, Behind
    <3>2. \A c \in Waiting : Tokens(Behind(c)') = Tokens(Behind(c))
      BY <3>1
    <3>3. Tokens(Waiting) \in Nat /\ Tokens(Waiting') = Tokens(Waiting)
      BY <3>1, WaitingFinite, TokensNat
    <3>4. slot <= now + Tokens(Waiting) + Interval
          => slot <= now + 1 + Tokens(Waiting) + Interval
      BY <2>2, <3>3, FetchesAssumption
    <3> QED
      BY <2>1, <3>1, <3>2, <3>3, <3>4 DEF callVars, QueueInv, Tokens
  <2> QED
    BY <2>3, <2>5, <2>6
<1> QED
  BY <1>1, <1>2

LEMMA FInvHolds == FetchesSpec => []FInv
<1>1. FInv /\ [FetchesNext]_fetchVars => FInv'
  BY ProgressFInv, OtherFInv DEF FetchesNext
<1> QED
  BY <1>1, InitFInv, PTL DEF FetchesSpec

-----------------------------------------------------------------------------
(* The theorems.                                                             *)

\* However long the queue of the limiter and however often a call is retried,
\* it is over within its budget, the queue and one request.
THEOREM CallsEndInTime == FetchesSpec => []EndsInTime
BY FInvHolds, FInvEnds, PTL

\* With room for it in the budget, an error that may pass is retried.
THEOREM CallsRetried == FetchesSpec => []RetriedInBudget
BY FInvHolds, FInvRetried, PTL

\* A request of backfill goes out with its token, an interval after the last.
LEMMA RateStep ==
    ASSUME FInv, [FetchesNext]_fetchVars, NEW c \in Batch,
           attempts'[c] > attempts[c]
    PROVE  now - lastSent >= Interval
<1>0. /\ now \in Nat /\ lastSent \in Int /\ Interval \in Nat /\ c \in Call
      /\ attempts \in [Call -> Nat] /\ wake[c] \in Nat
  BY FetchesAssumption DEF FInv, FetchesType, Call
<1>1. TokenComes(c)
  <2>1. attempts' # attempts
    BY <1>0
  <2>2. PICK d \in Call : Request(d) /\ (TokenComes(d) \/ d \in Priority)
    BY <1>0, <2>1, FetchesAssumption
    DEF FetchesNext, Make, Progress, PauseEnds, Attempt, Reserve, Succeed,
        FailForGood, FailAndPause, Abort, ReturnsError, Return, TokenComes,
        BatchFailed, Shutdown, Tick, callVars, fetchVars, Call
  <2>3. d = c
    BY <1>0, <2>2 DEF Request
  <2> QED
    BY <2>2, <2>3, FetchesAssumption
<1>2. wake[c] <= now /\ lastSent + Interval <= wake[c]
  BY <1>1 DEF TokenComes, FInv, RateInv, Waiting
<1> QED
  BY <1>0, <1>2

\* Two requests of backfill are an interval apart.
THEOREM RateIsKept == FetchesSpec => RateKept
<1>1. FInv /\ [FetchesNext]_fetchVars
      => [\A c \in Batch :
             attempts'[c] > attempts[c] => now - lastSent >= Interval]_fetchVars
  BY RateStep
<1> QED
  BY <1>1, FInvHolds, PTL DEF FetchesSpec, RateKept

=============================================================================
