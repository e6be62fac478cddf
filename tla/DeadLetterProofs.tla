-------------------------- MODULE DeadLetterProofs --------------------------
(***************************************************************************)
(* The safety properties of DeadLetter for every stream, batch size, set   *)
(* of poison events, threshold and queue capacity.                         *)
(***************************************************************************)
EXTENDS DeadLetter, FiniteSetTheorems, SequenceTheorems, TLAPS

-----------------------------------------------------------------------------
(* Types.                                                                  *)

\* The first range of the worklist, once there is one.
Working == step # "idle" => work # <<>>

\* A retry works on an entry.
Holding == op # "none" => opEvent \in Events

\* What there is to know of the range isolate works on.
LEMMA FirstRange ==
  ASSUME TypeOK, Working, step # "idle"
  PROVE  /\ Head(work) = work[1] /\ Len(work) \in Nat \ {0}
         /\ Head(work)[1] \in Events /\ Head(work)[2] \in Events
         /\ Head(work)[1] <= Head(work)[2]
         /\ Tail(work) \in Seq(Ranges) /\ Len(Tail(work)) = Len(work) - 1
<1>1. work \in Seq(Ranges) /\ work # <<>>
  BY DEF TypeOK, Working
<1>2. Head(work) \in Ranges /\ Tail(work) \in Seq(Ranges) /\ Len(Tail(work)) = Len(work) - 1
  BY <1>1, HeadTailProperties
<1>3. Len(work) \in Nat \ {0} /\ Head(work) = work[1]
  BY <1>1
<1> QED
  BY <1>2, <1>3 DEF Ranges

\* Putting two worklists together.
LEMMA Appended ==
  ASSUME NEW s \in Seq(Ranges), NEW t \in Seq(Ranges)
  PROVE  /\ s \o t \in Seq(Ranges) /\ Len(s \o t) = Len(s) + Len(t)
         /\ \A i \in 1..Len(s) : (s \o t)[i] = s[i]
         /\ \A i \in (Len(s) + 1)..(Len(s) + Len(t)) : (s \o t)[i] = t[i - Len(s)]
OBVIOUS

\* The halves of a range are consecutive and cover it; neither is empty.
LEMMA HalvesRanges ==
  ASSUME DeadLetterAssumption, NEW r, r[1] \in Events, r[2] \in Events, r[1] < r[2]
  PROVE  /\ Halves(r) \in Seq(Ranges) /\ Len(Halves(r)) = 2
         /\ Halves(r)[1][1] = r[1] /\ Halves(r)[2][2] = r[2]
         /\ Halves(r)[2][1] = Halves(r)[1][2] + 1
<1> DEFINE mid == r[1] + (r[2] - r[1] + 1) \div 2
<1>1. mid \in Int /\ r[1] < mid /\ mid <= r[2]
  BY DEF Events, DeadLetterAssumption
<1>2. mid \in Events /\ mid - 1 \in Events
  BY <1>1 DEF Events, DeadLetterAssumption
<1>3. Halves(r) = <<<<r[1], mid - 1>>, <<mid, r[2]>>>>
  BY DEF Halves
<1> HIDE DEF mid
<1>4. <<r[1], mid - 1>> \in Ranges /\ <<mid, r[2]>> \in Ranges
  BY <1>1, <1>2 DEF Ranges, Events, DeadLetterAssumption
<1> QED
  BY <1>1, <1>3, <1>4

-----------------------------------------------------------------------------
\* The breaker's bookkeeping keeps its counter below the threshold.
LEMMA CountTyped ==
  ASSUME DeadLetterAssumption, TypeOK, NEW o, Count(o)
  PROVE  breaker' \in {"closed", "half", "open"} /\ streak' \in 0..(FailureThreshold - 1)
BY DEF DeadLetterAssumption, TypeOK, Count, breakerVars, Healthy

\* The types of the stream's variables, with Working.
StreamTyped ==
  /\ pos \in 0..NumEvents /\ hi \in 0..NumEvents
  /\ work \in Seq(Ranges)
  /\ step \in {"idle", "call", "park", "write"} /\ top \in BOOLEAN
  /\ Working

\* Returning an error, advancing and isolating keep the types.
LEMMA AbortTyped ==
  ASSUME TypeOK, Abort PROVE StreamTyped'
BY DEF TypeOK, Abort, StreamTyped, Working

\* Advancing: the next range is there unless the batch is done.
LEMMA ProceedTyped ==
  ASSUME TypeOK, Working, step # "idle", Proceed PROVE StreamTyped'
<1>1. /\ Len(work) \in Nat \ {0} /\ Tail(work) \in Seq(Ranges)
      /\ Len(Tail(work)) = Len(work) - 1
  BY FirstRange
<1>2. Len(work) # 1 => Tail(work) # <<>>
  BY <1>1
<1> QED
  BY <1>1, <1>2 DEF TypeOK, Proceed, StreamTyped, Working

\* Isolating: the halves are ranges again.
LEMMA IsolateTyped ==
  ASSUME DeadLetterAssumption, TypeOK, Working, step # "idle", Isolate
  PROVE  StreamTyped'
<1> DEFINE r == Head(work)
<1>1. /\ r[1] \in Events /\ r[2] \in Events /\ r[1] <= r[2]
      /\ Tail(work) \in Seq(Ranges)
  BY FirstRange
<1>2. CASE r[1] = r[2]
  BY Zenon, <1>2 DEF Isolate, TypeOK, Working, StreamTyped
<1>3. CASE r[1] # r[2]
  <2> DEFINE h == Halves(r)
             t == Tail(work)
  <2>1. h \in Seq(Ranges) /\ Len(h) = 2 /\ t \in Seq(Ranges)
    BY <1>1, <1>3, HalvesRanges DEF Events, DeadLetterAssumption
  <2>2. step' = "call" /\ work' = h \o t /\ top' = FALSE /\ UNCHANGED <<pos, hi>>
    BY Zenon, <1>3 DEF Isolate
  <2> HIDE DEF h, t
  <2>3. h \o t \in Seq(Ranges) /\ h \o t # <<>>
    BY <2>1, Appended
  <2> QED
    BY Zenon, <2>2, <2>3 DEF TypeOK, Working, StreamTyped
<1> QED
  BY <1>2, <1>3

\* Types are preserved by every step, with the fact that a delivery in
\* progress has a range to send.
LEMMA TypeStep ==
  ASSUME DeadLetterAssumption, TypeOK, Working, Holding, [Next]_vars
  PROVE  TypeOK' /\ Working' /\ Holding'
<1> SUFFICES TypeOK' /\ StreamTyped' /\ Holding'
  BY DEF StreamTyped
<1>1. CASE Begin
  <2>1. hi' \in Events /\ pos < hi' /\ work' = <<<<pos + 1, hi'>>>> /\ pos + 1 \in Events
    BY <1>1 DEF Begin, TypeOK, Events, DeadLetterAssumption
  <2>2. <<pos + 1, hi'>> \in Ranges
    BY <2>1 DEF Ranges, Events, DeadLetterAssumption, TypeOK
  <2>3. work' \in Seq(Ranges) /\ work' # <<>>
    BY <2>1, <2>2
  <2> QED
    BY SMTT(30), <1>1, <2>1, <2>3
    DEF Begin, TypeOK, Holding, StreamTyped, Working, Events, breakerVars, opVars, histVars
<1>2. CASE CallSucceeds
  <2>1. StreamTyped'
    BY <1>2, ProceedTyped DEF CallSucceeds
  <2>2. breaker' \in {"closed", "half", "open"} /\ streak' \in 0..(FailureThreshold - 1)
    BY <1>2, CountTyped DEF CallSucceeds
  <2>3. Span(Head(work)) \subseteq Events
    BY <1>2, FirstRange DEF CallSucceeds, Span, Events, DeadLetterAssumption
  <2>4. fails' \in [Events -> 0..Threshold]
    BY <1>2 DEF CallSucceeds, TypeOK, DeadLetterAssumption
  <2> QED
    BY <1>2, <2>1, <2>2, <2>3, <2>4
    DEF CallSucceeds, TypeOK, Holding, StreamTyped, opVars
<1>3. CASE CallStalls
  <2>1. StreamTyped'
    BY <1>3, AbortTyped DEF CallStalls
  <2>2. breaker' \in {"closed", "half", "open"} /\ streak' \in 0..(FailureThreshold - 1)
    BY <1>3, CountTyped DEF CallStalls
  <2> QED
    BY <1>3, <2>1, <2>2 DEF CallStalls, TypeOK, Holding, StreamTyped, opVars, histVars
<1>4. CASE CallCounted
  <2>1. Abort \/ Isolate
    BY <1>4 DEF CallCounted
  <2>2. StreamTyped'
    BY <1>4, <2>1, AbortTyped, IsolateTyped DEF CallCounted
  <2>3. breaker' \in {"closed", "half", "open"} /\ streak' \in 0..(FailureThreshold - 1)
    BY <1>4, CountTyped DEF CallCounted
  <2>4. Head(work)[1] \in Events
    BY <1>4, FirstRange DEF CallCounted
  <2>5. fails' \in [Events -> 0..Threshold]
    BY <1>4, <2>4 DEF CallCounted, TypeOK, DeadLetterAssumption
  <2> QED
    BY <1>4, <2>2, <2>3, <2>5
    DEF CallCounted, TypeOK, Holding, StreamTyped, opVars, histVars
<1>5. CASE CallIsolates
  <2>1. StreamTyped'
    BY <1>5, IsolateTyped DEF CallIsolates
  <2>2. breaker' \in {"closed", "half", "open"} /\ streak' \in 0..(FailureThreshold - 1)
    BY <1>5, CountTyped DEF CallIsolates
  <2> QED
    BY <1>5, <2>1, <2>2 DEF CallIsolates, TypeOK, Holding, StreamTyped, opVars, histVars
<1>6. CASE ParkCheck
  <2>1. StreamTyped'
    BY <1>6, AbortTyped DEF ParkCheck, StreamTyped, TypeOK, Working
  <2> QED
    BY <1>6, <2>1
    DEF ParkCheck, TypeOK, Holding, StreamTyped, breakerVars, opVars, histVars
<1>7. CASE ParkWrite
  <2>1. StreamTyped'
    BY <1>7, ProceedTyped DEF ParkWrite
  <2>2. Head(work)[1] \in Events
    BY <1>7, FirstRange DEF ParkWrite
  <2>3. fails' \in [Events -> 0..Threshold]
    BY <1>7, <2>2 DEF ParkWrite, TypeOK, DeadLetterAssumption
  <2> QED
    BY <1>7, <2>1, <2>2, <2>3
    DEF ParkWrite, TypeOK, Holding, StreamTyped, breakerVars, opVars, histVars
<1>8. CASE ParkFails
  <2>1. StreamTyped'
    BY <1>8, AbortTyped DEF ParkFails
  <2>2. Head(work)[1] \in Events
    BY <1>8, FirstRange DEF ParkFails
  <2> QED
    BY <1>8, <2>1, <2>2
    DEF ParkFails, TypeOK, Holding, StreamTyped, breakerVars, opVars, histVars
<1>9. CASE RetryGet
  BY <1>9
  DEF RetryGet, TypeOK, Holding, StreamTyped, Working, streamVars, breakerVars, histVars
<1>10. CASE RetryCall
  <2>1. breaker' \in {"closed", "half", "open"} /\ streak' \in 0..(FailureThreshold - 1)
    BY <1>10, CountTyped DEF RetryCall
  <2>2. opEvent \in Events
    BY <1>10 DEF RetryCall, Holding
  <2>3. delivered' = delivered \/ delivered' = delivered \cup {opEvent}
    BY <1>10 DEF RetryCall
  <2> QED
    BY <1>10, <2>1, <2>2, <2>3
    DEF RetryCall, TypeOK, Holding, StreamTyped, Working, streamVars
<1>11. CASE RetryRemove
  BY <1>11
  DEF RetryRemove, TypeOK, Holding, StreamTyped, Working, streamVars, breakerVars, histVars
<1>12. CASE RetryRepark
  <2>1. op' \in {"rewrite", "none"}
    BY <1>12 DEF RetryRepark
  <2> QED
    BY <1>12, <2>1
    DEF RetryRepark, TypeOK, Holding, StreamTyped, Working, streamVars, breakerVars, histVars
<1>13. CASE RetryRewrite
  BY <1>13
  DEF RetryRewrite, TypeOK, Holding, StreamTyped, Working, streamVars, breakerVars, histVars
<1>14. CASE Discard
  BY <1>14
  DEF Discard, TypeOK, Holding, StreamTyped, Working, streamVars, breakerVars, opVars
<1>15. CASE HalfOpen
  BY <1>15
  DEF HalfOpen, TypeOK, Holding, StreamTyped, Working, streamVars, opVars, histVars
<1>16. CASE SinkChanges
  BY <1>16
  DEF SinkChanges, TypeOK, Holding, StreamTyped, Working, streamVars, breakerVars, opVars
<1>17. CASE Restart
  BY <1>17
  DEF Restart, TypeOK, Holding, StreamTyped, Working, histVars, DeadLetterAssumption
<1>18. CASE UNCHANGED vars
  BY <1>18
  DEF TypeOK, Holding, StreamTyped, Working, vars, streamVars, breakerVars, opVars, histVars
<1> QED
  BY SMTT(30), <1>1, <1>2, <1>3, <1>4, <1>5, <1>6, <1>7, <1>8, <1>9, <1>10, <1>11, <1>12,
     <1>13, <1>14, <1>15, <1>16, <1>17, <1>18 DEF Next, Stream, Operator

-----------------------------------------------------------------------------
(* Nothing is lost, and the batch is dealt with in order.                  *)

\* The worklist is the rest of the batch, cut into consecutive ranges, and
\* what lies between pos and its first range is resolved.
Consecutive ==
  step # "idle" =>
    /\ pos < work[1][1] /\ work[Len(work)][2] = hi
    /\ \A i \in 1..(Len(work) - 1) : work[i + 1][1] = work[i][2] + 1
    /\ \A e \in (pos + 1)..(work[1][1] - 1) : e \in Resolved

\* Only single events are parked, and only delivered ones removed.
SingleParked == step \in {"park", "write"} => work[1][1] = work[1][2]
RemoveSound == op = "remove" => opEvent \in delivered

Typed == TypeOK /\ Working /\ Holding
OrderInv == NothingLost /\ Consecutive /\ SingleParked /\ RemoveSound

\* The ends of the ranges as integers, for the arithmetic below.
LEMMA FirstTyped ==
  ASSUME DeadLetterAssumption, Typed, step # "idle"
  PROVE  /\ work \in Seq(Ranges) /\ Len(work) \in Nat \ {0}
         /\ \A i \in 1..Len(work) :
              work[i][1] \in Int /\ work[i][2] \in Int /\ work[i][1] <= work[i][2]
         /\ pos \in Nat /\ hi \in Nat
<1>1. work \in Seq(Ranges) /\ Len(work) \in Nat \ {0} /\ pos \in Nat /\ hi \in Nat
  BY FirstRange DEF Typed, TypeOK, DeadLetterAssumption
<1>2. ASSUME NEW i \in 1..Len(work)
      PROVE  work[i][1] \in Int /\ work[i][2] \in Int /\ work[i][1] <= work[i][2]
  <2>1. work[i] \in Ranges
    BY <1>1, ElementOfSeq
  <2> QED
    BY <2>1 DEF Ranges, Events
<1> QED
  BY <1>1, <1>2

\* Advancing over a first range that is now resolved keeps the order.
LEMMA ProceedOrdered ==
  ASSUME DeadLetterAssumption, Typed, NothingLost, Consecutive, step # "idle", Proceed,
         Resolved \subseteq Resolved', Span(Head(work)) \subseteq Resolved'
  PROVE  NothingLost' /\ Consecutive' /\ SingleParked'
<1>1. /\ work \in Seq(Ranges) /\ Len(work) \in Nat \ {0}
      /\ \A i \in 1..Len(work) :
           work[i][1] \in Int /\ work[i][2] \in Int /\ work[i][1] <= work[i][2]
      /\ pos \in Nat /\ hi \in Nat
  BY FirstTyped
<1>2. /\ pos < work[1][1] /\ work[Len(work)][2] = hi
      /\ \A i \in 1..(Len(work) - 1) : work[i + 1][1] = work[i][2] + 1
      /\ \A e \in (pos + 1)..(work[1][1] - 1) : e \in Resolved
  BY DEF Consecutive
<1>3. Head(work) = work[1] /\ work[1][1] \in Int /\ work[1][2] \in Int
  BY <1>1
<1>4. \A e \in 1..work[1][2] : e \in Resolved'
  <2> SUFFICES ASSUME NEW e \in 1..work[1][2] PROVE e \in Resolved'
    OBVIOUS
  <2>1. e \in 1..pos \/ e \in (pos + 1)..(work[1][1] - 1) \/ e \in work[1][1]..work[1][2]
    BY <1>1, <1>3
  <2>2. CASE e \in 1..pos
    BY <2>2 DEF NothingLost
  <2>3. CASE e \in (pos + 1)..(work[1][1] - 1)
    BY <2>3, <1>2
  <2>4. CASE e \in work[1][1]..work[1][2]
    BY <2>4, <1>3 DEF Span
  <2> QED
    BY <2>1, <2>2, <2>3, <2>4
<1>5. CASE Len(work) = 1
  <2>1. pos' = work[1][2] /\ step' = "idle"
    BY <1>2, <1>5 DEF Proceed
  <2> QED
    BY <2>1, <1>4 DEF NothingLost, Consecutive, SingleParked
<1>6. CASE Len(work) # 1
  <2>1. pos' = pos /\ step' = "call" /\ hi' = hi /\ work' = Tail(work)
    BY <1>6 DEF Proceed
  <2>2. Len(work') = Len(work) - 1 /\ \A i \in 1..Len(work') : work'[i] = work[i + 1]
    BY <1>1, <2>1, HeadTailProperties
  <2>3. work'[1] = work[2] /\ work[2][1] = work[1][2] + 1
    BY <1>1, <1>2, <1>6, <2>2
  <2>4. pos' < work'[1][1] /\ \A e \in (pos' + 1)..(work'[1][1] - 1) : e \in Resolved'
    <3>1. work'[1][1] = work[1][2] + 1 /\ work[1][1] <= work[1][2]
      BY <1>1, <2>3
    <3> DEFINE a == work[1][1]
               b == work[1][2]
               n == work'[1][1]
    <3>2. /\ a \in Int /\ b \in Int /\ n = b + 1 /\ a <= b
          /\ pos \in Nat /\ pos' = pos /\ pos < a /\ \A e \in 1..b : e \in Resolved'
      BY Zenon, <1>1, <1>2, <1>3, <1>4, <2>1, <3>1
    <3> HIDE DEF a, b, n
    <3>3. pos' < n /\ \A e \in (pos' + 1)..(n - 1) : e \in 1..b
      BY <3>2
    <3>4. \A e \in (pos' + 1)..(n - 1) : e \in Resolved'
      BY <3>2, <3>3
    <3> QED
      BY <3>3, <3>4 DEF n
  <2>5. work'[Len(work')][2] = hi'
    BY <1>1, <1>2, <1>6, <2>1, <2>2
  <2>6. \A i \in 1..(Len(work') - 1) : work'[i + 1][1] = work'[i][2] + 1
    <3> SUFFICES ASSUME NEW i \in 1..(Len(work') - 1)
                 PROVE  work'[i + 1][1] = work'[i][2] + 1
      OBVIOUS
    <3>1. work'[i] = work[i + 1] /\ work'[i + 1] = work[(i + 1) + 1]
      BY <1>1, <2>2
    <3>2. i + 1 \in 1..(Len(work) - 1)
      BY <1>1, <2>2
    <3> QED
      BY <1>2, <3>1, <3>2
  <2> QED
    BY Zenon, <2>1, <2>4, <2>5, <2>6 DEF NothingLost, Consecutive, SingleParked
<1> QED
  BY <1>5, <1>6

\* Splitting the first range, or turning to park it, keeps the order.
LEMMA IsolateOrdered ==
  ASSUME DeadLetterAssumption, Typed, NothingLost, Consecutive, step # "idle", Isolate,
         Resolved \subseteq Resolved'
  PROVE  NothingLost' /\ Consecutive' /\ SingleParked'
<1> DEFINE r == Head(work)
<1>1. /\ work \in Seq(Ranges) /\ Len(work) \in Nat \ {0}
      /\ pos \in Nat /\ hi \in Nat
  BY FirstTyped
<1>2. /\ pos < work[1][1] /\ work[Len(work)][2] = hi
      /\ \A i \in 1..(Len(work) - 1) : work[i + 1][1] = work[i][2] + 1
      /\ \A e \in (pos + 1)..(work[1][1] - 1) : e \in Resolved
  BY DEF Consecutive
<1>3. /\ r = work[1] /\ r[1] \in Events /\ r[2] \in Events /\ r[1] <= r[2]
  BY FirstRange DEF Typed
<1>4. NothingLost' /\ pos' = pos /\ hi' = hi
  BY DEF NothingLost, Isolate
<1>5. CASE r[1] = r[2]
  <2>1. step' = "park" /\ work' = work
    BY <1>5 DEF Isolate
  <2> QED
    BY <1>2, <1>3, <1>4, <1>5, <2>1 DEF Consecutive, SingleParked
<1>6. CASE r[1] # r[2]
  <2> DEFINE h == Halves(r)
             t == Tail(work)
  <2>1. /\ h \in Seq(Ranges) /\ Len(h) = 2
        /\ h[1][1] = r[1] /\ h[2][2] = r[2] /\ h[2][1] = h[1][2] + 1
    BY <1>3, <1>6, HalvesRanges DEF Events, DeadLetterAssumption
  <2>2. /\ t \in Seq(Ranges) /\ Len(t) = Len(work) - 1
        /\ \A i \in 1..Len(t) : t[i] = work[i + 1]
    BY <1>1, HeadTailProperties
  <2>3. step' = "call" /\ work' = h \o t
    BY Zenon, <1>6 DEF Isolate
  <2> HIDE DEF h, t
  <2>4. /\ Len(work') = 1 + Len(work) /\ work'[1] = h[1] /\ work'[2] = h[2]
        /\ \A i \in 3..Len(work') : work'[i] = t[i - 2]
    <3>1. /\ Len(h \o t) = 2 + Len(t) /\ \A i \in 1..2 : (h \o t)[i] = h[i]
          /\ \A i \in 3..(2 + Len(t)) : (h \o t)[i] = t[i - 2]
      <4>1. /\ Len(h \o t) = Len(h) + Len(t)
            /\ \A i \in 1..Len(h) : (h \o t)[i] = h[i]
            /\ \A i \in (Len(h) + 1)..(Len(h) + Len(t)) : (h \o t)[i] = t[i - Len(h)]
        BY Zenon, <2>1, <2>2, Appended
      <4> QED
        BY <2>1, <4>1
    <3>2. Len(work') = 1 + Len(work) /\ Len(work') = 2 + Len(t)
      BY <1>1, <2>2, <2>3, <3>1
    <3> QED
      BY <2>3, <3>1, <3>2
  <2>5. \A i \in 3..Len(work') : work'[i] = work[i - 1]
    <3> SUFFICES ASSUME NEW i \in 3..Len(work') PROVE work'[i] = work[i - 1]
      OBVIOUS
    <3>1. i - 2 \in 1..Len(t) /\ (i - 2) + 1 = i - 1
      BY <1>1, <2>2, <2>4
    <3> QED
      BY <2>2, <2>4, <3>1
  <2> HIDE DEF r
  <2>6. pos' < work'[1][1] /\ \A e \in (pos' + 1)..(work'[1][1] - 1) : e \in Resolved'
    BY <1>2, <1>3, <1>4, <2>1, <2>4
  <2>7. work'[Len(work')][2] = hi'
    <3>1. CASE Len(work) = 1
      BY <3>1, <1>2, <1>3, <1>4, <2>1, <2>4
    <3>2. CASE Len(work) # 1
      <4>1. Len(work') \in 3..Len(work') /\ Len(work') - 1 = Len(work)
        BY <3>2, <1>1, <2>4
      <4> QED
        BY <4>1, <1>2, <1>4, <2>5
    <3> QED
      BY <3>1, <3>2
  <2>8. \A i \in 1..(Len(work') - 1) : work'[i + 1][1] = work'[i][2] + 1
    <3> SUFFICES ASSUME NEW i \in 1..(Len(work') - 1)
                 PROVE  work'[i + 1][1] = work'[i][2] + 1
      OBVIOUS
    <3>1. CASE i = 1
      BY <3>1, <2>1, <2>4
    <3>2. CASE i = 2
      <4>1. work'[3] = work[2] /\ work[2][1] = work[1][2] + 1
        BY <3>2, <1>1, <1>2, <2>4, <2>5
      <4> QED
        BY <3>2, <4>1, <1>3, <2>1, <2>4
    <3>3. CASE i \notin {1, 2}
      <4>1. work'[i] = work[i - 1] /\ work'[i + 1] = work[(i - 1) + 1]
        BY <3>3, <1>1, <2>4, <2>5
      <4>2. i - 1 \in 1..(Len(work) - 1)
        BY <3>3, <1>1, <2>4
      <4> QED
        BY <1>2, <4>1, <4>2
    <3> QED
      BY <3>1, <3>2, <3>3
  <2> QED
    BY Zenon, <1>4, <2>3, <2>6, <2>7, <2>8 DEF Consecutive, SingleParked
<1> QED
  BY <1>5, <1>6

\* An error keeps what was passed.
LEMMA AbortOrdered ==
  ASSUME NothingLost, Abort, Resolved \subseteq Resolved'
  PROVE  NothingLost' /\ Consecutive' /\ SingleParked'
BY DEF NothingLost, Consecutive, SingleParked, Abort

\* So does a step of the others.
LEMMA StillOrdered ==
  ASSUME NothingLost, Consecutive, SingleParked, UNCHANGED streamVars,
         Resolved \subseteq Resolved'
  PROVE  NothingLost' /\ Consecutive' /\ SingleParked'
BY DEF NothingLost, Consecutive, SingleParked, streamVars

\* No step takes an event out of the resolved ones.
LEMMA ResolvedGrows ==
  ASSUME RemoveSound, [Next]_vars
  PROVE  Resolved \subseteq Resolved'
<1> USE DEF Resolved, streamVars, breakerVars, opVars, histVars
<1>1. CASE Stream
  <2>1. delivered \subseteq delivered' /\ store \subseteq store' /\ discarded' = discarded
    BY <1>1 DEF Stream, Begin, CallSucceeds, CallStalls, CallCounted, CallIsolates,
       ParkCheck, ParkWrite, ParkFails
  <2> QED
    BY <2>1
<1>2. CASE RetryGet \/ RetryRepark
  BY <1>2 DEF RetryGet, RetryRepark
<1>3. CASE RetryCall
  <2>1. delivered \subseteq delivered' /\ store' = store /\ discarded' = discarded
    BY <1>3 DEF RetryCall
  <2> QED
    BY <2>1
<1>4. CASE RetryRemove
  BY <1>4 DEF RetryRemove, RemoveSound
<1>5. CASE RetryRewrite
  BY <1>5 DEF RetryRewrite
<1>6. CASE Discard
  BY <1>6 DEF Discard
<1>7. CASE HalfOpen \/ SinkChanges \/ Restart
  BY <1>7 DEF HalfOpen, SinkChanges, Restart
<1>8. CASE UNCHANGED vars
  BY <1>8 DEF vars
<1> QED
  BY <1>1, <1>2, <1>3, <1>4, <1>5, <1>6, <1>7, <1>8 DEF Next, Operator

\* A retry removes its entry only after its own successful call.
LEMMA RemoveStep ==
  ASSUME RemoveSound, [Next]_vars
  PROVE  RemoveSound'
<1> USE DEF RemoveSound, streamVars, breakerVars, opVars, histVars
<1>1. CASE Stream
  <2>1. op' = op /\ opEvent' = opEvent /\ delivered \subseteq delivered'
    BY <1>1 DEF Stream, Begin, CallSucceeds, CallStalls, CallCounted, CallIsolates,
       ParkCheck, ParkWrite, ParkFails
  <2> QED
    BY <2>1
<1>2. CASE RetryGet
  BY <1>2 DEF RetryGet
<1>3. CASE RetryCall
  <2>1. PICK o \in Outcomes({opEvent}) :
          IF o = "ok" THEN op' = "remove" /\ delivered' = delivered \cup {opEvent}
                      ELSE op' = "repark" /\ UNCHANGED delivered
    BY <1>3 DEF RetryCall
  <2>2. opEvent' = opEvent
    BY <1>3 DEF RetryCall
  <2> QED
    BY <2>1, <2>2
<1>4. CASE RetryRemove \/ RetryRepark \/ RetryRewrite
  BY <1>4 DEF RetryRemove, RetryRepark, RetryRewrite
<1>5. CASE Discard \/ HalfOpen \/ SinkChanges \/ Restart
  BY <1>5 DEF Discard, HalfOpen, SinkChanges, Restart
<1>6. CASE UNCHANGED vars
  BY <1>6 DEF vars
<1> QED
  BY <1>1, <1>2, <1>3, <1>4, <1>5, <1>6 DEF Next, Operator

\* Every step keeps the order.
LEMMA OrderStep ==
  ASSUME DeadLetterAssumption, Typed, OrderInv, [Next]_vars
  PROVE  OrderInv'
<1> USE DEF OrderInv
<1>0. Resolved \subseteq Resolved' /\ RemoveSound'
  BY ResolvedGrows, RemoveStep
<1> SUFFICES NothingLost' /\ Consecutive' /\ SingleParked'
  BY <1>0
<1>1. CASE Begin
  <2>1. /\ pos' = pos /\ pos \in Nat /\ hi' \in Events /\ step' = "call"
        /\ work' = <<<<pos + 1, hi'>>>>
    BY <1>1 DEF Begin, Typed, TypeOK, DeadLetterAssumption
  <2>2. Len(work') = 1 /\ work'[1][1] = pos + 1 /\ work'[1][2] = hi'
    BY <2>1
  <2> QED
    BY <1>0, <2>1, <2>2 DEF NothingLost, Consecutive, SingleParked
<1>2. CASE CallSucceeds
  <2>1. Span(Head(work)) \subseteq Resolved' /\ step # "idle" /\ Proceed
    BY <1>2 DEF CallSucceeds, Resolved
  <2> QED
    BY <1>0, <2>1, ProceedOrdered
<1>3. CASE CallStalls
  BY <1>0, <1>3, AbortOrdered DEF CallStalls
<1>4. CASE CallCounted
  <2>1. (Abort \/ Isolate) /\ step # "idle"
    BY <1>4 DEF CallCounted
  <2> QED
    BY <1>0, <2>1, AbortOrdered, IsolateOrdered
<1>5. CASE CallIsolates
  BY <1>0, <1>5, IsolateOrdered DEF CallIsolates
<1>6. CASE ParkCheck
  <2>1. step = "park"
    BY <1>6 DEF ParkCheck
  <2>2. CASE HasRoom(Head(work)[1])
    BY <1>0, <1>6, <2>1, <2>2 DEF ParkCheck, NothingLost, Consecutive, SingleParked
  <2>3. CASE ~HasRoom(Head(work)[1])
    BY <1>0, <1>6, <2>3, AbortOrdered DEF ParkCheck
  <2> QED
    BY <2>2, <2>3
<1>7. CASE ParkWrite
  <2>1. step = "write" /\ Proceed /\ Head(work)[1] \in Resolved'
    BY <1>7 DEF ParkWrite, Resolved
  <2>2. Head(work) = work[1] /\ work[1][1] = work[1][2] /\ work[1][1] \in Int
    BY <2>1, FirstRange DEF Typed, SingleParked, Events
  <2>3. Span(Head(work)) \subseteq Resolved'
    BY <2>1, <2>2 DEF Span
  <2> QED
    BY <1>0, <2>1, <2>3, ProceedOrdered
<1>8. CASE ParkFails
  BY <1>0, <1>8, AbortOrdered DEF ParkFails
<1>9. CASE Operator \/ HalfOpen \/ SinkChanges
  <2>1. UNCHANGED streamVars
    BY <1>9 DEF Operator, RetryGet, RetryCall, RetryRemove, RetryRepark, RetryRewrite,
       Discard, HalfOpen, SinkChanges
  <2> QED
    BY <1>0, <2>1, StillOrdered
<1>10. CASE Restart
  BY <1>0, <1>10 DEF Restart, NothingLost, Consecutive, SingleParked
<1>11. CASE UNCHANGED vars
  BY <1>0, <1>11, StillOrdered DEF vars
<1> QED
  BY <1>1, <1>2, <1>3, <1>4, <1>5, <1>6, <1>7, <1>8, <1>9, <1>10, <1>11 DEF Next, Stream

-----------------------------------------------------------------------------
(* The queue's cap.                                                        *)

\* The stream, or the operator's retry, has looked and is about to add an
\* entry that is not there.
StreamAdds == step = "write" /\ Head(work)[1] \notin store
RetryAdds  == op = "rewrite" /\ opEvent \notin store

CapInv ==
  MaxEntries > 0 =>
    /\ Cardinality(store) <= MaxEntries + 1
    /\ StreamAdds => Cardinality(store) <= MaxEntries
    /\ RetryAdds => Cardinality(store) <= MaxEntries
    /\ StreamAdds /\ RetryAdds /\ Head(work)[1] # opEvent
         => Cardinality(store) < MaxEntries

\* The queue is finite.
LEMMA StoreFinite ==
  ASSUME DeadLetterAssumption, TypeOK
  PROVE  IsFiniteSet(store) /\ Cardinality(store) \in Nat
<1>1. IsFiniteSet(Events) /\ store \in SUBSET Events
  BY FS_Interval DEF Events, TypeOK, DeadLetterAssumption
<1> QED
  BY <1>1, FS_Subset, FS_CardinalityType

\* A step that adds nothing and starts no write.
LEMMA CapQuiet ==
  ASSUME CapInv, store' = store,
         step' # "write" \/ UNCHANGED <<step, work>>,
         op' # "rewrite" \/ UNCHANGED <<op, opEvent>>
  PROVE  CapInv'
BY DEF CapInv, StreamAdds, RetryAdds

\* A step that removes an entry and starts no write.
LEMMA CapRemoves ==
  ASSUME DeadLetterAssumption, TypeOK, CapInv, NEW e \in store, store' = store \ {e},
         UNCHANGED <<step, work>>, op' # "rewrite" \/ UNCHANGED <<op, opEvent>>
  PROVE  CapInv'
<1>1. Cardinality(store) \in Nat /\ Cardinality(store') = Cardinality(store) - 1
  BY Zenon, StoreFinite, FS_RemoveElement
<1>2. StreamAdds' => StreamAdds \/ e = Head(work)[1]
  BY DEF StreamAdds
<1>3. RetryAdds' => op = "rewrite" /\ opEvent' = opEvent /\ (RetryAdds \/ e = opEvent)
  BY DEF RetryAdds
<1>4. StreamAdds' /\ RetryAdds' /\ Head(work)[1] # opEvent => StreamAdds \/ RetryAdds
  BY <1>2, <1>3
<1> QED
  BY <1>1, <1>2, <1>3, <1>4 DEF CapInv, DeadLetterAssumption

\* The stream's write ends.
LEMMA CapStreamWrites ==
  ASSUME DeadLetterAssumption, TypeOK, CapInv, step = "write",
         store' = store \cup {Head(work)[1]}, step' # "write", UNCHANGED opVars
  PROVE  CapInv'
<1> DEFINE e == Head(work)[1]
<1>1. /\ Cardinality(store) \in Nat
      /\ Cardinality(store') = IF e \in store THEN Cardinality(store)
                                              ELSE Cardinality(store) + 1
  BY Zenon, StoreFinite, FS_AddElement
<1>2. RetryAdds' => RetryAdds /\ e # opEvent
  BY DEF RetryAdds, opVars
<1>3. e \notin store => StreamAdds
  BY DEF StreamAdds
<1>4. ~StreamAdds'
  BY DEF StreamAdds
<1> QED
  BY <1>1, <1>2, <1>3, <1>4 DEF CapInv, DeadLetterAssumption

\* The retry's write ends.
LEMMA CapRetryWrites ==
  ASSUME DeadLetterAssumption, TypeOK, CapInv, op = "rewrite",
         store' = store \cup {opEvent}, op' # "rewrite", UNCHANGED <<step, work>>
  PROVE  CapInv'
<1>1. /\ Cardinality(store) \in Nat
      /\ Cardinality(store') = IF opEvent \in store THEN Cardinality(store)
                                                    ELSE Cardinality(store) + 1
  BY StoreFinite, FS_AddElement
<1>2. StreamAdds' => StreamAdds /\ Head(work)[1] # opEvent
  BY DEF StreamAdds
<1>3. opEvent \notin store => RetryAdds
  BY DEF RetryAdds
<1>4. ~RetryAdds'
  BY DEF RetryAdds
<1> QED
  BY <1>1, <1>2, <1>3, <1>4 DEF CapInv, DeadLetterAssumption

\* Every step keeps the bound.
LEMMA CapStep ==
  ASSUME DeadLetterAssumption, Typed, CapInv, [Next]_vars
  PROVE  CapInv'
<1> USE DEF streamVars, opVars, histVars
<1>0. TypeOK /\ Cardinality(store) \in Nat
  BY StoreFinite DEF Typed
<1>1. CASE Begin \/ CallSucceeds \/ CallStalls \/ CallCounted \/ CallIsolates
  <2>1. store' = store /\ step' # "write" /\ UNCHANGED <<op, opEvent>>
    BY Zenon, <1>1 DEF Begin, CallSucceeds, CallStalls, CallCounted, CallIsolates,
       Proceed, Abort, Isolate
  <2> QED
    BY <2>1, CapQuiet
<1>2. CASE ParkCheck
  <2>1. store' = store /\ UNCHANGED <<op, opEvent>>
    BY SMTT(30), <1>2 DEF ParkCheck
  <2>2. CASE HasRoom(Head(work)[1])
    <3>1. work' = work
      BY <1>2, <2>2 DEF ParkCheck
    <3>2. MaxEntries > 0 /\ StreamAdds' => Cardinality(store) < MaxEntries
      BY <2>1, <2>2, <3>1 DEF HasRoom, StreamAdds, DeadLetterAssumption
    <3>3. RetryAdds' => RetryAdds
      BY <2>1 DEF RetryAdds
    <3> QED
      BY <1>0, <2>1, <3>1, <3>2, <3>3 DEF CapInv, DeadLetterAssumption
  <2>3. CASE ~HasRoom(Head(work)[1])
    <3>1. step' # "write"
      BY <1>2, <2>3 DEF ParkCheck, Abort
    <3> QED
      BY <2>1, <3>1, CapQuiet
  <2> QED
    BY <2>2, <2>3
<1>3. CASE ParkWrite
  <2>1. step = "write" /\ step' # "write" /\ store' = store \cup {Head(work)[1]}
    BY <1>3 DEF ParkWrite, Proceed
  <2> QED
    BY <1>0, <1>3, <2>1, CapStreamWrites DEF ParkWrite
<1>4. CASE ParkFails
  <2>1. step' # "write" /\ UNCHANGED <<op, opEvent>>
    BY <1>4 DEF ParkFails, Abort
  <2>2. store' = store \/ (step = "write" /\ store' = store \cup {Head(work)[1]})
    BY <1>4 DEF ParkFails
  <2> QED
    BY <1>0, <2>1, <2>2, CapQuiet, CapStreamWrites
<1>5. CASE RetryGet \/ RetryCall
  <2>1. store' = store /\ op' # "rewrite" /\ UNCHANGED <<step, work>>
    BY <1>5 DEF RetryGet, RetryCall
  <2> QED
    BY <2>1, CapQuiet
<1>6. CASE RetryRemove
  <2>1. op' # "rewrite" /\ UNCHANGED <<step, work>>
    BY <1>6 DEF RetryRemove
  <2>2. store' = store \/ (opEvent \in store /\ store' = store \ {opEvent})
    BY <1>6 DEF RetryRemove
  <2> QED
    BY <1>0, <2>1, <2>2, CapQuiet, CapRemoves
<1>7. CASE RetryRepark
  <2>1. store' = store /\ opEvent' = opEvent /\ UNCHANGED <<step, work>>
    BY <1>7 DEF RetryRepark
  <2>2. CASE op' = "rewrite"
    <3>1. HasRoom(opEvent)
      BY <1>7, <2>2 DEF RetryRepark
    <3>2. MaxEntries > 0 /\ RetryAdds' => Cardinality(store) < MaxEntries
      BY <2>1, <3>1 DEF HasRoom, RetryAdds, DeadLetterAssumption
    <3>3. StreamAdds' => StreamAdds
      BY <2>1 DEF StreamAdds
    <3> QED
      BY <1>0, <2>1, <3>2, <3>3 DEF CapInv, DeadLetterAssumption
  <2>3. CASE op' # "rewrite"
    BY <2>1, <2>3, CapQuiet
  <2> QED
    BY <2>2, <2>3
<1>8. CASE RetryRewrite
  <2>1. op = "rewrite" /\ op' # "rewrite" /\ UNCHANGED <<step, work>>
    BY <1>8 DEF RetryRewrite
  <2>2. store' = store \/ store' = store \cup {opEvent}
    BY <1>8 DEF RetryRewrite
  <2> QED
    BY <1>0, <2>1, <2>2, CapQuiet, CapRetryWrites
<1>9. CASE Discard
  <2>1. PICK e \in store : store' = store \ {e}
    BY <1>9 DEF Discard
  <2>2. UNCHANGED <<step, work, op, opEvent>>
    BY <1>9 DEF Discard
  <2> QED
    BY <1>0, <2>1, <2>2, CapRemoves
<1>10. CASE HalfOpen \/ SinkChanges \/ Restart \/ UNCHANGED vars
  <2>1. /\ store' = store
        /\ step' # "write" \/ UNCHANGED <<step, work>>
        /\ op' # "rewrite" \/ UNCHANGED <<op, opEvent>>
    BY <1>10 DEF HalfOpen, SinkChanges, Restart, vars
  <2> QED
    BY <2>1, CapQuiet
<1> QED
  BY SMTT(30), <1>1, <1>2, <1>3, <1>4, <1>5, <1>6, <1>7, <1>8, <1>9, <1>10
  DEF Next, Stream, Operator

-----------------------------------------------------------------------------
(* What is parked.                                                         *)

\* Until the destination refuses a call, whatever is parked or on its way to
\* the queue is poison.
OutageInv ==
  /\ sink = "down" => refused
  /\ \/ refused
     \/ /\ store \subseteq Poison
        /\ step \in {"park", "write"} => Head(work)[1] \in Poison
        /\ op \in {"got", "repark", "rewrite"} => opEvent \in Poison

\* Isolation only ever starts on a range that holds a poison event.
LEMMA IsolatePoison ==
  ASSUME Typed, step = "call", sink # "down", Isolate,
         NEW o \in Outcomes(Span(Head(work))), ~Stalls(o), o # "ok"
  PROVE  step' = "park" => Head(work')[1] \in Poison
<1> SUFFICES ASSUME step' = "park" PROVE Head(work')[1] \in Poison
  OBVIOUS
<1>1. Head(work)[1] = Head(work)[2] /\ work' = work
  BY DEF Isolate
<1>2. Head(work)[1] \in Int
  BY FirstRange DEF Typed, Events
<1>3. Span(Head(work)) = {Head(work)[1]}
  BY <1>1, <1>2 DEF Span
<1>4. Span(Head(work)) \cap Poison # {}
  BY DEF Outcomes, Stalls, Poison
<1> QED
  BY <1>1, <1>3, <1>4

\* Every step keeps OutageInv.
LEMMA OutageStep ==
  ASSUME DeadLetterAssumption, Typed, OutageInv, [Next]_vars
  PROVE  OutageInv'
<1> USE DEF streamVars, opVars, histVars
<1>1. CASE SinkChanges
  <2>1. refused' = (refused \/ sink' = "down") /\ UNCHANGED <<store, step, work, op, opEvent>>
    BY <1>1 DEF SinkChanges
  <2> QED
    BY ZenonT(40), <2>1 DEF OutageInv
<1>2. CASE ~SinkChanges
  <2>1. UNCHANGED <<sink, refused>>
    BY Zenon, <1>2 DEF Next, Stream, Operator, Begin, CallSucceeds, CallStalls, CallCounted,
       CallIsolates, ParkCheck, ParkWrite, ParkFails, RetryGet, RetryCall, RetryRemove,
       RetryRepark, RetryRewrite, Discard, HalfOpen, Restart, vars
  <2>2. SUFFICES ASSUME ~refused
                 PROVE  /\ store' \subseteq Poison
                        /\ step' \in {"park", "write"} => Head(work')[1] \in Poison
                        /\ op' \in {"got", "repark", "rewrite"} => opEvent' \in Poison
    BY <2>1 DEF OutageInv
  <2>3. /\ sink # "down" /\ store \subseteq Poison
        /\ step \in {"park", "write"} => Head(work)[1] \in Poison
        /\ op \in {"got", "repark", "rewrite"} => opEvent \in Poison
    BY <2>2 DEF OutageInv
  <2>4. CASE Begin \/ CallSucceeds \/ CallStalls
    <3>1. step' \notin {"park", "write"} /\ UNCHANGED <<store, op, opEvent>>
      BY <2>4 DEF Begin, CallSucceeds, CallStalls, Proceed, Abort
    <3> QED
      BY <2>3, <3>1
  <2>5. CASE CallCounted
    <3>1. UNCHANGED <<store, op, opEvent>>
      BY Zenon, <2>5 DEF CallCounted
    <3>2. CASE Abort
      BY <2>3, <3>1, <3>2 DEF Abort
    <3>3. CASE Isolate
      <4>1. step' # "write"
        BY Zenon, <3>3 DEF Isolate
      <4>2. step' = "park" => Head(work')[1] \in Poison
        BY <2>3, <2>5, <3>3, IsolatePoison DEF CallCounted
      <4> QED
        BY <2>3, <3>1, <4>1, <4>2
    <3> QED
      BY ZenonT(40), <2>5, <3>2, <3>3 DEF CallCounted
  <2>6. CASE CallIsolates
    <3>1. step' # "write" /\ UNCHANGED <<store, op, opEvent>>
      BY Zenon, <2>6 DEF CallIsolates, Isolate
    <3>2. step' = "park" => Head(work')[1] \in Poison
      BY <2>3, <2>6, IsolatePoison DEF CallIsolates
    <3> QED
      BY <2>3, <3>1, <3>2
  <2>7. CASE ParkCheck
    BY <2>3, <2>7 DEF ParkCheck, Abort
  <2>8. CASE ParkWrite
    BY <2>3, <2>8 DEF ParkWrite, Proceed
  <2>9. CASE ParkFails
    BY <2>3, <2>9 DEF ParkFails, Abort
  <2>10. CASE RetryGet
    BY <2>3, <2>10 DEF RetryGet
  <2>11. CASE RetryCall
    <3>1. op = "got" /\ UNCHANGED <<step, work, store, opEvent>>
      BY <2>11 DEF RetryCall
    <3> QED
      BY <2>3, <3>1
  <2>12. CASE RetryRemove
    BY <2>3, <2>12 DEF RetryRemove
  <2>13. CASE RetryRepark
    <3>1. op = "repark" /\ UNCHANGED <<step, work, store, opEvent>>
      BY <2>13 DEF RetryRepark
    <3> QED
      BY <2>3, <3>1
  <2>14. CASE RetryRewrite
    BY <2>3, <2>14 DEF RetryRewrite
  <2>15. CASE Discard
    BY <2>3, <2>15 DEF Discard
  <2>16. CASE HalfOpen \/ Restart \/ UNCHANGED vars
    BY <2>3, <2>16 DEF HalfOpen, Restart, vars
  <2> QED
    BY SMTT(30), <1>2, <2>4, <2>5, <2>6, <2>7, <2>8, <2>9, <2>10, <2>11, <2>12, <2>13, <2>14,
       <2>15, <2>16 DEF Next, Stream, Operator
<1> QED
  BY <1>1, <1>2

-----------------------------------------------------------------------------
(* The theorems.                                                           *)

\* The inductive invariant.
IInv == Typed /\ OrderInv /\ CapInv /\ OutageInv

\* Every reachable state satisfies it.
THEOREM Invariance == Spec => []IInv
<1>1. Init => IInv
  <2> SUFFICES ASSUME Init PROVE IInv
    OBVIOUS
  <2>1. Typed
    <3>1. /\ fails \in [Events -> 0..Threshold] /\ work \in Seq(Ranges)
          /\ pos \in 0..NumEvents /\ hi \in 0..NumEvents
          /\ streak \in 0..(FailureThreshold - 1) /\ sink \in SinkStates
      BY DeadLetterAssumption DEF Init, DeadLetterAssumption
    <3> QED
      BY Zenon, <3>1 DEF Init, Typed, TypeOK, Working, Holding
  <2>2. OrderInv
    BY DEF Init, OrderInv, NothingLost, Consecutive, SingleParked, RemoveSound
  <2>3. CapInv
    BY DeadLetterAssumption, FS_EmptySet
    DEF Init, CapInv, StreamAdds, RetryAdds, DeadLetterAssumption
  <2>4. OutageInv
    BY DEF Init, OutageInv
  <2> QED
    BY <2>1, <2>2, <2>3, <2>4 DEF IInv
<1>2. IInv /\ [Next]_vars => IInv'
  <2> SUFFICES ASSUME IInv, [Next]_vars PROVE IInv'
    OBVIOUS
  <2>1. Typed'
    BY DeadLetterAssumption, TypeStep DEF IInv, Typed
  <2> QED
    BY <2>1, DeadLetterAssumption, OrderStep, CapStep, OutageStep DEF IInv
<1> QED
  BY <1>1, <1>2, PTL DEF Spec

\* The variables keep their types: the breaker's counter below its threshold,
\* the failure counts at most Threshold, the worklist made of ranges.
THEOREM TypeCorrect == Spec => []TypeOK
<1>1. IInv => TypeOK
  BY DEF IInv, Typed
<1> QED
  BY <1>1, Invariance, PTL

\* Bisection, failed parking, a full queue, replays, restarts and concurrent
\* retries lose no event, for every stream and every set of poison events.
THEOREM NoLoss == Spec => []NothingLost
<1>1. IInv => NothingLost
  BY DEF IInv, OrderInv
<1> QED
  BY <1>1, Invariance, PTL

\* isolate sends no range before every earlier event of the batch is resolved.
THEOREM OrderKept == Spec => []IsolatesInOrder
<1>1. IInv => IsolatesInOrder
  <2> SUFFICES ASSUME IInv, step # "idle"
               PROVE  \A e \in (pos + 1)..(Head(work)[1] - 1) : e \in Resolved
    BY DEF IsolatesInOrder
  <2>1. Head(work) = work[1]
    BY FirstRange DEF IInv, Typed
  <2> QED
    BY <2>1 DEF IInv, OrderInv, Consecutive
<1> QED
  BY <1>1, Invariance, PTL

\* The look and the write of Park are two steps, and the stream and a retry
\* may both be between them: CDC_DLQ_MAX_ENTRIES is exceeded by one at most.
THEOREM CapBound == Spec => []CapNearlyKept
<1>1. IInv => CapNearlyKept
  BY DEF IInv, CapInv, CapNearlyKept
<1> QED
  BY <1>1, Invariance, PTL

\* While the destination refuses no call, timeouts and open circuits park
\* nothing that the destination would take.
THEOREM OnlyPoisonParked == Spec => []OutagesNeverPark
<1>1. IInv => OutagesNeverPark
  BY DEF IInv, OutageInv, OutagesNeverPark
<1> QED
  BY <1>1, Invariance, PTL
=============================================================================
