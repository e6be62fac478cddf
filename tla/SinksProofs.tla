---------------------------- MODULE SinksProofs ----------------------------
(***************************************************************************)
(* What the publishing sinks promise, for streams of any length, any way   *)
(* to cut them and any number of errors, replays and restarts: nothing     *)
(* accepted is unpublished, no outbox row is deleted before, the latest    *)
(* copies are in order, and JetStream stores an event once.                *)
(***************************************************************************)
EXTENDS Sinks, TLAPS

-----------------------------------------------------------------------------
(* The inductive invariant.                                                *)

\* A sequence of whatever it holds.
Listed(s) == s \in Seq(Range(s))

\* Types, and where the calls and the slot stand.
Typed ==
  /\ TypeOK
  /\ Len(stream) \in Nat /\ sink \in Mirrors \cup Publishers
  /\ log \in Seq(Nat) /\ Listed(work) /\ Listed(tasks)
  /\ \A u \in 1..Len(tasks) :
       tasks[u] = [run |-> tasks[u].run, status |-> tasks[u].status]
  /\ pending # NoBatch => Listed(pending.tasks)
  /\ confirmed <= done /\ done <= reached
  /\ result \in {"error", "permanent"} => to \in done + 1 .. reached

\* Each step of Process belongs to its sink.
Steps ==
  /\ pc \in {"enqueue", "await"} => sink = "meili"
  /\ pc = "exec" => sink \in Pipelined
  /\ pc = "delete" => sink = "outbox"
  /\ pc = "window" => sink = "nats"
  /\ pc = "post" => sink = "webhook" /\ to = done + 1 /\ Passes(to)

\* An event a publisher can send.
Sendable(p) == Passes(p) /\ stream[p].key # NoKey

\* A batch a publisher works on has no event that it cannot send; the webhook
\* finds out from the answer.  A refused batch has one.
Sound ==
  sink \in Publishers =>
    /\ pc \in {"exec", "delete", "window"} =>
         \A p \in done + 1 .. to : Passes(p) => Sendable(p)
    /\ pc = "idle" /\ result = "permanent" =>
         \E p \in done + 1 .. to : Passes(p) /\ ~Sendable(p)

\* How far the events are accepted: the outbox has published its batch when it
\* deletes the rows.
Accepted == IF pc = "delete" THEN to ELSE done

\* What was published, and what is accepted.
Published ==
  /\ \A p \in Range(log) : Sendable(p)
  /\ sent \subseteq Range(log)
  /\ pc = "delete" => Kept(done + 1, to) \subseteq Range(log)
  /\ sink \in Publishers =>
       \A p \in 1..Accepted : Passes(p) => p \in Range(log) \cup parked

\* Some copy of q comes after every copy of p.
After(s, p, q) ==
  \E i \in DOMAIN s : s[i] = q /\ \A j \in DOMAIN s : s[j] = p => j < i

\* The latest copies of the accepted events are in order.
Ordered ==
  sink \in Publishers \ {"nats"} =>
    \A p, q \in Range(log) : p < q /\ q <= Accepted => After(log, p, q)

\* Until the duplicate window passes the server knows all it stored.
Once == sink = "nats" /\ ~expired => Range(log) \subseteq seen /\ IsInjective(log)

SinksInv ==
  /\ Typed /\ Steps /\ Sound /\ Published /\ Ordered /\ Once /\ DeletedWasPublished

-----------------------------------------------------------------------------
(* Sequences.                                                              *)

\* The positions of a joined sequence.
LEMMA JoinOf ==
  ASSUME NEW s \in Seq(Nat), NEW t \in Seq(Nat)
  PROVE  /\ s \o t \in Seq(Nat) /\ Len(s \o t) = Len(s) + Len(t)
         /\ \A i \in 1..Len(s) : (s \o t)[i] = s[i]
         /\ \A i \in 1..Len(t) : (s \o t)[Len(s) + i] = t[i]
  OBVIOUS

\* What a sequence holds, by its positions.
LEMMA RangeOf ==
  ASSUME NEW s \in Seq(Nat)
  PROVE  /\ Len(s) \in Nat /\ DOMAIN s = 1..Len(s) /\ Range(s) \subseteq Nat
         /\ \A x : x \in Range(s) <=> \E i \in 1..Len(s) : s[i] = x
  BY DEF Range

\* A joined sequence, position by position.
LEMMA Joined ==
  ASSUME NEW s \in Seq(Nat), NEW t \in Seq(Nat), NEW u, u = s \o t
  PROVE  /\ Len(s) \in Nat /\ Len(t) \in Nat /\ Len(u) = Len(s) + Len(t)
         /\ DOMAIN u = 1..Len(u) /\ DOMAIN s = 1..Len(s)
         /\ \A i \in 1..Len(s) : u[i] = s[i]
         /\ \A i \in 1..Len(t) : u[Len(s) + i] = t[i]
         /\ \A j \in 1..Len(u) : j > Len(s) =>
              j - Len(s) \in 1..Len(t) /\ u[j] = t[j - Len(s)]
         /\ \A x : x \in Range(u) <=> \E i \in 1..Len(u) : u[i] = x
         /\ \A x : x \in Range(s) <=> \E i \in 1..Len(s) : s[i] = x
         /\ \A x : x \in Range(t) <=> \E i \in 1..Len(t) : t[i] = x
<1>1. u \in Seq(Nat)
  BY JoinOf
<1>2. /\ Len(s) \in Nat /\ Len(t) \in Nat /\ Len(u) = Len(s) + Len(t)
      /\ \A i \in 1..Len(s) : u[i] = s[i]
      /\ \A i \in 1..Len(t) : u[Len(s) + i] = t[i]
  BY JoinOf, RangeOf
<1>3. ASSUME NEW j \in 1..Len(u), j > Len(s)
      PROVE  j - Len(s) \in 1..Len(t) /\ u[j] = t[j - Len(s)]
  <2>1. j - Len(s) \in 1..Len(t) /\ j = Len(s) + (j - Len(s))
    BY ONLY <1>2, <1>3
  <2> QED
    BY ONLY <1>2, <2>1
<1>4. /\ DOMAIN u = 1..Len(u) /\ DOMAIN s = 1..Len(s)
      /\ \A x : x \in Range(u) <=> \E i \in 1..Len(u) : u[i] = x
      /\ \A x : x \in Range(s) <=> \E i \in 1..Len(s) : s[i] = x
      /\ \A x : x \in Range(t) <=> \E i \in 1..Len(t) : t[i] = x
  BY Zenon, <1>1, RangeOf
<1> QED
  BY Zenon, <1>2, <1>3, <1>4

\* A joined sequence holds what its parts hold.
LEMMA RangeJoin ==
  ASSUME NEW s \in Seq(Nat), NEW t \in Seq(Nat), NEW u, u = s \o t
  PROVE  Range(u) = Range(s) \cup Range(t)
<1>1. /\ Len(s) \in Nat /\ Len(t) \in Nat /\ Len(u) = Len(s) + Len(t)
      /\ \A i \in 1..Len(s) : u[i] = s[i]
      /\ \A i \in 1..Len(t) : u[Len(s) + i] = t[i]
      /\ \A j \in 1..Len(u) : j > Len(s) =>
           j - Len(s) \in 1..Len(t) /\ u[j] = t[j - Len(s)]
  BY SMTT(30), Joined
<1>2. /\ \A x : x \in Range(u) <=> \E i \in 1..Len(u) : u[i] = x
      /\ \A x : x \in Range(s) <=> \E i \in 1..Len(s) : s[i] = x
      /\ \A x : x \in Range(t) <=> \E i \in 1..Len(t) : t[i] = x
  <2>1. u \in Seq(Nat)
    BY JoinOf
  <2> QED
    BY ONLY <2>1, s \in Seq(Nat), t \in Seq(Nat), RangeOf, Zenon
<1>3. ASSUME NEW x \in Range(u) PROVE x \in Range(s) \cup Range(t)
  <2>1. PICK i \in 1..Len(u) : u[i] = x
    BY ONLY <1>2, <1>3, Zenon
  <2>2. CASE i <= Len(s)
    <3>1. i \in 1..Len(s) /\ s[i] = x
      BY ONLY <1>1, <2>1, <2>2
    <3> QED
      BY ONLY <1>2, <3>1, Zenon
  <2>3. CASE i > Len(s)
    BY ONLY <1>1, <1>2, <2>1, <2>3, Zenon
  <2> QED
    BY ONLY <1>1, <2>1, <2>2, <2>3
<1>4. ASSUME NEW x \in Range(s) PROVE x \in Range(u)
  <2>1. PICK i \in 1..Len(s) : s[i] = x
    BY ONLY <1>2, <1>4, Zenon
  <2>2. i \in 1..Len(u) /\ u[i] = x
    BY ONLY <1>1, <2>1
  <2> QED
    BY ONLY <1>2, <2>2, Zenon
<1>5. ASSUME NEW x \in Range(t) PROVE x \in Range(u)
  <2>1. PICK i \in 1..Len(t) : t[i] = x
    BY ONLY <1>2, <1>5, Zenon
  <2>2. u[Len(s) + i] = x /\ Len(s) + i \in 1..Len(u)
    BY ONLY <1>1, <2>1
  <2> QED
    BY ONLY <1>2, <2>2, Zenon
<1> QED
  BY ONLY <1>3, <1>4, <1>5, Zenon

\* The order of what is published at once.
LEMMA InOrderIs ==
  ASSUME Len(stream) \in Nat, NEW S \in SUBSET Nat, NEW t \in InOrder(S)
  PROVE  /\ t \in Seq(Nat) /\ Range(t) = S
         /\ \A i, j \in 1..Len(t) : i < j => t[i] < t[j]
         /\ \A i \in 1..Len(t) : t[i] \in S
<1>1. PICK m \in 0..Len(stream) : t \in [1..m -> S]
  BY Zenon DEF InOrder
<1>2. Range(t) = S /\ \A i, j \in DOMAIN t : i < j => t[i] < t[j]
  BY Zenon DEF InOrder
<1>3. m \in Nat /\ t \in [1..m -> Nat]
  <2>1. m \in Nat
    BY ONLY <1>1, Len(stream) \in Nat
  <2>2. \A i \in 1..m : t[i] \in Nat
    BY ONLY <1>1, S \in SUBSET Nat, Zenon
  <2> QED
    BY ONLY <1>1, <2>1, <2>2
<1>4. t \in Seq(Nat) /\ Len(t) = m
  BY ONLY <1>3
<1> QED
  BY Zenon, <1>1, <1>2, <1>4, RangeOf

\* One event.
LEMMA OneInOrder ==
  ASSUME NEW p \in 1..Len(stream), Len(stream) \in Nat
  PROVE  <<p>> \in InOrder({p})
<1>1. <<p>> \in [1..1 -> {p}] /\ 1 \in 0..Len(stream)
  OBVIOUS
<1>2. <<p>> \in UNION {[1..n -> {p}] : n \in 0..Len(stream)}
  BY Zenon, <1>1
<1>3. Range(<<p>>) = {p}
  BY DEF Range
<1> QED
  BY <1>2, <1>3 DEF InOrder

\* Copies that follow: those of other events stay in order, and what is added
\* comes after every earlier event.
LEMMA AfterJoin ==
  ASSUME Len(stream) \in Nat,
         NEW s \in Seq(Nat), NEW S \in SUBSET Nat, NEW t \in InOrder(S),
         NEW u, u = s \o t, NEW p \in Nat, NEW q \in Nat, p < q
  PROVE  /\ p \notin S /\ After(s, p, q) => After(u, p, q)
         /\ q \in S => After(u, p, q)
<1>1. /\ t \in Seq(Nat) /\ Range(t) = S
      /\ \A i, j \in 1..Len(t) : i < j => t[i] < t[j]
      /\ \A i \in 1..Len(t) : t[i] \in S
  BY Zenon, InOrderIs
<1>2. /\ Len(s) \in Nat /\ Len(t) \in Nat /\ Len(u) = Len(s) + Len(t)
      /\ DOMAIN u = 1..Len(u) /\ DOMAIN s = 1..Len(s)
      /\ \A i \in 1..Len(s) : u[i] = s[i]
      /\ \A i \in 1..Len(t) : u[Len(s) + i] = t[i]
      /\ \A j \in 1..Len(u) : j > Len(s) =>
           j - Len(s) \in 1..Len(t) /\ u[j] = t[j - Len(s)]
  BY SMTT(30), <1>1, Joined
<1>5. ASSUME p \notin S, After(s, p, q) PROVE After(u, p, q)
  <2>1. PICK i \in 1..Len(s) : s[i] = q /\ \A j \in 1..Len(s) : s[j] = p => j < i
    BY Zenon, <1>2, <1>5 DEF After
  <2>2. i \in 1..Len(u) /\ u[i] = q
    BY ONLY <1>2, <2>1
  <2>3. ASSUME NEW j \in 1..Len(u), u[j] = p PROVE j < i
    <3>1. j <= Len(s)
      <4>1. j > Len(s) => p \in S
        BY ONLY Zenon, <1>1, <1>2, <2>3
      <4> QED
        BY ONLY <1>2, <1>5, <2>3, <4>1
    <3> QED
      BY ONLY <1>2, <2>1, <2>3, <3>1
  <2> QED
    BY Zenon, <1>2, <2>2, <2>3 DEF After
<1>6. ASSUME q \in S PROVE After(u, p, q)
  <2>1. PICK k \in 1..Len(t) : t[k] = q
    BY Zenon, <1>1, <1>6, RangeOf
  <2>2. Len(s) + k \in 1..Len(u) /\ u[Len(s) + k] = q
    BY ONLY <1>2, <2>1
  <2>3. ASSUME NEW j \in 1..Len(u), u[j] = p PROVE j < Len(s) + k
    <3>1. CASE j <= Len(s)
      BY ONLY <1>2, <3>1, k \in 1..Len(t), j \in 1..Len(u)
    <3>2. CASE j > Len(s)
      <4> DEFINE l == j - Len(s)
      <4>1. l \in 1..Len(t) /\ t[l] = p
        BY ONLY <1>2, <2>3, <3>2
      <4>2. l < k
        <5> HIDE DEF l
        <5>1. k < l => q < p
          BY ONLY <1>1, <2>1, <4>1
        <5>2. k = l => q = p
          BY ONLY <2>1, <4>1
        <5> QED
          BY ONLY <4>1, <5>1, <5>2, k \in 1..Len(t), p \in Nat, q \in Nat, p < q, <1>2
      <4> QED
        BY ONLY <1>2, <4>2, k \in 1..Len(t), j \in 1..Len(u)
    <3> QED
      BY ONLY <1>2, <3>1, <3>2, j \in 1..Len(u)
  <2> QED
    BY Zenon, <1>2, <2>2, <2>3 DEF After
<1> QED
  BY Zenon, <1>5, <1>6

\* Adding what is not there, each once, repeats nothing.
LEMMA OnceJoin ==
  ASSUME Len(stream) \in Nat,
         NEW s \in Seq(Nat), NEW S \in SUBSET Nat, NEW t \in InOrder(S),
         IsInjective(s), S \cap Range(s) = {}, NEW u, u = s \o t
  PROVE  IsInjective(u)
<1>1. /\ t \in Seq(Nat) /\ Range(t) = S
      /\ \A i, j \in 1..Len(t) : i < j => t[i] < t[j]
      /\ \A i \in 1..Len(t) : t[i] \in S /\ t[i] \in Nat
  BY Zenon, InOrderIs
<1>2. /\ Len(s) \in Nat /\ Len(t) \in Nat /\ Len(u) = Len(s) + Len(t)
      /\ DOMAIN u = 1..Len(u) /\ DOMAIN s = 1..Len(s)
      /\ \A i \in 1..Len(s) : u[i] = s[i]
      /\ \A j \in 1..Len(u) : j > Len(s) =>
           j - Len(s) \in 1..Len(t) /\ u[j] = t[j - Len(s)]
  BY SMTT(30), <1>1, Joined
<1>3. /\ \A i \in 1..Len(s) : s[i] \in Range(s)
      /\ \A i, j \in 1..Len(s) : s[i] = s[j] => i = j
  BY Zenon, <1>2, RangeOf DEF IsInjective
<1>4. ASSUME NEW i \in 1..Len(u), NEW j \in 1..Len(u), i < j, u[i] = u[j] PROVE FALSE
  <2>1. CASE j <= Len(s)
    BY ONLY <1>2, <1>3, <1>4, <2>1
  <2>2. CASE j > Len(s) /\ i <= Len(s)
    BY ONLY <1>1, <1>2, <1>3, <1>4, <2>2, S \cap Range(s) = {}
  <2>3. CASE j > Len(s) /\ i > Len(s)
    <3>1. /\ j - Len(s) \in 1..Len(t) /\ u[j] = t[j - Len(s)]
          /\ i - Len(s) \in 1..Len(t) /\ u[i] = t[i - Len(s)]
          /\ i - Len(s) < j - Len(s)
      BY ONLY <1>2, <1>4, <2>3
    <3>2. \A k, l \in 1..Len(t) : k < l => t[k] # t[l]
      BY ONLY <1>1
    <3> QED
      BY ONLY <1>4, <3>1, <3>2, Zenon
  <2> QED
    BY ONLY <1>2, <1>4, <2>1, <2>2, <2>3
<1> QED
  BY <1>2, <1>4 DEF IsInjective

-----------------------------------------------------------------------------
(* Lists of anything: tasks and their uids.                                *)

\* A list, position by position.
LEMMA ListOf ==
  ASSUME NEW s, Listed(s)
  PROVE  Len(s) \in Nat /\ DOMAIN s = 1..Len(s)
  BY DEF Listed

\* A function on the first numbers is a list.
LEMMA ListedIs ==
  ASSUME NEW n \in Nat, NEW s, s = [i \in 1..n |-> s[i]]
  PROVE  Listed(s) /\ Len(s) = n
<1>1. \A i \in 1..n : s[i] \in Range(s)
  BY DEF Range
<1>2. s \in [1..n -> Range(s)]
  BY <1>1
<1> QED
  BY ONLY <1>2, n \in Nat DEF Listed

\* A list with one more entry.
LEMMA ListAppend ==
  ASSUME NEW s, Listed(s), NEW x
  PROVE  /\ Listed(Append(s, x)) /\ Len(Append(s, x)) = Len(s) + 1
         /\ \A i \in 1..Len(s) : Append(s, x)[i] = s[i]
         /\ Append(s, x)[Len(s) + 1] = x
<1> DEFINE S == Range(s) \cup {x}
           u == Append(s, x)
<1>1. s \in Seq(S) /\ x \in S
  <2>1. Len(s) \in Nat /\ s \in [1..Len(s) -> Range(s)]
    BY DEF Listed
  <2>2. s \in [1..Len(s) -> S]
    BY <2>1
  <2> QED
    BY <2>1, <2>2
<1> HIDE DEF S
<1>2. /\ u \in Seq(S) /\ Len(u) = Len(s) + 1
      /\ \A i \in 1..Len(s) : u[i] = s[i]
      /\ u[Len(s) + 1] = x
  BY ONLY <1>1
<1>3. Len(u) \in Nat /\ u = [i \in 1..Len(u) |-> u[i]]
  <2> HIDE DEF u
  <2>1. Len(u) \in Nat /\ u \in [1..Len(u) -> S]
    BY ONLY <1>2
  <2> QED
    BY ONLY <2>1
<1> HIDE DEF u
<1>4. Listed(u)
  BY <1>3, ListedIs
<1> QED
  BY <1>2, <1>4 DEF u

\* No entry.
LEMMA ListEmpty == Listed(<<>>) /\ Len(<<>>) = 0
<1>1. <<>> = [i \in 1..0 |-> <<>>[i]]
  OBVIOUS
<1> QED
  BY Zenon, <1>1, ListedIs

-----------------------------------------------------------------------------
(* Types.                                                                  *)

\* The sink and its stream are fixed.
LEMMA Fixed == [Next]_vars => sink' = sink /\ stream' = stream
  BY Zenon DEF Next, vars, driverVars, meiliVars, pubVars, Call, Enqueue, EnqueueFails,
         EnqueueRefused, TaskRuns, TasksPruned, AwaitLost, AwaitDone, AwaitInterrupted,
         ExecDone, ExecFails, DeleteRows, WindowAcked, WindowFails, WindowExpires,
         PostAnswered, PostFails, Park, Confirm, Replay, Restart, Return

\* What passes and what can be sent is fixed.
LEMMA SamePasses ==
  ASSUME sink' = sink, stream' = stream
  PROVE  /\ \A p : (Passes(p))' <=> Passes(p)
         /\ \A p : (Sendable(p))' <=> Sendable(p)
         /\ \A n, m : (Kept(n, m))' = Kept(n, m)
  BY DEF Passes, Sendable, Kept

\* A result and where the calls stand.
Places ==
  /\ Len(stream) \in Nat /\ sink \in Mirrors \cup Publishers
  /\ done \in 0..Len(stream) /\ confirmed \in 0..reached
  /\ reached \in 0..Len(stream) /\ to \in 0..Len(stream)
  /\ parked \subseteq 1..reached
  /\ pc \in {"idle", "enqueue", "await", "exec", "delete", "window", "post"}
  /\ pc # "idle" => to \in done + 1 .. reached
  /\ cuts \subseteq 0..Len(stream)
  /\ result \in {"ok", "error", "permanent", "replayed"}
  /\ confirmed <= done /\ done <= reached
  /\ result \in {"error", "permanent"} => to \in done + 1 .. reached
  /\ faults \in 0..MaxFaults

\* The tasks.
Queue ==
  /\ Listed(work) /\ Listed(tasks)
  /\ \A i \in 1..Len(work) : work[i] \in 1..Len(tasks)
  /\ pending # NoBatch =>
       /\ Listed(pending.tasks)
       /\ \A i \in 1..Len(pending.tasks) : pending.tasks[i] \in 1..Len(tasks)
  /\ \A u \in 1..Len(tasks) :
       /\ tasks[u] = [run |-> tasks[u].run, status |-> tasks[u].status]
       /\ tasks[u].status \in {"enqueued", "succeeded", "failed", "rejected", "gone"}

\* What was published.
Log ==
  /\ log \in Seq(Nat) /\ Range(log) \subseteq 1..reached
  /\ sent \subseteq 1..reached /\ seen \subseteq Range(log) /\ expired \in BOOLEAN
  /\ rows \subseteq 1..Len(stream)

\* The types in these three parts.
LEMMA TypedIs == Typed <=> Places /\ Queue /\ Log
<1>1. ASSUME log \in Seq(Nat)
      PROVE  Range(log) \subseteq 1..reached <=> \A i \in 1..Len(log) : log[i] \in 1..reached
  BY <1>1, RangeOf
<1> QED
  BY <1>1, Zenon DEF Typed, TypeOK, Places, Queue, Log

\* Where the next batch ends.
LEMMA EndsIn ==
  ASSUME Places, Call
  PROVE  to' \in done + 1 .. Len(stream) /\ (sink = "webhook" => to' = done + 1)
<1>1. /\ to' \in Ends /\ done < Len(stream)
      /\ ~(result = "permanent" /\ to = done + 1)
  BY DEF Call
<1>2. CASE sink = "webhook"
  BY <1>1, <1>2 DEF Ends, Places
<1>3. CASE sink # "webhook" /\ result = "error"
  BY <1>1, <1>3 DEF Ends, Places
<1>4. CASE sink # "webhook" /\ result = "permanent"
  <2>1. to' = done + (to - done) \div 2
    BY <1>1, <1>4 DEF Ends
  <2> QED
    BY <1>1, <1>4, <2>1 DEF Places
<1>5. CASE sink # "webhook" /\ result \notin {"error", "permanent"}
  <2>1. to' \in cuts /\ to' > done
    BY <1>1, <1>5 DEF Ends
  <2> QED
    BY <1>1, <1>5, <2>1 DEF Places
<1> QED
  BY <1>2, <1>3, <1>4, <1>5

\* Returning keeps the places.
LEMMA ReturnPlaces ==
  ASSUME Places, NEW r \in {"ok", "error", "permanent"}, pc # "idle", Return(r),
         faults' \in 0..MaxFaults
  PROVE  Places'
  BY DEF Places, Return

\* Places, step by step.
LEMMA PlacesStep ==
  ASSUME SinksAssumption, Places, [Next]_vars
  PROVE  Places'
<1>1. CASE Call
  <2>1. to' \in done + 1 .. Len(stream)
    BY <1>1, EndsIn
  <2>2. to' <= reached' /\ reached <= reached' /\ reached' \in 0..Len(stream)
    BY <1>1, <2>1 DEF Call, Places
  <2>3. pc' \in {"idle", "enqueue", "await", "exec", "delete", "window", "post"}
    BY <1>1 DEF Call, Places, Entry, Mirrors, Publishers, Pipelined
  <2> QED
    BY <1>1, <2>1, <2>2, <2>3 DEF Call, Places
<1>2. CASE Enqueue
  BY <1>2 DEF Enqueue, Places, driverVars
<1>3. CASE EnqueueFails \/ AwaitInterrupted \/ ExecFails \/ WindowFails \/ PostFails
  BY <1>3, ReturnPlaces DEF EnqueueFails, AwaitInterrupted, ExecFails, WindowFails,
                            PostFails, Fault, Places, SinksAssumption
<1>4. CASE EnqueueRefused \/ AwaitLost \/ AwaitDone \/ PostAnswered
  BY Zenon, <1>4, ReturnPlaces DEF EnqueueRefused, AwaitLost, AwaitDone, PostAnswered, Places
<1>5. CASE TaskRuns \/ TasksPruned \/ WindowExpires
  <2>1. faults' \in 0..MaxFaults
    BY <1>5 DEF TaskRuns, TasksPruned, WindowExpires, Places, Fault, SinksAssumption
  <2>2. UNCHANGED <<driverVars, pc, to, result>>
    BY <1>5 DEF TaskRuns, TasksPruned, WindowExpires
  <2> QED
    BY <2>1, <2>2 DEF driverVars, Places
<1>6. CASE ExecDone
  BY Zenon, <1>6, ReturnPlaces DEF ExecDone, driverVars, Places
<1>7. CASE DeleteRows
  BY <1>7, ReturnPlaces DEF DeleteRows, Places, Fault, SinksAssumption
<1>8. CASE WindowAcked
  BY Zenon, <1>8, ReturnPlaces DEF WindowAcked, driverVars, Places
<1>9. CASE Park
  BY <1>9 DEF Park, Places
<1>12. CASE Confirm
  BY <1>12 DEF Confirm, Places
<1>10. CASE Replay \/ Restart
  <2>1. cuts' \subseteq 0..Len(stream)
    <3>1. \A C \in Cuttings : C \subseteq 0..Len(stream)
      BY DEF Cuttings, Places
    <3>2. cuts' \in Cuttings \/ cuts' = cuts
      BY Zenon, <1>10 DEF Replay, Restart, Recut
    <3> QED
      BY Zenon, <3>1, <3>2 DEF Places
  <2>2. /\ UNCHANGED <<sink, stream, confirmed, reached, parked, to>>
        /\ pc' = "idle" /\ result' = "replayed" /\ done' = confirmed
        /\ faults' \in 0..MaxFaults
    BY <1>10 DEF Replay, Restart, Places, Fault, SinksAssumption
  <2> QED
    BY <2>1, <2>2 DEF Places
<1>11. CASE UNCHANGED vars
  BY <1>11 DEF vars, driverVars, Places
<1> QED
  BY <1>1, <1>2, <1>3, <1>4, <1>5, <1>6, <1>7, <1>8, <1>9, <1>10, <1>11, <1>12 DEF Next

\* One more task keeps the uids that are known.
LEMMA QueueGrows ==
  ASSUME Queue, NEW run, tasks' = Enqueued(run)
  PROVE  /\ Listed(tasks') /\ Len(tasks') = Len(tasks) + 1 /\ Len(tasks) \in Nat
         /\ \A u \in 1..Len(tasks') :
              /\ tasks'[u] = [run |-> tasks'[u].run, status |-> tasks'[u].status]
              /\ tasks'[u].status \in {"enqueued", "succeeded", "failed", "rejected", "gone"}
<1> DEFINE x == [run |-> run, status |-> "enqueued"]
<1>1. tasks' = Append(tasks, x)
  BY DEF Enqueued
<1>2. Listed(tasks) /\ Len(tasks) \in Nat
  BY ListOf DEF Queue
<1>3. /\ Listed(tasks') /\ Len(tasks') = Len(tasks) + 1
      /\ \A u \in 1..Len(tasks) : tasks'[u] = tasks[u]
      /\ tasks'[Len(tasks) + 1] = x
  BY <1>1, <1>2, ListAppend
<1>4. x = [run |-> x.run, status |-> x.status] /\ x.status = "enqueued"
  OBVIOUS
<1> HIDE DEF x
<1>5. \A u \in 1..Len(tasks') : u \in 1..Len(tasks) \/ u = Len(tasks) + 1
  BY <1>2, <1>3
<1> QED
  BY Zenon, <1>2, <1>3, <1>4, <1>5 DEF Queue

\* A task with another status.
LEMMA StatusSet ==
  ASSUME NEW x, NEW s, x = [run |-> x.run, status |-> x.status]
  PROVE  [x EXCEPT !.status = s] = [run |-> x.run, status |-> s]
<1>1. \A r, v : [[run |-> r, status |-> v] EXCEPT !.status = s] = [run |-> r, status |-> s]
  OBVIOUS
<1> QED
  BY ONLY <1>1, x = [run |-> x.run, status |-> x.status], Zenon

\* Tasks, step by step.
LEMMA QueueStep ==
  ASSUME Places, Queue, [Next]_vars
  PROVE  Queue'
<1>0. Listed(tasks) /\ Len(tasks) \in Nat /\ DOMAIN tasks = 1..Len(tasks)
  BY ListOf DEF Queue
<1>1. CASE UNCHANGED meiliVars
  BY <1>1 DEF meiliVars, Queue
<1>2. CASE Call
  <2>1. UNCHANGED <<pending, tasks>> /\ (work' = work \/ work' = <<>> \/ pc' = "await")
    BY <1>2 DEF Call
  <2>2. pc' = "await" => pending # NoBatch /\ (work' = work \/ work' = pending.tasks)
    <3>1. pc' = "await" => pc' = Entry(done + 1, to')
      BY <1>2 DEF Call
    <3>2. Entry(done + 1, to') = "await" => pending # NoBatch
      BY DEF Entry, Resumable, Places, Mirrors, Publishers, Pipelined
    <3> QED
      BY <1>2, <3>1, <3>2 DEF Call
  <2> QED
    BY <2>1, <2>2, ListEmpty DEF Queue
<1>3. CASE Enqueue
  <2> DEFINE uids == Append(work, Len(tasks) + 1)
  <2>1. PICK run : tasks' = Enqueued(run)
    BY <1>3 DEF Enqueue
  <2>2. /\ work' = uids
        /\ pending' = pending \/ \E k : pending' = [key |-> k, tasks |-> uids]
    BY <1>3 DEF Enqueue
  <2>3. /\ Listed(uids) /\ Len(uids) = Len(work) + 1 /\ Len(work) \in Nat
        /\ \A i \in 1..Len(work) : uids[i] = work[i]
        /\ uids[Len(work) + 1] = Len(tasks) + 1
    BY ListAppend, ListOf DEF Queue
  <2> HIDE DEF uids
  <2>4. Len(tasks') = Len(tasks) + 1
    BY <2>1, QueueGrows
  <2>5. \A i \in 1..Len(uids) : uids[i] \in 1..Len(tasks')
    BY <1>0, <2>3, <2>4 DEF Queue
  <2>6. pending' # NoBatch => /\ Listed(pending'.tasks)
                              /\ \A i \in 1..Len(pending'.tasks) : pending'.tasks[i] \in 1..Len(tasks')
    <3>1. CASE pending' = pending
      BY <1>0, <2>4, <3>1 DEF Queue
    <3>2. CASE \E k : pending' = [key |-> k, tasks |-> uids]
      <4>1. pending'.tasks = uids
        BY <3>2
      <4> QED
        BY <2>3, <2>5, <4>1
    <3> QED
      BY <2>2, <3>1, <3>2
  <2> QED
    BY <2>1, <2>2, <2>3, <2>5, <2>6, QueueGrows DEF Queue
<1>4. CASE EnqueueFails
  <2>1. UNCHANGED <<work, pending>> /\ (tasks' = tasks \/ \E run : tasks' = Enqueued(run))
    BY <1>4 DEF EnqueueFails
  <2>2. CASE tasks' = tasks
    BY <2>1, <2>2 DEF Queue
  <2>3. CASE \E run : tasks' = Enqueued(run)
    BY <1>0, <2>1, <2>3, QueueGrows DEF Queue
  <2> QED
    BY <2>1, <2>2, <2>3
<1>5. ASSUME UNCHANGED <<work, pending>>, NEW s \in {"succeeded", "failed", "rejected", "gone"},
             NEW U \in SUBSET (1..Len(tasks)),
             tasks' = [u \in 1..Len(tasks) |->
                         IF u \in U THEN [run |-> tasks[u].run, status |-> s] ELSE tasks[u]]
      PROVE  Queue'
  <2>1. \A u \in 1..Len(tasks) :
          tasks'[u] = IF u \in U THEN [run |-> tasks[u].run, status |-> s] ELSE tasks[u]
    BY <1>5
  <2>2. tasks' = [u \in 1..Len(tasks) |-> tasks'[u]]
    BY <1>5
  <2>3. Listed(tasks') /\ Len(tasks') = Len(tasks)
    BY ONLY <1>0, <2>2, ListedIs
  <2> QED
    BY <1>0, <1>5, <2>1, <2>3 DEF Queue
<1>6. CASE TaskRuns
  <2>1. PICK u \in 1..Len(tasks), s \in {"succeeded", "failed", "rejected"} :
          tasks' = [tasks EXCEPT ![u].status = s] /\ UNCHANGED <<work, pending>>
    BY <1>6 DEF TaskRuns
  <2>2. tasks = [v \in 1..Len(tasks) |-> tasks[v]]
    BY <1>0 DEF Listed
  <2>3. [tasks[u] EXCEPT !.status = s] = [run |-> tasks[u].run, status |-> s]
    BY Zenon, StatusSet DEF Queue
  <2>4. tasks' = [v \in 1..Len(tasks) |->
                    IF v \in {u} THEN [run |-> tasks[v].run, status |-> s] ELSE tasks[v]]
    BY Zenon, <2>1, <2>2, <2>3
  <2>5. s \in {"succeeded", "failed", "rejected", "gone"} /\ {u} \in SUBSET (1..Len(tasks))
    OBVIOUS
  <2> QED
    BY ONLY <1>5, <2>1, <2>4, <2>5, Zenon
<1>7. CASE TasksPruned
  <2> DEFINE U == {u \in 1..Len(tasks) : tasks[u].status # "enqueued"}
  <2>1. \A u \in 1..Len(tasks) :
          [tasks[u] EXCEPT !.status = "gone"] = [run |-> tasks[u].run, status |-> "gone"]
    BY Zenon, StatusSet DEF Queue
  <2>2. tasks' = [u \in 1..Len(tasks) |->
                    IF u \in U THEN [run |-> tasks[u].run, status |-> "gone"] ELSE tasks[u]]
    BY <1>7, <2>1 DEF TasksPruned
  <2> QED
    BY Zenon, <1>5, <1>7, <2>2 DEF TasksPruned
<1>8. CASE AwaitLost \/ AwaitDone
  <2>1. UNCHANGED <<work, tasks>> /\ (pending' = pending \/ pending' = NoBatch)
    BY <1>8 DEF AwaitLost, AwaitDone, Forget
  <2> QED
    BY <2>1 DEF Queue
<1>9. CASE Restart
  BY <1>9, ListEmpty DEF Restart, Queue
<1>10. CASE \/ EnqueueRefused \/ AwaitInterrupted \/ ExecDone \/ ExecFails \/ DeleteRows
            \/ WindowAcked \/ WindowFails \/ WindowExpires \/ PostAnswered \/ PostFails
            \/ Park \/ Confirm \/ Replay \/ UNCHANGED vars
  <2>1. UNCHANGED meiliVars
    BY <1>10 DEF EnqueueRefused, AwaitInterrupted, ExecDone, ExecFails, DeleteRows,
                 WindowAcked, WindowFails, WindowExpires, PostAnswered, PostFails,
                 Park, Confirm, Replay, vars, meiliVars
  <2> QED
    BY <1>1, <2>1
<1> QED
  BY <1>2, <1>3, <1>4, <1>6, <1>7, <1>8, <1>9, <1>10 DEF Next

-----------------------------------------------------------------------------
(* Publishing.                                                             *)

\* The events S of the batch are published, in order.
Publishes(S) == \E t \in InOrder(S) : log' = log \o t

\* What is published is added.
LEMMA PublishesEffect ==
  ASSUME Places, log \in Seq(Nat), pc # "idle", NEW S \in SUBSET Kept(done + 1, to),
         Publishes(S)
  PROVE  /\ log' \in Seq(Nat) /\ Range(log') = Range(log) \cup S
         /\ S \subseteq done + 1 .. to /\ S \subseteq 1..reached /\ S \subseteq Nat
         /\ \A p, q \in Nat : p < q =>
              /\ p \notin S /\ After(log, p, q) => After(log', p, q)
              /\ q \in S => After(log', p, q)
         /\ IsInjective(log) /\ S \cap Range(log) = {} => IsInjective(log')
<1>1. S \subseteq done + 1 .. to /\ S \subseteq 1..reached /\ S \subseteq Nat
  BY DEF Kept, Places
<1>2. Len(stream) \in Nat
  BY DEF Places
<1>3. PICK t \in InOrder(S) : log' = log \o t
  BY Zenon DEF Publishes
<1>4. t \in Seq(Nat) /\ Range(t) = S
  BY Zenon, <1>1, <1>2, <1>3, InOrderIs
<1>5. log' \in Seq(Nat) /\ Range(log') = Range(log) \cup S
  BY Zenon, <1>3, <1>4, JoinOf, RangeJoin
<1>6. ASSUME NEW p \in Nat, NEW q \in Nat, p < q
      PROVE  /\ p \notin S /\ After(log, p, q) => After(log', p, q)
             /\ q \in S => After(log', p, q)
  BY Zenon, <1>1, <1>2, <1>3, <1>6, AfterJoin
<1>7. IsInjective(log) /\ S \cap Range(log) = {} => IsInjective(log')
  BY Zenon, <1>1, <1>2, <1>3, OnceJoin
<1> QED
  BY Zenon, <1>1, <1>5, <1>6, <1>7

\* The events of a batch that the pipeline of commands publishes.
LEMMA RunsPublish ==
  ASSUME sink \in Publishers, NEW S, Runs(S)
  PROVE  Publishes(S)
  BY Zenon DEF Runs, Publishes, Publishers

\* One event.
LEMMA PostPublishes ==
  ASSUME Places, pc # "idle", log \in Seq(Nat), log' = Append(log, to)
  PROVE  Publishes({to})
<1>1. to \in 1..Len(stream) /\ Len(stream) \in Nat
  BY DEF Places
<1>2. Append(log, to) = log \o <<to>>
  BY <1>1
<1> QED
  BY Zenon, <1>1, <1>2, OneInOrder DEF Publishes

\* What a step publishes.
LEMMA Publication ==
  ASSUME Places, Steps, Sound, log \in Seq(Nat), [Next]_vars
  PROVE  \/ log' = log
         \/ \E S \in SUBSET Kept(done + 1, to) :
              /\ Publishes(S) /\ \A p \in S : Sendable(p)
              /\ pc # "idle" /\ reached' = reached /\ sink \in Publishers
<1>1. ASSUME pc \in {"exec", "window"}, NEW S \in SUBSET Kept(done + 1, to), Publishes(S),
             sink \in Publishers, reached' = reached
      PROVE  \E U \in SUBSET Kept(done + 1, to) :
               /\ Publishes(U) /\ \A p \in U : Sendable(p)
               /\ pc # "idle" /\ reached' = reached /\ sink \in Publishers
  <2>1. \A p \in S : Sendable(p)
    BY <1>1 DEF Sound, Kept
  <2> QED
    BY Zenon, <1>1, <2>1
<1>2. CASE ExecDone \/ ExecFails
  <2>1. pc = "exec" /\ sink \in Pipelined /\ reached' = reached
    BY <1>2 DEF ExecDone, ExecFails, Steps, Return, driverVars
  <2>2. PICK S \in SUBSET Kept(done + 1, to) : Runs(S)
    <3>1. \A m \in done..to : Kept(done + 1, m) \subseteq Kept(done + 1, to)
      BY <2>1 DEF Kept, Places
    <3> QED
      BY Zenon, <1>2, <3>1 DEF ExecDone, ExecFails, Commands
  <2>3. CASE sink = "json"
    BY Zenon, <2>2, <2>3 DEF Runs
  <2>4. CASE sink # "json"
    <3>1. sink \in Publishers
      BY <2>1, <2>4 DEF Pipelined, Publishers
    <3> QED
      BY Zenon, <1>1, <2>1, <2>2, <3>1, RunsPublish
  <2> QED
    BY <2>3, <2>4
<1>3. CASE WindowAcked \/ WindowFails
  <2>1. pc = "window" /\ sink \in Publishers /\ reached' = reached
    BY <1>3 DEF WindowAcked, WindowFails, Steps, Return, driverVars, Publishers
  <2>2. PICK S \in SUBSET Kept(done + 1, to) : Publishes(S \ seen)
    BY Zenon, <1>3 DEF WindowAcked, WindowFails, Persist, Publishes, Window, Messages
  <2> QED
    BY Zenon, <1>1, <2>1, <2>2
<1>4. CASE PostAnswered \/ PostFails
  <2>1. /\ pc = "post" /\ sink = "webhook" /\ reached' = reached /\ Passes(to)
        /\ to = done + 1
    BY <1>4 DEF PostAnswered, PostFails, Steps, Return
  <2>2. log' = log \/ (log' = Append(log, to) /\ stream[to].key # NoKey)
    BY <1>4 DEF PostAnswered, PostFails
  <2>3. {to} \in SUBSET Kept(done + 1, to) /\ sink \in Publishers
    BY <2>1 DEF Kept, Publishers, Places
  <2> QED
    BY <2>1, <2>2, <2>3, PostPublishes DEF Sendable
<1>5. CASE \/ Call \/ Enqueue \/ EnqueueFails \/ EnqueueRefused \/ TaskRuns \/ TasksPruned
           \/ AwaitLost \/ AwaitDone \/ AwaitInterrupted \/ DeleteRows \/ WindowExpires
           \/ Park \/ Confirm \/ Replay \/ Restart \/ UNCHANGED vars
  BY <1>5 DEF Call, Enqueue, EnqueueFails, EnqueueRefused, TaskRuns, TasksPruned,
              AwaitLost, AwaitDone, AwaitInterrupted, DeleteRows, WindowExpires,
              Park, Confirm, Replay, Restart, vars, pubVars
<1> QED
  BY <1>2, <1>3, <1>4, <1>5 DEF Next

\* The steps of Process stay with their sink, and a batch that is worked on
\* has nothing in it to refuse.
LEMMA StepsStep ==
  ASSUME Places, Steps, Sound, [Next]_vars
  PROVE  Steps' /\ Sound'
<1>0. /\ sink' = sink /\ stream' = stream /\ \A p : (Passes(p))' <=> Passes(p)
      /\ \A p : (Sendable(p))' <=> Sendable(p)
  BY Fixed, SamePasses
<1>1. CASE Call
  <2>1. to' \in done + 1 .. Len(stream) /\ (sink = "webhook" => to' = done + 1)
    BY <1>1, EndsIn
  <2>2. pc = "idle"
    BY <1>1 DEF Call
  <2>3. CASE Refuses(done + 1, to') /\ result' = "permanent" /\ pc' = pc /\ done' = done
    <3>1. sink \in Publishers => \E p \in done + 1 .. to' : Passes(p) /\ ~Sendable(p)
      BY Zenon, <2>3 DEF Refuses, Publishers, Sendable, NoRedisKey, NoMessage
    <3> QED
      BY <1>0, <2>2, <2>3, <3>1 DEF Steps, Sound
  <2>4. CASE result' = "ok" /\ pc' = pc
    BY <1>0, <2>2, <2>4 DEF Steps, Sound
  <2>5. CASE /\ ~Refuses(done + 1, to') /\ ~Empty(done + 1, to')
             /\ pc' = Entry(done + 1, to') /\ done' = done
    <3>1. /\ sink = "meili" => pc' \in {"await", "enqueue"}
          /\ sink \in Pipelined => pc' = "exec"
          /\ sink = "nats" => pc' = "window"
          /\ sink = "webhook" => pc' = "post"
          /\ sink \in {"meili", "nats", "webhook"} \cup Pipelined
      BY <2>5 DEF Entry, Pipelined, Places, Mirrors, Publishers
    <3>2. sink = "webhook" => Passes(to')
      <4>1. PICK p \in done + 1 .. to' : Passes(p)
        BY <2>5 DEF Empty
      <4> QED
        BY <2>1, <4>1 DEF Places
    <3>3. Steps'
      BY <1>0, <2>1, <2>5, <3>1, <3>2 DEF Steps, Pipelined
    <3>4. sink \in Publishers /\ pc' \in {"exec", "delete", "window"} =>
            \A p \in done + 1 .. to' : Passes(p) => Sendable(p)
      BY Zenon, <2>5, <3>1 DEF Refuses, Publishers, Sendable, NoRedisKey, NoMessage, Pipelined
    <3>5. pc' # "idle"
      BY <3>1
    <3>6. Sound'
      BY <1>0, <2>5, <3>4, <3>5 DEF Sound
    <3> QED
      BY <3>3, <3>6
  <2> QED
    BY <1>1, <2>3, <2>4, <2>5 DEF Call
<1>2. CASE Enqueue \/ EnqueueFails \/ EnqueueRefused \/ AwaitLost \/ AwaitDone \/ AwaitInterrupted
  <2>1. pc \in {"enqueue", "await"} /\ pc' \in {"idle", "enqueue", "await"}
    BY <1>2 DEF Enqueue, EnqueueFails, EnqueueRefused, AwaitLost, AwaitDone,
                AwaitInterrupted, Return
  <2>2. sink = "meili"
    BY <2>1 DEF Steps
  <2> QED
    BY <1>0, <2>1, <2>2 DEF Steps, Sound, Publishers
<1>3. CASE /\ pc' = pc /\ to' = to /\ done' = done /\ result' = result
  BY <1>0, <1>3 DEF Steps, Sound
<1>4. CASE ExecDone \/ ExecFails
  <2>1. pc = "exec"
    BY <1>4 DEF ExecDone, ExecFails
  <2>2. \/ pc' = "idle" /\ result' \in {"ok", "error"}
        \/ pc' = "delete" /\ sink = "outbox" /\ done' = done /\ to' = to
    BY <1>4 DEF ExecDone, ExecFails, Return, driverVars
  <2> QED
    BY <1>0, <2>1, <2>2 DEF Steps, Sound
<1>5. CASE pc' = "idle" /\ result' # "permanent"
  BY <1>0, <1>5 DEF Steps, Sound
<1>6. CASE PostAnswered
  <2>1. CASE stream[to].key = NoKey
    <3>1. /\ pc = "post" /\ pc' = "idle" /\ done' = done /\ to' = to
      BY <1>6, <2>1 DEF PostAnswered, Return
    <3>2. to \in done + 1 .. to /\ Passes(to) /\ ~Sendable(to)
      BY <2>1, <3>1 DEF Steps, Sendable, Places
    <3> QED
      BY <1>0, <3>1, <3>2 DEF Steps, Sound
  <2>2. CASE stream[to].key # NoKey
    <3>1. pc' = "idle" /\ result' = "ok"
      BY <1>6, <2>2 DEF PostAnswered, Return
    <3> QED
      BY <3>1, <1>5
  <2> QED
    BY <2>1, <2>2
<1>7. CASE TaskRuns \/ TasksPruned \/ WindowExpires \/ Confirm \/ UNCHANGED vars
  BY <1>7, <1>3 DEF TaskRuns, TasksPruned, WindowExpires, Confirm, driverVars, vars
<1>8. CASE DeleteRows \/ WindowFails \/ PostFails \/ Park \/ Replay \/ Restart
  BY <1>8, <1>5 DEF DeleteRows, WindowFails, PostFails, Park, Replay, Restart, Return
<1>9. CASE WindowAcked
  BY <1>9, <1>3, <1>5 DEF WindowAcked, Return, driverVars
<1> QED
  BY <1>1, <1>2, <1>4, <1>6, <1>7, <1>8, <1>9 DEF Next

\* What is stored and remembered is typed, step by step.
LEMMA LogStep ==
  ASSUME Places, Places', Steps, Sound, Log, [Next]_vars
  PROVE  Log' /\ Range(log) \subseteq Range(log')
<1>0. stream' = stream /\ Range(log) \subseteq Nat /\ 1..reached \subseteq 1..reached'
  <2>1. reached' = reached \/ reached' = IF to' > reached THEN to' ELSE reached
    BY Zenon DEF Next, vars, driverVars, Call, Enqueue, EnqueueFails,
         EnqueueRefused, TaskRuns, TasksPruned, AwaitLost, AwaitDone, AwaitInterrupted,
         ExecDone, ExecFails, DeleteRows, WindowAcked, WindowFails, WindowExpires,
         PostAnswered, PostFails, Park, Confirm, Replay, Restart, Return
  <2> QED
    BY <2>1, Fixed, RangeOf DEF Log, Places
<1>1. /\ log' \in Seq(Nat) /\ Range(log') \subseteq 1..reached'
      /\ Range(log) \subseteq Range(log')
  <2>1. CASE log' = log
    BY Zenon, <1>0, <2>1 DEF Log
  <2>2. CASE log' # log
    <3>1. PICK S \in SUBSET Kept(done + 1, to) :
                 Publishes(S) /\ pc # "idle" /\ reached' = reached
      BY Zenon, <2>2, Publication DEF Log
    <3>2. /\ log' \in Seq(Nat) /\ Range(log') = Range(log) \cup S
          /\ S \subseteq 1..reached
      BY Zenon, <3>1, PublishesEffect DEF Log
    <3> QED
      BY Zenon, <3>1, <3>2 DEF Log
  <2> QED
    BY <2>1, <2>2
<1>2. sent' \subseteq 1..reached'
  <2>1. CASE sent' = sent \/ sent' = {}
    BY Zenon, <1>0, <2>1 DEF Log
  <2>2. CASE WindowAcked
    <3>1. /\ sent' = sent \cup Window /\ pc = "window" /\ reached' = reached
      BY <2>2 DEF WindowAcked, Return, driverVars
    <3>2. Window \subseteq 1..reached
      BY <3>1 DEF Window, Messages, Kept, Places
    <3> QED
      BY <3>1, <3>2 DEF Log
  <2> QED
    BY Zenon, <2>1, <2>2 DEF Next, vars, pubVars, Call, Enqueue, EnqueueFails,
         EnqueueRefused, TaskRuns, TasksPruned, AwaitLost, AwaitDone, AwaitInterrupted,
         ExecDone, ExecFails, DeleteRows, WindowFails, WindowExpires,
         PostAnswered, PostFails, Park, Confirm, Replay, Restart
<1>3. seen' \subseteq Range(log')
  <2>1. CASE seen' = seen \/ seen' = {}
    BY Zenon, <1>1, <2>1 DEF Log
  <2>2. CASE WindowAcked \/ WindowFails
    <3>1. pc = "window" /\ Len(stream) \in Nat
      BY <2>2 DEF WindowAcked, WindowFails, Places
    <3>2. PICK S \in SUBSET Kept(done + 1, to) : Persist(S)
      BY Zenon, <2>2 DEF WindowAcked, WindowFails, Window, Messages
    <3>3. /\ S \ seen \in SUBSET Kept(done + 1, to) /\ Publishes(S \ seen)
          /\ seen' = seen \cup S
      BY Zenon, <3>2 DEF Persist, Publishes
    <3>4. Range(log') = Range(log) \cup (S \ seen)
      BY Zenon, <3>1, <3>3, PublishesEffect DEF Log
    <3> QED
      BY Zenon, <3>3, <3>4 DEF Log
  <2> QED
    BY Zenon, <2>1, <2>2 DEF Next, vars, pubVars, Call, Enqueue, EnqueueFails,
         EnqueueRefused, TaskRuns, TasksPruned, AwaitLost, AwaitDone, AwaitInterrupted,
         ExecDone, ExecFails, DeleteRows, WindowExpires,
         PostAnswered, PostFails, Park, Confirm, Replay, Restart
<1>4. expired' \in BOOLEAN
  BY Zenon DEF Log, Next, vars, pubVars, Call, Enqueue, EnqueueFails,
         EnqueueRefused, TaskRuns, TasksPruned, AwaitLost, AwaitDone, AwaitInterrupted,
         ExecDone, ExecFails, DeleteRows, WindowAcked, WindowFails, WindowExpires,
         PostAnswered, PostFails, Park, Confirm, Replay, Restart
<1>5. rows' \subseteq 1..Len(stream')
  BY Zenon, <1>0 DEF Log, Next, vars, pubVars, Call, Enqueue, EnqueueFails,
         EnqueueRefused, TaskRuns, TasksPruned, AwaitLost, AwaitDone, AwaitInterrupted,
         ExecDone, ExecFails, DeleteRows, WindowAcked, WindowFails, WindowExpires,
         PostAnswered, PostFails, Park, Confirm, Replay, Restart
<1> QED
  BY Zenon, <1>1, <1>2, <1>3, <1>4, <1>5 DEF Log

\* How acceptance moves: back; over events that have nothing to send or are
\* parked; or over a batch that is published now (for JetStream: by now).
LEMMA Progress ==
  ASSUME Places, Steps, Sound, Published, Log, sink \in Publishers, [Next]_vars
  PROVE  \/ Accepted' <= Accepted
         \/ /\ log' = log
            /\ \A p \in Accepted + 1 .. Accepted' :
                 ~Passes(p) \/ (p \in parked' /\ ~Sendable(p))
         \/ /\ Accepted = done /\ Accepted' = to /\ pc # "idle"
            /\ \/ sink # "nats" /\ Publishes(Kept(done + 1, to))
               \/ sink = "nats" /\ Kept(done + 1, to) \subseteq Range(log')
<1>0. Accepted \in Nat /\ done <= Accepted /\ done \in Nat
  BY DEF Accepted, Places
<1>1. CASE Accepted' = Accepted
  BY <1>0, <1>1
<1>2. CASE pc' # "delete" /\ done' <= done /\ done' \in Nat
  BY <1>0, <1>2 DEF Accepted
<1>3. CASE Call
  <2>1. pc = "idle" /\ pc' # "delete" /\ log' = log
    <3>1. pc' = pc \/ pc' = Entry(done + 1, to')
      BY <1>3 DEF Call
    <3>2. Entry(done + 1, to') # "delete"
      BY DEF Entry, Publishers, Pipelined
    <3> QED
      BY <1>3, <3>1, <3>2 DEF Call
  <2>2. CASE done' = done
    BY <1>2, <2>1, <2>2 DEF Places
  <2>3. CASE Empty(done + 1, to') /\ done' = to'
    <3>1. \A p \in done + 1 .. to' : ~Passes(p)
      BY <2>3 DEF Empty, Publishers
    <3> QED
      BY <2>1, <2>3, <3>1 DEF Accepted
  <2> QED
    BY <1>3, <2>2, <2>3 DEF Call
<1>4. CASE Enqueue \/ EnqueueFails \/ EnqueueRefused \/ AwaitLost \/ AwaitDone \/ AwaitInterrupted
  <2>1. pc \in {"enqueue", "await"}
    BY <1>4 DEF Enqueue, EnqueueFails, EnqueueRefused, AwaitLost, AwaitDone,
                AwaitInterrupted
  <2> QED
    BY <2>1 DEF Steps, Publishers
<1>5. CASE TaskRuns \/ TasksPruned \/ WindowExpires \/ Confirm \/ UNCHANGED vars
  <2>1. pc' = pc /\ done' = done /\ to' = to
    BY <1>5 DEF TaskRuns, TasksPruned, WindowExpires, Confirm, driverVars, vars
  <2> QED
    BY <1>1, <2>1 DEF Accepted
<1>6. CASE ExecDone
  <2>1. pc = "exec" /\ Runs(Commands) /\ sink # "nats"
    BY <1>6 DEF ExecDone, Steps, Pipelined
  <2>2. Publishes(Kept(done + 1, to))
    BY Zenon, <2>1, RunsPublish DEF Commands
  <2>3. Accepted = done /\ Accepted' = to
    BY <1>6, <2>1 DEF ExecDone, Return, Accepted
  <2> QED
    BY <2>1, <2>2, <2>3
<1>7. CASE ExecFails \/ WindowFails \/ PostFails
  <2>1. pc' = "idle" /\ done' = done
    BY <1>7 DEF ExecFails, WindowFails, PostFails, Return
  <2> QED
    BY <1>0, <1>2, <2>1
<1>8. CASE DeleteRows
  <2>1. pc = "delete" /\ pc' = "idle" /\ done' = to
    BY <1>8 DEF DeleteRows, Return
  <2> QED
    BY <1>1, <2>1 DEF Accepted
<1>9. CASE WindowAcked
  <2>1. /\ pc = "window" /\ sink = "nats" /\ sent' = sent \cup Window
        /\ Persist(Window)
    BY <1>9 DEF WindowAcked, Steps
  <2>2. CASE Kept(done + 1, to) \subseteq sent'
    <3>1. pc' = "idle" /\ done' = to
      BY <1>9, <2>2 DEF WindowAcked, Return, Messages
    <3>2. /\ Window \ seen \in SUBSET Kept(done + 1, to) /\ Publishes(Window \ seen)
      BY Zenon, <2>1 DEF Persist, Publishes, Window, Messages
    <3>3. Range(log') = Range(log) \cup (Window \ seen)
      BY Zenon, <2>1, <3>2, PublishesEffect DEF Log
    <3>4. sent' \subseteq Range(log')
      BY Zenon, <2>1, <3>3 DEF Log, Published
    <3> QED
      BY <2>1, <2>2, <3>1, <3>4 DEF Accepted
  <2>3. CASE ~(Kept(done + 1, to) \subseteq sent')
    <3>1. pc' = pc /\ done' = done
      BY <1>9, <2>3 DEF WindowAcked, Messages, driverVars
    <3> QED
      BY <1>0, <1>2, <2>1, <3>1
  <2> QED
    BY <2>2, <2>3
<1>10. CASE PostAnswered
  <2>1. /\ pc = "post" /\ pc' = "idle" /\ to = done + 1 /\ Passes(to) /\ sink = "webhook"
    BY <1>10 DEF PostAnswered, Steps, Return
  <2>2. CASE stream[to].key = NoKey
    <3>1. done' = done
      BY <1>10, <2>2 DEF PostAnswered, Return
    <3> QED
      BY <1>0, <1>2, <2>1, <3>1
  <2>3. CASE stream[to].key # NoKey
    <3>1. done' = to /\ log' = Append(log, to)
      BY <1>10, <2>3 DEF PostAnswered, Return
    <3>2. Kept(done + 1, to) = {to}
      BY <2>1 DEF Kept, Places
    <3>3. Publishes({to})
      BY <2>1, <3>1, PostPublishes DEF Log
    <3> QED
      BY Zenon, <2>1, <3>1, <3>2, <3>3 DEF Accepted
  <2> QED
    BY <2>2, <2>3
<1>11. CASE Park
  <2>1. /\ pc = "idle" /\ pc' = "idle" /\ result = "permanent" /\ to = done + 1
        /\ done' = to /\ parked' = parked \cup {to} /\ log' = log
    BY <1>11 DEF Park, pubVars
  <2>2. PICK p \in done + 1 .. to : Passes(p) /\ ~Sendable(p)
    BY <2>1 DEF Sound
  <2>3. p = to
    BY <2>1, <2>2 DEF Places
  <2> QED
    BY <2>1, <2>2, <2>3 DEF Accepted, Places
<1>12. CASE Replay \/ Restart
  <2>1. pc' = "idle" /\ done' = confirmed
    BY <1>12 DEF Replay, Restart
  <2> QED
    BY <1>2, <2>1 DEF Places
<1> QED
  BY <1>3, <1>4, <1>5, <1>6, <1>7, <1>8, <1>9, <1>10, <1>11, <1>12 DEF Next

\* What was published can be sent, and what is accepted was published.
LEMMA PublishedStep ==
  ASSUME Places, Places', Steps, Sound, Published, Log, [Next]_vars
  PROVE  Published'
<1>0. /\ sink' = sink /\ stream' = stream /\ \A p : (Passes(p))' <=> Passes(p)
      /\ \A p : (Sendable(p))' <=> Sendable(p)
      /\ \A n, m : (Kept(n, m))' = Kept(n, m)
      /\ Range(log) \subseteq Range(log')
  BY Zenon, Fixed, SamePasses, LogStep
<1>1. \A p \in Range(log') : (Sendable(p))'
  <2>1. CASE log' = log
    BY Zenon, <1>0, <2>1 DEF Published
  <2>2. CASE log' # log
    <3>1. PICK S \in SUBSET Kept(done + 1, to) :
                 Publishes(S) /\ pc # "idle" /\ \A p \in S : Sendable(p)
      BY Zenon, <2>2, Publication DEF Log
    <3>2. Range(log') = Range(log) \cup S
      BY Zenon, <3>1, PublishesEffect DEF Log
    <3> QED
      BY Zenon, <1>0, <3>1, <3>2 DEF Published
  <2> QED
    BY <2>1, <2>2
<1>2. sent' \subseteq Range(log')
  <2>1. CASE sent' = sent \/ sent' = {}
    BY Zenon, <1>0, <2>1 DEF Published
  <2>2. CASE WindowAcked
    <3>1. /\ sent' = sent \cup Window /\ pc = "window" /\ Persist(Window)
      BY <2>2 DEF WindowAcked
    <3>2. /\ Window \ seen \in SUBSET Kept(done + 1, to) /\ Publishes(Window \ seen)
      BY Zenon, <3>1 DEF Persist, Publishes, Window, Messages
    <3>3. Range(log') = Range(log) \cup (Window \ seen)
      BY Zenon, <3>1, <3>2, PublishesEffect DEF Log
    <3> QED
      BY Zenon, <3>1, <3>3 DEF Log, Published
  <2> QED
    BY Zenon, <2>1, <2>2 DEF Next, vars, pubVars, Call, Enqueue, EnqueueFails,
         EnqueueRefused, TaskRuns, TasksPruned, AwaitLost, AwaitDone, AwaitInterrupted,
         ExecDone, ExecFails, DeleteRows, WindowFails, WindowExpires,
         PostAnswered, PostFails, Park, Confirm, Replay, Restart
<1>3. ASSUME pc' = "delete"
      PROVE  (Kept(done + 1, to))' \subseteq Range(log')
  <2>1. CASE pc = "delete" /\ done' = done /\ to' = to
    BY <1>0, <2>1 DEF Published
  <2>2. CASE ExecDone
    <3>1. /\ pc = "exec" /\ Runs(Commands) /\ sink = "outbox" /\ done' = done /\ to' = to
      BY <1>3, <2>2 DEF ExecDone, Return, driverVars
    <3>2. Publishes(Kept(done + 1, to))
      BY Zenon, <3>1, RunsPublish DEF Commands, Publishers
    <3>3. Range(log') = Range(log) \cup Kept(done + 1, to)
      BY Zenon, <3>1, <3>2, PublishesEffect DEF Log
    <3> QED
      BY <1>0, <3>1, <3>3
  <2>3. CASE Call
    <3>1. pc = "idle" /\ (pc' = pc \/ pc' = Entry(done + 1, to'))
      BY <2>3 DEF Call
    <3>2. Entry(done + 1, to') # "delete"
      BY DEF Entry, Places, Mirrors, Publishers, Pipelined
    <3> QED
      BY <1>3, <3>1, <3>2
  <2>4. CASE TaskRuns \/ TasksPruned \/ WindowExpires \/ Confirm \/ UNCHANGED vars
    BY <1>3, <2>1, <2>4 DEF TaskRuns, TasksPruned, WindowExpires, Confirm, driverVars, vars
  <2>5. CASE Enqueue \/ WindowAcked
    BY <1>3, <2>5 DEF Enqueue, WindowAcked, Return, driverVars
  <2> QED
    BY Zenon, <1>3, <2>2, <2>3, <2>4, <2>5
       DEF Next, EnqueueFails, EnqueueRefused, AwaitLost, AwaitDone, AwaitInterrupted,
           ExecFails, DeleteRows, WindowFails, PostAnswered, PostFails, Park, Replay,
           Restart, Return
<1>4. ASSUME sink \in Publishers, NEW p \in 1..Accepted', Passes(p)
      PROVE  p \in Range(log') \cup parked'
  <2>1. parked \subseteq parked'
    BY Zenon DEF Next, vars, driverVars, Call, Enqueue, EnqueueFails,
         EnqueueRefused, TaskRuns, TasksPruned, AwaitLost, AwaitDone, AwaitInterrupted,
         ExecDone, ExecFails, DeleteRows, WindowAcked, WindowFails, WindowExpires,
         PostAnswered, PostFails, Park, Confirm, Replay, Restart, Return
  <2>2. Accepted \in Nat /\ Accepted' \in Nat /\ done \in Nat /\ to \in Nat
    BY DEF Accepted, Places
  <2>3. CASE p <= Accepted
    <3>1. p \in Range(log) \cup parked
      BY <1>4, <2>2, <2>3 DEF Published
    <3> QED
      BY Zenon, <1>0, <2>1, <3>1
  <2>4. CASE p > Accepted
    <3>1. p \in Accepted + 1 .. Accepted' /\ ~(Accepted' <= Accepted)
      BY <1>4, <2>2, <2>4
    <3>2. CASE Publishes(Kept(done + 1, to)) /\ Accepted = done /\ Accepted' = to /\ pc # "idle"
      <4>1. p \in Kept(done + 1, to)
        BY <1>4, <3>1, <3>2 DEF Kept
      <4>2. Range(log') = Range(log) \cup Kept(done + 1, to)
        BY Zenon, <3>2, PublishesEffect DEF Log
      <4> QED
        BY Zenon, <4>1, <4>2
    <3>3. CASE Kept(done + 1, to) \subseteq Range(log') /\ Accepted = done /\ Accepted' = to
      BY <1>4, <3>1, <3>3 DEF Kept
    <3> QED
      BY Zenon, <1>4, <3>1, <3>2, <3>3, Progress
  <2> QED
    BY <2>2, <2>3, <2>4
<1> QED
  BY Zenon, <1>0, <1>1, <1>2, <1>3, <1>4 DEF Published

\* The latest copies stay in order: what is sent again is sent from the first
\* unaccepted event on, and accepted only when all of the batch was.
LEMMA OrderedStep ==
  ASSUME Places, Places', Steps, Sound, Published, Log, Ordered, [Next]_vars
  PROVE  Ordered'
<1>1. SUFFICES ASSUME sink \in Publishers \ {"nats"}, NEW p \in Range(log'), NEW q \in Range(log'),
                      p < q, q <= Accepted'
               PROVE  After(log', p, q)
  BY Zenon, Fixed DEF Ordered
<1>2. /\ Accepted \in Nat /\ Accepted' \in Nat /\ done \in Nat /\ to \in Nat
      /\ done <= Accepted
  BY DEF Accepted, Places
<1>3. p \in Nat /\ q \in Nat
  <2>1. log' \in Seq(Nat)
    BY Zenon, LogStep DEF Log
  <2>2. Range(log') \subseteq Nat
    BY Zenon, <2>1, RangeOf
  <2> QED
    BY Zenon, <1>1, <2>2
<1>4. CASE log' = log /\ q <= Accepted
  BY Zenon, <1>1, <1>4 DEF Ordered
<1>5. CASE q > Accepted /\ ~Publishes(Kept(done + 1, to))
  <2>1. /\ q \in Accepted + 1 .. Accepted' /\ ~(Accepted' <= Accepted)
    BY <1>1, <1>2, <1>3, <1>5
  <2>2. log' = log /\ ~Sendable(q)
    <3>1. sink \in Publishers /\ sink # "nats"
      BY <1>1
    <3> QED
      BY Zenon, <1>5, <2>1, <3>1, Progress DEF Sendable
  <2> QED
    BY Zenon, <1>1, <2>2 DEF Published
<1>6. CASE q > Accepted /\ Publishes(Kept(done + 1, to))
  <2>1. /\ q \in Accepted + 1 .. Accepted' /\ ~(Accepted' <= Accepted)
    BY <1>1, <1>2, <1>3, <1>6
  <2>2. CASE Accepted = done /\ Accepted' = to /\ pc # "idle"
    <3>1. (Sendable(q))'
      BY Zenon, <1>1, PublishedStep DEF Published
    <3>2. Passes(q)
      BY Zenon, <3>1, Fixed, SamePasses DEF Sendable
    <3>3. q \in Kept(done + 1, to)
      BY <2>1, <2>2, <3>2 DEF Kept
    <3> QED
      BY Zenon, <1>1, <1>3, <1>6, <2>2, <3>3, PublishesEffect DEF Log
  <2>3. CASE log' = log /\ ~Sendable(q)
    BY Zenon, <1>1, <2>3 DEF Published
  <2> QED
    <3>1. sink \in Publishers /\ sink # "nats"
      BY <1>1
    <3> QED
      BY Zenon, <2>1, <2>2, <2>3, <3>1, Progress DEF Sendable
<1>7. CASE log' # log /\ q <= Accepted
  <2>1. PICK S \in SUBSET Kept(done + 1, to) : Publishes(S) /\ pc # "idle"
    BY Zenon, <1>7, Publication DEF Log
  <2>2. /\ Range(log') = Range(log) \cup S /\ S \subseteq done + 1 .. to
        /\ p \notin S /\ After(log, p, q) => After(log', p, q)
        /\ q \in S => After(log', p, q)
    BY Zenon, <1>1, <1>3, <2>1, PublishesEffect DEF Log
  <2>3. CASE q \in S
    BY <2>2, <2>3
  <2>4. CASE q \notin S /\ p \notin S
    <3>1. p \in Range(log) /\ q \in Range(log)
      BY Zenon, <2>2, <2>4
    <3>2. After(log, p, q)
      BY Zenon, <1>1, <1>7, <3>1 DEF Ordered
    <3> QED
      BY <2>2, <2>4, <3>2
  <2>5. CASE q \notin S /\ p \in S
    <3>1. pc = "delete"
      BY <1>1, <1>2, <1>3, <1>7, <2>2, <2>5 DEF Accepted
    <3>2. log' = log
      BY Zenon, <3>1 DEF Next, vars, pubVars, Call, Enqueue, EnqueueFails,
         EnqueueRefused, TaskRuns, TasksPruned, AwaitLost, AwaitDone, AwaitInterrupted,
         ExecDone, ExecFails, DeleteRows, WindowAcked, WindowFails, WindowExpires,
         PostAnswered, PostFails, Park, Confirm, Replay, Restart
    <3> QED
      BY <1>7, <3>2
  <2> QED
    BY <2>3, <2>4, <2>5
<1> QED
  BY <1>2, <1>3, <1>4, <1>5, <1>6, <1>7

\* JetStream stores no event twice while it knows what it stored.
LEMMA OnceStep ==
  ASSUME Places, Steps, Log, Once, [Next]_vars
  PROVE  Once'
<1>0. sink' = sink
  BY Fixed
<1>1. CASE log' = log /\ seen' = seen /\ expired' = expired
  BY Zenon, <1>0, <1>1 DEF Once
<1>2. CASE WindowAcked \/ WindowFails
  <2>1. pc = "window" /\ expired' = expired
    BY <1>2 DEF WindowAcked, WindowFails
  <2>2. PICK S \in SUBSET Kept(done + 1, to) : Persist(S)
    BY Zenon, <1>2 DEF WindowAcked, WindowFails, Window, Messages
  <2>3. /\ S \ seen \in SUBSET Kept(done + 1, to) /\ Publishes(S \ seen)
        /\ seen' = seen \cup S
    BY Zenon, <2>2 DEF Persist, Publishes
  <2>4. /\ Range(log') = Range(log) \cup (S \ seen)
        /\ IsInjective(log) /\ (S \ seen) \cap Range(log) = {} => IsInjective(log')
    BY Zenon, <2>1, <2>3, PublishesEffect DEF Log
  <2> QED
    BY Zenon, <1>0, <2>1, <2>3, <2>4 DEF Once
<1>3. CASE WindowExpires
  BY Zenon, <1>3 DEF WindowExpires, Once
<1>4. CASE ExecDone \/ ExecFails \/ PostAnswered \/ PostFails
  <2>1. pc = "exec" \/ pc = "post"
    BY <1>4 DEF ExecDone, ExecFails, PostAnswered, PostFails
  <2>2. sink # "nats"
    BY <2>1 DEF Steps, Pipelined
  <2> QED
    BY <1>0, <2>2 DEF Once
<1> QED
  BY Zenon, <1>1, <1>2, <1>3, <1>4
     DEF Next, vars, pubVars, Call, Enqueue, EnqueueFails, EnqueueRefused, TaskRuns,
         TasksPruned, AwaitLost, AwaitDone, AwaitInterrupted, DeleteRows, Park, Confirm,
         Replay, Restart

\* Only rows that were published are deleted.
LEMMA DeletedStep ==
  ASSUME Published, Range(log) \subseteq Range(log'), DeletedWasPublished, [Next]_vars
  PROVE  DeletedWasPublished'
<1>0. stream' = stream
  BY Fixed
<1>1. rows' = rows \/ (pc = "delete" /\ rows' = rows \ Kept(done + 1, to))
  BY Zenon DEF Next, vars, pubVars, Call, Enqueue, EnqueueFails,
         EnqueueRefused, TaskRuns, TasksPruned, AwaitLost, AwaitDone, AwaitInterrupted,
         ExecDone, ExecFails, DeleteRows, WindowAcked, WindowFails, WindowExpires,
         PostAnswered, PostFails, Park, Confirm, Replay, Restart
<1> QED
  BY Zenon, <1>0, <1>1 DEF Published, DeletedWasPublished

-----------------------------------------------------------------------------
(* The theorems.                                                           *)

\* The invariant holds at the start.
LEMMA SinksInit == SinksAssumption /\ Init => SinksInv
<1> SUFFICES ASSUME SinksAssumption, Init PROVE SinksInv
  OBVIOUS
<1>0. Len(stream) \in Nat /\ sink \in Mirrors \cup Publishers
  BY DEF Init, SinksAssumption
<1>1. Places
  <2>1. cuts \subseteq 0..Len(stream)
    <3>1. \A C \in Cuttings : C \subseteq 0..Len(stream)
      BY SMTT(30), <1>0 DEF Cuttings
    <3> QED
      BY Zenon, <3>1 DEF Init
  <2> QED
    BY <1>0, <2>1 DEF Init, Places, SinksAssumption
<1>2. Queue
  BY ListEmpty DEF Init, Queue
<1>3. log \in Seq(Nat) /\ Range(log) = {} /\ IsInjective(log)
  BY DEF Init, Range, IsInjective
<1>4. Log
  BY Zenon, <1>3 DEF Init, Log
<1>5. Steps /\ Sound
  BY DEF Init, Steps, Sound
<1>6. Published
  BY <1>3 DEF Init, Published, Accepted
<1>7. Ordered /\ Once
  BY <1>3 DEF Ordered, Once
<1>8. DeletedWasPublished
  BY DEF Init, DeletedWasPublished
<1> QED
  BY Zenon, <1>1, <1>2, <1>4, <1>5, <1>6, <1>7, <1>8, TypedIs DEF SinksInv

\* Every step keeps the invariant.
LEMMA SinksStep == SinksAssumption /\ SinksInv /\ [Next]_vars => SinksInv'
<1> SUFFICES ASSUME SinksAssumption, SinksInv, [Next]_vars PROVE SinksInv'
  OBVIOUS
<1>1. /\ Places /\ Queue /\ Log /\ Steps /\ Sound /\ Published /\ Ordered /\ Once
      /\ DeletedWasPublished
  BY Zenon, TypedIs DEF SinksInv
<1>2. Places'
  BY Zenon, <1>1, PlacesStep
<1>3. Queue'
  BY Zenon, <1>1, QueueStep
<1>4. Log' /\ Range(log) \subseteq Range(log')
  BY Zenon, <1>1, <1>2, LogStep
<1>5. Typed'
  BY PTL, <1>2, <1>3, <1>4, TypedIs
<1>6. Steps' /\ Sound'
  BY Zenon, <1>1, StepsStep
<1>7. Published'
  BY Zenon, <1>1, <1>2, PublishedStep
<1>8. Ordered'
  BY Zenon, <1>1, <1>2, OrderedStep
<1>9. Once'
  BY Zenon, <1>1, OnceStep
<1>10. DeletedWasPublished'
  BY Zenon, <1>1, <1>4, DeletedStep
<1> QED
  BY Zenon, <1>5, <1>6, <1>7, <1>8, <1>9, <1>10 DEF SinksInv

\* The invariant of the sinks.
THEOREM Invariance == Spec => []SinksInv
<1>1. SinksAssumption /\ Init => SinksInv
  BY SinksInit
<1>2. SinksAssumption /\ SinksInv /\ [Next]_vars => SinksInv'
  BY SinksStep
<1> QED
  BY <1>1, <1>2, SinksAssumption, PTL DEF Spec

\* Types; a batch that is remembered names tasks the server has.
THEOREM TypeCorrect == Spec => []TypeOK
<1>1. SinksInv => TypeOK
  BY Zenon DEF SinksInv, Typed
<1> QED
  BY <1>1, Invariance, PTL

\* A row of the outbox table is gone only if its message was published,
\* wherever the process fails or stops between the two (outbox sink).
THEOREM NoMessageLost == Spec => []DeletedWasPublished
<1>1. SinksInv => DeletedWasPublished
  BY Zenon DEF SinksInv
<1> QED
  BY <1>1, Invariance, PTL

\* What a publishing sink accepted, and what the slot moved past, was published
\* or is parked, through partial pipelines, lost answers, replays and restarts.
THEOREM AcceptedPublished == Spec => []AcceptedIsPublished
<1>1. SinksInv => AcceptedIsPublished
  <2> SUFFICES ASSUME SinksInv, sink \in Publishers, NEW p \in 1..Len(stream),
                      p <= done \/ p <= confirmed, Passes(p)
               PROVE  p \in Range(log) \cup parked
    BY Zenon DEF AcceptedIsPublished
  <2>1. Places /\ Published
    BY Zenon, TypedIs DEF SinksInv
  <2>2. p \in 1..Accepted
    BY <2>1 DEF Places, Accepted
  <2> QED
    BY Zenon, <2>1, <2>2 DEF Published
<1> QED
  BY <1>1, Invariance, PTL

\* Once the sink caught up, the latest copies are in the order of the stream:
\* a retry sends the batch again from its first unaccepted event.
THEOREM LatestOrdered == Spec => []LatestInOrder
<1>1. SinksInv => LatestInOrder
  <2> SUFFICES ASSUME SinksInv, sink \in Publishers \ {"nats"}, CaughtUp,
                      NEW p \in Range(log), NEW q \in Range(log), p < q
               PROVE  After(log, p, q)
    BY Zenon DEF LatestInOrder, After
  <2>1. Places /\ Log /\ Ordered
    BY Zenon, TypedIs DEF SinksInv
  <2>2. q \in 1..reached /\ done >= reached /\ pc = "idle"
    BY <2>1 DEF Log, CaughtUp
  <2>3. q <= Accepted
    BY <2>1, <2>2 DEF Places, Accepted
  <2> QED
    BY Zenon, <2>1, <2>3 DEF Ordered
<1> QED
  BY <1>1, Invariance, PTL

\* While the duplicate window lasts JetStream holds every event at most once,
\* however windows fail, batches are retried and the stream is replayed.
THEOREM OnceStored == Spec => []StoredOnce
<1>1. SinksInv => StoredOnce
  BY Zenon DEF SinksInv, Once, StoredOnce
<1> QED
  BY <1>1, Invariance, PTL
=============================================================================
