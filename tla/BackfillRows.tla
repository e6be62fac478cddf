---------------------------- MODULE BackfillRows ----------------------------
(***************************************************************************)
(* The rows, when the application inserts, updates and deletes: a row the  *)
(* sinks have stays right there, or a change of it is still to come from   *)
(* the WAL, and the rows a chunk holds are superseded by no change the     *)
(* stream has read.                                                        *)
(***************************************************************************)
EXTENDS BackfillMarks

-----------------------------------------------------------------------------
(* Writes in the WAL and the position everything before which the sinks    *)
(* have.                                                                   *)

WriteAfter(s, k, p) == \E q \in DOMAIN s : q > p /\ s[q].t = "write" /\ s[q].k = k

Base == IF owner = None THEN slot ELSE IF out = <<>> THEN cur ELSE out[1].pos - 1

\* The sinks have the row, or a change of it that is to come.
Good(k) == sink[k] = table[k] \/ WriteAfter(wal, k, Base)

OnlyWrites == \A p \in DOMAIN wal : wal[p].t \in {"write", "low", "high"}

\* A row is what the last change of it wrote.
LastWrite ==
  \A p \in DOMAIN wal :
    wal[p].t = "write" /\ ~WriteAfter(wal, wal[p].k, p) => table[wal[p].k] = wal[p].v

\* The queue: positions in order, every write between the base and the
\* stream's position, rows that are those of the table or superseded later.
Positions(u, c) ==
  \A i \in DOMAIN u : u[i].pos <= c /\ \A j \in DOMAIN u : i < j => u[i].pos < u[j].pos
Queued(s, u, b, c) ==
  \A p \in DOMAIN s : b < p /\ p <= c /\ s[p].t = "write" => \E i \in DOMAIN u : u[i].pos = p
RowsFrom(s, T, R, p) == \A k \in DOMAIN R : R[k] = T[k] \/ WriteAfter(s, k, p)
Entry(s, T, e) ==
  \/ /\ e.d.t = "rows" /\ e.pos \in MarkAt(s, "high", e.d.id)
     /\ RowsFrom(s, T, e.d.rows, e.pos)
  \/ e.d.t = "write" /\ e.d = s[e.pos]
Entries(s, T, u) == \A i \in DOMAIN u : Entry(s, T, u[i])
QueueInv ==
  /\ owner = None => out = <<>>
  /\ owner # None => 0 <= slot /\ slot <= Base
  /\ Positions(out, cur) /\ Entries(wal, table, out)
  /\ owner # None => Queued(wal, out, Base, cur)

\* A change of the key was committed.
Written(s, k) == \E p \in DOMAIN s : s[p].t = "write" /\ s[p].k = k
KeysInv ==
  \A k \in Keys : (Written(wal, k) => Good(k)) /\ (Good(k) \/ sink[k] = 0)

StreamInv == OnlyWrites /\ LastWrite /\ QueueInv /\ KeysInv

\* The base is a position.
LEMMA BaseTyped ==
  ASSUME TypeOK
  PROVE  /\ Base \in -1..Len(wal) /\ slot \in -1..Len(wal) /\ cur \in 0..Len(wal)
         /\ Len(wal) \in Nat /\ DOMAIN wal = 1..Len(wal)
         /\ out \in Seq([pos : 1..Len(wal), d : Delivery])
         /\ \A i \in DOMAIN out : out[i].pos \in 1..Len(wal) /\ i \in Nat \ {0}
<1>1. /\ slot \in -1..Len(wal) /\ cur \in 0..Len(wal)
      /\ out \in Seq([pos : 1..Len(wal), d : Delivery])
  BY Zenon DEF TypeOK
<1>2. /\ Len(wal) \in Nat /\ DOMAIN wal = 1..Len(wal)
      /\ Len(out) \in Nat /\ DOMAIN out = 1..Len(out)
      /\ \A i \in DOMAIN out : out[i].pos \in DOMAIN wal
  BY Zenon, WALTyped
<1>3. out # <<>> => 1 \in DOMAIN out
  BY <1>1, <1>2
<1>4. \A i \in DOMAIN out : out[i].pos \in 1..Len(wal) /\ i \in Nat \ {0}
  BY <1>2
<1>5. CASE owner = None
  <2>1. Base = slot
    BY Zenon, <1>5 DEF Base
  <2> QED
    BY Zenon, <1>1, <1>2, <1>4, <2>1
<1>6. CASE owner # None /\ out = <<>>
  <2>1. Base = cur
    BY Zenon, <1>6 DEF Base
  <2>2. cur \in -1..Len(wal)
    BY <1>1, <1>2
  <2> QED
    BY Zenon, <1>1, <1>2, <1>4, <2>1, <2>2
<1>7. CASE owner # None /\ out # <<>>
  <2>1. Base = out[1].pos - 1
    BY Zenon, <1>7 DEF Base
  <2>2. out[1].pos \in 1..Len(wal)
    BY Zenon, <1>3, <1>4, <1>7
  <2>3. Base \in -1..Len(wal)
    BY <1>2, <2>1, <2>2
  <2> QED
    BY Zenon, <1>1, <1>2, <1>4, <2>3
<1> QED
  BY Zenon, <1>5, <1>6, <1>7

\* What an application's change is here.
LEMMA ChangeWrites ==
  ASSUME BackfillAssumption, TypeOK, Ops \subseteq {"write"}, Change
  PROVE  \E r \in WALRecord :
           /\ r.t = "write" /\ r.k \in Keys
           /\ wal' = Append(wal, r) /\ table' = [table EXCEPT ![r.k] = r.v]
<1>1. PICK r \in WALRecord :
           /\ r.t \in Ops /\ wal' = Append(wal, r) /\ table' = Apply(table, r)
  BY Zenon, ChangeEffect
<1>2. r.t = "write"
  BY Zenon, <1>1
<1>3. r.k \in Keys
  BY <1>2 DEF WALRecord
<1>4. table' = [table EXCEPT ![r.k] = r.v]
  BY Zenon, <1>1, <1>2 DEF Apply
<1> QED
  BY Zenon, <1>1, <1>2, <1>3, <1>4

\* The WAL stays, or grows by a mark, or by a write of key k.
Grows(r) ==
  /\ DOMAIN wal' = DOMAIN wal \cup {Len(wal) + 1}
  /\ \A p \in DOMAIN wal : wal'[p] = wal[p]
  /\ wal'[Len(wal) + 1] = r /\ Len(wal) + 1 \notin DOMAIN wal

\* Writes stay after a position.
LEMMA WriteKept ==
  ASSUME NEW k, NEW p, WriteAfter(wal, k, p), wal' = wal \/ \E r : Grows(r)
  PROVE  WriteAfter(wal', k, p)
<1>1. CASE wal' = wal
  BY Zenon, <1>1
<1>2. CASE \E r : Grows(r)
  BY Zenon, <1>2 DEF WriteAfter, Grows
<1> QED
  BY Zenon, <1>1, <1>2

\* Rows of a delivery are rows of the table.
LEMMA RowsTyped ==
  ASSUME NEW R \in Rows
  PROVE  DOMAIN R \subseteq Keys /\ R \in [DOMAIN R -> Values]
<1>1. PICK K \in SUBSET Keys : R \in [K -> Values]
  BY Zenon DEF Rows
<1>2. DOMAIN R = K
  BY Zenon, <1>1
<1> QED
  BY Zenon, <1>1, <1>2

\* The rows of an entry of the queue.
LEMMA EntryRows ==
  ASSUME TypeOK, NEW i \in DOMAIN out, out[i].d.t = "rows"
  PROVE  /\ out[i].d.id \in ChunkId /\ DOMAIN out[i].d.rows \subseteq Keys
<1>1. out[i].d \in Delivery
  BY Zenon, WALTyped
<1>2. out[i].d.rows \in Rows /\ out[i].d.id \in ChunkId
  BY <1>1 DEF Delivery, WALRecord
<1> QED
  BY Zenon, <1>2, RowsTyped

\* Something is appended to the WAL: a change of the table, or a mark.
Extends(r) ==
  /\ Grows(r) /\ UNCHANGED <<slot, owner, cur, out, sink>>
  /\ \/ r.t \in Kinds /\ table' = table
     \/ r.t = "write" /\ r.k \in Keys /\ table' = [table EXCEPT ![r.k] = r.v]

\* The table is as before but for the row written.
LEMMA ExtendsTable ==
  ASSUME TypeOK, NEW r, Extends(r), NEW k \in Keys
  PROVE  /\ r.t = "write" /\ r.k = k => \A p \in -1..Len(wal) : WriteAfter(wal', k, p)
         /\ ~(r.t = "write" /\ r.k = k) => table'[k] = table[k]
<1>1. table \in [Keys -> Values] /\ Len(wal) \in Nat
  BY Zenon, BaseTyped DEF TypeOK
<1>2. Grows(r) /\ (r.t \in Kinds \/ r.t = "write")
  BY Zenon DEF Extends
<1>3. ASSUME r.t = "write", r.k = k, NEW p \in -1..Len(wal)
      PROVE  WriteAfter(wal', k, p)
  <2>1. Len(wal) + 1 > p
    BY <1>1
  <2> QED
    BY Zenon, <1>2, <1>3, <2>1 DEF WriteAfter, Grows
<1>4. ASSUME ~(r.t = "write" /\ r.k = k)
      PROVE  table'[k] = table[k]
  BY <1>1, <1>4 DEF Extends
<1> QED
  BY Zenon, <1>3, <1>4

\* What was right stays right, or its change is on the way.
LEMMA ExtendsGood ==
  ASSUME TypeOK, NEW r, Extends(r), NEW k \in Keys
  PROVE  /\ Base' = Base
         /\ Good(k) => Good(k)'
         /\ r.t = "write" /\ r.k = k => Good(k)'
<1>1. Base' = Base
  BY Zenon DEF Base, Extends
<1>2. Base \in -1..Len(wal)
  BY Zenon, BaseTyped
<1>3. ASSUME r.t = "write", r.k = k PROVE Good(k)'
  BY Zenon, <1>1, <1>2, <1>3, ExtendsTable DEF Good
<1>4. ASSUME Good(k), ~(r.t = "write" /\ r.k = k) PROVE Good(k)'
  <2>1. table'[k] = table[k] /\ sink' = sink
    BY ZenonT(40), <1>4, ExtendsTable DEF Extends
  <2>2. ASSUME WriteAfter(wal, k, Base) PROVE WriteAfter(wal', k, Base')
    BY Zenon, <1>1, <2>2, WriteKept DEF Extends
  <2> QED
    BY ZenonT(40), <1>4, <2>1, <2>2 DEF Good
<1> QED
  BY Zenon, <1>1, <1>3, <1>4

\* A record at the end of the WAL disturbs nothing the stream still has to hand
\* to the sinks.
LEMMA ExtendsStream ==
  ASSUME TypeOK, StreamInv, NEW r, Extends(r)
  PROVE  StreamInv'
<1>0. /\ OnlyWrites /\ LastWrite /\ QueueInv /\ KeysInv
      /\ Grows(r) /\ UNCHANGED <<slot, owner, cur, out, sink>>
      /\ r.t \in Kinds \/ r.t = "write"
  BY Zenon DEF StreamInv, Extends
<1>1. /\ Base \in -1..Len(wal) /\ cur \in 0..Len(wal) /\ Len(wal) \in Nat /\ DOMAIN wal = 1..Len(wal)
      /\ \A i \in DOMAIN out : out[i].pos \in 1..Len(wal)
      /\ table \in [Keys -> Values] /\ \A p \in DOMAIN wal : wal[p] \in WALRecord
  BY Zenon, BaseTyped, WALTyped DEF TypeOK
<1>2. Base' = Base
  BY Zenon, <1>0 DEF Base
<1>3. OnlyWrites'
  <2>1. r.t \in {"write", "low", "high"}
    BY Zenon, <1>0 DEF Kinds
  <2> QED
    BY Zenon, <1>0, <2>1 DEF OnlyWrites, Grows
<1>4. LastWrite'
  <2> SUFFICES ASSUME NEW p \in DOMAIN wal', wal'[p].t = "write", ~WriteAfter(wal', wal'[p].k, p)
               PROVE  table'[wal'[p].k] = wal'[p].v
    BY Zenon DEF LastWrite
  <2>1. CASE p \in DOMAIN wal
    <3> DEFINE k == wal[p].k
    <3>1. wal'[p] = wal[p] /\ wal[p] \in WALRecord
      BY Zenon, <1>0, <1>1, <2>1 DEF Grows
    <3>2. k \in Keys
      BY <3>1 DEF WALRecord
    <3>3. p \in -1..Len(wal)
      BY <1>1, <2>1
    <3> HIDE DEF k
    <3>4. ~(r.t = "write" /\ r.k = k) /\ table'[k] = table[k]
      BY Zenon, <3>1, <3>2, <3>3, ExtendsTable DEF k
    <3>5. ~WriteAfter(wal, k, p)
      BY ZenonT(40), <1>0, <3>1, WriteKept DEF k
    <3> QED
      BY Zenon, <1>0, <2>1, <3>1, <3>4, <3>5 DEF LastWrite, k
  <2>2. CASE p = Len(wal) + 1
    <3>1. wal'[p] = r
      BY Zenon, <1>0, <2>2 DEF Grows
    <3>2. r.t = "write" /\ r.t \notin Kinds
      BY <3>1 DEF Kinds
    <3>3. r.k \in Keys /\ table' = [table EXCEPT ![r.k] = r.v]
      BY Zenon, <3>2 DEF Extends
    <3> QED
      BY Zenon, <1>1, <3>1, <3>3
  <2> QED
    BY Zenon, <1>0, <2>1, <2>2 DEF Grows
<1>5. Entries(wal', table', out)
  <2> SUFFICES ASSUME NEW i \in DOMAIN out PROVE Entry(wal', table', out[i])
    BY Zenon DEF Entries
  <2> DEFINE e == out[i]
  <2>1. e.pos \in DOMAIN wal /\ e.pos \in -1..Len(wal)
    BY <1>1
  <2>2. wal'[e.pos] = wal[e.pos] /\ e.pos \in DOMAIN wal'
    BY Zenon, <1>0, <2>1 DEF Grows
  <2>3. CASE e.d.t = "write" /\ e.d = wal[e.pos]
    BY Zenon, <2>2, <2>3 DEF Entry
  <2>4. CASE /\ e.d.t = "rows" /\ e.pos \in MarkAt(wal, "high", e.d.id)
             /\ RowsFrom(wal, table, e.d.rows, e.pos)
    <3>1. e.pos \in MarkAt(wal', "high", e.d.id)
      BY Zenon, <2>2, <2>4 DEF MarkAt
    <3>2. ASSUME NEW k \in DOMAIN e.d.rows
          PROVE  e.d.rows[k] = table'[k] \/ WriteAfter(wal', k, e.pos)
      <4>1. k \in Keys
        BY Zenon, <2>4, EntryRows
      <4>2. CASE r.t = "write" /\ r.k = k
        BY Zenon, <2>1, <4>1, <4>2, ExtendsTable
      <4>3. CASE ~(r.t = "write" /\ r.k = k)
        <5>1. table'[k] = table[k]
          BY ZenonT(40), <4>1, <4>3, ExtendsTable
        <5>2. e.d.rows[k] = table[k] \/ WriteAfter(wal, k, e.pos)
          BY ZenonT(40), <2>4 DEF RowsFrom
        <5>3. WriteAfter(wal, k, e.pos) => WriteAfter(wal', k, e.pos)
          BY Zenon, <1>0, WriteKept
        <5> QED
          BY ZenonT(40), <5>1, <5>2, <5>3
      <4> QED
        BY Zenon, <4>2, <4>3
    <3> QED
      BY Zenon, <2>4, <3>1, <3>2 DEF Entry, RowsFrom
  <2>5. Entry(wal, table, e)
    BY Zenon, <1>0 DEF QueueInv, Entries
  <2> QED
    BY Zenon, <2>3, <2>4, <2>5 DEF Entry
<1>6. ASSUME owner # None PROVE Queued(wal', out, Base, cur)
  <2> SUFFICES ASSUME NEW p \in DOMAIN wal', Base < p, p <= cur, wal'[p].t = "write"
               PROVE  \E i \in DOMAIN out : out[i].pos = p
    BY Zenon DEF Queued
  <2>1. p # Len(wal) + 1
    BY <1>1
  <2>2. p \in DOMAIN wal /\ wal'[p] = wal[p]
    BY ZenonT(40), <1>0, <2>1 DEF Grows
  <2> QED
    BY Zenon, <1>0, <1>6, <2>2 DEF QueueInv, Queued
<1>7. QueueInv'
  BY ZenonT(40), <1>0, <1>2, <1>5, <1>6 DEF QueueInv
<1>8. KeysInv'
  <2> SUFFICES ASSUME NEW k \in Keys
               PROVE  (Written(wal', k) => Good(k)') /\ (Good(k)' \/ sink'[k] = 0)
    BY Zenon DEF KeysInv
  <2>1. (Written(wal, k) => Good(k)) /\ (Good(k) \/ sink[k] = 0)
    BY Zenon, <1>0 DEF KeysInv
  <2>2. (Good(k) => Good(k)') /\ (r.t = "write" /\ r.k = k => Good(k)')
    BY Zenon, ExtendsGood
  <2>3. Written(wal', k) => Written(wal, k) \/ (r.t = "write" /\ r.k = k)
    BY Zenon, <1>0 DEF Written, Grows
  <2> QED
    BY Zenon, <1>0, <2>1, <2>2, <2>3
<1> QED
  BY Zenon, <1>3, <1>4, <1>7, <1>8 DEF StreamInv

\* The sinks, the table and the WAL stay; the base passes no write.
LEMMA MovesStream ==
  ASSUME StreamInv, UNCHANGED <<wal, table, sink>>, QueueInv',
         \A q \in DOMAIN wal : wal[q].t = "write" /\ q > Base => q > Base'
  PROVE  StreamInv' /\ \A k \in Keys : Good(k) => Good(k)'
<1>1. \A k : WriteAfter(wal, k, Base) => WriteAfter(wal', k, Base')
  BY Zenon DEF WriteAfter
<1>2. \A k : Good(k) => Good(k)'
  BY Zenon, <1>1 DEF Good
<1>3. OnlyWrites' /\ LastWrite'
  BY Zenon DEF StreamInv, OnlyWrites, LastWrite
<1>4. KeysInv'
  <2> SUFFICES ASSUME NEW k \in Keys
               PROVE  (Written(wal', k) => Good(k)') /\ (Good(k)' \/ sink'[k] = 0)
    BY Zenon DEF KeysInv
  <2>1. (Written(wal, k) => Good(k)) /\ (Good(k) \/ sink[k] = 0)
    BY Zenon DEF StreamInv, KeysInv
  <2> QED
    BY Zenon, <1>2, <2>1
<1> QED
  BY Zenon, <1>2, <1>3, <1>4 DEF StreamInv

\* Nothing of it moves.
LEMMA QuietStream ==
  ASSUME StreamInv, Quiet
  PROVE  StreamInv' /\ \A k \in Keys : Good(k) => Good(k)'
<1>1. /\ wal' = wal /\ table' = table /\ slot' = slot /\ owner' = owner /\ cur' = cur
      /\ out' = out /\ sink' = sink
  BY Zenon DEF Quiet, dbVars, streamVars
<1>2. Base' = Base
  BY Zenon, <1>1 DEF Base
<1>3. QueueInv'
  BY Zenon, <1>1, <1>2 DEF StreamInv, QueueInv
<1> QED
  BY Zenon, <1>1, <1>2, <1>3, MovesStream

\* The stream starts at the slot, or is torn down and falls back to it.
LEMMA TurnsStream ==
  ASSUME BackfillAssumption, TypeOK, StreamInv, NEW n \in Nodes,
         StreamStarts(n) \/ StreamStops(n) \/ Crash(n)
  PROVE  StreamInv' /\ \A k \in Keys : Good(k) => Good(k)'
<1>1. /\ Base \in -1..Len(wal) /\ slot \in -1..Len(wal) /\ Len(wal) \in Nat
      /\ DOMAIN wal = 1..Len(wal)
  BY Zenon, BaseTyped
<1>2. QueueInv /\ n # None
  BY Zenon DEF StreamInv, BackfillAssumption
<1>3. DOMAIN <<>> = {}
  BY NoRows
<1>4. \A c : Positions(<<>>, c) /\ Entries(wal, table, <<>>)
  BY Zenon, <1>3 DEF Positions, Entries
<1>5. CASE StreamStarts(n)
  <2>1. /\ UNCHANGED <<table, wal, sink>> /\ owner = None /\ owner' = n /\ out' = <<>>
        /\ slot' = (IF slot < 0 THEN 0 ELSE slot) /\ cur' = slot'
    BY Zenon, <1>5, TurnsEffect
  <2>2. Base = slot /\ Base' = slot'
    BY ZenonT(40), <1>2, <2>1 DEF Base
  <2>3. slot' \in Nat /\ 0 <= slot' /\ slot' <= slot' /\ \A q \in DOMAIN wal : q > slot => q > slot'
    BY <1>1, <2>1
  <2>4. \A p \in DOMAIN wal : ~(slot' < p /\ p <= slot')
    BY SMTT(30), <1>1, <2>3
  <2>5. QueueInv'
    BY Zenon, <1>2, <1>4, <2>1, <2>2, <2>3, <2>4 DEF QueueInv, Queued
  <2> QED
    BY ZenonT(40), <2>1, <2>2, <2>3, <2>5, MovesStream
<1>6. ASSUME UNCHANGED <<table, wal, slot, sink>>, owner # None, owner' = None, out' = <<>>
      PROVE  StreamInv' /\ \A k \in Keys : Good(k) => Good(k)'
  <2>1. Base' = slot /\ slot <= Base
    BY Zenon, <1>2, <1>6 DEF Base, QueueInv
  <2>2. \A q \in DOMAIN wal : q > Base => q > slot
    BY <1>1, <2>1
  <2>3. QueueInv'
    BY Zenon, <1>4, <1>6 DEF QueueInv
  <2> QED
    BY Zenon, <1>6, <2>1, <2>2, <2>3, MovesStream
<1>7. CASE StreamStops(n)
  BY Zenon, <1>2, <1>6, <1>7, TurnsEffect DEF StreamStops, dbVars
<1>8. CASE Crash(n)
  <2>1. /\ UNCHANGED <<table, wal, slot, cur, sink>>
        /\ \/ owner = n /\ owner' = None /\ out' = <<>>
           \/ UNCHANGED <<owner, out>>
    BY Zenon, <1>8, TurnsEffect DEF dbVars
  <2>2. CASE owner = n /\ owner' = None /\ out' = <<>>
    BY Zenon, <1>2, <1>6, <2>1, <2>2
  <2>3. CASE UNCHANGED <<owner, out>>
    BY Zenon, <2>1, <2>3, QuietStream DEF Quiet, dbVars, streamVars
  <2> QED
    BY Zenon, <2>1, <2>2, <2>3
<1> QED
  BY Zenon, <1>5, <1>7, <1>8

\* The record at the next position is queued.
LEMMA QueuedStream ==
  ASSUME BackfillAssumption, TypeOK, StreamInv, owner # None, cur + 1 \in DOMAIN wal,
         UNCHANGED <<wal, table, sink, owner, slot>>, cur' = cur + 1,
         NEW e, e \in [pos : 1..Len(wal), d : Delivery], e.pos = cur + 1,
         Entry(wal, table, e), out' = Append(out, e)
  PROVE  StreamInv' /\ \A k \in Keys : Good(k) => Good(k)'
<1>1. /\ Base \in -1..Len(wal) /\ cur \in 0..Len(wal) /\ Len(wal) \in Nat
      /\ DOMAIN wal = 1..Len(wal)
      /\ out \in Seq([pos : 1..Len(wal), d : Delivery])
      /\ \A i \in DOMAIN out : out[i].pos \in 1..Len(wal) /\ i \in Nat \ {0}
  BY Zenon, BaseTyped
<1>2. QueueInv
  BY Zenon DEF StreamInv
<1> DEFINE N == Len(out) + 1
<1>3. /\ DOMAIN out' = DOMAIN out \cup {N} /\ out' # <<>> /\ N \notin DOMAIN out
      /\ out'[N] = e /\ \A i \in DOMAIN out : out'[i] = out[i] /\ i < N
  BY SMTT(30), <1>1, AppendTo
<1>4. Len(out) \in Nat /\ DOMAIN out = 1..Len(out)
  BY Zenon, WALTyped
<1>5. (out = <<>> => N = 1) /\ (out # <<>> => 1 \in DOMAIN out) /\ \A j \in DOMAIN out : ~(N < j)
  BY SMTT(30), <1>1, <1>4
<1> HIDE DEF N
<1>6. Base' = Base
  <2>1. CASE out = <<>>
    <3>1. Base = cur /\ Base' = e.pos - 1
      BY ZenonT(40), <1>3, <1>5, <2>1 DEF Base
    <3> QED
      BY <1>1, <3>1
  <2>2. CASE out # <<>>
    BY Zenon, <1>3, <1>5, <2>2 DEF Base
  <2> QED
    BY Zenon, <2>1, <2>2
<1>7. Positions(out', cur')
  <2>1. \A i \in DOMAIN out : out[i].pos <= cur
    BY Zenon, <1>2 DEF QueueInv, Positions
  <2>2. \A i \in DOMAIN out : out[i].pos <= cur + 1 /\ out[i].pos < cur + 1
    BY SMTT(30), <1>1, <2>1
  <2>3. cur + 1 <= cur + 1
    BY <1>1
  <2>4. ASSUME NEW i \in DOMAIN out' PROVE out'[i].pos <= cur'
    BY ZenonT(40), <1>3, <2>2, <2>3
  <2>5. ASSUME NEW i \in DOMAIN out', NEW j \in DOMAIN out', i < j
        PROVE  out'[i].pos < out'[j].pos
    <3>1. i \in DOMAIN out
      <4>1. CASE i = N
        <5>1. j # N
          BY SMTT(30), <2>5, <4>1, <1>1, <1>4 DEF N
        <5> QED
          BY ZenonT(40), <1>3, <1>5, <2>5, <4>1, <5>1
      <4> QED
        BY ZenonT(40), <1>3, <4>1
    <3>2. CASE j = N
      BY ZenonT(40), <1>3, <2>2, <3>1, <3>2
    <3>3. CASE j \in DOMAIN out
      BY ZenonT(40), <1>2, <1>3, <2>5, <3>1, <3>3 DEF QueueInv, Positions
    <3> QED
      BY Zenon, <1>3, <3>2, <3>3
  <2> QED
    BY Zenon, <2>4, <2>5 DEF Positions
<1>8. Entries(wal', table', out')
  BY ZenonT(40), <1>2, <1>3 DEF QueueInv, Entries
<1>9. Queued(wal', out', Base', cur')
  <2> SUFFICES ASSUME NEW p \in DOMAIN wal, Base < p, p <= cur + 1, wal[p].t = "write"
               PROVE  \E i \in DOMAIN out' : out'[i].pos = p
    BY Zenon, <1>6 DEF Queued
  <2>1. p <= cur \/ p = cur + 1
    BY SMTT(30), <1>1
  <2>2. CASE p <= cur
    <3>1. PICK i \in DOMAIN out : out[i].pos = p
      BY Zenon, <1>2, <2>2 DEF QueueInv, Queued
    <3> QED
      BY Zenon, <1>3, <3>1
  <2>3. CASE p = cur + 1
    BY Zenon, <1>3, <2>3
  <2> QED
    BY Zenon, <2>1, <2>2, <2>3
<1>10. QueueInv'
  BY Zenon, <1>2, <1>6, <1>7, <1>8, <1>9 DEF QueueInv
<1> QED
  BY Zenon, <1>6, <1>10, MovesStream

\* ReadChange queues the change.
LEMMA ReadChangeStream ==
  ASSUME BackfillAssumption, TypeOK, StreamInv, ReadChange
  PROVE  StreamInv' /\ \A k \in Keys : Good(k) => Good(k)'
<1> DEFINE r == wal[cur + 1]
           e == [pos |-> cur + 1, d |-> r]
<1>1. /\ owner \in Nodes /\ cur + 1 \in DOMAIN wal /\ r \in WALRecord /\ r.t \notin {"low", "high"}
      /\ out' = Append(out, e) /\ cur' = cur + 1
      /\ UNCHANGED <<wal, table, slot, owner, sink>>
  BY Zenon, ReadChangeEffect DEF dbVars
<1>2. r.t = "write"
  BY Zenon, <1>1 DEF StreamInv, OnlyWrites
<1>3. DOMAIN wal = 1..Len(wal) /\ owner # None
  BY Zenon, <1>1, BaseTyped DEF BackfillAssumption
<1>4. e \in [pos : 1..Len(wal), d : Delivery] /\ e.pos = cur + 1 /\ e.d = r
  BY <1>1, <1>3 DEF Delivery
<1>5. Entry(wal, table, e)
  BY Zenon, <1>2, <1>4 DEF Entry
<1> HIDE DEF e
<1> QED
  BY Zenon, <1>1, <1>3, <1>4, <1>5, QueuedStream

\* ReadWatermark queues the rows of the chunk, if the mark ends one.
LEMMA ReadWatermarkStream ==
  ASSUME BackfillAssumption, TypeOK, StreamInv, ReadWatermark,
         \A d \in Surviving(node[owner].window, wal[cur + 1]) :
           RowsFrom(wal, table, d.rows, cur + 1)
  PROVE  StreamInv' /\ \A k \in Keys : Good(k) => Good(k)'
<1> DEFINE r == wal[cur + 1]
           w == node[owner].window
<1>1. /\ owner \in Nodes /\ cur + 1 \in DOMAIN wal /\ r \in WALRecord /\ r.t \in {"low", "high"}
      /\ \/ out' = out
         \/ \E d \in Surviving(w, r) : out' = Append(out, [pos |-> cur + 1, d |-> d])
      /\ cur' = cur + 1
      /\ UNCHANGED <<wal, table, slot, owner, sink>>
  BY Zenon, ReadWatermarkEffect DEF dbVars
<1>2. owner # None /\ QueueInv
  BY Zenon, <1>1 DEF BackfillAssumption, StreamInv
<1>3. w \in Seq(Chunk)
  BY Zenon, <1>1, NodeTyped
<1>4. /\ Base \in -1..Len(wal) /\ slot \in -1..Len(wal) /\ cur \in 0..Len(wal) /\ Len(wal) \in Nat
      /\ DOMAIN wal = 1..Len(wal)
      /\ \A i \in DOMAIN out : out[i].pos \in 1..Len(wal)
  BY Zenon, BaseTyped
<1>5. ASSUME NEW d \in Surviving(w, r), out' = Append(out, [pos |-> cur + 1, d |-> d])
      PROVE  StreamInv' /\ \A k \in Keys : Good(k) => Good(k)'
  <2> DEFINE e == [pos |-> cur + 1, d |-> d]
  <2>1. r.t = "high" /\ d.t = "rows" /\ d.id = r.id /\ d \in Delivery
    BY <1>1, <1>3, <1>5, SurvivingTyped
  <2>2. e \in [pos : 1..Len(wal), d : Delivery] /\ e.pos = cur + 1 /\ e.d = d
    BY <1>1, <1>4, <2>1
  <2>3. cur + 1 \in MarkAt(wal, "high", d.id)
    BY Zenon, <1>1, <2>1 DEF MarkAt
  <2>4. RowsFrom(wal, table, d.rows, cur + 1)
    BY Zenon, <1>5
  <2> HIDE DEF e
  <2>5. Entry(wal, table, e)
    BY Zenon, <2>1, <2>2, <2>3, <2>4 DEF Entry
  <2>6. out' = Append(out, e)
    BY Zenon, <1>5 DEF e
  <2> QED
    BY Zenon, <1>1, <1>2, <2>2, <2>5, <2>6, QueuedStream
<1>6. ASSUME out' = out
      PROVE  StreamInv' /\ \A k \in Keys : Good(k) => Good(k)'
  <2>1. r.t # "write"
    BY <1>1
  <2>2. \A q \in DOMAIN wal : wal[q].t = "write" => q # cur + 1
    BY Zenon, <2>1
  <2>3. \A q \in DOMAIN wal : wal[q].t = "write" /\ q > cur => q > cur + 1
    BY <1>4, <2>2
  <2>4. CASE out = <<>>
    <3>1. Base = cur /\ Base' = cur + 1
      BY Zenon, <1>1, <1>2, <1>6, <2>4 DEF Base
    <3>2. 0 <= slot /\ slot <= cur
      BY Zenon, <1>2, <3>1 DEF QueueInv
    <3>3. slot <= cur + 1 /\ \A p \in DOMAIN wal : ~(cur + 1 < p /\ p <= cur + 1)
      BY <1>4, <3>2
    <3>4. DOMAIN out = {}
      BY <2>4
    <3>5. Positions(out, cur + 1)
      BY Zenon, <3>4 DEF Positions
    <3>6. QueueInv'
      BY Zenon, <1>1, <1>2, <1>6, <3>1, <3>2, <3>3, <3>5 DEF QueueInv, Queued
    <3> QED
      BY Zenon, <1>1, <2>3, <3>1, <3>6, MovesStream
  <2>5. CASE out # <<>>
    <3>1. Base' = Base
      BY Zenon, <1>1, <1>2, <1>6, <2>5 DEF Base
    <3>2. \A i \in DOMAIN out : out[i].pos <= cur => out[i].pos <= cur + 1
      BY <1>4
    <3>3. Positions(out, cur + 1)
      BY Zenon, <1>2, <3>2 DEF QueueInv, Positions
    <3>4. \A p \in DOMAIN wal : p <= cur + 1 /\ p # cur + 1 => p <= cur
      BY <1>4
    <3>5. Queued(wal, out, Base, cur + 1)
      BY Zenon, <1>2, <2>2, <3>4 DEF QueueInv, Queued
    <3>6. QueueInv'
      BY Zenon, <1>1, <1>2, <1>6, <3>1, <3>3, <3>5 DEF QueueInv
    <3> QED
      BY Zenon, <1>1, <3>1, <3>6, MovesStream
  <2> QED
    BY Zenon, <2>4, <2>5
<1> QED
  BY Zenon, <1>1, <1>5, <1>6

\* Delivering moves the base behind the delivered position, and past no
\* other write.
LEMMA DeliverBase ==
  ASSUME BackfillAssumption, TypeOK, StreamInv, Deliver, NEW p, p = out[1].pos
  PROVE  /\ p \in 1..Len(wal) /\ p \in DOMAIN wal /\ Base = p - 1 /\ Base' \in 0..Len(wal) /\ p <= Base'
         /\ \A q \in DOMAIN wal : wal[q].t = "write" /\ q > p => q > Base'
         /\ (Entries(wal', table', out') => QueueInv')
<1>1. /\ owner \in Nodes /\ out # <<>> /\ 1 \in DOMAIN out
      /\ slot' \in {slot, p} /\ out' = Tail(out)
      /\ UNCHANGED <<table, wal, owner, cur>>
  BY Zenon, DeliverEffect
<1>2. /\ Base \in -1..Len(wal) /\ slot \in -1..Len(wal) /\ cur \in 0..Len(wal) /\ Len(wal) \in Nat
      /\ DOMAIN wal = 1..Len(wal)
      /\ out \in Seq([pos : 1..Len(wal), d : Delivery])
      /\ \A i \in DOMAIN out : out[i].pos \in 1..Len(wal) /\ i \in Nat \ {0}
  BY Zenon, BaseTyped
<1>3. owner # None /\ QueueInv
  BY Zenon, <1>1 DEF BackfillAssumption, StreamInv
<1>4. /\ Positions(out, cur) /\ Queued(wal, out, Base, cur) /\ 0 <= slot /\ slot <= Base
  BY Zenon, <1>3 DEF QueueInv
<1>5. Base = p - 1
  BY Zenon, <1>1, <1>3 DEF Base
<1>6. p \in 1..Len(wal) /\ p <= cur
  BY Zenon, <1>1, <1>2, <1>4 DEF Positions
<1>7. /\ Len(out') = Len(out) - 1 /\ Len(out) >= 1 /\ out' \in Seq([pos : 1..Len(wal), d : Delivery])
      /\ \A i \in DOMAIN out' : out'[i] = out[i + 1] /\ i + 1 \in DOMAIN out
  BY <1>1, <1>2, TailOf
<1>8. Len(out) \in Nat /\ DOMAIN out = 1..Len(out) /\ DOMAIN out' = 1..Len(out')
  BY <1>7, WALTyped
<1>9. \A i, j \in DOMAIN out : i < j => out[i].pos < out[j].pos
  BY Zenon, <1>4 DEF Positions
<1>10. \A i \in DOMAIN out : i # 1 => p < out[i].pos
  <2>1. \A i \in DOMAIN out : i # 1 => 1 < i
    BY <1>8
  <2> QED
    BY Zenon, <1>1, <1>9, <2>1
<1>11. /\ Base' \in 0..Len(wal) /\ p <= Base'
       /\ \A q \in DOMAIN wal : wal[q].t = "write" /\ q > p => q > Base'
       /\ Base' <= cur
  <2>1. CASE out' = <<>>
    <3>1. Base' = cur
      BY Zenon, <1>1, <1>3, <2>1 DEF Base
    <3>2. DOMAIN out = {1}
      BY <1>7, <1>8, <2>1
    <3>3. ASSUME NEW q \in DOMAIN wal, wal[q].t = "write", q > p PROVE ~(q <= cur)
      <4>1. SUFFICES ASSUME q <= cur PROVE FALSE
        BY Zenon
      <4>2. Base < q /\ q # p
        BY SMTT(30), <1>2, <1>5, <1>6, <3>3
      <4>3. PICK i \in DOMAIN out : out[i].pos = q
        BY Zenon, <1>4, <3>3, <4>1, <4>2 DEF Queued
      <4> QED
        BY Zenon, <3>2, <4>2, <4>3
    <3>4. \A q \in DOMAIN wal : ~(q <= cur) => q > cur
      BY <1>2
    <3>5. cur <= cur
      BY <1>2
    <3> QED
      BY Zenon, <1>2, <1>6, <3>1, <3>3, <3>4, <3>5
  <2>2. CASE out' # <<>>
    <3> DEFINE b == out[2].pos
    <3>1. 2 \in DOMAIN out /\ out'[1] = out[2]
      <4>1. Len(out') # 0
        BY <1>7, <2>2
      <4>2. 1 \in DOMAIN out' /\ 1 + 1 = 2
        BY <1>7, <1>8, <4>1
      <4> QED
        BY Zenon, <1>7, <4>2
    <3>2. Base' = b - 1
      BY Zenon, <1>1, <1>3, <2>2, <3>1 DEF Base
    <3>3. b \in 1..Len(wal) /\ p < b /\ b <= cur
      <4>1. 2 # 1
        OBVIOUS
      <4> QED
        BY Zenon, <1>2, <1>4, <1>10, <3>1, <4>1 DEF Positions
    <3>4. ASSUME NEW q \in DOMAIN wal, wal[q].t = "write", q > p PROVE ~(q < b)
      <4>1. SUFFICES ASSUME q < b PROVE FALSE
        BY Zenon
      <4>2. Base < q /\ q # p /\ q <= cur
        <5> HIDE DEF b
        <5>1. b \in 1..Len(wal) /\ b <= cur /\ q < b /\ q > p
          BY Zenon, <3>3, <3>4, <4>1
        <5> QED
          BY SMTT(30), <1>2, <1>5, <1>6, <5>1
      <4>3. PICK i \in DOMAIN out : out[i].pos = q
        BY Zenon, <1>4, <3>4, <4>2 DEF Queued
      <4>4. i # 1 /\ i # 2
        <5>1. b # q
          BY SMTT(30), <3>3, <4>1, <1>2
        <5> QED
          BY Zenon, <4>2, <4>3, <5>1
      <4>5. 2 < i
        BY <1>8, <4>4
      <4>6. b < q
        BY Zenon, <1>9, <3>1, <4>3, <4>5
      <4> QED
        BY SMTT(30), <1>2, <3>3, <4>1, <4>6
    <3> HIDE DEF b
    <3>5. \A q \in DOMAIN wal : ~(q < b) => q > b - 1
      BY <1>2, <3>3
    <3>6. b - 1 \in 0..Len(wal) /\ p <= b - 1 /\ b - 1 <= cur
      BY SMTT(30), <1>2, <1>6, <3>3
    <3> QED
      BY Zenon, <3>2, <3>4, <3>5, <3>6
  <2> QED
    BY Zenon, <2>1, <2>2
<1>12. ASSUME Entries(wal', table', out') PROVE QueueInv'
  <2>1. 0 <= slot' /\ slot' <= Base'
    BY SMTT(30), <1>1, <1>2, <1>4, <1>5, <1>6, <1>11
  <2>2. Positions(out', cur')
    <3>1. \A i \in DOMAIN out' : out'[i].pos <= cur
      BY Zenon, <1>4, <1>7 DEF Positions
    <3>2. \A i, j \in DOMAIN out' : i < j => i + 1 < j + 1
      BY <1>8
    <3>3. \A i, j \in DOMAIN out' : i < j => out'[i].pos < out'[j].pos
      BY Zenon, <1>7, <1>9, <3>2
    <3> QED
      BY Zenon, <1>1, <3>1, <3>3 DEF Positions
  <2>3. Queued(wal', out', Base', cur')
    <3> SUFFICES ASSUME NEW q \in DOMAIN wal, Base' < q, q <= cur, wal[q].t = "write"
                 PROVE  \E i \in DOMAIN out' : out'[i].pos = q
      BY Zenon, <1>1 DEF Queued
    <3>1. Base < q /\ q # p
      BY SMTT(30), <1>2, <1>5, <1>6, <1>11
    <3>2. PICK i \in DOMAIN out : out[i].pos = q
      BY Zenon, <1>4, <3>1 DEF Queued
    <3>3. i # 1
      BY Zenon, <3>1, <3>2
    <3>4. i - 1 \in DOMAIN out' /\ (i - 1) + 1 = i
      BY <1>7, <1>8, <3>3
    <3> QED
      BY Zenon, <1>7, <3>2, <3>4
  <2> QED
    BY Zenon, <1>1, <1>3, <1>12, <2>1, <2>2, <2>3 DEF QueueInv
<1>13. p \in DOMAIN wal
  BY Zenon, <1>2, <1>6
<1> QED
  BY Zenon, <1>5, <1>6, <1>11, <1>12, <1>13

\* The sinks apply the delivery: its keys are right then, or a change of them
\* is still to come.
LEMMA DeliverStream ==
  ASSUME BackfillAssumption, TypeOK, StreamInv, Deliver, NEW d, d = out[1].d
  PROVE  /\ StreamInv' /\ \A k \in Keys : Good(k) => Good(k)'
         /\ d.t = "rows" => \A k \in DOMAIN d.rows : Good(k)'
<1> DEFINE p == out[1].pos
           Hits(k) == IF d.t = "rows" THEN k \in DOMAIN d.rows ELSE k = d.k
<1>1. /\ owner \in Nodes /\ out # <<>> /\ 1 \in DOMAIN out /\ d \in Delivery
      /\ sink' = Apply(sink, d) /\ out' = Tail(out)
      /\ UNCHANGED <<table, wal, owner, cur>>
  BY Zenon, DeliverEffect
<1>2. /\ p \in 1..Len(wal) /\ p \in DOMAIN wal /\ Base = p - 1 /\ Base' \in 0..Len(wal) /\ p <= Base'
      /\ \A q \in DOMAIN wal : wal[q].t = "write" /\ q > p => q > Base'
      /\ (Entries(wal', table', out') => QueueInv')
  BY Zenon, DeliverBase
<1>3. /\ out \in Seq([pos : 1..Len(wal), d : Delivery])
      /\ Len(wal) \in Nat /\ DOMAIN wal = 1..Len(wal)
  BY Zenon, BaseTyped
<1>4. Entries(wal, table, out)
  BY Zenon DEF StreamInv, QueueInv
<1>5. Entry(wal, table, out[1])
  BY Zenon, <1>1, <1>4 DEF Entries
<1>6. QueueInv'
  <2>1. \A i \in DOMAIN out' : out'[i] = out[i + 1] /\ i + 1 \in DOMAIN out
    BY SMTT(30), <1>1, <1>3, TailOf
  <2>2. Entries(wal', table', out')
    BY Zenon, <1>1, <1>4, <2>1 DEF Entries
  <2> QED
    BY Zenon, <1>2, <2>2
<1>7. \A k : WriteAfter(wal, k, p) => WriteAfter(wal', k, Base')
  BY Zenon, <1>1, <1>2 DEF WriteAfter
<1>8. sink \in [Keys -> Values] /\ table \in [Keys -> Values]
  BY Zenon DEF TypeOK
<1>9. ASSUME NEW k \in Keys, Hits(k) PROVE Good(k)'
  <2>1. CASE d.t = "rows"
    <3>1. k \in DOMAIN d.rows /\ RowsFrom(wal, table, d.rows, p)
      <4>1. d.t # "write"
        BY <2>1
      <4> QED
        BY Zenon, <1>5, <1>9, <2>1, <4>1 DEF Entry
    <3>2. d.rows[k] = table[k] \/ WriteAfter(wal, k, p)
      BY Zenon, <3>1 DEF RowsFrom
    <3>3. Apply(sink, d) = [j \in Keys |-> IF j \in DOMAIN d.rows THEN d.rows[j] ELSE sink[j]]
      BY <2>1 DEF Apply
    <3>4. sink'[k] = d.rows[k]
      BY Zenon, <1>1, <3>1, <3>3
    <3> QED
      BY Zenon, <1>1, <1>7, <3>2, <3>4 DEF Good
  <2>2. CASE d.t # "rows"
    <3>1. k = d.k /\ d.t = "write" /\ d = wal[p]
      BY Zenon, <1>5, <1>9, <2>2 DEF Entry
    <3>2. WriteAfter(wal, k, p) \/ table[k] = d.v
      BY Zenon, <1>2, <3>1 DEF StreamInv, LastWrite
    <3>3. sink' = [sink EXCEPT ![d.k] = d.v]
      BY Zenon, <1>1, <3>1 DEF Apply
    <3>4. sink'[k] = d.v
      BY Zenon, <1>8, <3>1, <3>3
    <3> QED
      BY ZenonT(40), <1>1, <1>7, <3>2, <3>4 DEF Good
  <2> QED
    BY Zenon, <2>1, <2>2
<1>10. ASSUME NEW k \in Keys, ~Hits(k) PROVE sink'[k] = sink[k] /\ (Good(k) => Good(k)')
  <2>1. sink'[k] = sink[k] /\ ~(wal[p].t = "write" /\ wal[p].k = k)
    <3>1. CASE d.t = "rows"
      <4>1. d.t # "write"
        BY <3>1
      <4>2. p \in MarkAt(wal, "high", d.id)
        BY Zenon, <1>5, <4>1 DEF Entry
      <4>3. wal[p].t = "high"
        BY Zenon, <4>2 DEF MarkAt
      <4>4. wal[p].t # "write"
        BY <4>3
      <4>5. Apply(sink, d) = [j \in Keys |-> IF j \in DOMAIN d.rows THEN d.rows[j] ELSE sink[j]]
        BY <3>1 DEF Apply
      <4>6. k \notin DOMAIN d.rows
        BY Zenon, <1>10, <3>1
      <4>7. sink'[k] = sink[k]
        BY Zenon, <1>1, <4>5, <4>6
      <4> QED
        BY Zenon, <4>4, <4>7
    <3>2. CASE d.t # "rows"
      <4>1. k # d.k /\ d.t = "write" /\ d = wal[p]
        BY Zenon, <1>5, <1>10, <3>2 DEF Entry
      <4>2. sink' = [sink EXCEPT ![d.k] = d.v]
        BY Zenon, <1>1, <4>1 DEF Apply
      <4>3. sink'[k] = sink[k]
        BY ZenonT(40), <1>8, <4>1, <4>2
      <4> QED
        BY Zenon, <4>1, <4>3
    <3> QED
      BY Zenon, <3>1, <3>2
  <2>2. WriteAfter(wal, k, p - 1) => WriteAfter(wal, k, p)
    <3> SUFFICES ASSUME NEW q \in DOMAIN wal, q > p - 1, wal[q].t = "write", wal[q].k = k
                 PROVE  WriteAfter(wal, k, p)
      BY Zenon DEF WriteAfter
    <3>1. q # p
      BY Zenon, <2>1
    <3> HIDE DEF p
    <3>2. q > p
      BY SMTT(30), <1>2, <1>3, <3>1
    <3> QED
      BY Zenon, <3>2 DEF WriteAfter
  <2> QED
    BY Zenon, <1>1, <1>2, <1>7, <2>1, <2>2 DEF Good
<1> HIDE DEF Hits, p
<1>11. \A k \in Keys : Good(k) => Good(k)'
  BY Zenon, <1>9, <1>10
<1>12. KeysInv'
  <2> SUFFICES ASSUME NEW k \in Keys
               PROVE  (Written(wal', k) => Good(k)') /\ (Good(k)' \/ sink'[k] = 0)
    BY Zenon DEF KeysInv
  <2>1. (Written(wal, k) => Good(k)) /\ (Good(k) \/ sink[k] = 0)
    BY Zenon DEF StreamInv, KeysInv
  <2>2. Written(wal', k) => Good(k)'
    BY Zenon, <1>1, <1>11, <2>1
  <2> QED
    BY Zenon, <1>9, <1>10, <1>11, <2>1, <2>2
<1>13. OnlyWrites' /\ LastWrite'
  BY Zenon, <1>1 DEF StreamInv, OnlyWrites, LastWrite
<1>14. d.t = "rows" => \A k \in DOMAIN d.rows : Good(k)'
  <2> SUFFICES ASSUME d.t = "rows", NEW k \in DOMAIN d.rows PROVE Good(k)'
    BY Zenon
  <2>1. k \in Keys
    BY Zenon, <1>1, EntryRows
  <2>2. Hits(k)
    BY Zenon DEF Hits
  <2> QED
    BY Zenon, <1>9, <2>1, <2>2
<1> QED
  BY Zenon, <1>6, <1>11, <1>12, <1>13, <1>14 DEF StreamInv

-----------------------------------------------------------------------------
(* The table and the WAL.                                                  *)

\* The table and the WAL stay, or the WAL grows by a mark or a write.
Alike == wal' = wal /\ table' = table

\* The table changes only together with a write at the end of the WAL.
LEMMA TableStep ==
  ASSUME BackfillAssumption, TypeInv, Selecting, Ops \subseteq {"write"}, Next
  PROVE  /\ Alike \/ \E r \in WALRecord : Extends(r)
         /\ (\E n \in Nodes : EmitLow(n) \/ EmitHigh(n)) \/ Change => \E r \in WALRecord : Extends(r)
<1>1. TypeOK /\ \A n \in Nodes : Laned(n)
  BY Zenon DEF TypeInv
<1>2. ASSUME Quiet PROVE Alike
  BY Zenon, <1>2 DEF Quiet, dbVars, Alike
<1>3. ASSUME NEW n \in Nodes, EmitLow(n) \/ EmitHigh(n)
      PROVE  \E r \in WALRecord : Extends(r)
  <2> DEFINE w == node[n].window
             r == [t |-> node[n].lane, id |-> w[Len(w)].id]
  <2>1. /\ r \in WALRecord /\ node[n].lane \in {"low", "high"} /\ wal' = Append(wal, r)
        /\ UNCHANGED <<table, slot, saved, streamVars>>
    BY ZenonT(40), <1>1, <1>3, EmitEffect
  <2>2. r.t = node[n].lane
    BY Zenon
  <2> HIDE DEF r
  <2>3. Grows(r)
    BY Zenon, <1>1, <2>1, Grown DEF Grows
  <2>4. Extends(r)
    BY Zenon, <2>1, <2>2, <2>3 DEF Extends, Kinds, streamVars
  <2> QED
    BY Zenon, <2>1, <2>4
<1>4. ASSUME Change PROVE \E r \in WALRecord : Extends(r)
  <2>1. PICK r \in WALRecord :
           /\ r.t = "write" /\ r.k \in Keys
           /\ wal' = Append(wal, r) /\ table' = [table EXCEPT ![r.k] = r.v]
    BY Zenon, <1>1, <1>4, ChangeWrites
  <2>2. Grows(r)
    BY ZenonT(40), <1>1, <2>1, Grown DEF Grows
  <2>3. UNCHANGED <<slot, streamVars>>
    BY Zenon, <1>1, <1>4, ChangeEffect
  <2>4. Extends(r)
    BY Zenon, <2>1, <2>2, <2>3 DEF Extends, streamVars
  <2> QED
    BY Zenon, <2>4
<1>5. ASSUME NEW n \in Nodes, StreamStarts(n) \/ StreamStops(n) \/ Crash(n) PROVE Alike
  BY ZenonT(40), <1>1, <1>5, TurnsEffect DEF Alike, dbVars
<1>6. ASSUME ReadChange \/ ReadWatermark \/ Deliver PROVE Alike
  BY Zenon, <1>1, <1>6, ReadChangeEffect, ReadWatermarkEffect, DeliverEffect DEF Alike, dbVars
<1> QED
  BY ZenonT(40), <1>1, <1>2, <1>3, <1>4, <1>5, <1>6, StepKinds

\* A change that was committed stays committed.
LEMMA WrittenStays ==
  ASSUME Alike \/ \E r \in WALRecord : Extends(r), NEW k, Written(wal, k)
  PROVE  Written(wal', k)
<1>1. CASE Alike
  BY Zenon, <1>1 DEF Alike
<1>2. ASSUME NEW r, Extends(r) PROVE Written(wal', k)
  BY Zenon, <1>2 DEF Extends, Grows, Written
<1> QED
  BY Zenon, <1>1, <1>2

\* Rows that are those of the table, or superseded behind a position, stay so.
LEMMA RowsStay ==
  ASSUME TypeOK, Alike \/ \E r \in WALRecord : Extends(r), NEW R \in Rows,
         NEW p \in -1..Len(wal), RowsFrom(wal, table, R, p)
  PROVE  RowsFrom(wal', table', R, p)
<1>1. CASE Alike
  BY Zenon, <1>1 DEF Alike
<1>2. ASSUME NEW r, Extends(r) PROVE RowsFrom(wal', table', R, p)
  <2> SUFFICES ASSUME NEW k \in DOMAIN R
               PROVE  R[k] = table'[k] \/ WriteAfter(wal', k, p)
    BY Zenon DEF RowsFrom
  <2>1. k \in Keys
    BY Zenon, RowsTyped
  <2>2. R[k] = table[k] \/ WriteAfter(wal, k, p)
    BY Zenon DEF RowsFrom
  <2>3. /\ r.t = "write" /\ r.k = k => \A q \in -1..Len(wal) : WriteAfter(wal', k, q)
        /\ ~(r.t = "write" /\ r.k = k) => table'[k] = table[k]
    BY ZenonT(40), <1>2, <2>1, ExtendsTable
  <2>4. WriteAfter(wal, k, p) => WriteAfter(wal', k, p)
    BY Zenon, <1>2, WriteKept DEF Extends
  <2> QED
    BY Zenon, <2>2, <2>3, <2>4
<1> QED
  BY Zenon, <1>1, <1>2

-----------------------------------------------------------------------------
(* What a chunk holds.                                                     *)

\* Between its marks a chunk in flight collects, and has seen every change
\* since its low mark; behind its high mark it has given its rows away.
Sees(s, x, c) ==
  /\ \A l \in MarkAt(s, "low", x.id) :
       l <= c /\ (\A h \in MarkAt(s, "high", x.id) : h > c) =>
         /\ x.collecting
         /\ \A p \in DOMAIN s : l < p /\ p <= c /\ s[p].t = "write" => s[p].k \in x.seen
  /\ \A h \in MarkAt(s, "high", x.id) : h <= c => DOMAIN x.rows = {}

\* What it has seen was changed, and its rows are those of the table or were
\* changed behind its low mark.
Holding(s, T, x) ==
  /\ \A k \in x.seen : Written(s, k)
  /\ \A l \in MarkAt(s, "low", x.id) : RowsFrom(s, T, x.rows, l)

\* A chunk whose rows are still to be selected has none.
Fresh(w, l) == Begun(l) => DOMAIN w[Len(w)].rows = {}

RowsInv(n) ==
  /\ \A i \in DOMAIN node[n].window : Holding(wal, table, node[n].window[i])
  /\ Fresh(node[n].window, node[n].lane)
  /\ owner = n => \A i \in DOMAIN node[n].window :
       node[n].window[i].known => Sees(wal, node[n].window[i], cur)

\* A chunk has one mark of each kind.
LEMMA OneMark ==
  ASSUME MarksInv, NEW id \in ChunkId
  PROVE  /\ \A p, q \in MarkAt(wal, "low", id) : p = q
         /\ \A p, q \in MarkAt(wal, "high", id) : p = q
<1>1. MarksOnce
  BY Zenon DEF MarksInv
<1>2. "low" \in Kinds /\ "high" \in Kinds
  BY DEF Kinds
<1> QED
  BY Zenon, <1>1, <1>2 DEF MarksOnce

\* The rows HandleWatermark queues at a high mark: no change before the mark
\* supersedes them.
LEMMA RowsRead ==
  ASSUME BackfillAssumption, TypeInv, MarksInv, ReadWatermark, RowsInv(owner),
         NEW d \in Surviving(node[owner].window, wal[cur + 1])
  PROVE  RowsFrom(wal, table, d.rows, cur + 1)
<1> DEFINE r == wal[cur + 1]
           w == node[owner].window
<1>1. TypeOK
  BY Zenon DEF TypeInv
<1>2. owner \in Nodes /\ cur + 1 \in DOMAIN wal /\ r \in WALRecord /\ r.t \in {"low", "high"}
  BY Zenon, <1>1, ReadWatermarkEffect
<1>3. w \in Seq(Chunk)
  BY Zenon, <1>1, <1>2, NodeTyped
<1>4. /\ r.t = "high" /\ r.id \in ChunkId
      /\ \E i \in DOMAIN w :
           /\ w[i].known /\ w[i].id = r.id
           /\ DOMAIN d.rows = DOMAIN w[i].rows \ w[i].seen
           /\ \A k \in DOMAIN d.rows : d.rows[k] = w[i].rows[k]
  <2> HIDE DEF r, w
  <2>1. d \in Surviving(w, r)
    BY Zenon DEF r, w
  <2> QED
    BY SMTT(30), <1>2, <1>3, <2>1, SurvivingTyped
<1>5. PICK i \in DOMAIN w :
           /\ w[i].known /\ w[i].id = r.id
           /\ DOMAIN d.rows = DOMAIN w[i].rows \ w[i].seen
           /\ \A k \in DOMAIN d.rows : d.rows[k] = w[i].rows[k]
  BY Zenon, <1>4
<1>6. cur + 1 \in MarkAt(wal, "high", r.id)
  BY Zenon, <1>2, <1>4 DEF MarkAt
<1>7. PICK l \in MarkAt(wal, "low", r.id) : l < cur + 1
  BY Zenon, <1>4, <1>6 DEF MarksInv, LowFirst
<1>8. /\ cur \in 0..Len(wal) /\ Len(wal) \in Nat /\ DOMAIN wal = 1..Len(wal)
  BY Zenon, <1>1, BaseTyped
<1>9. l \in DOMAIN wal /\ l <= cur
  <2>1. l \in DOMAIN wal
    BY Zenon DEF MarkAt
  <2> QED
    BY <1>7, <1>8, <2>1
<1>10. \A h \in MarkAt(wal, "high", r.id) : h > cur
  <2>1. \A h \in MarkAt(wal, "high", r.id) : h = cur + 1
    <3> HIDE DEF r, w
    <3>1. r.id \in ChunkId
      BY Zenon, <1>4
    <3>2. \A p, q \in MarkAt(wal, "high", r.id) : p = q
      BY ZenonT(40), <3>1, OneMark
    <3> QED
      BY Zenon, <1>6, <3>2
  <2>2. cur + 1 > cur
    BY <1>8
  <2> QED
    BY Zenon, <2>1, <2>2
<1>11. Sees(wal, w[i], cur) /\ Holding(wal, table, w[i])
  BY Zenon, <1>5 DEF RowsInv
<1>12. \A p \in DOMAIN wal : l < p /\ p <= cur /\ wal[p].t = "write" => wal[p].k \in w[i].seen
  BY Zenon, <1>5, <1>9, <1>10, <1>11 DEF Sees
<1>13. RowsFrom(wal, table, w[i].rows, l)
  BY Zenon, <1>5, <1>11 DEF Holding
<1> SUFFICES ASSUME NEW k \in DOMAIN d.rows
             PROVE  d.rows[k] = table[k] \/ WriteAfter(wal, k, cur + 1)
  BY Zenon DEF RowsFrom
<1>14. k \in DOMAIN w[i].rows /\ k \notin w[i].seen /\ d.rows[k] = w[i].rows[k]
  BY Zenon, <1>5
<1>15. ASSUME WriteAfter(wal, k, l) PROVE WriteAfter(wal, k, cur + 1)
  <2>1. PICK q \in DOMAIN wal : q > l /\ wal[q].t = "write" /\ wal[q].k = k
    BY Zenon, <1>15 DEF WriteAfter
  <2>2. q # cur + 1
    <3>1. r.t # "write"
      BY <1>4
    <3> QED
      BY Zenon, <2>1, <3>1
  <2>3. q > l => l < q
    BY <1>8, <1>9
  <2>4. ~(q <= cur)
    BY Zenon, <1>12, <1>14, <2>1, <2>3
  <2>5. q > cur + 1
    BY <1>8, <2>2, <2>4
  <2> QED
    BY Zenon, <2>1, <2>5 DEF WriteAfter
<1> QED
  BY Zenon, <1>13, <1>14, <1>15 DEF RowsFrom

\* Every step keeps the stream's invariant, and what is right in the sinks
\* stays right.
LEMMA StreamStep ==
  ASSUME BackfillAssumption, TypeInv, Selecting, MarksInv, Ops \subseteq {"write"},
         StreamInv, \A n \in Nodes : RowsInv(n), Next
  PROVE  StreamInv' /\ \A k \in Keys : Good(k) => Good(k)'
<1>1. TypeOK /\ \A n \in Nodes : Laned(n)
  BY Zenon DEF TypeInv
<1>2. CASE Quiet
  BY Zenon, <1>2, QuietStream
<1>3. ASSUME NEW r, Extends(r) PROVE StreamInv' /\ \A k \in Keys : Good(k) => Good(k)'
  BY Zenon, <1>1, <1>3, ExtendsStream, ExtendsGood
<1>4. CASE \E n \in Nodes : StreamStarts(n) \/ StreamStops(n) \/ Crash(n)
  BY Zenon, <1>1, <1>4, TurnsStream
<1>5. CASE ReadChange
  BY Zenon, <1>1, <1>5, ReadChangeStream
<1>6. CASE ReadWatermark
  <2>1. owner \in Nodes
    BY Zenon, <1>1, <1>6, ReadWatermarkEffect
  <2>2. \A d \in Surviving(node[owner].window, wal[cur + 1]) :
          RowsFrom(wal, table, d.rows, cur + 1)
    BY Zenon, <1>6, <2>1, RowsRead
  <2> QED
    BY Zenon, <1>1, <1>6, <2>2, ReadWatermarkStream
<1>7. CASE Deliver
  BY Zenon, <1>1, <1>7, DeliverStream
<1> QED
  BY Zenon, <1>1, <1>2, <1>3, <1>4, <1>5, <1>6, <1>7, TableStep, StepKinds

\* Up to the stream's position the WAL is as before.
LEMMA ReadPart ==
  ASSUME BackfillAssumption, TypeInv, Selecting, Ops \subseteq {"write"}, Next, NEW id \in ChunkId
  PROVE  /\ \A p \in DOMAIN wal' : p <= cur => p \in DOMAIN wal /\ wal'[p] = wal[p]
         /\ \A p \in MarkAt(wal', "low", id) : p <= cur => p \in MarkAt(wal, "low", id)
         /\ \A p \in MarkAt(wal', "high", id) : p <= cur => p \in MarkAt(wal, "high", id)
         /\ MarkAt(wal, "high", id) \subseteq MarkAt(wal', "high", id)
<1>1. TypeOK
  BY Zenon DEF TypeInv
<1>2. cur \in 0..Len(wal) /\ Len(wal) \in Nat
  BY Zenon, <1>1, BaseTyped
<1>3. ~(Len(wal) + 1 <= cur)
  BY <1>2
<1>4. \A p \in DOMAIN wal' : p <= cur => p \in DOMAIN wal /\ wal'[p] = wal[p]
  <2>1. CASE Alike
    BY Zenon, <2>1 DEF Alike
  <2>2. ASSUME NEW r, Extends(r)
        PROVE  \A p \in DOMAIN wal' : p <= cur => p \in DOMAIN wal /\ wal'[p] = wal[p]
    BY Zenon, <1>3, <2>2 DEF Extends, Grows
  <2> QED
    BY Zenon, <2>1, <2>2, TableStep
<1>5. "low" \in Kinds /\ "high" \in Kinds
  BY DEF Kinds
<1>6. MarkAt(wal, "high", id) \subseteq MarkAt(wal', "high", id)
  BY Zenon, <1>5, MarksGrow
<1>7. \A p \in MarkAt(wal', "low", id) : p <= cur => p \in MarkAt(wal, "low", id)
  BY Zenon, <1>4 DEF MarkAt
<1>8. \A p \in MarkAt(wal', "high", id) : p <= cur => p \in MarkAt(wal, "high", id)
  BY Zenon, <1>4 DEF MarkAt
<1> QED
  BY Zenon, <1>4, <1>6, <1>7, <1>8

\* A chunk that keeps what it has collected, at a stream that does not move.
LEMMA SeesSame ==
  ASSUME BackfillAssumption, TypeInv, Selecting, Ops \subseteq {"write"}, Next,
         NEW c, c.id \in ChunkId, Sees(wal, c, cur),
         NEW d, d.id = c.id, d.collecting = c.collecting, d.seen = c.seen, d.rows = c.rows
  PROVE  Sees(wal', d, cur)
<1>1. /\ \A p \in DOMAIN wal' : p <= cur => p \in DOMAIN wal /\ wal'[p] = wal[p]
      /\ \A p \in MarkAt(wal', "low", d.id) : p <= cur => p \in MarkAt(wal, "low", c.id)
      /\ \A p \in MarkAt(wal', "high", d.id) : p <= cur => p \in MarkAt(wal, "high", c.id)
      /\ MarkAt(wal, "high", c.id) \subseteq MarkAt(wal', "high", d.id)
  BY Zenon, ReadPart
<1>2. ASSUME NEW l \in MarkAt(wal', "low", d.id), l <= cur,
             \A h \in MarkAt(wal', "high", d.id) : h > cur
      PROVE  /\ d.collecting
             /\ \A p \in DOMAIN wal' : l < p /\ p <= cur /\ wal'[p].t = "write" => wal'[p].k \in d.seen
  <2>1. l \in MarkAt(wal, "low", c.id) /\ \A h \in MarkAt(wal, "high", c.id) : h > cur
    BY Zenon, <1>1, <1>2
  <2>2. /\ c.collecting
        /\ \A p \in DOMAIN wal : l < p /\ p <= cur /\ wal[p].t = "write" => wal[p].k \in c.seen
    BY Zenon, <1>2, <2>1 DEF Sees
  <2>3. \A p \in DOMAIN wal' : l < p /\ p <= cur /\ wal'[p].t = "write" => wal'[p].k \in c.seen
    BY Zenon, <1>1, <2>2
  <2> QED
    BY Zenon, <2>2, <2>3
<1>3. \A h \in MarkAt(wal', "high", d.id) : h <= cur => DOMAIN d.rows = {}
  BY Zenon, <1>1 DEF Sees
<1> QED
  BY Zenon, <1>2, <1>3 DEF Sees

\* ObserveEvent adds the changed key.
LEMMA SeesChange ==
  ASSUME BackfillAssumption, TypeOK, StreamInv, ReadChange,
         NEW c, c.known, Sees(wal, c, cur),
         NEW d, d.id = c.id, ObservesChunk(c, d, wal[cur + 1])
  PROVE  Sees(wal', d, cur')
<1> DEFINE r == wal[cur + 1]
<1>1. /\ cur + 1 \in DOMAIN wal /\ r \in WALRecord /\ r.t \notin {"low", "high"}
      /\ cur' = cur + 1 /\ wal' = wal
  BY Zenon, ReadChangeEffect DEF dbVars
<1>2. r.t = "write"
  BY Zenon, <1>1 DEF StreamInv, OnlyWrites
<1>3. cur \in 0..Len(wal) /\ Len(wal) \in Nat /\ DOMAIN wal = 1..Len(wal)
  BY Zenon, BaseTyped
<1>4. /\ d.collecting = c.collecting /\ d.rows = c.rows
      /\ c.collecting => d.seen = c.seen \cup {r.k}
  BY Zenon, <1>2 DEF ObservesChunk
<1>5. \A p \in DOMAIN wal : p <= cur + 1 /\ p # cur + 1 => p <= cur
  BY <1>3
<1>6. \A p \in DOMAIN wal : p > cur + 1 => p > cur
  BY <1>3
<1>7. \A t \in Kinds : \A p \in MarkAt(wal, t, c.id) : p \in DOMAIN wal /\ p # cur + 1
  <2>1. \A t \in Kinds : t # "write"
    BY DEF Kinds
  <2> QED
    BY ZenonT(40), <1>2, <2>1 DEF MarkAt
<1>8. "low" \in Kinds /\ "high" \in Kinds
  BY DEF Kinds
<1>9. ASSUME NEW l \in MarkAt(wal, "low", c.id), l <= cur + 1,
             \A h \in MarkAt(wal, "high", c.id) : h > cur + 1
      PROVE  /\ d.collecting
             /\ \A p \in DOMAIN wal : l < p /\ p <= cur + 1 /\ wal[p].t = "write" => wal[p].k \in d.seen
  <2>1. l <= cur /\ \A h \in MarkAt(wal, "high", c.id) : h > cur
    BY Zenon, <1>5, <1>6, <1>7, <1>8, <1>9
  <2>2. /\ c.collecting
        /\ \A p \in DOMAIN wal : l < p /\ p <= cur /\ wal[p].t = "write" => wal[p].k \in c.seen
    BY Zenon, <2>1 DEF Sees
  <2>3. d.collecting /\ d.seen = c.seen \cup {r.k}
    BY ZenonT(40), <1>4, <2>2
  <2>4. ASSUME NEW p \in DOMAIN wal, l < p, p <= cur + 1, wal[p].t = "write"
        PROVE  wal[p].k \in c.seen \cup {r.k}
    BY Zenon, <1>5, <2>2, <2>4
  <2> QED
    BY ZenonT(40), <2>3, <2>4
<1>10. \A h \in MarkAt(wal, "high", c.id) : h <= cur + 1 => DOMAIN d.rows = {}
  BY Zenon, <1>4, <1>5, <1>7, <1>8 DEF Sees
<1> QED
  BY Zenon, <1>1, <1>9, <1>10 DEF Sees

\* HandleWatermark begins collecting at the low mark, and gives the rows away
\* at the high mark.
LEMMA SeesMark ==
  ASSUME BackfillAssumption, TypeOK, MarksInv, ReadWatermark,
         NEW c, c.known, c.id \in ChunkId, Sees(wal, c, cur),
         NEW d, d.id = c.id, MarksChunk(c, d, wal[cur + 1])
  PROVE  Sees(wal', d, cur')
<1> DEFINE r == wal[cur + 1]
<1>1. /\ cur + 1 \in DOMAIN wal /\ r \in WALRecord /\ r.t \in {"low", "high"}
      /\ cur' = cur + 1 /\ wal' = wal
  BY Zenon, ReadWatermarkEffect DEF dbVars
<1>2. cur \in 0..Len(wal) /\ Len(wal) \in Nat /\ DOMAIN wal = 1..Len(wal)
  BY Zenon, BaseTyped
<1>3. \A p \in DOMAIN wal : p <= cur + 1 /\ p # cur + 1 => p <= cur
  BY SMTT(30), <1>2
<1>4. \A p \in DOMAIN wal : p > cur + 1 => p > cur
  BY SMTT(30), <1>2
<1>5. d.seen = c.seen
  BY Zenon DEF MarksChunk
<1>6. r.t # "write"
  BY SMTT(30), <1>1
<1>7. \A t, p : p \in MarkAt(wal, t, c.id) => p \in DOMAIN wal /\ wal[p].t = t /\ wal[p].id = c.id
  BY Zenon DEF MarkAt
<1>8. CASE c.id # r.id
  <2>1. d.collecting = c.collecting /\ d.rows = c.rows
    BY Zenon, <1>8 DEF MarksChunk
  <2>2. ASSUME NEW t, NEW p \in MarkAt(wal, t, c.id) PROVE p # cur + 1
    <3>1. wal[p].id = c.id
      BY Zenon, <1>7
    <3> QED
      BY Zenon, <1>8, <3>1
  <2>3. ASSUME NEW l \in MarkAt(wal, "low", c.id), l <= cur + 1,
               \A h \in MarkAt(wal, "high", c.id) : h > cur + 1
        PROVE  /\ d.collecting
               /\ \A p \in DOMAIN wal : l < p /\ p <= cur + 1 /\ wal[p].t = "write" => wal[p].k \in d.seen
    <3>1. l <= cur
      BY ZenonT(40), <1>3, <1>7, <2>2, <2>3
    <3>2. \A h \in MarkAt(wal, "high", c.id) : h > cur
      BY Zenon, <1>4, <1>7, <2>3
    <3>3. /\ c.collecting
          /\ \A p \in DOMAIN wal : l < p /\ p <= cur /\ wal[p].t = "write" => wal[p].k \in c.seen
      BY Zenon, <3>1, <3>2 DEF Sees
    <3>4. ASSUME NEW p \in DOMAIN wal, l < p, p <= cur + 1, wal[p].t = "write"
          PROVE  wal[p].k \in c.seen
      <4>1. p # cur + 1
        BY Zenon, <1>6, <3>4
      <4> QED
        BY Zenon, <1>3, <3>3, <3>4, <4>1
    <3> QED
      BY Zenon, <1>5, <2>1, <3>3, <3>4
  <2>4. ASSUME NEW h \in MarkAt(wal, "high", c.id), h <= cur + 1 PROVE DOMAIN d.rows = {}
    <3>1. h <= cur
      BY ZenonT(40), <1>3, <1>7, <2>2, <2>4
    <3> QED
      BY ZenonT(40), <2>1, <3>1 DEF Sees
  <2> QED
    BY Zenon, <1>1, <2>3, <2>4 DEF Sees
<1>9. CASE c.id = r.id /\ r.t = "low"
  <2>1. d.collecting = TRUE /\ d.rows = c.rows
    BY Zenon, <1>9 DEF MarksChunk
  <2>2. cur + 1 \in MarkAt(wal, "low", c.id)
    BY Zenon, <1>1, <1>9 DEF MarkAt
  <2>3. \A l \in MarkAt(wal, "low", c.id) : l = cur + 1
    BY ZenonT(40), <2>2, OneMark
  <2>4. \A p \in DOMAIN wal : ~(cur + 1 < p /\ p <= cur + 1)
    BY <1>2
  <2>5. ASSUME NEW h \in MarkAt(wal, "high", c.id), h <= cur + 1 PROVE DOMAIN d.rows = {}
    <3>1. h # cur + 1
      <4>1. wal[h].t = "high"
        BY ZenonT(40), <1>7
      <4>2. wal[h].t # "low"
        BY <4>1
      <4> QED
        BY ZenonT(40), <1>9, <4>2
    <3>2. h <= cur
      BY ZenonT(40), <1>3, <1>7, <2>5, <3>1
    <3> QED
      BY ZenonT(40), <2>1, <3>2 DEF Sees
  <2> QED
    BY ZenonT(40), <1>1, <2>1, <2>3, <2>4, <2>5 DEF Sees
<1>10. CASE c.id = r.id /\ r.t = "high"
  <2>1. d.rows = <<>>
    BY Zenon, <1>10 DEF MarksChunk
  <2>2. DOMAIN d.rows = {}
    BY Zenon, <2>1, NoRows
  <2>3. cur + 1 \in MarkAt(wal, "high", c.id)
    BY ZenonT(40), <1>1, <1>10 DEF MarkAt
  <2>4. ~(cur + 1 > cur + 1)
    BY <1>2
  <2> QED
    BY Zenon, <1>1, <2>2, <2>3, <2>4 DEF Sees
<1> QED
  BY ZenonT(40), <1>1, <1>8, <1>9, <1>10

\* A chunk that stays in a window sees what it should.
LEMMA SeesStays ==
  ASSUME BackfillAssumption, TypeInv, Selecting, MarksInv, StreamInv, Ops \subseteq {"write"},
         Next, NEW m \in Nodes, owner' = m, NEW c, NEW d, Stays(m, c, d), d.known,
         owner = m /\ c.known => Sees(wal, c, cur)
  PROVE  Sees(wal', d, cur')
<1>1. TypeOK
  BY Zenon DEF TypeInv
<1>2. c \in Chunk /\ d \in Chunk /\ SameRange(c, d)
  BY Zenon DEF Stays
<1>3. c.id \in ChunkId /\ d.id = c.id
  <2>1. c.id \in ChunkId
    BY Zenon, <1>2 DEF Chunk
  <2> QED
    BY ZenonT(40), <1>2, <2>1 DEF SameRange
<1>4. CASE d = c /\ (owner' = m => owner = m /\ cur' = cur /\ out' = out)
  <2>1. owner = m /\ cur' = cur /\ d = c
    BY Zenon, <1>4
  <2>2. Sees(wal, c, cur)
    BY Zenon, <2>1
  <2>3. Sees(wal', d, cur)
    BY Zenon, <1>3, <2>1, <2>2, SeesSame
  <2> QED
    BY ZenonT(40), <2>1, <2>3
<1>5. CASE RestartsChunk(c, d)
  BY Zenon, <1>5 DEF RestartsChunk
<1>6. CASE owner = m /\ ReadChange /\ ObservesChunk(c, d, wal[cur + 1])
  <2>1. c.known
    BY Zenon, <1>6 DEF ObservesChunk
  <2> QED
    BY Zenon, <1>1, <1>3, <1>6, <2>1, SeesChange
<1>7. CASE owner = m /\ ReadWatermark /\ MarksChunk(c, d, wal[cur + 1])
  <2>1. c.known
    BY Zenon, <1>7 DEF MarksChunk
  <2> QED
    BY Zenon, <1>1, <1>3, <1>7, <2>1, SeesMark
<1>8. CASE owner = m /\ Deliver /\ CompletesChunk(c, d, out[1].d)
  <2>1. /\ c.known /\ d.collecting = c.collecting /\ d.seen = c.seen /\ d.rows = c.rows
    BY ZenonT(40), <1>8 DEF CompletesChunk
  <2>2. cur' = cur
    BY Zenon, <1>1, <1>8, DeliverEffect
  <2>3. Sees(wal', d, cur)
    BY Zenon, <1>3, <1>8, <2>1, SeesSame
  <2> QED
    BY ZenonT(40), <2>2, <2>3
<1> QED
  BY ZenonT(40), <1>4, <1>5, <1>6, <1>7, <1>8 DEF Stays

\* A low mark of a chunk in the window of m is written by m, for its newest.
LEMMA NewLow ==
  ASSUME BackfillAssumption, TypeInv, Selecting, MarksInv, Next, NEW m \in Nodes,
         NEW w, w = node[m].window, NEW j \in DOMAIN w,
         NEW p \in MarkAt(wal', "low", w[j].id), p \notin MarkAt(wal, "low", w[j].id)
  PROVE  node[m].lane = "low" /\ j = Len(w)
<1>1. TypeOK /\ \A n \in Nodes : LaneInv(n)
  BY Zenon DEF TypeInv, MarksInv
<1>2. \A n \in Nodes : WindowIds(n, node[n].window, node[n].seq)
  BY Zenon, <1>1 DEF LaneInv, LaneInvOf
<1>3. w \in Seq(Chunk) /\ w[j].id \in ChunkId /\ w[j].id[1] = m
  <2>1. w \in Seq(Chunk)
    BY Zenon, <1>1, NodeTyped
  <2>2. WindowIds(m, w, node[m].seq)
    BY Zenon, <1>2
  <2> QED
    BY Zenon, <2>1, <2>2 DEF WindowIds
<1>4. "low" \in Kinds
  BY DEF Kinds
<1>5. PICK n \in Nodes : EmitLow(n) \/ EmitHigh(n)
  <2>1. ~SameMarks
    BY Zenon, <1>3, <1>4 DEF SameMarks
  <2> QED
    BY ZenonT(40), <2>1, MarksStep
<1> DEFINE u == node[n].window
           x == u[Len(u)].id
<1>6. /\ u \in Seq(Chunk) /\ Len(u) \in Nat \ {0} /\ x \in ChunkId
  BY ZenonT(40), <1>1, <1>5, EmitEffect DEF TypeInv
<1>7. AddsMark(node[n].lane, x)
  BY Zenon, <1>5, EmitMarks
<1> HIDE DEF u
<1>8. node[n].lane = "low" /\ x = w[j].id
  BY Zenon, <1>3, <1>4, <1>7 DEF AddsMark
<1>9. n = m
  <2>1. DOMAIN u = 1..Len(u)
    BY ZenonT(40), <1>6, WindowOf
  <2>2. Len(u) \in DOMAIN u
    BY SMTT(30), <1>6, <2>1
  <2>3. WindowIds(n, u, node[n].seq)
    BY Zenon, <1>2 DEF u
  <2>4. x[1] = n
    BY ZenonT(40), <2>2, <2>3 DEF WindowIds
  <2> QED
    BY Zenon, <1>3, <1>8, <2>4
<1>10. j = Len(w)
  <2>1. DOMAIN w = 1..Len(w) /\ Len(w) \in Nat
    BY Zenon, <1>3, WindowOf
  <2>2. Len(w) \in DOMAIN w /\ x = w[Len(w)].id
    <3>1. u = w
      BY Zenon, <1>9 DEF u
    <3>2. Len(w) \in Nat \ {0}
      BY ZenonT(40), <1>6, <3>1
    <3>3. Len(w) \in DOMAIN w
      BY SMTT(30), <2>1, <3>2
    <3> QED
      BY Zenon, <3>1, <3>3
  <2>3. SUFFICES ASSUME j # Len(w) PROVE FALSE
    BY Zenon
  <2>4. j < Len(w)
    BY <2>1, <2>3
  <2>5. WindowIds(m, w, node[m].seq)
    BY Zenon, <1>2
  <2>6. w[j].id[2] < w[Len(w)].id[2]
    BY Zenon, <2>2, <2>4, <2>5 DEF WindowIds
  <2>7. w[j].id[2] < w[j].id[2] /\ w[j].id[2] \in Nat
    BY ZenonT(40), <1>3, <1>8, <2>2, <2>6 DEF ChunkId
  <2> QED
    BY <2>7
<1> QED
  BY Zenon, <1>8, <1>9, <1>10

\* What the chunk holds.
LEMMA HoldingStays ==
  ASSUME BackfillAssumption, TypeInv, Selecting, MarksInv, StreamInv, Ops \subseteq {"write"},
         Next, NEW m \in Nodes, RowsInv(m), NEW w, w = node[m].window,
         NEW j \in DOMAIN w, NEW d, Stays(m, w[j], d)
  PROVE  Holding(wal', table', d)
<1> DEFINE c == w[j]
<1>1. TypeOK
  BY Zenon DEF TypeInv
<1>2. c \in Chunk /\ d \in Chunk /\ SameRange(c, d) /\ Holding(wal, table, c)
  BY Zenon DEF Stays, RowsInv
<1>3. c.id \in ChunkId /\ d.id = c.id /\ c.rows \in Rows
  <2> HIDE DEF c
  <2>1. c.id \in ChunkId /\ c.rows \in Rows
    BY Zenon, <1>2 DEF Chunk
  <2> QED
    BY ZenonT(40), <1>2, <2>1 DEF SameRange
<1>4. d.rows = c.rows \/ d.rows = <<>>
  <2> HIDE DEF c
  <2>1. Stays(m, c, d)
    BY Zenon DEF c
  <2> QED
    BY Zenon, <2>1 DEF Stays, RestartsChunk, ObservesChunk, MarksChunk, CompletesChunk
<1>5. ASSUME NEW k \in d.seen PROVE Written(wal', k)
  <2> HIDE DEF c
  <2>1. Stays(m, c, d)
    BY Zenon DEF c
  <2>2. CASE k \in c.seen
    <3>1. Written(wal, k)
      BY ZenonT(40), <1>2, <2>2 DEF Holding
    <3> QED
      BY ZenonT(40), <3>1, TableStep, WrittenStays
  <2>3. CASE k \notin c.seen
    <3>1. ReadChange /\ ObservesChunk(c, d, wal[cur + 1])
      BY Zenon, <1>5, <2>1, <2>3 DEF Stays, RestartsChunk, MarksChunk, CompletesChunk
    <3>2. k = wal[cur + 1].k
      <4>1. d.seen = c.seen \cup {wal[cur + 1].k} \/ d.seen = c.seen
        BY Zenon, <3>1 DEF ObservesChunk
      <4> QED
        BY SMTT(30), <1>5, <2>3, <4>1
    <3>3. /\ cur + 1 \in DOMAIN wal /\ wal[cur + 1].t \notin {"low", "high"} /\ wal' = wal
      BY Zenon, <1>1, <3>1, ReadChangeEffect DEF dbVars
    <3>4. wal[cur + 1].t = "write"
      BY Zenon, <3>3 DEF StreamInv, OnlyWrites
    <3> QED
      BY ZenonT(40), <3>2, <3>3, <3>4 DEF Written
  <2> QED
    BY ZenonT(40), <2>2, <2>3
<1>6. ASSUME NEW l \in MarkAt(wal', "low", d.id) PROVE RowsFrom(wal', table', d.rows, l)
  <2>1. CASE d.rows = <<>>
    <3>1. DOMAIN d.rows = {}
      BY ZenonT(40), <2>1, NoRows
    <3> QED
      BY Zenon, <3>1 DEF RowsFrom
  <2>2. CASE d.rows = c.rows /\ l \in MarkAt(wal, "low", c.id)
    <3>1. RowsFrom(wal, table, c.rows, l)
      BY Zenon, <1>2, <2>2 DEF Holding
    <3>2. l \in -1..Len(wal)
      <4>1. l \in Nat /\ l <= Len(wal) /\ Len(wal) \in Nat
        BY Zenon, <1>1, <2>2, MarksTyped, WALTyped
      <4> QED
        BY <4>1
    <3>3. RowsFrom(wal', table', c.rows, l)
      BY ZenonT(40), <1>1, <1>3, <3>1, <3>2, TableStep, RowsStay
    <3> QED
      BY Zenon, <2>2, <3>3
  <2>3. CASE d.rows = c.rows /\ l \notin MarkAt(wal, "low", c.id)
    <3>1. l \in MarkAt(wal', "low", c.id)
      BY ZenonT(40), <1>3, <1>6
    <3>2. node[m].lane = "low" /\ j = Len(w)
      BY ZenonT(40), <2>3, <3>1, NewLow
    <3>3. Begun(node[m].lane)
      BY <3>2 DEF Begun
    <3>4. DOMAIN d.rows = {}
      BY Zenon, <2>3, <3>2, <3>3 DEF RowsInv, Fresh
    <3> QED
      BY Zenon, <3>4 DEF RowsFrom
  <2> QED
    BY ZenonT(40), <1>4, <2>1, <2>2, <2>3
<1> QED
  BY ZenonT(40), <1>5, <1>6 DEF Holding

\* The invariant of the rows after a step, from the new window and lane.
RowsIn(n, s, T, o, c, w, l) ==
  /\ \A i \in DOMAIN w : Holding(s, T, w[i])
  /\ Fresh(w, l)
  /\ o = n => \A i \in DOMAIN w : w[i].known => Sees(s, w[i], c)

\* The invariant of a node's rows before and after a step, in one form.
LEMMA RowsInvIs ==
  ASSUME NEW n
  PROVE  /\ RowsInv(n) <=> RowsIn(n, wal, table, owner, cur, node[n].window, node[n].lane)
         /\ RowsInv(n)' <=> RowsIn(n, wal', table', owner', cur', node'[n].window, node'[n].lane)
BY Zenon DEF RowsInv, RowsIn

\* The chunks stay.
LEMMA RowsHeld ==
  ASSUME BackfillAssumption, TypeInv, Selecting, MarksInv, StreamInv, Ops \subseteq {"write"},
         Next, NEW m \in Nodes, RowsInv(m), NEW w, NEW v, Holds(m, w, v)
  PROVE  RowsInv(m)'
<1>1. /\ w = node[m].window /\ v = node'[m].window
      /\ w \in Seq(Chunk) /\ v \in Seq(Chunk) /\ Len(v) = Len(w) /\ DOMAIN v = DOMAIN w
      /\ Begun(node'[m].lane) <=> Begun(node[m].lane)
      /\ \A i \in DOMAIN w : Stays(m, w[i], v[i])
  BY Zenon DEF Holds, Moves
<1>2. \A i \in DOMAIN v : Holding(wal', table', v[i])
  BY Zenon, <1>1, HoldingStays
<1>3. ASSUME owner' = m, NEW i \in DOMAIN v, v[i].known PROVE Sees(wal', v[i], cur')
  <2>1. owner = m /\ w[i].known => Sees(wal, w[i], cur)
    BY Zenon, <1>1 DEF RowsInv
  <2> QED
    BY Zenon, <1>1, <1>3, <2>1, SeesStays
<1>4. ASSUME Begun(node'[m].lane) PROVE DOMAIN v[Len(v)].rows = {}
  <2>1. Begun(node[m].lane)
    BY Zenon, <1>1, <1>4
  <2>2. DOMAIN w[Len(w)].rows = {}
    BY Zenon, <1>1, <2>1 DEF RowsInv, Fresh
  <2>3. w # <<>>
    <3>1. node[m].lane \in {"low", "select", "high"}
      BY <2>1 DEF Begun
    <3> QED
      BY ZenonT(40), <1>1, <3>1 DEF TypeInv, Laned, LanedAs
  <2>4. Len(w) \in DOMAIN w
    <3> HIDE <1>1
    <3>1. w \in Seq(Chunk)
      BY Zenon, <1>1
    <3> QED
      BY SMTT(30), <2>3, <3>1
  <2>5. Stays(m, w[Len(w)], v[Len(w)])
    BY ZenonT(40), <1>1, <2>4
  <2>6. v[Len(w)].rows = w[Len(w)].rows \/ v[Len(w)].rows = <<>>
    BY Zenon, <2>5 DEF Stays, RestartsChunk, ObservesChunk, MarksChunk, CompletesChunk
  <2>7. DOMAIN v[Len(w)].rows = {}
    BY Zenon, <2>2, <2>6, NoRows
  <2> QED
    BY Zenon, <1>1, <2>7
<1> QED
  BY Zenon, <1>1, <1>2, <1>3, <1>4, RowsInvIs DEF RowsIn, Fresh

\* A new chunk has nothing, and no marks.
LEMMA RowsRegistered ==
  ASSUME BackfillAssumption, TypeInv, MarksInv, NEW m \in Nodes, RowsInv(m), Register(m)
  PROVE  RowsInv(m)'
<1> DEFINE w == node[m].window
           x == NewChunk(m)
           v == Append(w, x)
<1>1. TypeOK
  BY Zenon DEF TypeInv
<1>2. /\ node'[m].window = v /\ node'[m].lane = "low"
      /\ UNCHANGED <<dbVars, saved, streamVars>>
  BY ZenonT(40), <1>1, RegisterEffect DEF Becomes
<1>3. UNCHANGED <<wal, table, owner, cur>>
  BY Zenon, <1>2 DEF dbVars, streamVars
<1>4. x.id = <<m, node[m].seq + 1>> /\ x.seen = {} /\ x.rows = <<>>
  BY Zenon DEF NewChunk
<1>5. DOMAIN x.rows = {}
  BY ZenonT(40), <1>4, NoRows
<1>6. \A t \in Kinds : MarkAt(wal, t, x.id) = {}
  <2>1. node[m].seq \in Nat
    BY ZenonT(40), <1>1, NodeTyped
  <2>2. <<m, node[m].seq + 1>> \in ChunkId /\ <<m, node[m].seq + 1>>[1] = m
        /\ <<m, node[m].seq + 1>>[2] = node[m].seq + 1
    BY <2>1 DEF ChunkId
  <2>3. ~(node[m].seq + 1 <= node[m].seq)
    BY <2>1
  <2>4. MarkIds
    BY Zenon DEF MarksInv
  <2> HIDE DEF x
  <2> QED
    BY ZenonT(40), <1>4, <2>2, <2>3, <2>4 DEF MarkIds
<1>7. MarkAt(wal, "low", x.id) = {} /\ MarkAt(wal, "high", x.id) = {}
  <2>1. "low" \in Kinds /\ "high" \in Kinds
    BY DEF Kinds
  <2> QED
    BY Zenon, <1>6, <2>1
<1>8. Holding(wal, table, x) /\ Sees(wal, x, cur)
  <2> HIDE DEF x
  <2> QED
    BY Zenon, <1>4, <1>7 DEF Holding, Sees
<1>9. x \in Chunk /\ w \in Seq(Chunk)
  BY ZenonT(40), <1>1, NewChunkTyped, NodeTyped
<1> HIDE DEF x, w
<1>10. /\ Len(v) = Len(w) + 1 /\ DOMAIN v = DOMAIN w \cup {Len(w) + 1} /\ v[Len(w) + 1] = x
       /\ \A i \in DOMAIN w : v[i] = w[i]
  BY SMTT(30), <1>9, AppendTo
<1> HIDE DEF v
<1>11. /\ \A i \in DOMAIN w : Holding(wal, table, w[i])
       /\ owner = m => \A i \in DOMAIN w : w[i].known => Sees(wal, w[i], cur)
  BY Zenon DEF RowsInv, w
<1>12. \A i \in DOMAIN v : Holding(wal, table, v[i])
  BY Zenon, <1>8, <1>10, <1>11
<1>13. owner = m => \A i \in DOMAIN v : v[i].known => Sees(wal, v[i], cur)
  BY ZenonT(40), <1>8, <1>10, <1>11
<1>14. DOMAIN v[Len(v)].rows = {}
  BY Zenon, <1>5, <1>10
<1> QED
  BY Zenon, <1>2, <1>3, <1>12, <1>13, <1>14, RowsInvIs DEF RowsIn, Fresh

\* SelectChunk fills the newest chunk with rows of the table.
LEMMA RowsSelected ==
  ASSUME BackfillAssumption, TypeInv, Selecting, MarksInv, NEW m \in Nodes, RowsInv(m), Select(m)
  PROVE  RowsInv(m)'
<1>1. TypeOK /\ Laned(m)
  BY Zenon DEF TypeInv
<1>2. PICK w, v, K : Fills(m, w, v, K) /\ FillsChunk(w[Len(w)], v[Len(w)], K)
  BY ZenonT(40), <1>1, SelectStep
<1> DEFINE c == w[Len(w)]
           d == v[Len(w)]
<1>3. /\ w = node[m].window /\ node[m].lane = "select"
      /\ node'[m].window = v /\ node'[m].lane = IF K = {} THEN "run" ELSE "high"
      /\ UNCHANGED <<dbVars, saved, streamVars>>
      /\ w \in Seq(Chunk) /\ Len(w) \in Nat \ {0}
      /\ v \in Seq(Chunk) /\ Len(v) = Len(w)
      /\ \A i \in 1..Len(w) : i # Len(w) => v[i] = w[i]
  BY Zenon, <1>2 DEF Fills, Becomes
<1>4. UNCHANGED <<wal, table, owner, cur>>
  BY Zenon, <1>3 DEF dbVars, streamVars
<1>5. /\ d.id = c.id /\ d.collecting = c.collecting /\ d.seen = c.seen
      /\ d.rows = [k \in K |-> table[k]] /\ (d.known => c.known)
  BY Zenon, <1>2 DEF FillsChunk
<1>6. DOMAIN w = 1..Len(w) /\ DOMAIN v = 1..Len(w)
  BY ZenonT(40), <1>3, WindowOf
<1>7. Len(w) \in DOMAIN w
  BY SMTT(30), <1>3, <1>6
<1>8. MarkAt(wal, "high", c.id) = {}
  <2>1. IsOpen(node[m].lane)
    BY <1>3 DEF IsOpen
  <2> QED
    BY Zenon, <1>3, <2>1 DEF MarksInv, LaneInv, LaneInvOf, LaneMarks
<1>9. /\ \A i \in DOMAIN w : Holding(wal, table, w[i])
      /\ owner = m => \A i \in DOMAIN w : w[i].known => Sees(wal, w[i], cur)
  BY Zenon, <1>3 DEF RowsInv
<1>10. Holding(wal, table, d)
  <2>1. Holding(wal, table, c)
    BY ZenonT(40), <1>7, <1>9
  <2>2. \A l : RowsFrom(wal, table, [k \in K |-> table[k]], l)
    BY Zenon DEF RowsFrom
  <2> HIDE DEF c, d
  <2> QED
    BY ZenonT(40), <1>5, <2>1, <2>2 DEF Holding
<1>11. ASSUME owner = m, d.known PROVE Sees(wal, d, cur)
  <2>1. Sees(wal, c, cur)
    BY ZenonT(40), <1>5, <1>7, <1>9, <1>11
  <2> HIDE DEF c, d
  <2> QED
    BY ZenonT(40), <1>5, <1>8, <2>1 DEF Sees
<1>12. \A i \in DOMAIN v : Holding(wal, table, v[i])
  BY Zenon, <1>3, <1>6, <1>9, <1>10
<1>13. owner = m => \A i \in DOMAIN v : v[i].known => Sees(wal, v[i], cur)
  BY ZenonT(40), <1>3, <1>6, <1>9, <1>11
<1>14. ~Begun(node'[m].lane)
  BY SMTT(30), <1>3 DEF Begun
<1> QED
  BY ZenonT(40), <1>3, <1>4, <1>12, <1>13, <1>14, RowsInvIs DEF RowsIn, Fresh

\* The head leaves the window.
LEMMA RowsHeadDone ==
  ASSUME BackfillAssumption, TypeInv, NEW m \in Nodes, RowsInv(m), HeadDone(m)
  PROVE  RowsInv(m)'
<1> DEFINE w == node[m].window
<1>1. TypeOK /\ Laned(m)
  BY Zenon DEF TypeInv
<1>2. /\ w \in Seq(Chunk) /\ w # <<>>
      /\ node'[m].window = <<>> \/ node'[m].window = Tail(w)
      /\ node'[m].lane \in {"idle", "run"}
      /\ UNCHANGED <<dbVars, streamVars>>
  BY Zenon, <1>1, HeadDoneEffect DEF Becomes
<1>3. UNCHANGED <<wal, table, owner, cur>>
  BY Zenon, <1>2 DEF dbVars, streamVars
<1> DEFINE v == node'[m].window
<1>4. \A i \in DOMAIN v : \E j \in DOMAIN w : v[i] = w[j]
  <2> HIDE DEF w, v
  <2>1. CASE v = <<>>
    <3>1. DOMAIN v = {}
      BY SMTT(30), <2>1
    <3> QED
      BY Zenon, <3>1
  <2>2. CASE v = Tail(w)
    BY SMTT(30), <1>2, <2>2, TailOf
  <2> QED
    BY ZenonT(40), <1>2, <2>1, <2>2 DEF v
<1>5. /\ \A i \in DOMAIN w : Holding(wal, table, w[i])
      /\ owner = m => \A i \in DOMAIN w : w[i].known => Sees(wal, w[i], cur)
  BY Zenon DEF RowsInv
<1>6. ~Begun(node'[m].lane)
  BY <1>2 DEF Begun
<1> HIDE DEF w
<1>7. /\ \A i \in DOMAIN v : Holding(wal', table', v[i])
      /\ owner' = m => \A i \in DOMAIN v : v[i].known => Sees(wal', v[i], cur')
  BY ZenonT(40), <1>3, <1>4, <1>5
<1> QED
  BY Zenon, <1>6, <1>7, RowsInvIs DEF RowsIn, Fresh

\* Every step keeps the rows of every lane.
LEMMA RowsInvStep ==
  ASSUME BackfillAssumption, TypeInv, Selecting, MarksInv, StreamInv, Ops \subseteq {"write"},
         Next, NEW m \in Nodes, RowsInv(m)
  PROVE  RowsInv(m)'
<1>1. CASE Drops(m)
  <2>1. node'[m].window = <<>> /\ ~Begun(node'[m].lane)
    BY <1>1 DEF Drops, IsOpen, Begun
  <2>2. DOMAIN node'[m].window = {}
    BY Zenon, <2>1, NoneOf
  <2> QED
    BY ZenonT(40), <2>1, <2>2, RowsInvIs DEF RowsIn, Fresh
<1> QED
  BY Zenon, <1>1, WindowStep, RowsHeld, RowsRegistered, RowsSelected, RowsHeadDone DEF Shape
=============================================================================
