---------------------------- MODULE DeviceProofs ----------------------------
(***************************************************************************)
(* What Devices promises for any peers, threads and values: sequence       *)
(* numbers are unique, the clock is not behind the rows, and what the      *)
(* listeners maintain follows the tables.                                  *)
(***************************************************************************)
EXTENDS DeviceLemmas

(* A leaf is tried with Zenon, then with SMT; those that need arithmetic   *)
(* or are too large for Zenon name SMT.                                    *)
USE ZenonT(10), SMTT(20)

(* A stored event has its own number, and its row waits for the clock. *)
LEMMA StoreInv ==
  ASSUME Inv, NEW t \in Threads, Store(t)
  PROVE  Inv'
<1>1. PICK e : e = thread[t].event
  OBVIOUS
<1>2. thread[t].at = "authorized"
  BY DEF Store
<1>3. open /\ CallOK(thread[t], stored)
  BY <1>2, BusyOpen DEF Inv
<1>4. e \in Events /\ (~thread[t].own => e \in RemoteEvents)
  BY <1>1, <1>2, <1>3, Zenon DEF CallOK
<1>5. /\ TypeOK' /\ thread'[t].own = thread[t].own /\ thread'[t].event = e
      /\ \A u \in Threads \ {t} : thread'[u] = thread[u]
      /\ UNCHANGED <<open, local, entries, local_role, peers, dirty, saved, covered, crashes, owners>>
      /\ \/ /\ thread'[t].at = "stored" /\ stored' = stored \union {e}
            /\ cells'[e.key] = [stamp |-> e.stamp, value |-> e.value]
            /\ \A k \in Rows \ {e.key} : cells'[k] = cells[k]
         \/ /\ thread'[t].at = "ignored" /\ UNCHANGED <<cells, stored>>
            /\ ~StampBefore(cells[e.key].stamp, e.stamp)
  <2> TypeOK /\ e \in Events
    BY <1>4 DEF Inv
  <2>2. /\ thread[t].at = "authorized"
        /\ UNCHANGED <<open, local, entries, local_role, peers, dirty, saved, covered, crashes, owners>>
        /\ IF StampBefore(cells[e.key].stamp, e.stamp)
           THEN /\ cells' = [cells EXCEPT ![e.key] = [stamp |-> e.stamp, value |-> e.value]]
                /\ stored' = stored \union {e}
                /\ Goes(t, "stored")
           ELSE Goes(t, "ignored") /\ UNCHANGED <<cells, stored>>
    BY <1>1 DEF Store, memory
  <2>3. /\ e \in Events /\ e.key \in Rows /\ e.value \in Values /\ e.stamp \in Stamps
        /\ cells \in [Rows -> [stamp : Stamps \union {Oldest}, value : Values]]
    BY <1>1 DEF TypeOK, Events
  <2>4. "stored" \in Steps /\ "ignored" \in Steps
    BY DEF Steps
  <2>5. CASE StampBefore(cells[e.key].stamp, e.stamp)
    <3>1. /\ cells' = [cells EXCEPT ![e.key] = [stamp |-> e.stamp, value |-> e.value]]
          /\ stored' = stored \union {e}
          /\ Goes(t, "stored")
      BY <2>2, <2>5
    <3>2. /\ thread' \in [Threads -> Calls]
          /\ thread'[t].at = "stored" /\ thread'[t].own = thread[t].own /\ thread'[t].event = thread[t].event
          /\ \A u \in Threads \ {t} : thread'[u] = thread[u]
      BY <2>4, <3>1, GoesFacts
    <3>3. /\ cells' \in [Rows -> [stamp : Stamps \union {Oldest}, value : Values]]
          /\ cells'[e.key] = [stamp |-> e.stamp, value |-> e.value]
          /\ \A k \in Rows \ {e.key} : cells'[k] = cells[k]
      BY <2>3, <3>1
    <3>4. TypeOK'
      BY <2>2, <2>3, <3>1, <3>2, <3>3 DEF TypeOK, Clock, Kept
    <3> QED BY <1>1, <2>2, <3>1, <3>2, <3>3, <3>4, Zenon
  <2>6. CASE ~StampBefore(cells[e.key].stamp, e.stamp)
    <3>1. Goes(t, "ignored") /\ UNCHANGED <<cells, stored>>
      BY <2>2, <2>6
    <3>2. /\ thread' \in [Threads -> Calls]
          /\ thread'[t].at = "ignored" /\ thread'[t].own = thread[t].own /\ thread'[t].event = thread[t].event
          /\ \A u \in Threads \ {t} : thread'[u] = thread[u]
      BY <2>4, <3>1, GoesFacts
    <3>4. TypeOK'
      BY <2>2, <3>1, <3>2 DEF TypeOK, Clock, Kept
    <3> QED BY <1>1, <2>2, <2>6, <3>1, <3>2, <3>4, Zenon
  <2> QED BY <2>5, <2>6, Zenon
<1>6. thread'[t].at \in {"stored", "ignored"} /\ stored \subseteq stored' /\ e.key \in Rows
  BY <1>4, <1>5, EventFacts
<1>7. \A p \in Peers : State(p)' = State(p) /\ Kept(p)' = Kept(p) /\ Number(p)' = Number(p)
  BY <1>5 DEF State, Kept, Number
<1>8. CallsInv'
  <2>1. CallOK(thread'[t], stored')
    BY <1>4, <1>5 DEF CallOK
  <2> QED BY <1>3, <1>5, <1>6, <2>1, CallsKeep DEF Inv
<1>9. \A u \in Threads : Pending(u)' => u # t /\ Pending(u) /\ thread'[u].event = thread[u].event
  BY <1>5, <1>6, Zenon DEF Pending
<1>10. NumberedInv'
  <2>1. CASE stored' = stored
    <3>1. \A p \in Peers : Number(p) <= Number(p)'
      BY <1>7, NumberTypes, SMTT(20) DEF Inv
    <3> QED BY <1>5, <1>9, <2>1, <3>1, NumberedKeeps
  <2>2. CASE stored' = stored \union {e}
    <3> SUFFICES ASSUME crashes' = 0
                 PROVE  /\ \A f \in Made' : f.stamp.sequence < Number(f.stamp.peer)'
                        /\ \A f, g \in Made' : SameId(f, g) => f = g
                        /\ \A u \in Threads : Pending(u)' =>
                             /\ thread'[u].event.stamp.peer = local' /\ thread'[u].event.stamp.sequence < Number(local)'
                             /\ \A f \in Made' : ~SameId(thread'[u].event, f)
                        /\ \A u, v \in Threads : Pending(u)' /\ Pending(v)' /\ SameId(thread'[u].event, thread'[v].event) => u = v
      BY Zenon DEF NumberedInv
    <3>1. /\ \A f \in Made : f.stamp.sequence < Number(f.stamp.peer)
          /\ \A f, g \in Made : SameId(f, g) => f = g
          /\ \A u \in Threads : Pending(u) =>
               /\ thread[u].event.stamp.peer = local /\ thread[u].event.stamp.sequence < Number(local)
               /\ \A f \in Made : ~SameId(thread[u].event, f)
          /\ \A u, v \in Threads : Pending(u) /\ Pending(v) /\ SameId(thread[u].event, thread[v].event) => u = v
      BY <1>5, Zenon DEF Inv, NumberedInv
    <3>2. \A f \in Made' : f \in Made \/ (f = e /\ Pending(t))
      BY <1>2, <1>4, <2>2, Zenon DEF Made, Pending
    <3>3. \A f, g : SameId(f, g) => SameId(g, f)
      BY DEF SameId
    <3>4. Pending(t) => e.stamp.peer = local /\ e.stamp.sequence < Number(e.stamp.peer) /\ \A f \in Made : ~SameId(e, f)
      BY <1>1, <3>1
    <3>5. \A f \in Made' : f.stamp.sequence < Number(f.stamp.peer)'
      <4> TAKE f \in Made'
      <4>1. f.stamp.peer \in Peers
        BY <1>4, <3>2, EventFacts DEF Inv, TypeOK, Made
      <4>2. f.stamp.sequence < Number(f.stamp.peer)
        BY <3>1, <3>2, <3>4, Zenon
      <4> QED BY <1>7, <4>1, <4>2
    <3>6. \A f, g \in Made' : SameId(f, g) => f = g
      BY <3>1, <3>2, <3>3, <3>4, Zenon
    <3>7. ASSUME NEW u \in Threads, Pending(u)'
          PROVE  /\ thread'[u].event.stamp.peer = local' /\ thread'[u].event.stamp.sequence < Number(local)'
                 /\ \A f \in Made' : ~SameId(thread'[u].event, f)
      <4>1. u # t /\ Pending(u) /\ thread'[u].event = thread[u].event
        BY <1>9, <3>7, Zenon
      <4>2. Number(local)' = Number(local) /\ local' = local
        BY <1>5 DEF Number, State, Kept
      <4>3. \A f \in Made' : ~SameId(thread[u].event, f)
        BY <1>1, <3>1, <3>2, <3>3, <4>1, Zenon
      <4> QED BY <3>1, <4>1, <4>2, <4>3
    <3>8. \A u, v \in Threads : Pending(u)' /\ Pending(v)' /\ SameId(thread'[u].event, thread'[v].event) => u = v
      BY <1>9, <3>1
    <3> QED BY <3>5, <3>6, <3>7, <3>8, Zenon
  <2> QED BY <1>5, <2>1, <2>2
<1>11. CoveredInv'
  BY <1>5 DEF Inv, CoveredInv, Clock
<1>12. ClockInv'
  <2> SUFFICES ASSUME OneOwner' PROVE /\ State(local)'.clock # NoClock
                                      /\ \A k \in Rows : CoversRow(k)'
                                      /\ \A u \in Threads : Alone(u)' /\ Pending(u)' =>
                                           TimeBefore(cells'[thread'[u].event.key].stamp.time, thread'[u].event.stamp.time)
                                      /\ \A u \in Threads : thread'[u].own /\ thread'[u].at = "ignored" => ~Alone(u)'
    BY Zenon DEF ClockInv
  <2>1. OneOwner
    BY <1>5, <1>6 DEF OneOwner, Early
  <2>2. /\ State(local).clock # NoClock
        /\ \A k \in Rows : CoversRow(k)
        /\ \A u \in Threads : Alone(u) /\ Pending(u) =>
             TimeBefore(cells[thread[u].event.key].stamp.time, thread[u].event.stamp.time)
    BY <2>1, Zenon DEF Inv, ClockInv
  <2>3. State(local)' = State(local)
    BY <1>5 DEF State, Kept
  <2>4. ASSUME NEW k \in Rows PROVE CoversRow(k)'
    <3>1. CASE cells'[k] = cells[k]
      <4>1. CASE ~TimeBefore(State(local).clock.last_time, cells[k].stamp.time)
        BY <2>3, <3>1, <4>1 DEF CoversRow
      <4>2. ASSUME NEW u \in Threads, thread[u].at = "stored", thread[u].event.key = k, thread[u].event.stamp = cells[k].stamp
            PROVE  CoversRow(k)'
        <5>1. thread'[u] = thread[u]
          BY <1>2, <1>5, <4>2
        <5> QED BY <3>1, <4>2, <5>1 DEF CoversRow
      <4> QED BY <2>2, <4>1, <4>2, Zenon DEF CoversRow
    <3>2. CASE cells'[k] # cells[k]
      <4>1. thread'[t].at = "stored" /\ k = e.key /\ cells'[k].stamp = e.stamp /\ thread'[t].event = e
        BY <1>5, <3>2, SMTT(20)
      <4> QED BY <4>1 DEF CoversRow
    <3> QED BY <3>1, <3>2
  <2>5. ASSUME NEW u \in Threads, Alone(u)' PROVE u = t /\ Alone(t)
    <3>1. thread'[t].at # "idle"
      BY <1>6
    <3> QED BY <1>5, <2>5, <3>1, AloneActs
  <2>6. ASSUME thread'[t].at = "ignored", thread'[t].own PROVE ~Alone(t)
    <3>1. ~StampBefore(cells[e.key].stamp, e.stamp)
      BY <1>5, <2>6
    <3>2. ~TimeBefore(cells[e.key].stamp.time, e.stamp.time)
      BY <3>1 DEF StampBefore
    <3>3. Pending(t)
      BY <1>2, <1>5, <2>6, Zenon DEF Pending
    <3> QED BY <1>1, <2>2, <3>2, <3>3, Zenon
  <2> QED BY <1>9, <2>2, <2>3, <2>4, <2>5, <2>6, Zenon
<1>13. ReceiptsInv'
  <2>1. \A p \in Peers : Have(p) \subseteq Have(p)'
    BY <1>6 DEF Have
  <2> QED BY <1>5, <1>7, <2>1 DEF Inv, ReceiptsInv
<1>14. MirrorInv'
  <2> SUFFICES ASSUME NEW u \in Threads, Alone(u)'
               PROVE  /\ \A p \in Peers : entries[p] = cells'[p].value \/ (Listening(u)' /\ thread'[u].event.key = p)
                      /\ local_role = cells'[local].value \/ (Listening(u)' /\ thread'[u].event.key = local)
                      /\ Listening(u)' => cells'[thread'[u].event.key].value = thread'[u].event.value
    BY <1>5, Zenon DEF MirrorInv
  <2>1. thread'[t].at # "idle"
    BY <1>6
  <2>2. u = t /\ Alone(t)
    BY <1>5, <2>1, AloneActs
  <2>3. ~Listening(t)
    BY <1>2 DEF Listening
  <2>4. (\A p \in Peers : entries[p] = cells[p].value) /\ local_role = cells[local].value
    BY <1>3, <2>2, <2>3, Zenon DEF Inv, MirrorInv
  <2>5. local \in Rows /\ Peers \subseteq Rows
    BY ClockFacts, DeviceConstants, ZenonT(60) DEF Inv
  <2>6. CASE thread'[t].at = "stored"
    <3>1. Listening(t)' /\ thread'[t].event = e /\ cells'[e.key].value = e.value
      BY <1>5, <2>6, SMTT(20) DEF Listening
    <3>2. \A k \in Rows : cells'[k] = cells[k] \/ k = e.key
      BY <1>5, <2>6
    <3> QED BY <2>2, <2>4, <2>5, <3>1, <3>2
  <2>7. CASE thread'[t].at = "ignored"
    <3>1. ~Listening(t)' /\ cells' = cells
      BY <1>5, <2>7 DEF Listening
    <3> QED BY <2>2, <2>4, <3>1
  <2> QED BY <1>6, <2>6, <2>7
<1> QED BY <1>5, <1>8, <1>10, <1>11, <1>12, <1>13, <1>14 DEF Inv

LEMMA ReceiptsSet ==
  ASSUME NEW s, IsPeerState(s), NEW w, Apart(w)
  PROVE  LET r == [s EXCEPT !.receipts = w]
         IN  IsPeerState(r) /\ r.clock = s.clock /\ r.receipts = w
<1> DEFINE r == [s EXCEPT !.receipts = w]
<1>1. /\ DOMAIN s = {"receipts", "clock"} /\ s.clock \in Clocks
      /\ s.clock.next_sequence = 0 => s.clock = NoClock
  BY Zenon DEF IsPeerState
<1>2. DOMAIN r = {"receipts", "clock"} /\ r.clock = s.clock /\ r.receipts = w
  BY <1>1
<1> HIDE DEF r
<1>4. IsPeerState(r)
  BY <1>1, <1>2, Zenon DEF IsPeerState
<1> QED BY <1>2, <1>4 DEF r

(* The time that observe leaves is neither before the clock's nor before   *)
(* the event's.                                                            *)
LEMMA MergedLater ==
  ASSUME TypeOK, NEW wall \in 0..MaxMs, NEW time \in Times
  PROVE  /\ Merged(wall, time) \in Times
         /\ ~TimeBefore(Merged(wall, time), Clock.last_time)
         /\ ~TimeBefore(Merged(wall, time), time)
<1> DEFINE last == Clock.last_time
           S == {wall, last.ms, time.ms}
           ms == CHOOSE x \in S : \A y \in S : y <= x
<1>1. /\ last \in Times /\ last.ms \in Nat /\ last.logical \in 0..MaxLogical /\ last.logical \in Nat /\ wall \in Nat
      /\ time.ms \in Nat /\ time.logical \in 0..MaxLogical /\ time.logical \in Nat
  BY ClockFacts, TimeFacts, DeviceConstants, SMTT(20)
<1>2. \E x \in S : \A y \in S : y <= x
  BY <1>1, SMTT(20)
<1>3. ms \in S /\ \A y \in S : y <= ms
  BY <1>2, Zenon
<1>4. PICK m : m = ms
  OBVIOUS
<1>5. m \in Nat /\ wall <= m /\ last.ms <= m /\ time.ms <= m
  BY <1>1, <1>3, <1>4
<1>6. Merged(wall, time) =
        [ms |-> m,
         logical |-> IF m > last.ms /\ m > time.ms THEN 0
                     ELSE IF m = last.ms /\ m = time.ms
                          THEN IF last.logical > time.logical THEN last.logical ELSE time.logical
                     ELSE IF m = last.ms THEN last.logical ELSE time.logical]
  BY <1>4 DEF Merged
<1> HIDE DEF last, S, ms
<1> QED BY <1>1, <1>5, <1>6, DeviceConstants, SMTT(20) DEF Times, TimeBefore, last

(* After observe the clock is past the event, which counts as received. *)
LEMMA ObserveInv ==
  ASSUME Inv, NEW t \in Threads, Observe(t)
  PROVE  Inv'
<1>1. PICK e : e = thread[t].event
  OBVIOUS
<1>2. thread[t].at = "stored"
  BY Zenon DEF Observe
<1>3. open /\ CallOK(thread[t], stored)
  BY <1>2, BusyOpen DEF Inv
<1>4. e \in Events /\ e \in stored
  BY <1>1, <1>2, <1>3, Zenon DEF CallOK
<1>5. /\ TypeOK' /\ thread'[t].at = (IF e.key = App THEN "applied" ELSE "observed")
      /\ thread'[t].own = thread[t].own /\ thread'[t].event = e
      /\ \A u \in Threads \ {t} : thread'[u] = thread[u]
      /\ UNCHANGED <<open, local, cells, entries, local_role, saved, stored, covered, crashes, owners>>
      /\ \A q \in Peers \ {local} : peers'[q].clock = peers[q].clock
      /\ \A q \in Peers : \/ peers'[q].receipts = peers[q].receipts
                          \/ /\ q = e.stamp.peer
                             /\ Seen(peers'[q].receipts) = Seen(peers[q].receipts) \union {e.stamp.sequence}
      /\ Clock.next_sequence <= Clock'.next_sequence
      /\ ~TimeBefore(Clock'.last_time, Clock.last_time)
      /\ (e.stamp.peer = local => e.stamp.sequence < MaxSequence) => ~TimeBefore(Clock'.last_time, e.stamp.time)
  <2> TypeOK /\ open /\ e \in Events
    BY <1>3, <1>4 DEF Inv
  <2>2. /\ thread[t].at = "stored" /\ Goes(t, IF e.key = App THEN "applied" ELSE "observed")
        /\ UNCHANGED <<open, local, cells, entries, local_role, saved, stored, covered, crashes, owners>>
    BY <1>1, Zenon DEF Observe
  <2>3. (IF e.key = App THEN "applied" ELSE "observed") \in Steps
    BY DEF Steps
  <2>4. /\ thread' \in [Threads -> Calls]
        /\ thread'[t].at = (IF e.key = App THEN "applied" ELSE "observed")
        /\ thread'[t].own = thread[t].own /\ thread'[t].event = thread[t].event
        /\ \A u \in Threads \ {t} : thread'[u] = thread[u]
    BY <2>2, <2>3, GoesFacts
  <2>5. /\ e \in Events /\ e.stamp.peer \in Peers /\ e.stamp.sequence \in 1..MaxSequence /\ e.stamp.time \in Times
        /\ e.stamp.sequence \in Nat
    BY <1>1, DeviceConstants, SMTT(20) DEF Events, Stamps
  <2>6. /\ Clock = peers[local].clock /\ Clock' = peers'[local].clock /\ local \in Peers
        /\ Clock.last_time \in Times /\ Clock.last_time.ms \in Nat /\ Clock.last_time.logical \in Nat
        /\ Clock.next_sequence \in Nat /\ Clock.next_sequence >= 1 /\ Clock.next_sequence <= MaxSequence
    BY <2>2, ClockFacts, TimeFacts, DeviceConstants, SMTT(20) DEF Clock
  <2>7. CASE e.stamp.peer = local /\ e.stamp.sequence = MaxSequence
    <3>1. UNCHANGED <<peers, dirty>>
      BY <1>1, <2>7 DEF Observe
    <3>2. TypeOK'
      BY <2>2, <2>4, <3>1 DEF TypeOK, Clock, Kept
    <3>3. ~TimeBefore(Clock.last_time, Clock.last_time)
      BY <2>6, SMTT(20) DEF TimeBefore
    <3>4. ~(e.stamp.sequence < MaxSequence)
      BY <2>5, <2>7, DeviceConstants, SMTT(20)
    <3>5. Clock' = Clock /\ Clock.next_sequence <= Clock.next_sequence
      BY <2>2, <2>6, <3>1, SMTT(20) DEF Clock
    <3> QED BY <1>1, <2>2, <2>4, <2>7, <3>1, <3>2, <3>3, <3>4, <3>5, Zenon
  <2>8. CASE ~(e.stamp.peer = local /\ e.stamp.sequence = MaxSequence)
    <3> DEFINE Nx == IF e.stamp.peer = local /\ e.stamp.sequence + 1 > Clock.next_sequence
                     THEN e.stamp.sequence + 1 ELSE Clock.next_sequence
    <3>1. /\ \E wall \in 0..MaxMs :
               peers' = [peers EXCEPT ![e.stamp.peer].receipts = ObserveSequence(@, e.stamp.sequence),
                                      ![local].clock = [next_sequence |-> Nx, last_time |-> Merged(wall, e.stamp.time)]]
          /\ dirty' = dirty \union {local, e.stamp.peer}
      BY <1>1, <2>8, Zenon DEF Observe
    <3>2. PICK next : next = Nx
      OBVIOUS
    <3>3. next \in Nat /\ Clock.next_sequence <= next /\ next <= MaxSequence
      BY <2>5, <2>6, <2>8, <3>2, DeviceConstants, SMTT(20)
    <3>4. PICK wall \in 0..MaxMs :
            peers' = [peers EXCEPT ![e.stamp.peer].receipts = ObserveSequence(@, e.stamp.sequence),
                                   ![local].clock = [next_sequence |-> next, last_time |-> Merged(wall, e.stamp.time)]]
      BY <3>1, <3>2, Zenon
    <3> HIDE DEF Nx
    <3>5. /\ DOMAIN peers' = Peers /\ \A q \in Peers : IsPeerState(peers'[q])
          /\ \A q \in Peers \ {local} : peers'[q].clock = peers[q].clock
          /\ \A q \in Peers \ {e.stamp.peer} : peers'[q].receipts = peers[q].receipts
          /\ \A q \in Peers \ {local, e.stamp.peer} : peers'[q] = peers[q]
          /\ e.stamp.peer \in Peers
          /\ Seen(peers'[e.stamp.peer].receipts) = Seen(peers[e.stamp.peer].receipts) \union {e.stamp.sequence}
          /\ peers'[local].clock = [next_sequence |-> next, last_time |-> Merged(wall, e.stamp.time)]
      <4>1. /\ e.stamp.peer \in Peers /\ e.stamp.sequence \in 1..MaxSequence /\ e.stamp.time \in Times
        BY <2>5, DeviceConstants DEF Events, Stamps
      <4>2. PICK p, n : p = e.stamp.peer /\ n = e.stamp.sequence
        OBVIOUS
      <4>3. PICK c : c = [next_sequence |-> next, last_time |-> Merged(wall, e.stamp.time)]
        BY Zenon
      <4>4. Merged(wall, e.stamp.time) \in Times
        BY <4>1, MergedLater
      <4>5. c \in Clocks /\ c.next_sequence >= 1
        BY <3>3, <4>3, <4>4, ClockFacts, DeviceConstants, SMTT(20) DEF Clocks
      <4>6. DOMAIN peers = Peers /\ (\A q \in Peers : IsPeerState(peers[q])) /\ local \in Peers
        BY ClockFacts, Zenon DEF TypeOK
      <4>7. PICK w : w = ObserveSequence(peers[p].receipts, n)
        OBVIOUS
      <4>8. Apart(w) /\ Seen(w) = Seen(peers[p].receipts) \union {n}
        BY <4>1, <4>2, <4>6, <4>7, ObserveAdds, PeerStateFacts
      <4>9. PICK r : r = [peers[p] EXCEPT !.receipts = w]
        BY Zenon
      <4>10. IsPeerState(r) /\ r.clock = peers[p].clock /\ r.receipts = w
        BY <4>1, <4>2, <4>6, <4>8, <4>9, ReceiptsSet
      <4>11. PICK f : f = [peers EXCEPT ![p] = r]
        BY Zenon
      <4>12. /\ DOMAIN f = Peers /\ f[p] = r /\ \A q \in Peers \ {p} : f[q] = peers[q]
        BY <4>1, <4>2, <4>6, <4>11
      <4>13. IsPeerState(f[local])
        BY <4>6, <4>10, <4>12, Zenon
      <4>14. PICK l : l = [f[local] EXCEPT !.clock = c]
        BY ZenonT(60)
      <4>15. IsPeerState(l) /\ l.clock = c /\ l.receipts = f[local].receipts
        BY <4>5, <4>13, <4>14, ClockSet
      <4>16. peers' = [f EXCEPT ![local] = l]
        BY <3>4, <4>2, <4>3, <4>7, <4>9, <4>11, <4>14
      <4>17. DOMAIN peers' = Peers /\ peers'[local] = l /\ \A q \in Peers \ {local} : peers'[q] = f[q]
        BY <4>6, <4>12, <4>16
      <4>18. \A q \in Peers : IsPeerState(peers'[q])
        BY <4>6, <4>10, <4>12, <4>15, <4>17, Zenon
      <4>19. \A q \in Peers \ {local} : peers'[q].clock = peers[q].clock
        BY <4>10, <4>12, <4>17
      <4>20. \A q \in Peers \ {p} : peers'[q].receipts = peers[q].receipts
        BY <4>12, <4>15, <4>17
      <4>21. peers'[p].receipts = w
        BY <4>1, <4>2, <4>10, <4>12, <4>15, <4>17
      <4>22. \A q \in Peers \ {local, p} : peers'[q] = peers[q]
        BY <4>12, <4>17
      <4> QED BY <4>1, <4>2, <4>3, <4>8, <4>15, <4>17, <4>18, <4>19, <4>20, <4>21, <4>22, Zenon
    <3>6. ~TimeBefore(Merged(wall, e.stamp.time), Clock.last_time) /\ ~TimeBefore(Merged(wall, e.stamp.time), e.stamp.time)
      BY <2>5, MergedLater
    <3>7. Clock'.next_sequence = next /\ Clock'.last_time = Merged(wall, e.stamp.time)
      BY <2>6, <3>5, SMTT(20)
    <3>8. Clock' # NoClock
      BY <2>6, <3>3, <3>7, NoClockFacts, SMTT(20)
    <3>9. TypeOK'
      <4>1. open' => Clock' # NoClock /\ \A p \in Peers \ dirty' : peers'[p] = Kept(p)'
        BY <2>2, <3>1, <3>5, <3>8, Zenon DEF TypeOK, Kept
      <4>2. dirty' \subseteq Peers
        BY <2>5, <2>6, <3>1 DEF TypeOK
      <4> QED BY <2>2, <2>4, <3>5, <4>1, <4>2, Zenon DEF TypeOK
    <3>10. \A q \in Peers : \/ peers'[q].receipts = peers[q].receipts
                            \/ /\ q = e.stamp.peer
                               /\ Seen(peers'[q].receipts) = Seen(peers[q].receipts) \union {e.stamp.sequence}
      BY <3>5, Zenon
    <3>11. Clock.next_sequence <= Clock'.next_sequence
      BY <3>3, <3>7
    <3> QED BY <1>1, <2>2, <2>4, <3>5, <3>6, <3>7, <3>9, <3>10, <3>11, Zenon
  <2> QED BY <2>7, <2>8, Zenon
<1>6. thread'[t].at \in {"applied", "observed"} /\ (thread'[t].at = "observed" <=> e.key # App)
  BY <1>5, ZenonT(60)
<1>7. /\ local \in Peers /\ Clock = peers[local].clock /\ Clock' = peers'[local].clock
      /\ Clock.last_time \in Times /\ Clock.next_sequence \in Nat
      /\ State(local) = peers[local] /\ State(local)' = peers'[local]
  BY <1>3, <1>5, ClockFacts, ZenonT(60) DEF Inv, Clock, State
<1>8. Clock'.last_time \in Times /\ Clock' # NoClock /\ Clock'.next_sequence \in Nat
  <2>1. IsPeerState(peers'[local])
    BY <1>5, <1>7, Zenon DEF TypeOK
  <2>2. Clock' # NoClock
    BY <1>3, <1>5, Zenon DEF TypeOK
  <2> QED BY <1>7, <2>1, <2>2, PeerStateFacts
<1>9. CallsInv'
  <2>1. CallOK(thread'[t], stored')
    BY <1>4, <1>5, <1>6, Zenon DEF CallOK
  <2> QED BY <1>3, <1>5, <2>1, CallsKeep, ZenonT(60) DEF Inv
<1>10. \A u \in Threads : Pending(u)' => u # t /\ Pending(u) /\ thread'[u].event = thread[u].event
  BY <1>5, <1>6, Zenon DEF Pending
<1>11. NumberedInv'
  <2>1. \A p \in Peers : Number(p) = peers[p].clock.next_sequence /\ Number(p)' = peers'[p].clock.next_sequence
    BY <1>3, <1>5 DEF Number, State
  <2>2. \A p \in Peers : Number(p) \in Nat
    BY NumberTypes DEF Inv
  <2>3. \A p \in Peers : Number(p) <= Number(p)'
    <3>1. \A x \in Nat : x <= x
      BY SMTT(20)
    <3>2. \A p \in Peers \ {local} : Number(p)' = Number(p)
      BY <1>5, <2>1, SMTT(20)
    <3>3. \A p \in Peers : p = local => Number(p) <= Number(p)'
      BY <1>5, <1>7, <2>1, SMTT(20)
    <3> QED BY <2>2, <3>1, <3>2, <3>3, SMTT(20)
  <2> QED BY <1>5, <1>10, <2>3, NumberedKeeps
<1>12. CoveredInv'
  <2>1. covered \in Nat /\ covered < Clock.next_sequence
    BY <1>3 DEF Inv, TypeOK, CoveredInv
  <2>2. covered < Clock'.next_sequence
    BY <1>5, <1>7, <1>8, <2>1, SMTT(20)
  <2> QED BY <1>5, <2>2, Zenon DEF Inv, CoveredInv
<1>13. ClockInv'
  <2> SUFFICES ASSUME OneOwner' PROVE /\ State(local)'.clock # NoClock
                                      /\ \A k \in Rows : CoversRow(k)'
                                      /\ \A u \in Threads : Alone(u)' /\ Pending(u)' =>
                                           TimeBefore(cells'[thread'[u].event.key].stamp.time, thread'[u].event.stamp.time)
                                      /\ \A u \in Threads : thread'[u].own /\ thread'[u].at = "ignored" => ~Alone(u)'
    BY Zenon DEF ClockInv
  <2>1. OneOwner
    BY <1>5 DEF OneOwner, Early
  <2>2. \A k \in Rows : CoversRow(k)
    BY <2>1, Zenon DEF Inv, ClockInv
  <2>3. State(local)'.clock = Clock' /\ State(local).clock = Clock
    BY <1>7
  <2>4. ASSUME NEW k \in Rows PROVE CoversRow(k)'
    <3>1. cells[k].stamp.time \in Times /\ cells' = cells
      BY <1>5, CellTimes DEF Inv
    <3>2. CASE ~TimeBefore(Clock.last_time, cells[k].stamp.time)
      <4>1. ~TimeBefore(Clock'.last_time, cells[k].stamp.time)
        BY <1>5, <1>7, <1>8, <3>1, <3>2, TimeOrder, SMTT(20)
      <4> QED BY <2>3, <3>1, <4>1 DEF CoversRow
    <3>3. ASSUME NEW u \in Threads, thread[u].at = "stored", thread[u].event.key = k, thread[u].event.stamp = cells[k].stamp
          PROVE  CoversRow(k)'
      <4>1. CASE u = t
        <5>1. e.stamp.peer = local => e.stamp.sequence < MaxSequence
          BY <1>4, <2>1, Zenon DEF OneOwner, Early
        <5>2. ~TimeBefore(Clock'.last_time, cells[k].stamp.time)
          BY <1>1, <1>5, <3>3, <4>1, <5>1
        <5> QED BY <2>3, <3>1, <5>2 DEF CoversRow
      <4>2. CASE u # t
        <5>1. thread'[u] = thread[u]
          BY <1>5, <4>2, ZenonT(60)
        <5> QED BY <3>1, <3>3, <5>1 DEF CoversRow
      <4> QED BY <4>1, <4>2
    <3> QED BY <2>2, <2>3, <3>2, <3>3 DEF CoversRow
  <2>5. ASSUME NEW u \in Threads, Alone(u)' PROVE u = t /\ Alone(t)
    <3>1. thread'[t].at # "idle"
      BY <1>6
    <3> QED BY <1>5, <2>5, <3>1, AloneActs
  <2>6. thread'[t].at # "ignored"
    BY <1>6
  <2> QED BY <1>8, <1>10, <2>3, <2>4, <2>5, <2>6, Zenon
<1>14. ReceiptsInv'
  <2>1. \A p \in Peers : Have(p)' = Have(p) /\ Kept(p)' = Kept(p)
    BY <1>5, Zenon DEF Have, Kept
  <2>2. e.stamp.sequence \in Have(e.stamp.peer)
    BY <1>4 DEF Have
  <2>3. \A p \in Peers : Seen(peers'[p].receipts) \subseteq Have(p)
    BY <1>5, <2>2 DEF Inv, ReceiptsInv
  <2> QED BY <2>1, <2>3 DEF Inv, ReceiptsInv
<1>15. MirrorInv'
  <2> SUFFICES ASSUME NEW u \in Threads, Alone(u)'
               PROVE  /\ \A p \in Peers : entries[p] = cells[p].value \/ (Listening(u)' /\ thread'[u].event.key = p)
                      /\ local_role = cells[local].value \/ (Listening(u)' /\ thread'[u].event.key = local)
                      /\ Listening(u)' => cells[thread'[u].event.key].value = thread'[u].event.value
    BY <1>5, Zenon DEF MirrorInv
  <2>1. thread'[t].at # "idle"
    BY <1>6
  <2>2. u = t /\ Alone(t)
    BY <1>5, <2>1, AloneActs, ZenonT(60)
  <2>3. /\ \A p \in Peers : entries[p] = cells[p].value \/ e.key = p
        /\ local_role = cells[local].value \/ e.key = local
        /\ cells[e.key].value = e.value
    BY <1>1, <1>2, <1>3, <2>2, Zenon DEF Inv, MirrorInv, Listening
  <2>4. Listening(t)' <=> e.key # App
    BY <1>6 DEF Listening
  <2>5. local # App /\ App \notin Peers
    BY <1>7, DeviceConstants, ZenonT(60)
  <2> QED BY <1>5, <2>2, <2>3, <2>4, <2>5, Zenon
<1> QED BY <1>5, <1>9, <1>11, <1>12, <1>13, <1>14, <1>15 DEF Inv

(* The registry's listener brings the cache what the table holds. *)
LEMMA MirrorStepInv ==
  ASSUME Inv, NEW t \in Threads, Mirror(t)
  PROVE  Inv'
<1>1. PICK e : e = thread[t].event
  OBVIOUS
<1>2. thread[t].at = "observed"
  BY DEF Mirror
<1>3. open /\ CallOK(thread[t], stored)
  BY <1>2, BusyOpen DEF Inv
<1>4. e \in Events /\ e.key # App
  BY <1>1, <1>2, <1>3, Zenon DEF CallOK
<1>5. /\ TypeOK' /\ thread'[t].at = "applied"
      /\ thread'[t].own = thread[t].own /\ thread'[t].event = e
      /\ \A u \in Threads \ {t} : thread'[u] = thread[u]
      /\ UNCHANGED <<open, local, cells, peers, dirty, saved, stored, covered, crashes, owners>>
      /\ e.key \in Peers /\ entries'[e.key] = e.value
      /\ \A p \in Peers \ {e.key} : entries'[p] = entries[p]
      /\ local_role' = IF e.key = local THEN e.value ELSE local_role
  <2> TypeOK /\ e \in Events /\ e.key # App
    BY <1>4 DEF Inv
  <2>2. /\ thread[t].at = "observed" /\ Goes(t, "applied")
        /\ UNCHANGED <<open, local, cells, peers, dirty, saved, stored, covered, crashes, owners>>
        /\ entries' = [entries EXCEPT ![e.key] = e.value]
        /\ local_role' = IF e.key = local THEN e.value ELSE local_role
    BY <1>1 DEF Mirror
  <2>3. "applied" \in Steps
    BY DEF Steps
  <2>4. /\ thread' \in [Threads -> Calls]
        /\ thread'[t].at = "applied" /\ thread'[t].own = thread[t].own /\ thread'[t].event = thread[t].event
        /\ \A u \in Threads \ {t} : thread'[u] = thread[u]
    BY <2>2, <2>3, GoesFacts
  <2>5. e.key \in Peers /\ e.value \in Values
    BY <1>1 DEF Events, Rows
  <2>6. /\ entries' \in [Peers -> Values] /\ entries'[e.key] = e.value
        /\ \A p \in Peers \ {e.key} : entries'[p] = entries[p]
    BY <2>2, <2>5 DEF TypeOK
  <2>7. local_role' \in Values
    BY <2>2, <2>5 DEF TypeOK
  <2>8. TypeOK'
    BY <2>2, <2>4, <2>6, <2>7, Zenon DEF TypeOK, Clock, Kept
  <2> QED BY <1>1, <2>2, <2>4, <2>5, <2>6, <2>8, Zenon
<1>6. CallOK(thread'[t], stored) /\ ~Pending(t)' /\ thread'[t].at \notin {"idle", "ignored"} /\ thread[t].at # "stored"
  BY <1>2, <1>5 DEF CallOK, Pending
<1>7. CallsInv' /\ NumberedInv' /\ CoveredInv' /\ ClockInv' /\ ReceiptsInv'
  BY <1>3, <1>5, <1>6, QuietKeeps
<1>8. MirrorInv'
  <2> SUFFICES ASSUME NEW u \in Threads, Alone(u)'
               PROVE  /\ \A p \in Peers : entries'[p] = cells[p].value
                      /\ local_role' = cells[local].value
                      /\ ~Listening(u)'
    BY <1>5, Zenon DEF MirrorInv
  <2>1. u = t /\ Alone(t)
    BY <1>5, <1>6, AloneActs
  <2>2. ~Listening(t)'
    BY <1>5 DEF Listening
  <2>3. /\ \A p \in Peers : entries[p] = cells[p].value \/ e.key = p
        /\ local_role = cells[local].value \/ e.key = local
        /\ cells[e.key].value = e.value
    BY <1>1, <1>2, <1>3, <2>1 DEF Inv, MirrorInv, Listening
  <2> QED BY <1>5, <2>1, <2>2, <2>3, Zenon
<1> QED BY <1>5, <1>7, <1>8, Zenon DEF Inv

(* What a checkpoint of the states S leaves. *)
LEMMA CheckpointFacts ==
  ASSUME TypeOK, NEW S \in SUBSET Peers, Checkpoint(S)
  PROVE  /\ DOMAIN saved' = DOMAIN saved \union S
         /\ \A p \in Peers : p \in DOMAIN saved' => IsPeerState(saved'[p])
         /\ \A p \in Peers : Kept(p)' = IF p \in S THEN peers[p] ELSE Kept(p)
         /\ DOMAIN saved' \subseteq Peers
<1>1. saved' = [p \in DOMAIN saved \union S |-> IF p \in S THEN peers[p] ELSE saved[p]]
  BY DEF Checkpoint
<1>2. DOMAIN saved \subseteq Peers /\ \A p \in Peers : IsPeerState(peers[p]) /\ (p \in DOMAIN saved => IsPeerState(saved[p]))
  BY Zenon DEF TypeOK
<1>3. DOMAIN saved' = DOMAIN saved \union S /\ \A p \in DOMAIN saved \union S : saved'[p] = IF p \in S THEN peers[p] ELSE saved[p]
  BY <1>1
<1>4. \A p \in Peers : p \in DOMAIN saved' => IsPeerState(saved'[p])
  BY <1>2, <1>3, Zenon
<1>5. \A p \in Peers : Kept(p)' = IF p \in S THEN peers[p] ELSE Kept(p)
  BY <1>3 DEF Kept
<1> QED BY <1>2, <1>3, <1>4, <1>5

(* A checkpoint of all that is dirty saves what is in memory. *)
LEMMA FlushedFacts ==
  ASSUME TypeOK, open, Checkpoint(dirty)
  PROVE  /\ DOMAIN saved' \subseteq Peers /\ DOMAIN saved \subseteq DOMAIN saved'
         /\ \A p \in Peers : p \in DOMAIN saved' => IsPeerState(saved'[p])
         /\ \A p \in Peers : Kept(p)' = peers[p]
         /\ local \in DOMAIN saved' /\ saved'[local] = peers[local]
<1>1. dirty \in SUBSET Peers /\ \A p \in Peers \ dirty : peers[p] = Kept(p)
  BY Zenon DEF TypeOK
<1>2. /\ DOMAIN saved' = DOMAIN saved \union dirty
      /\ \A p \in Peers : p \in DOMAIN saved' => IsPeerState(saved'[p])
      /\ \A p \in Peers : Kept(p)' = IF p \in dirty THEN peers[p] ELSE Kept(p)
      /\ DOMAIN saved' \subseteq Peers
  BY <1>1, CheckpointFacts
<1>3. \A p \in Peers : Kept(p)' = peers[p]
  BY <1>1, <1>2, Zenon
<1>4. local \in Peers /\ peers[local].clock # NoClock
  BY ClockFacts
<1>5. peers[local] # Unknown
  BY <1>4, UnknownState
<1>6. local \in DOMAIN saved' /\ saved'[local] = peers[local]
  BY <1>3, <1>4, <1>5 DEF Kept
<1> QED BY <1>2, <1>3, <1>6

(* The memory of a process that has ended has its type, too. *)
LEMMA ForgottenFacts ==
  ASSUME Forgotten
  PROVE  /\ open' = FALSE /\ (\A t \in Threads : thread'[t] = Idle) /\ thread' \in [Threads -> Calls]
         /\ local_role' \in Values /\ entries' \in [Peers -> Values]
         /\ DOMAIN peers' = Peers /\ (\A p \in Peers : IsPeerState(peers'[p])) /\ dirty' \subseteq Peers
         /\ \A p \in Peers : Seen(peers'[p].receipts) = {}
<1>1. /\ open' = FALSE /\ entries' = [p \in Peers |-> Gone] /\ local_role' = Gone
      /\ peers' = [p \in Peers |-> Unknown] /\ dirty' = {}
      /\ thread' = [t \in Threads |-> Idle]
  BY DEF Forgotten
<1>2. Idle \in Calls
  BY DeviceConstants DEF Idle, Calls, Event, Steps
<1>3. (\A t \in Threads : thread'[t] = Idle) /\ thread' \in [Threads -> Calls]
  BY <1>1, <1>2
<1>4. local_role' \in Values /\ entries' \in [Peers -> Values]
  BY <1>1, DeviceConstants
<1>5. DOMAIN peers' = Peers /\ \A p \in Peers : peers'[p] = Unknown
  BY <1>1
<1>6. (\A p \in Peers : IsPeerState(peers'[p])) /\ \A p \in Peers : Seen(peers'[p].receipts) = {}
  BY <1>5, UnknownState
<1> QED BY <1>1, <1>3, <1>4, <1>5, <1>6

LEMMA FlushInv ==
  ASSUME Inv, Flush
  PROVE  Inv'
<1>1. /\ TypeOK' /\ open /\ (\A p \in Peers : Kept(p)' = peers[p])
      /\ local \in DOMAIN saved' /\ saved'[local] = peers[local]
      /\ covered' = Clock.next_sequence - 1
      /\ UNCHANGED <<open, local, cells, entries, local_role, peers, thread, stored, crashes, owners>>
  <2> TypeOK
    BY DEF Inv
  <2>1. /\ open /\ Checkpoint(dirty) /\ dirty' = {} /\ covered' = Clock.next_sequence - 1
        /\ UNCHANGED <<open, local, cells, entries, local_role, peers, thread, stored, crashes, owners>>
    BY DEF Flush
  <2>2. /\ DOMAIN saved' \subseteq Peers
        /\ \A p \in Peers : p \in DOMAIN saved' => IsPeerState(saved'[p])
        /\ \A p \in Peers : Kept(p)' = peers[p]
        /\ local \in DOMAIN saved' /\ saved'[local] = peers[local]
    BY <2>1, FlushedFacts
  <2>3. covered' \in Nat
    BY <2>1, ClockFacts, SMTT(20)
  <2>4. open' => Clock' # NoClock /\ \A p \in Peers \ dirty' : peers'[p] = Kept(p)'
    BY <2>1, <2>2 DEF TypeOK, Clock
  <2>5. TypeOK'
    BY <2>1, <2>2, <2>3, <2>4 DEF TypeOK
  <2> QED BY <2>1, <2>2, <2>5
<1>2. \A p : State(p)' = State(p) /\ Number(p)' = Number(p)
  BY <1>1 DEF State, Number
<1>3. CallsInv'
  BY <1>1 DEF Inv, CallsInv
<1>4. NumberedInv'
  <2>1. \A p \in Peers : Number(p) <= Number(p)'
    BY <1>2, NumberTypes, SMTT(20) DEF Inv
  <2>2. \A t \in Threads : Pending(t)' => Pending(t) /\ thread'[t].event = thread[t].event /\ local' = local
    BY <1>1 DEF Pending
  <2> QED BY <1>1, <2>1, <2>2, NumberedKeeps
<1>5. CoveredInv'
  <2>1. Clock.next_sequence \in Nat /\ Clock = peers[local].clock /\ Clock' = Clock
    BY <1>1, ClockFacts DEF Inv, Clock
  <2>2. covered' < Clock.next_sequence
    BY <1>1, <2>1, SMTT(20)
  <2> QED BY <1>1, <2>1, <2>2 DEF CoveredInv
<1>6. ClockInv'
  <2>1. State(local)' = State(local)
    BY <1>1 DEF State
  <2>2. \A k \in Rows : CoversRow(k)' <=> CoversRow(k)
    BY <1>1, <2>1 DEF CoversRow
  <2>3. OneOwner' <=> OneOwner
    BY <1>1 DEF OneOwner, Early
  <2>4. \A t \in Threads : (Alone(t)' <=> Alone(t)) /\ (Pending(t)' <=> Pending(t))
    BY <1>1 DEF Alone, Pending
  <2> QED BY <1>1, <2>1, <2>2, <2>3, <2>4 DEF Inv, ClockInv
<1>7. ReceiptsInv'
  <2>1. \A p \in Peers : Have(p)' = Have(p)
    BY <1>1 DEF Have
  <2> QED BY <1>1, <2>1 DEF Inv, ReceiptsInv
<1>8. MirrorInv'
  BY <1>1 DEF Inv, MirrorInv, Alone, Listening
<1> QED BY <1>1, <1>3, <1>4, <1>5, <1>6, <1>7, <1>8 DEF Inv

(* Where no thread has a call in progress. *)
LEMMA IdleThreads ==
  ASSUME \A t \in Threads : thread'[t] = Idle
  PROVE  /\ \A t \in Threads : ~Pending(t)' /\ ~Listening(t)' /\ thread'[t].at # "ignored" /\ thread'[t].at # "stored"
         /\ CallsInv'
<1>1. Idle.at = "idle" /\ Idle.own = FALSE
  BY DEF Idle
<1>2. \A t \in Threads : ~Pending(t)' /\ ~Listening(t)' /\ thread'[t].at # "ignored" /\ thread'[t].at # "stored"
  BY <1>1 DEF Pending, Listening
<1>3. \A t \in Threads : CallOK(thread'[t], stored')
  BY <1>1 DEF CallOK
<1> QED BY <1>2, <1>3, Zenon DEF CallsInv

LEMMA CloseInv ==
  ASSUME Inv, Close
  PROVE  Inv'
<1>1. /\ TypeOK' /\ open /\ open' = FALSE /\ (\A p \in Peers : Kept(p)' = peers[p])
      /\ \A t \in Threads : Resting(t) /\ thread'[t] = Idle
      /\ \A p \in Peers : Seen(peers'[p].receipts) = {}
      /\ local \in DOMAIN saved' /\ saved'[local] = peers[local]
      /\ covered' = Clock.next_sequence - 1
      /\ UNCHANGED <<local, cells, stored, crashes, owners>>
  <2> TypeOK
    BY DEF Inv
  <2>1. /\ open /\ Checkpoint(dirty) /\ Forgotten /\ covered' = Clock.next_sequence - 1
        /\ \A t \in Threads : Resting(t)
        /\ UNCHANGED <<local, cells, stored, crashes, owners>>
    BY DEF Close
  <2>2. /\ DOMAIN saved' \subseteq Peers
        /\ \A p \in Peers : p \in DOMAIN saved' => IsPeerState(saved'[p])
        /\ \A p \in Peers : Kept(p)' = peers[p]
        /\ local \in DOMAIN saved' /\ saved'[local] = peers[local]
    BY <2>1, FlushedFacts
  <2>3. covered' \in Nat
    BY <2>1, ClockFacts, SMTT(20)
  <2>5. TypeOK'
    BY <2>1, <2>2, <2>3, ForgottenFacts DEF TypeOK
  <2> QED BY <2>1, <2>2, <2>5, ForgottenFacts
<1>2. /\ \A t \in Threads : ~Pending(t)' /\ ~Listening(t)' /\ thread'[t].at # "ignored" /\ thread'[t].at # "stored"
      /\ CallsInv'
  BY <1>1, IdleThreads, Zenon
<1>3. local \in Peers /\ Clock = peers[local].clock /\ Clock.next_sequence \in Nat
  BY ClockFacts DEF Inv
<1>4. \A p \in Peers : State(p)' = State(p) /\ Number(p)' = Number(p)
  BY <1>1 DEF State, Number
<1>5. NumberedInv'
  <2>1. \A p \in Peers : Number(p) <= Number(p)'
    BY <1>4, NumberTypes, SMTT(20) DEF Inv
  <2> QED BY <1>1, <1>2, <2>1, NumberedKeeps
<1>6. CoveredInv'
  <2>0. \A x \in Nat : x - 1 < x
    BY SMTT(20)
  <2>1. covered' < Clock.next_sequence
    BY <1>1, <1>3, <2>0, Zenon
  <2> QED BY <1>1, <1>3, <2>1, ZenonT(60) DEF CoveredInv
<1>7. ClockInv'
  <2> SUFFICES ASSUME OneOwner' PROVE State(local)'.clock # NoClock /\ \A k \in Rows : CoversRow(k)'
    BY <1>2, Zenon DEF ClockInv
  <2>1. OneOwner
    BY <1>1 DEF OneOwner, Early
  <2>2. State(local).clock # NoClock /\ \A k \in Rows : CoversRow(k)
    BY <2>1, Zenon DEF Inv, ClockInv
  <2>3. State(local)' = State(local) /\ cells' = cells
    BY <1>1, <1>3 DEF State, Kept
  <2>4. \A t \in Threads : thread[t].at # "stored"
    BY <1>1 DEF Resting
  <2> QED BY <2>2, <2>3, <2>4, Zenon DEF CoversRow
<1>8. ReceiptsInv'
  <2>1. \A p \in Peers : Have(p)' = Have(p)
    BY <1>1 DEF Have
  <2> QED BY <1>1, <2>1 DEF Inv, ReceiptsInv
<1>9. MirrorInv'
  BY <1>1, ZenonT(60) DEF MirrorInv
<1> QED BY <1>1, <1>2, <1>5, <1>6, <1>7, <1>8, <1>9, ZenonT(60) DEF Inv

(* A process that dies leaves every state as it was in memory or as it was *)
(* saved before.                                                           *)
LEMMA CrashInv ==
  ASSUME Inv, Crash
  PROVE  Inv'
<1>1. /\ TypeOK' /\ open /\ open' = FALSE
      /\ \A p \in Peers : Kept(p)' = peers[p] \/ Kept(p)' = Kept(p)
      /\ DOMAIN saved \subseteq DOMAIN saved'
      /\ \A t \in Threads : thread'[t] = Idle
      /\ \A p \in Peers : Seen(peers'[p].receipts) = {}
      /\ crashes' # 0
      /\ UNCHANGED <<local, cells, stored, covered, owners>>
  <2> TypeOK
    BY DEF Inv
  <2>1. /\ open /\ Forgotten /\ crashes < MaxCrashes /\ crashes' = crashes + 1
        /\ UNCHANGED <<local, cells, stored, covered, owners>>
    BY DEF Crash
  <2>2. PICK S \in SUBSET dirty : Checkpoint(S)
    BY Zenon DEF Crash
  <2>3. S \in SUBSET Peers
    BY DEF TypeOK
  <2>4. /\ DOMAIN saved' = DOMAIN saved \union S
        /\ \A p \in Peers : p \in DOMAIN saved' => IsPeerState(saved'[p])
        /\ \A p \in Peers : Kept(p)' = IF p \in S THEN peers[p] ELSE Kept(p)
        /\ DOMAIN saved' \subseteq Peers
    BY <2>2, <2>3, CheckpointFacts
  <2>5. crashes' \in 0..MaxCrashes /\ crashes' # 0
    BY <2>1, DeviceConstants, SMTT(20) DEF TypeOK
  <2>6. TypeOK'
    BY <2>1, <2>4, <2>5, ForgottenFacts, ZenonT(60) DEF TypeOK
  <2> QED BY <2>1, <2>4, <2>5, <2>6, ForgottenFacts
<1>2. CallsInv'
  BY <1>1, IdleThreads, ZenonT(60)
<1>3. NumberedInv' /\ ClockInv' /\ MirrorInv'
  BY <1>1, Zenon DEF NumberedInv, ClockInv, OneOwner, MirrorInv
<1>4. CoveredInv'
  <2> SUFFICES ASSUME covered > 0 PROVE local \in DOMAIN saved' /\ covered < saved'[local].clock.next_sequence
    BY <1>1, Zenon DEF CoveredInv
  <2>1. local \in DOMAIN saved /\ covered < saved[local].clock.next_sequence /\ covered < peers[local].clock.next_sequence
    BY <1>1 DEF Inv, CoveredInv, Clock
  <2>2. local \in DOMAIN saved' /\ local \in Peers
    BY <1>1, <2>1, ClockFacts DEF Inv
  <2>3. saved'[local] = peers[local] \/ saved'[local] = saved[local]
    BY <1>1, <2>1, <2>2 DEF Kept
  <2> QED BY <2>1, <2>2, <2>3
<1>5. ReceiptsInv'
  <2>1. \A p \in Peers : Have(p)' = Have(p)
    BY <1>1 DEF Have
  <2> QED BY <1>1, <2>1 DEF Inv, ReceiptsInv
<1> QED BY <1>1, <1>2, <1>3, <1>4, <1>5, ZenonT(60) DEF Inv

(* What open does: memory is what was saved, and a peer without a          *)
(* checkpoint starts a clock.                                              *)
LEMMA OpenInv ==
  ASSUME Inv, NEW p \in Owners, Open(p)
  PROVE  Inv'
<1>1. /\ TypeOK' /\ ~open /\ open' = TRUE /\ local' = p
      /\ \A q \in Peers \ {p} : peers'[q] = Kept(q)
      /\ p \in DOMAIN saved => peers'[p] = Kept(p)
      /\ p \notin DOMAIN saved => peers'[p].clock.next_sequence = 1 /\ Seen(peers'[p].receipts) = {}
      /\ peers'[p].clock # NoClock /\ peers'[p].clock.next_sequence >= 1
      /\ entries' = [q \in Peers |-> cells[q].value] /\ local_role' = cells[p].value
      /\ covered' = (IF p = local THEN covered ELSE 0) /\ owners' = owners \union {p}
      /\ UNCHANGED <<cells, saved, thread, stored, crashes>>
  <2> TypeOK
    BY DEF Inv
  <2>1. /\ ~open /\ open' = TRUE /\ local' = p /\ ~Refuses(p)
        /\ entries' = [q \in Peers |-> cells[q].value] /\ local_role' = cells[p].value
        /\ covered' = (IF p = local THEN covered ELSE 0) /\ owners' = owners \union {p}
        /\ dirty' = {p} \ DOMAIN saved
        /\ UNCHANGED <<cells, saved, thread, stored, crashes>>
    BY DEF Open
  <2>2. PICK wall \in 0..MaxMs :
         peers' = [q \in Peers |->
                     IF q \in DOMAIN saved THEN saved[q]
                     ELSE IF q # p THEN Unknown
                     ELSE [Unknown EXCEPT !.clock = [next_sequence |-> 1, last_time |-> [ms |-> wall, logical |-> 0]]]]
    BY Zenon DEF Open
  <2>3. PICK c : c = [next_sequence |-> 1, last_time |-> [ms |-> wall, logical |-> 0]]
    BY Zenon
  <2>4. c \in Clocks /\ c.next_sequence = 1 /\ c.next_sequence >= 1 /\ c # NoClock
    BY <2>3, DeviceConstants, SMTT(20) DEF Clocks, Times, NoClock
  <2>5. PICK r : r = [Unknown EXCEPT !.clock = c]
    BY Zenon
  <2>6. IsPeerState(r) /\ r.clock = c /\ r.receipts = Unknown.receipts
    BY <2>4, <2>5, ClockSet, UnknownState
  <2>7. p \in Peers
    BY DeviceConstants
  <2>8. /\ DOMAIN peers' = Peers
        /\ \A q \in Peers : peers'[q] = IF q \in DOMAIN saved THEN saved[q] ELSE IF q # p THEN Unknown ELSE r
    BY <2>2, <2>3, <2>5
  <2>9. \A q \in Peers : (q \in DOMAIN saved => IsPeerState(saved[q])) /\ IsPeerState(Unknown)
    BY UnknownState, Zenon DEF TypeOK
  <2>10. \A q \in Peers : IsPeerState(peers'[q])
    BY <2>6, <2>8, <2>9, Zenon
  <2>11. /\ \A q \in Peers \ {p} : peers'[q] = Kept(q)
         /\ p \in DOMAIN saved => peers'[p] = Kept(p)
         /\ p \notin DOMAIN saved => peers'[p] = r
    BY <2>7, <2>8 DEF Kept
  <2>12. p \notin DOMAIN saved => peers'[p].clock.next_sequence = 1 /\ Seen(peers'[p].receipts) = {}
    BY <2>4, <2>6, <2>11, UnknownState, Zenon
  <2>13. peers'[p].clock # NoClock
    BY <2>1, <2>4, <2>6, <2>7, <2>8 DEF Refuses
  <2>14. peers'[p].clock.next_sequence >= 1
    BY <2>7, <2>10, <2>13, PeerStateFacts
  <2>15. open' => Clock' # NoClock /\ \A q \in Peers \ dirty' : peers'[q] = Kept(q)'
    BY <2>1, <2>11, <2>13 DEF Clock, Kept
  <2>16. /\ entries' \in [Peers -> Values] /\ local_role' \in Values /\ covered' \in Nat
         /\ owners' \subseteq Owners /\ local' \in owners' /\ dirty' \subseteq Peers /\ open' \in BOOLEAN
    BY <2>1, <2>7, DeviceConstants DEF TypeOK
  <2>17. TypeOK'
    BY <2>1, <2>8, <2>10, <2>15, <2>16, Zenon DEF TypeOK
  <2> QED BY <2>1, <2>11, <2>12, <2>13, <2>14, <2>17, Zenon
<1>0. /\ \A q \in Peers \ {p} : peers'[q] = Kept(q)
      /\ p \in DOMAIN saved => peers'[p] = Kept(p)
  BY <1>1, Zenon
<1>2. p \in Peers /\ local \in owners /\ local \in Peers
  BY DeviceConstants, ClockFacts, Zenon DEF Inv, TypeOK
<1>3. \A t \in Threads : thread'[t] = Idle
  BY <1>1, Zenon DEF Inv, CallsInv
<1>4. /\ \A t \in Threads : ~Pending(t)' /\ ~Listening(t)' /\ thread'[t].at # "ignored" /\ thread'[t].at # "stored"
      /\ CallsInv'
  BY <1>3, IdleThreads
<1>5. \A q \in Peers : State(q) = Kept(q) /\ State(q)' = peers'[q]
  BY <1>1 DEF State
<1>6. p \notin DOMAIN saved => Kept(p) = Unknown /\ Kept(p).clock = NoClock /\ Kept(p).clock.next_sequence = 0
  BY UnknownState, NoClockFacts DEF Kept
<1>7. NumberedInv'
  <2>1. \A q \in Peers : Number(q) \in Nat
    BY NumberTypes DEF Inv
  <2>2. \A q \in Peers : Number(q) = Kept(q).clock.next_sequence /\ Number(q)' = peers'[q].clock.next_sequence
    BY <1>5 DEF Number
  <2>3. p \notin DOMAIN saved => Number(p) = 0 /\ Number(p)' = 1
    <3>1. p \notin DOMAIN saved => peers'[p].clock.next_sequence = 1
      BY <1>1, Zenon
    <3> QED BY <1>2, <1>6, <2>2, <3>1
  <2>4. \A q \in Peers : q # p \/ p \in DOMAIN saved => Number(q)' = Number(q)
    BY <1>0, <1>2, <2>2
  <2>5. \A q \in Peers : Number(q) <= Number(q)'
    BY <2>1, <2>3, <2>4, SMTT(20)
  <2> QED BY <1>1, <1>4, <2>5, NumberedKeeps, Zenon
<1>8. CoveredInv'
  <2>1. Clock' = peers'[p].clock /\ covered \in Nat
    BY <1>1, Zenon DEF Clock, Inv, TypeOK
  <2>2. covered' > 0 => p = local /\ covered' = covered
    <3>1. covered' = (IF p = local THEN covered ELSE 0)
      BY <1>1, Zenon
    <3> QED BY <3>1, SMTT(20)
  <2>3. covered > 0 => local \in DOMAIN saved /\ covered < saved[local].clock.next_sequence
    BY DEF Inv, CoveredInv
  <2>4. covered' < peers'[p].clock.next_sequence
    <3>1. CASE covered' > 0
      BY <1>0, <2>2, <2>3, <3>1 DEF Kept
    <3>2. CASE ~(covered' > 0)
      <4>1. covered' = 0
        <5>1. covered' = (IF p = local THEN covered ELSE 0)
          BY <1>1, Zenon
        <5> QED BY <2>1, <3>2, <5>1, SMTT(20)
      <4>2. peers'[p].clock.next_sequence \in Nat
        BY <1>1, <1>2, PeerStateFacts, ZenonT(60) DEF TypeOK
      <4>3. peers'[p].clock.next_sequence >= 1
        BY <1>1, Zenon
      <4> QED BY <4>1, <4>2, <4>3, SMTT(20)
    <3> QED BY <3>1, <3>2
  <2> QED BY <1>1, <2>1, <2>2, <2>3, <2>4, ZenonT(60) DEF CoveredInv
<1>9. ClockInv'
  <2> SUFFICES ASSUME OneOwner' PROVE State(local)'.clock # NoClock /\ \A k \in Rows : CoversRow(k)'
    BY <1>4, Zenon DEF ClockInv
  <2>1. local = p
    BY <1>1, <1>2, ZenonT(60) DEF OneOwner
  <2>2. OneOwner
    BY <1>1, <1>2, <2>1, Zenon DEF OneOwner, Early
  <2>3. State(local).clock # NoClock /\ \A k \in Rows : CoversRow(k)
    BY <2>2, Zenon DEF Inv, ClockInv
  <2>4. p \in DOMAIN saved
    BY <1>2, <1>5, <1>6, <2>1, <2>3
  <2>5. State(local)' = State(local) /\ cells' = cells
    BY <1>1, <2>1, <2>4, ZenonT(60) DEF State
  <2>6. \A t \in Threads : thread[t].at # "stored"
    BY <1>1, <1>4, ZenonT(60)
  <2> QED BY <2>3, <2>5, <2>6, Zenon DEF CoversRow
<1>10. ReceiptsInv'
  <2>1. \A q \in Peers : Have(q)' = Have(q) /\ Kept(q)' = Kept(q)
    BY <1>1, ZenonT(60) DEF Have, Kept
  <2>2. \A q \in Peers : Seen(peers'[q].receipts) \subseteq Seen(Kept(q).receipts)
    BY <1>1
  <2> QED BY <2>1, <2>2, ZenonT(60) DEF Inv, ReceiptsInv
<1>11. MirrorInv'
  <2>1. \A q \in Peers : entries'[q] = cells'[q].value
    BY <1>1, ZenonT(60)
  <2>2. local_role' = cells'[local'].value
    BY <1>1
  <2> QED BY <1>4, <2>1, <2>2 DEF MirrorInv
<1> QED BY <1>1, <1>4, <1>7, <1>8, <1>9, <1>10, <1>11 DEF Inv

LEMMA StepInv == Inv /\ [Next]_vars => Inv'
<1> SUFFICES ASSUME Inv, [Next]_vars PROVE Inv'
  OBVIOUS
<1>1. CASE UNCHANGED vars
  <2>1. UNCHANGED <<open, local, cells, entries, local_role, peers, dirty, saved, thread, crashes, stored, covered, owners>>
    BY <1>1 DEF vars
  <2>2. TypeOK'
    BY <2>1, ZenonT(60) DEF Inv, TypeOK, Clock, Kept
  <2>3. CallsInv' /\ CoveredInv'
    BY <2>1, ZenonT(60) DEF Inv, CallsInv, CoveredInv, Clock
  <2>4. NumberedInv'
    BY <2>1, ZenonT(60) DEF Inv, NumberedInv, Made, Number, State, Kept, Pending
  <2>5. ClockInv'
    BY <2>1, ZenonT(60) DEF Inv, ClockInv, OneOwner, Early, CoversRow, State, Kept, Alone, Pending
  <2>6. ReceiptsInv'
    BY <2>1, Zenon DEF Inv, ReceiptsInv, Have, Kept
  <2>7. MirrorInv'
    BY <2>1, Zenon DEF Inv, MirrorInv, Alone, Listening
  <2> QED BY <2>2, <2>3, <2>4, <2>5, <2>6, <2>7 DEF Inv
<1>2. ASSUME NEW t \in Threads, Insert(t) PROVE Inv'
  BY <1>2, BeginInv, DeviceConstants DEF Insert
<1>3. ASSUME NEW t \in Threads, NEW p \in Peers, NEW r \in Roles, Upsert(t, p, r) PROVE Inv'
  <2>1. Begin(t, p, r) /\ p \in Rows /\ r \in Values
    BY <1>3, DeviceConstants DEF Upsert
  <2> QED BY <2>1, BeginInv
<1>4. ASSUME NEW t \in Threads, NEW e \in RemoteEvents, Admit(t, e) PROVE Inv'
  BY <1>4, AdmitInv
<1>5. ASSUME NEW t \in Threads, Mint(t) \/ Authorize(t) \/ Store(t) \/ Observe(t) \/ Mirror(t) PROVE Inv'
  BY <1>5, MintInv, AuthorizeInv, StoreInv, ObserveInv, MirrorStepInv
<1>6. CASE Flush \/ Close \/ Crash
  BY <1>6, FlushInv, CloseInv, CrashInv
<1>7. ASSUME NEW p \in Owners, Open(p) PROVE Inv'
  BY <1>7, OpenInv
<1> QED BY <1>1, <1>2, <1>3, <1>4, <1>5, <1>6, <1>7, Zenon DEF Next, Acts

THEOREM DevicesInvariant == Spec => []Inv
<1>1. Init => Inv
  BY InitInv
<1>2. Inv /\ [Next]_vars => Inv'
  BY StepInv
<1> QED BY <1>1, <1>2, PTL DEF Spec

(* While no process dies, no two events minted here have the same peer and *)
(* sequence number; and what a checkpoint or a close covered is never      *)
(* minted again, whatever crashes follow (mint, checkpoint, set_local):    *)
(* for any peers, threads, values and clock readings.                      *)
THEOREM DevicesUniqueIds == Spec => []UniqueIds
<1>1. Inv => UniqueIds
  <2> SUFFICES ASSUME Inv PROVE UniqueIds
    OBVIOUS
  <2>1. CoveredInv /\ NumberedInv
    BY DEF Inv
  <2>2. crashes = 0 => \A e, f \in Made : SameId(e, f) => e = f
    BY <2>1, Zenon DEF NumberedInv
  <2> QED BY <2>1, <2>2 DEF UniqueIds, CoveredInv, Made, SameId
<1> QED BY <1>1, DevicesInvariant, PTL

(* The clock of the only owner is not behind the rows, but for rows whose  *)
(* observe is still to run, so a thread that writes alone is never ignored *)
(* (mint, observe): for any times that remote events carry.                *)
THEOREM DevicesClockCovers == Spec => []ClockCovers
<1>1. Inv => ClockCovers
  <2> SUFFICES ASSUME Inv, OneOwner PROVE ClockCovers
    BY Zenon DEF ClockCovers, OneOwner
  <2>1. /\ \A k \in Rows : CoversRow(k)
        /\ \A t \in Threads : thread[t].own /\ thread[t].at = "ignored" => ~Alone(t)
    BY Zenon DEF Inv, ClockInv
  <2>2. open => State(local).clock = Clock
    BY DEF State, Clock
  <2>3. open => \A k \in Rows :
          \/ ~TimeBefore(Clock.last_time, cells[k].stamp.time)
          \/ \E t \in Threads : thread[t].at = "stored" /\ thread[t].event.key = k
    BY <2>1, <2>2, Zenon DEF CoversRow
  <2> QED BY <2>1, <2>3, Zenon DEF ClockCovers
<1> QED BY <1>1, DevicesInvariant, PTL

(* The receipts, in memory and in the checkpoint, name only events that    *)
(* are stored, wherever the process dies; and while one thread calls the   *)
(* device cache is the table once its listeners have run (observe,         *)
(* checkpoint, the listener of _devices): for any peers and threads.       *)
THEOREM DevicesListenersFollow == Spec => []ListenersFollow
<1>1. Inv => ListenersFollow
  <2> SUFFICES ASSUME Inv PROVE ListenersFollow
    OBVIOUS
  <2>1. \A p \in Peers : /\ Seen(peers[p].receipts) \subseteq Have(p)
                         /\ p \in DOMAIN saved => Seen(saved[p].receipts) \subseteq Have(p)
    BY DEF Inv, ReceiptsInv, Kept
  <2>2. open => \A t \in Threads : Alone(t) /\ thread[t].at \notin {"stored", "observed"} =>
          (\A p \in Peers : entries[p] = cells[p].value) /\ local_role = cells[local].value
    BY Zenon DEF Inv, MirrorInv, Listening
  <2> QED BY <2>1, <2>2, Zenon DEF ListenersFollow, Have
<1> QED BY <1>1, DevicesInvariant, PTL
=============================================================================
