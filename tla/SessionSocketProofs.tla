------------------------- MODULE SessionSocketProofs -------------------------
(***************************************************************************)
(* Proofs about SessionSocket, for any number of events and dropped        *)
(* connections and any budget of the writer.                               *)
(***************************************************************************)
EXTENDS SessionSocket, FiniteSetTheorems, TLAPS

\* The buffer holds the latest published events, without a gap.
BufferLatest ==
  \A i \in 1..Len(buffer) : buffer[i] = published - Len(buffer) + i

\* What each stage of a connection has, and what its cursor is.
ConnPlaces ==
  /\ conn \in {"off", "subscribed"} => queue = <<>>
  /\ conn \in {"off", "live"} => buffer = <<>>
  /\ conn = "subscribed" => after = high
  /\ conn = "replay" =>
       /\ published - Len(buffer) <= through
       /\ after = NoCursor <=> high = NoCursor
       /\ after = NoCursor => queue = <<>> /\ next > through

\* The client has received event v, or it is on its way.
Covered(v) == v <= high \/ \E j \in 1..Len(queue) : queue[j] = v

\* Before an admitted frame comes every lower seq the client does not have.
NoGapInQueue ==
  \A i \in 1..Len(queue), v \in 1..MaxEvents :
    v < queue[i] => v <= high \/ \E j \in 1..(i - 1) : queue[j] = v

\* A client with a cursor misses nothing below the point the connection has
\* reached; one without is sent the published events from some point on.
NoGap ==
  /\ high # NoCursor =>
       /\ NoGapInQueue
       /\ conn = "replay" => \A v \in 1..(next - 1) : Covered(v)
       /\ conn = "live" => \A v \in 1..published : Covered(v)
  /\ high = NoCursor /\ conn = "live" =>
       \A i \in 1..Len(queue) : queue[i] = published - Len(queue) + i

IInv == TypeOK /\ BufferLatest /\ ConnPlaces /\ NoGap

-----------------------------------------------------------------------------
(* Filtering the buffer *)

\* Of an ascending run of numbers, the elements above t are the rest of the run.
LEMMA AboveOfRun ==
  ASSUME NEW s \in Seq(Nat), NEW b \in Int, NEW t \in Nat, b <= t,
         \A i \in 1..Len(s) : s[i] = b + i
  PROVE  LET n == IF b + Len(s) > t THEN b + Len(s) - t ELSE 0
         IN  Above(s, t) = [j \in 1..n |-> t + j]
<1>. DEFINE n == IF b + Len(s) > t THEN b + Len(s) - t ELSE 0
            I == {i \in 1..Len(s) : s[i] > t}
            m == t - b
<1>1. Len(s) \in Nat /\ n \in Nat /\ m \in Nat /\ n <= Len(s)
  OBVIOUS
<1>2. I = (m + 1)..(m + n)
  <2>1. ASSUME NEW i \in I PROVE i \in (m + 1)..(m + n)
    BY <1>1
  <2>2. ASSUME NEW i \in (m + 1)..(m + n) PROVE i \in I
    <3>1. i \in 1..Len(s)
      BY <1>1
    <3>2. s[i] = b + i
      BY <3>1
    <3>. QED
      BY <1>1, <3>1, <3>2
  <2>. QED
    BY <2>1, <2>2
<1>. HIDE DEF I, m, n
<1>3. \A i \in I : Cardinality({k \in I : k <= i}) = i - m
  <2>. SUFFICES ASSUME NEW i \in I PROVE Cardinality({k \in I : k <= i}) = i - m
    OBVIOUS
  <2>1. {k \in I : k <= i} = (m + 1)..i /\ i \in Int /\ i > m
    BY <1>1, <1>2
  <2>2. m + 1 \in Int /\ m + 1 <= i
    BY <1>1, <2>1
  <2>3. Cardinality((m + 1)..i) = i - (m + 1) + 1
    BY <2>1, <2>2, FS_Interval
  <2>4. i - (m + 1) + 1 = i - m
    BY <1>1, <2>1
  <2>. QED
    BY <2>1, <2>3, <2>4
<1>4. Cardinality(I) = n
  BY <1>1, <1>2, FS_Interval
<1>5. ASSUME NEW j \in 1..n
      PROVE  s[CHOOSE i \in I : Cardinality({k \in I : k <= i}) = j] = t + j
  <2>1. m + j \in I
    BY <1>1, <1>2
  <2>2. ASSUME NEW i \in I PROVE Cardinality({k \in I : k <= i}) = j <=> i = m + j
    <3>1. i \in Int /\ Cardinality({k \in I : k <= i}) = i - m
      BY SMTT(30), <1>1, <1>2, <1>3
    <3>. QED
      BY <1>1, <3>1
  <2>. DEFINE c == CHOOSE i \in I : Cardinality({k \in I : k <= i}) = j
  <2>3. c = m + j
    BY <2>1, <2>2
  <2>. HIDE DEF c
  <2>4. s[m + j] = b + (m + j)
    BY <2>1 DEF I
  <2>5. s[c] = t + j
    BY <1>1, <2>3, <2>4 DEF m
  <2>. QED
    BY <2>5 DEF c
<1>6. Above(s, t) = [j \in 1..Cardinality(I) |->
                       s[CHOOSE i \in I : Cardinality({k \in I : k <= i}) = j]]
  BY DEF Above, I
<1>. QED
  BY <1>4, <1>5, <1>6 DEF n

\* Event v has been received or is on its way after frames were admitted behind
\* the others.
LEMMA CoveredStays ==
  ASSUME TypeOK, NEW fs \in Seq(1..MaxEvents), queue' = queue \o fs, high' = high, NEW v \in Nat
  PROVE  /\ Covered(v) => Covered(v)'
         /\ (\E k \in 1..Len(fs) : fs[k] = v) => Covered(v)'
<1>1. /\ queue \in Seq(1..MaxEvents) /\ Len(queue') = Len(queue) + Len(fs)
      /\ \A i \in 1..Len(queue) : queue'[i] = queue[i]
      /\ \A i \in 1..Len(fs) : queue'[Len(queue) + i] = fs[i]
      /\ Len(queue) \in Nat /\ Len(fs) \in Nat
  BY DEF TypeOK
<1>2. ASSUME NEW k \in 1..Len(fs), fs[k] = v PROVE Covered(v)'
  <2>1. Len(queue) + k \in 1..Len(queue') /\ queue'[Len(queue) + k] = v
    BY <1>1, <1>2
  <2>. QED
    BY <2>1 DEF Covered
<1>3. ASSUME Covered(v) PROVE Covered(v)'
  BY <1>1, <1>3 DEF Covered
<1>. QED
  BY <1>2, <1>3

\* Frames that continue, one by one, a covered prefix of the seqs leave no gap.
LEMMA RunLeavesNoGap ==
  ASSUME TypeOK, NoGapInQueue, NEW n \in Nat, NEW fs \in Seq(1..MaxEvents),
         \A v \in 1..n : Covered(v),
         \A k \in 1..Len(fs) : fs[k] = n + k,
         queue' = queue \o fs, high' = high
  PROVE  NoGapInQueue' /\ \A v \in 1..(n + Len(fs)) : Covered(v)'
<1>1. /\ queue \in Seq(1..MaxEvents) /\ Len(queue') = Len(queue) + Len(fs)
      /\ \A i \in 1..Len(queue) : queue'[i] = queue[i]
      /\ \A i \in 1..Len(fs) : queue'[Len(queue) + i] = fs[i]
      /\ Len(queue) \in Nat /\ Len(fs) \in Nat
  BY DEF TypeOK
<1>2. ASSUME NEW v \in 1..(n + Len(fs)) PROVE Covered(v)'
  <2>1. CASE v \in 1..n
    BY <2>1, CoveredStays DEF Covered
  <2>2. CASE v \notin 1..n
    <3>1. v - n \in 1..Len(fs) /\ fs[v - n] = v
      BY <1>1, <2>2
    <3>2. v \in Nat /\ \E k \in 1..Len(fs) : fs[k] = v
      BY <1>1, <3>1
    <3>. QED
      BY <3>2, CoveredStays DEF Covered
  <2>. QED
    BY <2>1, <2>2
<1>3. ASSUME NEW i \in 1..Len(queue'), NEW v \in 1..MaxEvents, v < queue'[i]
      PROVE  v <= high \/ \E j \in 1..(i - 1) : queue'[j] = v
  <2>1. CASE i \in 1..Len(queue)
    <3>1. v <= high \/ \E j \in 1..(i - 1) : queue[j] = v
      BY <1>1, <1>3, <2>1 DEF NoGapInQueue
    <3>. QED
      BY <1>1, <2>1, <3>1
  <2>2. CASE i \notin 1..Len(queue)
    <3>. DEFINE k == i - Len(queue)
    <3>1. k \in 1..Len(fs) /\ queue'[i] = n + k /\ v < n + k
      <4>1. k \in 1..Len(fs) /\ i = Len(queue) + k
        BY <1>1, <2>2
      <4>. QED
        BY <1>1, <1>3, <4>1
    <3>2. CASE v <= n
      <4>1. v <= high \/ \E j \in 1..Len(queue) : queue[j] = v
        BY <3>2 DEF Covered
      <4>2. \A j \in 1..Len(queue) : j \in 1..(i - 1) /\ queue'[j] = queue[j]
        BY <1>1, <2>2
      <4>. QED
        BY <4>1, <4>2
    <3>3. CASE v > n
      <4>. DEFINE j == Len(queue) + (v - n)
      <4>1. v - n \in 1..Len(fs) /\ v - n < k
        BY <1>1, <3>1, <3>3
      <4>2. j \in 1..(i - 1) /\ queue'[j] = fs[v - n]
        BY <1>1, <4>1
      <4>3. fs[v - n] = v
        BY <4>1
      <4>. QED
        BY <4>2, <4>3
    <3>. QED
      BY <3>2, <3>3
  <2>. QED
    BY <2>1, <2>2
<1>. QED
  BY <1>2, <1>3 DEF NoGapInQueue

-----------------------------------------------------------------------------
(* One lemma per action *)

\* A connection that is done leaves nothing behind but the client's cursor.
LEMMA DisconnectedKeeps ==
  ASSUME IInv, Disconnected, high' = high, appended' = appended,
         published' \in 0..appended, drops' \in 0..MaxDrops
  PROVE  IInv'
<1>. USE DEF IInv, Disconnected
<1>1. /\ buffer' \in Seq(1..MaxEvents) /\ queue' \in Seq(1..MaxEvents)
      /\ Len(buffer') = 0 /\ Len(queue') = 0
  OBVIOUS
<1>2. TypeOK'
  BY <1>1, BoundsAssumption DEF TypeOK, NoCursor
<1>3. BufferLatest' /\ ConnPlaces'
  BY <1>1 DEF BufferLatest, ConnPlaces
<1>4. NoGap'
  BY <1>1 DEF NoGap, NoGapInQueue
<1>. QED
  BY <1>2, <1>3, <1>4

\* An event is persisted.
LEMMA AppendEventKeeps ==
  ASSUME IInv, AppendEvent
  PROVE  IInv'
<1>. USE DEF IInv, AppendEvent, connVars, clientVars
<1>1. TypeOK'
  BY BoundsAssumption DEF TypeOK, NoCursor
<1>2. BufferLatest' /\ ConnPlaces'
  BY DEF BufferLatest, ConnPlaces, NoCursor
<1>3. NoGap'
  BY DEF NoGap, NoGapInQueue, Covered, NoCursor
<1>. QED
  BY <1>1, <1>2, <1>3

\* An event is published to a subscriber that buffers: it continues the buffer.
LEMMA PublishBuffers ==
  ASSUME IInv, Publish, conn \in {"subscribed", "replay"}
  PROVE  IInv'
<1>. USE DEF IInv
<1>1. /\ published < appended /\ published' = published + 1 /\ appended' = appended
      /\ buffer' = Append(buffer, published + 1)
      /\ conn' = conn /\ after' = after /\ through' = through /\ next' = next
      /\ queue' = queue /\ high' = high /\ drops' = drops
  BY DEF Publish, clientVars
<1>2. /\ appended \in 0..MaxEvents /\ published \in 0..appended
      /\ buffer \in Seq(1..MaxEvents) /\ MaxEvents \in Nat
  BY BoundsAssumption DEF TypeOK
<1>3. /\ buffer' \in Seq(1..MaxEvents) /\ Len(buffer') = Len(buffer) + 1 /\ Len(buffer) \in Nat
      /\ \A i \in 1..Len(buffer) : buffer'[i] = buffer[i]
      /\ buffer'[Len(buffer) + 1] = published + 1
  BY <1>1, <1>2
<1>4. TypeOK'
  BY <1>1, <1>2, <1>3 DEF TypeOK, NoCursor
<1>5. BufferLatest'
  <2>. SUFFICES ASSUME NEW i \in 1..Len(buffer')
                PROVE  buffer'[i] = published' - Len(buffer') + i
    BY DEF BufferLatest
  <2>1. CASE i \in 1..Len(buffer)
    BY <1>1, <1>2, <1>3, <2>1 DEF BufferLatest
  <2>2. CASE i = Len(buffer) + 1
    BY <1>1, <1>2, <1>3, <2>2
  <2>. QED
    BY <1>3, <2>1, <2>2
<1>6. ConnPlaces'
  BY <1>1, <1>2, <1>3 DEF ConnPlaces, NoCursor
<1>7. NoGap'
  BY <1>1 DEF NoGap, NoGapInQueue, Covered, NoCursor
<1>. QED
  BY <1>4, <1>5, <1>6, <1>7

\* An event is published to a connection that is live: it continues what the
\* client has been sent, or the connection goes.
LEMMA PublishLive ==
  ASSUME IInv, Publish, conn = "live"
  PROVE  IInv'
<1>. USE DEF IInv
<1>. DEFINE e == published + 1
<1>1. /\ published < appended /\ published' = e /\ appended' = appended
      /\ Send(<<e>>, UNCHANGED <<conn, after, through, next, buffer>>)
      /\ high' = high /\ drops' = drops
  BY DEF Publish, clientVars
<1>2. /\ appended \in 0..MaxEvents /\ published \in 0..appended /\ e \in 1..MaxEvents
      /\ queue \in Seq(1..MaxEvents) /\ MaxEvents \in Nat /\ buffer = <<>>
  BY <1>1, BoundsAssumption DEF TypeOK, ConnPlaces
<1>3. CASE Fits(<<e>>)
  <2>1. /\ queue' = queue \o <<e>> /\ Len(queue) + 1 <= MaxPending
        /\ conn' = conn /\ after' = after /\ through' = through /\ next' = next
        /\ buffer' = buffer
    BY <1>1, <1>3 DEF Send, Fits
  <2>2. /\ queue' \in Seq(1..MaxEvents) /\ Len(queue') = Len(queue) + 1 /\ Len(queue) \in Nat
        /\ \A i \in 1..Len(queue) : queue'[i] = queue[i]
        /\ queue'[Len(queue) + 1] = e
    BY <1>2, <2>1
  <2>3. TypeOK'
    BY <1>1, <1>2, <2>1, <2>2 DEF TypeOK, NoCursor
  <2>4. BufferLatest' /\ ConnPlaces'
    BY <1>2, <2>1 DEF BufferLatest, ConnPlaces
  <2>5. ASSUME high # NoCursor
        PROVE  NoGapInQueue' /\ \A v \in 1..published' : Covered(v)'
    <3>. DEFINE fs == <<e>>
    <3>1. /\ fs \in Seq(1..MaxEvents) /\ Len(fs) = 1
          /\ \A k \in 1..Len(fs) : fs[k] = published + k
          /\ queue' = queue \o fs
      BY <1>2, <2>1
    <3>2. NoGapInQueue /\ published \in Nat /\ \A v \in 1..published : Covered(v)
      BY <1>2, <2>5 DEF NoGap
    <3>. HIDE DEF fs
    <3>3. NoGapInQueue' /\ \A v \in 1..(published + Len(fs)) : Covered(v)'
      BY <1>1, <3>1, <3>2, RunLeavesNoGap DEF Covered
    <3>. QED
      BY <1>1, <3>1, <3>3
  <2>6. ASSUME high = NoCursor, NEW i \in 1..Len(queue')
        PROVE  queue'[i] = published' - Len(queue') + i
    <3>1. CASE i \in 1..Len(queue)
      BY <1>1, <1>2, <2>2, <2>6, <3>1 DEF NoGap
    <3>2. CASE i = Len(queue) + 1
      BY <1>1, <1>2, <2>2, <3>2
    <3>. QED
      BY <2>2, <3>1, <3>2
  <2>7. NoGap'
    BY <1>1, <2>1, <2>5, <2>6 DEF NoGap, NoCursor, Covered
  <2>. QED
    BY <2>3, <2>4, <2>7
<1>4. CASE ~Fits(<<e>>)
  <2>1. Disconnected /\ published' \in 0..appended /\ drops' \in 0..MaxDrops
    BY <1>1, <1>2, <1>4 DEF Send, TypeOK
  <2>. QED
    BY <1>1, <2>1, DisconnectedKeeps
<1>. QED
  BY <1>3, <1>4

\* An event is published.
LEMMA PublishKeeps ==
  ASSUME IInv, Publish
  PROVE  IInv'
<1>1. CASE conn = "off"
  <2>. USE DEF IInv
  <2>1. /\ published < appended /\ published' = published + 1 /\ appended' = appended
        /\ UNCHANGED connVars /\ high' = high /\ drops' = drops
    BY <1>1 DEF Publish, clientVars
  <2>2. queue = <<>> /\ buffer = <<>>
    BY <1>1 DEF ConnPlaces
  <2>3. TypeOK'
    BY <2>1, BoundsAssumption DEF TypeOK, connVars, NoCursor
  <2>4. BufferLatest' /\ ConnPlaces' /\ NoGap'
    BY <1>1, <2>1, <2>2 DEF BufferLatest, ConnPlaces, NoGap, NoGapInQueue, connVars, NoCursor
  <2>. QED
    BY <2>3, <2>4
<1>. QED
  BY <1>1, PublishBuffers, PublishLive DEF IInv, TypeOK

\* A client connects, and the mark is read: the cursor is where replay begins.
LEMMA ConnectKeeps ==
  ASSUME IInv, Connect \/ Mark
  PROVE  IInv'
<1>. USE DEF IInv, serverVars, clientVars
<1>1. TypeOK'
  <2>1. /\ next' \in 1..(MaxEvents + 1) /\ through' \in 0..MaxEvents /\ after' \in 0..NoCursor
        /\ conn' \in {"off", "subscribed", "replay", "live"}
    BY SMTT(30), BoundsAssumption DEF TypeOK, NoCursor, Connect, Mark
  <2>. QED
    BY <2>1 DEF TypeOK, NoCursor, Connect, Mark
<1>2. BufferLatest'
  BY DEF BufferLatest, Connect, Mark
<1>3. ConnPlaces'
  BY SMTT(30), BoundsAssumption DEF ConnPlaces, TypeOK, NoCursor, Connect, Mark
<1>4. NoGap'
  <2>1. queue = <<>> /\ queue' = <<>> /\ Len(queue') = 0 /\ high' = high
    BY DEF ConnPlaces, Connect, Mark
  <2>2. conn' = "replay" /\ high # NoCursor => next' - 1 = high
    BY BoundsAssumption DEF ConnPlaces, TypeOK, Connect, Mark
  <2>3. conn' # "live"
    BY DEF Connect, Mark
  <2>4. high \in Nat
    BY BoundsAssumption DEF TypeOK, NoCursor
  <2>. QED
    BY <2>1, <2>2, <2>3, <2>4 DEF NoGap, NoGapInQueue, Covered, NoCursor
<1>. QED
  BY <1>1, <1>2, <1>3, <1>4

\* Replay sends the next event from disk.
LEMMA ReplayOneKeeps ==
  ASSUME IInv, ReplayOne
  PROVE  IInv'
<1>. USE DEF IInv
<1>1. /\ conn = "replay" /\ next <= through
      /\ Send(<<next>>, next' = next + 1 /\ UNCHANGED <<conn, after, through, buffer>>)
      /\ appended' = appended /\ published' = published /\ high' = high /\ drops' = drops
  BY DEF ReplayOne, serverVars, clientVars
<1>2. /\ next \in 1..MaxEvents /\ queue \in Seq(1..MaxEvents) /\ MaxEvents \in Nat
      /\ high # NoCursor /\ after # NoCursor
  BY <1>1, BoundsAssumption DEF TypeOK, ConnPlaces
<1>3. CASE Fits(<<next>>)
  <2>1. /\ queue' = queue \o <<next>> /\ Len(queue) + 1 <= MaxPending /\ next' = next + 1
        /\ conn' = conn /\ after' = after /\ through' = through /\ buffer' = buffer
    BY <1>1, <1>3 DEF Send, Fits
  <2>2. queue' \in Seq(1..MaxEvents) /\ Len(queue') = Len(queue) + 1
    BY <1>2, <2>1
  <2>3. TypeOK'
    BY <1>1, <1>2, <2>1, <2>2 DEF TypeOK, NoCursor
  <2>4. BufferLatest' /\ ConnPlaces'
    BY <1>1, <1>2, <2>1 DEF BufferLatest, ConnPlaces, NoCursor
  <2>5. NoGapInQueue' /\ \A v \in 1..(next' - 1) : Covered(v)'
    <3>. DEFINE fs == <<next>>
    <3>1. /\ fs \in Seq(1..MaxEvents) /\ Len(fs) = 1
          /\ \A k \in 1..Len(fs) : fs[k] = (next - 1) + k
          /\ queue' = queue \o fs /\ next - 1 \in Nat
      BY <1>2, <2>1
    <3>2. NoGapInQueue /\ \A v \in 1..(next - 1) : Covered(v)
      BY <1>1, <1>2 DEF NoGap
    <3>. HIDE DEF fs
    <3>3. NoGapInQueue' /\ \A v \in 1..((next - 1) + Len(fs)) : Covered(v)'
      BY <1>1, <3>1, <3>2, RunLeavesNoGap DEF Covered
    <3>. QED
      BY <1>2, <2>1, <3>1, <3>3
  <2>6. NoGap'
    BY <1>1, <1>2, <2>1, <2>5 DEF NoGap, NoCursor, Covered
  <2>. QED
    BY <2>3, <2>4, <2>6
<1>4. CASE ~Fits(<<next>>)
  <2>1. Disconnected /\ published' \in 0..appended /\ drops' \in 0..MaxDrops
    BY <1>1, <1>4 DEF Send, TypeOK
  <2>. QED
    BY <1>1, <2>1, DisconnectedKeeps
<1>. QED
  BY <1>3, <1>4

\* What go_live flushes continues what replay sent, or is the whole buffer for
\* a client without a cursor.
LEMMA FlushedIs ==
  ASSUME IInv, conn = "replay", next > through
  PROVE  /\ Flushed \in Seq(1..MaxEvents)
         /\ after = NoCursor => Flushed = buffer
         /\ after # NoCursor => /\ \A k \in 1..Len(Flushed) : Flushed[k] = through + k
                               /\ published <= through + Len(Flushed)
<1>. USE DEF IInv
<1>1. /\ buffer \in Seq(1..MaxEvents) /\ Len(buffer) \in Nat /\ published \in Nat
      /\ through \in Nat /\ published <= MaxEvents /\ MaxEvents \in Nat
      /\ published - Len(buffer) <= through
  BY BoundsAssumption DEF TypeOK, ConnPlaces
<1>2. CASE after = NoCursor
  BY <1>1, <1>2 DEF Flushed
<1>3. CASE after # NoCursor
  <2>. DEFINE b == published - Len(buffer)
              n == IF b + Len(buffer) > through THEN b + Len(buffer) - through ELSE 0
              F == [j \in 1..n |-> through + j]
  <2>1. b \in Int /\ b <= through /\ (\A i \in 1..Len(buffer) : buffer[i] = b + i)
    BY <1>1 DEF BufferLatest
  <2>2. buffer \in Seq(Nat)
    BY <1>1
  <2>. HIDE DEF b
  <2>3. Above(buffer, through) = F
    BY <1>1, <2>1, <2>2, AboveOfRun
  <2>4. (n \in Nat /\ through + n <= MaxEvents) \/ n = 0
    BY <1>1 DEF b
  <2>5. n \in Nat
    BY <1>1, <2>1
  <2>6. published <= through + n
    BY <1>1 DEF b
  <2>. HIDE DEF n
  <2>7. F \in Seq(1..MaxEvents) /\ Len(F) = n
    <3>1. \A j \in 1..n : through + j \in 1..MaxEvents
      BY <1>1, <2>4, <2>5
    <3>. QED
      BY <2>5, <3>1
  <2>8. \A k \in 1..Len(F) : F[k] = through + k
    BY <2>7
  <2>9. Flushed = F
    BY <1>3, <2>3 DEF Flushed
  <2>. QED
    BY <1>3, <2>6, <2>7, <2>8, <2>9
<1>. QED
  BY <1>2, <1>3

\* go_live flushes the buffer behind the replayed events.
LEMMA GoLiveKeeps ==
  ASSUME IInv, GoLive
  PROVE  IInv'
<1>. USE DEF IInv
<1>1. /\ conn = "replay" /\ next > through
      /\ Send(Flushed, /\ conn' = "live" /\ buffer' = <<>>
                       /\ UNCHANGED <<after, through, next>>)
      /\ appended' = appended /\ published' = published /\ high' = high /\ drops' = drops
  BY DEF GoLive, serverVars, clientVars
<1>2. /\ queue \in Seq(1..MaxEvents) /\ MaxEvents \in Nat /\ published \in Nat /\ through \in Nat
      /\ next \in Nat /\ (after = NoCursor <=> high = NoCursor)
  BY <1>1, BoundsAssumption DEF TypeOK, ConnPlaces
<1>. DEFINE fs == Flushed
<1>3. /\ fs \in Seq(1..MaxEvents)
      /\ after = NoCursor => fs = buffer
      /\ after # NoCursor => /\ \A k \in 1..Len(fs) : fs[k] = through + k
                            /\ published <= through + Len(fs)
  BY <1>1, FlushedIs
<1>4. CASE Fits(Flushed)
  <2>1. /\ queue' = queue \o fs /\ Len(queue) + Len(fs) <= MaxPending
        /\ conn' = "live" /\ buffer' = <<>> /\ after' = after /\ through' = through
        /\ next' = next
    BY <1>1, <1>4 DEF Send, Fits
  <2>. HIDE DEF fs
  <2>2. queue' \in Seq(1..MaxEvents) /\ Len(queue') = Len(queue) + Len(fs) /\ Len(fs) \in Nat
    BY <1>2, <1>3, <2>1
  <2>3. TypeOK'
    <3>1. buffer' \in Seq(1..MaxEvents)
      BY <2>1
    <3>. QED
      BY <1>1, <2>1, <2>2, <3>1 DEF TypeOK, NoCursor
  <2>4. BufferLatest' /\ ConnPlaces'
    BY <2>1 DEF BufferLatest, ConnPlaces
  <2>5. ASSUME high # NoCursor
        PROVE  NoGapInQueue' /\ \A v \in 1..published' : Covered(v)'
    <3>1. NoGapInQueue /\ \A v \in 1..through : Covered(v)
      BY <1>1, <1>2, <2>5 DEF NoGap
    <3>2. \A k \in 1..Len(fs) : fs[k] = through + k
      BY <1>2, <1>3, <2>5
    <3>3. NoGapInQueue' /\ \A v \in 1..(through + Len(fs)) : Covered(v)'
      BY <1>1, <1>2, <1>3, <2>1, <3>1, <3>2, RunLeavesNoGap DEF Covered
    <3>4. published' \in Nat /\ published' <= through + Len(fs)
      BY <1>1, <1>2, <1>3, <2>5
    <3>. QED
      BY <1>2, <2>2, <3>3, <3>4
  <2>6. ASSUME high = NoCursor, NEW i \in 1..Len(queue')
        PROVE  queue'[i] = published' - Len(queue') + i
    <3>1. queue = <<>> /\ fs = buffer
      BY <1>1, <1>2, <1>3, <2>6 DEF ConnPlaces
    <3>2. queue' = buffer
      BY <1>3, <2>1, <3>1
    <3>. QED
      BY <1>1, <3>2 DEF BufferLatest
  <2>7. NoGap'
    BY <1>1, <2>1, <2>5, <2>6 DEF NoGap, NoCursor, Covered
  <2>. QED
    BY <2>3, <2>4, <2>7
<1>5. CASE ~Fits(Flushed)
  <2>1. Disconnected /\ published' \in 0..appended /\ drops' \in 0..MaxDrops
    BY <1>1, <1>5 DEF Send, TypeOK
  <2>. QED
    BY <1>1, <2>1, DisconnectedKeeps
<1>. QED
  BY <1>4, <1>5

\* The oldest frame is at most one above what the client has.
LEMMA HeadIsNext ==
  ASSUME IInv, queue # <<>>, high # NoCursor
  PROVE  Head(queue) <= high + 1
<1>. USE DEF IInv
<1>1. /\ queue \in Seq(1..MaxEvents) /\ high \in Nat /\ MaxEvents \in Nat
      /\ 1 \in 1..Len(queue) /\ Head(queue) = queue[1] /\ queue[1] \in 1..MaxEvents
  BY BoundsAssumption DEF TypeOK, NoCursor
<1>2. CASE queue[1] = 1
  BY <1>1, <1>2
<1>3. CASE queue[1] # 1
  <2>1. queue[1] - 1 \in 1..MaxEvents /\ queue[1] - 1 < queue[1]
    BY <1>1, <1>3
  <2>2. NoGapInQueue
    BY DEF NoGap
  <2>3. queue[1] - 1 <= high \/ \E j \in 1..(1 - 1) : queue[j] = queue[1] - 1
    BY <1>1, <2>1, <2>2 DEF NoGapInQueue
  <2>. QED
    BY <1>1, <2>3
<1>. QED
  BY <1>2, <1>3

\* The client receives the oldest frame: what it then has, and what is still on
\* its way, covers what was covered.
LEMMA ReceiveKeeps ==
  ASSUME IInv, Receive
  PROVE  IInv'
<1>. USE DEF IInv
<1>. DEFINE h == Head(queue)
<1>1. /\ queue # <<>> /\ queue' = Tail(queue)
      /\ high' = (IF high = NoCursor \/ h > high THEN h ELSE high)
      /\ appended' = appended /\ published' = published /\ conn' = conn /\ after' = after
      /\ through' = through /\ next' = next /\ buffer' = buffer /\ drops' = drops
  BY DEF Receive, serverVars
<1>2. /\ queue \in Seq(1..MaxEvents) /\ high \in Nat /\ MaxEvents \in Nat
      /\ published \in Nat /\ next \in Nat
      /\ h = queue[1] /\ h \in 1..MaxEvents /\ Len(queue) \in Nat /\ Len(queue) >= 1
  BY <1>1, BoundsAssumption DEF TypeOK, NoCursor
<1>3. /\ queue' \in Seq(1..MaxEvents) /\ Len(queue') = Len(queue) - 1
      /\ \A i \in 1..(Len(queue) - 1) : queue'[i] = queue[i + 1]
  BY <1>1, <1>2
<1>. HIDE DEF h
<1>4. high' \in 0..MaxEvents /\ high' # NoCursor
  BY <1>1, <1>2 DEF TypeOK, NoCursor
<1>5. TypeOK'
  <2>1. high' \in 0..NoCursor /\ Len(queue') <= MaxPending
    BY <1>2, <1>3, <1>4, BoundsAssumption DEF TypeOK, NoCursor
  <2>. QED
    BY <1>1, <1>3, <2>1 DEF TypeOK, NoCursor
<1>6. BufferLatest'
  BY <1>1 DEF BufferLatest
<1>7. ConnPlaces'
  <2>1. conn \in {"replay", "live"}
    BY <1>1 DEF ConnPlaces, TypeOK
  <2>2. conn = "replay" => high # NoCursor /\ after # NoCursor
    BY <1>1 DEF ConnPlaces
  <2>. QED
    BY <1>1, <1>4, <2>1, <2>2 DEF ConnPlaces, NoCursor
<1>8. CASE high # NoCursor
  <2>1. high' >= high /\ high' >= h
    BY <1>1, <1>2, <1>8
  <2>2. ASSUME NEW v \in Nat, Covered(v) PROVE Covered(v)'
    <3>1. CASE v <= high
      BY <1>2, <1>4, <2>1, <3>1 DEF Covered
    <3>2. ASSUME NEW j \in 1..Len(queue), queue[j] = v PROVE Covered(v)'
      <4>1. CASE j = 1
        BY <1>2, <1>4, <2>1, <3>2, <4>1 DEF Covered
      <4>2. CASE j # 1
        <5>1. j - 1 \in 1..Len(queue') /\ queue'[j - 1] = v
          BY SMTT(30), <1>2, <1>3, <3>2, <4>2
        <5>. QED
          BY <5>1 DEF Covered
      <4>. QED
        BY <4>1, <4>2
    <3>. QED
      BY <2>2, <3>1, <3>2 DEF Covered
  <2>3. NoGapInQueue'
    <3>. SUFFICES ASSUME NEW i \in 1..Len(queue'), NEW v \in 1..MaxEvents, v < queue'[i]
                  PROVE  v <= high' \/ \E j \in 1..(i - 1) : queue'[j] = v
      BY DEF NoGapInQueue
    <3>1. i + 1 \in 1..Len(queue) /\ queue'[i] = queue[i + 1]
      BY <1>2, <1>3
    <3>2. v <= high \/ \E j \in 1..((i + 1) - 1) : queue[j] = v
      BY <1>8, <3>1 DEF NoGap, NoGapInQueue
    <3>3. CASE v <= high
      BY <1>2, <1>4, <2>1, <3>3
    <3>4. ASSUME NEW j \in 1..i, queue[j] = v
          PROVE  v <= high' \/ \E m \in 1..(i - 1) : queue'[m] = v
      <4>1. CASE j = 1
        BY <1>2, <2>1, <3>4, <4>1
      <4>2. CASE j # 1
        <5>1. j - 1 \in 1..(i - 1) /\ j - 1 \in 1..(Len(queue) - 1) /\ (j - 1) + 1 = j
          BY <1>2, <1>3, <4>2
        <5>2. queue'[j - 1] = v
          BY <1>3, <3>4, <5>1
        <5>. QED
          BY <5>1, <5>2
      <4>. QED
        BY <4>1, <4>2
    <3>. QED
      BY <3>2, <3>3, <3>4
  <2>4. conn' = "replay" => \A v \in 1..(next' - 1) : Covered(v)'
    <3>. SUFFICES ASSUME conn = "replay", NEW v \in 1..(next - 1) PROVE Covered(v)'
      BY <1>1
    <3>1. v \in Nat /\ Covered(v)
      BY <1>2, <1>8 DEF NoGap
    <3>. QED
      BY <2>2, <3>1
  <2>5. conn' = "live" => \A v \in 1..published' : Covered(v)'
    <3>. SUFFICES ASSUME conn = "live", NEW v \in 1..published PROVE Covered(v)'
      BY <1>1
    <3>1. v \in Nat /\ Covered(v)
      BY <1>2, <1>8 DEF NoGap
    <3>. QED
      BY <2>2, <3>1
  <2>6. NoGap'
    BY <1>4, <2>3, <2>4, <2>5 DEF NoGap, NoCursor
  <2>. QED
    BY <1>5, <1>6, <1>7, <2>6
<1>9. CASE high = NoCursor
  <2>1. conn = "live" /\ conn' = "live" /\ high' = h
    BY <1>1, <1>9 DEF ConnPlaces, TypeOK
  <2>2. \A i \in 1..Len(queue) : queue[i] = published - Len(queue) + i
    BY <1>9, <2>1 DEF NoGap
  <2>3. h = published - Len(queue) + 1
    BY <1>2, <2>2
  <2>4. \A i \in 1..Len(queue') : queue'[i] = h + i
    BY SMTT(30), <1>2, <1>3, <2>2, <2>3
  <2>5. published = h + Len(queue')
    BY <1>2, <1>3, <2>3
  <2>9. Len(queue') \in Nat /\ h \in Nat
    BY <1>2, <1>3
  <2>6. NoGapInQueue'
    <3>. SUFFICES ASSUME NEW i \in 1..Len(queue'), NEW v \in 1..MaxEvents, v < queue'[i]
                  PROVE  v <= high' \/ \E j \in 1..(i - 1) : queue'[j] = v
      BY DEF NoGapInQueue
    <3>1. CASE v <= h
      BY <2>1, <3>1
    <3>2. CASE v > h
      <4>1. queue'[i] = h + i
        BY <2>4
      <4>2. v - h \in 1..(i - 1) /\ v - h \in 1..Len(queue') /\ h + (v - h) = v
        BY <2>9, <3>2, <4>1
      <4>3. queue'[v - h] = v
        BY <2>4, <4>2
      <4>. QED
        BY <4>2, <4>3
    <3>. QED
      BY <1>2, <3>1, <3>2
  <2>7. ASSUME NEW v \in 1..published' PROVE Covered(v)'
    <3>1. CASE v <= h
      BY <2>1, <3>1 DEF Covered
    <3>2. CASE v > h
      <4>1. v - h \in 1..Len(queue') /\ h + (v - h) = v
        BY <1>1, <2>5, <2>9, <3>2
      <4>2. queue'[v - h] = v
        BY <2>4, <4>1
      <4>. QED
        BY <4>1, <4>2 DEF Covered
    <3>. QED
      BY <1>1, <1>2, <3>1, <3>2
  <2>8. NoGap'
    BY <1>4, <2>1, <2>6, <2>7 DEF NoGap, NoCursor
  <2>. QED
    BY <1>5, <1>6, <1>7, <2>8
<1>. QED
  BY <1>8, <1>9

-----------------------------------------------------------------------------
(* Theorems *)

\* Every step of the server, the connection and the client keeps the invariant.
LEMMA NextInv == IInv /\ [Next]_vars => IInv'
<1>. SUFFICES ASSUME IInv, [Next]_vars PROVE IInv'
  OBVIOUS
<1>1. CASE Drop
  <2>1. /\ Disconnected /\ high' = high /\ appended' = appended
        /\ published' \in 0..appended /\ drops' \in 0..MaxDrops
    BY <1>1, BoundsAssumption DEF Drop, serverVars, IInv, TypeOK
  <2>. QED
    BY <2>1, DisconnectedKeeps
<1>2. CASE UNCHANGED vars
  BY <1>2 DEF vars, serverVars, connVars, clientVars, IInv, TypeOK, BufferLatest, ConnPlaces,
              NoGap, NoGapInQueue, Covered, NoCursor
<1>. QED
  BY <1>1, <1>2, AppendEventKeeps, PublishKeeps, ConnectKeeps, ReplayOneKeeps, GoLiveKeeps,
     ReceiveKeeps DEF Next

\* The inductive invariant holds in every reachable state.
THEOREM SocketInv == Spec => []IInv
<1>1. Init => IInv
  <2>. SUFFICES ASSUME Init PROVE IInv
    OBVIOUS
  <2>1. TypeOK
    <3>1. buffer \in Seq(1..MaxEvents) /\ queue \in Seq(1..MaxEvents) /\ Len(queue) = 0
      BY DEF Init
    <3>. QED
      BY <3>1, BoundsAssumption DEF Init, TypeOK, NoCursor
  <2>2. BufferLatest /\ ConnPlaces /\ NoGap
    BY DEF Init, BufferLatest, ConnPlaces, NoGap, NoGapInQueue
  <2>. QED
    BY <2>1, <2>2 DEF IInv
<1>. QED
  BY <1>1, NextInv, PTL DEF Spec

\* A client that reconnects with its highest seq never steps over an event,
\* wherever between subscription, mark, replay and go_live events are appended
\* or published, and wherever the connection is lost.
THEOREM ResumeLosesNothingHolds == Spec => ResumeLosesNothing
<1>1. IInv /\ [Next]_vars => [high # NoCursor /\ high' # high => high' = high + 1]_vars
  <2>. SUFFICES ASSUME IInv, [Next]_vars, high # NoCursor, high' # high
                PROVE  high' = high + 1
    OBVIOUS
  <2>1. Receive
    BY DEF Next, AppendEvent, Publish, Connect, Mark, ReplayOne, GoLive, Drop, vars, clientVars
  <2>2. queue # <<>> /\ high' = Head(queue) /\ Head(queue) > high
    BY <2>1 DEF Receive
  <2>3. Head(queue) \in Nat /\ high \in Nat
    BY <2>2, BoundsAssumption DEF IInv, TypeOK, NoCursor
  <2>. QED
    BY <2>2, <2>3, HeadIsNext
<1>. QED
  BY <1>1, SocketInv, PTL DEF Spec, ResumeLosesNothing
=============================================================================
