--------------------------- MODULE EventLogProofs ---------------------------
(***************************************************************************)
(* Proofs about EventLog, for any number of processes and events and any   *)
(* faults: processes that end anywhere, lost files, markers and listings   *)
(* that fail.                                                              *)
(***************************************************************************)
EXTENDS EventLog, FiniteSetTheorems, TLAPS

\* Sets of events are finite.
Finite == IsFiniteSet(files) /\ \A p \in Procs : IsFiniteSet(known[p])

\* What an instance has at each point.
InstanceSound ==
  \A p \in Procs :
    /\ pc[p] = "down" => known[p] = {}
    /\ pc[p] = "locked" => evt[p] \in Ids \ IdsOf(known[p])
    /\ \A f \in known[p] : f[1] < nextIdx[p]

\* Until the log is shared one process has it open ...
OneOpen ==
  ~shared => \A p, q \in Procs : pc[p] # "down" /\ pc[q] # "down" => p = q

\* ... which knows every file that is left.
Alone ==
  Undisturbed /\ ~shared => \A p \in Procs : pc[p] # "down" => files \subseteq known[p]

\* A process that holds the file lock is in step with the disk.
InStep ==
  Undisturbed =>
    \A p \in Procs :
      pc[p] \in {"locked", "written", "unmarked"} => files \subseteq known[p]

\* The marker of an instance that is behind is there only while the process that
\* appended the one event it misses has yet to delete it.  Markers of other
\* lengths may be left over from earlier faults.
NotBehind ==
  Undisturbed /\ shared =>
    \A p \in Procs : pc[p] # "down" /\ Length(p) \in marks =>
      \/ known[p] = files
      \/ \E q \in Procs : pc[q] = "written" /\ Length(p) = Length(q) - 1

IInv ==
  /\ TypeOK /\ Finite /\ InstanceSound /\ OneOpen
  /\ KnowsPrefix /\ Alone /\ InStep /\ NotBehind

-----------------------------------------------------------------------------
(* Finite sets of files *)

\* A non-empty finite set of numbers has a greatest element.
LEMMA MaxExists ==
  ASSUME NEW S \in SUBSET Int, IsFiniteSet(S), S # {}
  PROVE  Max(S) \in S /\ \A y \in S : Max(S) >= y
<1>. DEFINE Over(x) == {y \in S : y > x}
            T == {Over(x) : x \in S}
<1>1. IsWellFoundedOn(StrictSubsetOrdering(S), FiniteSubsetsOf(S))
  BY FS_StrictSubsetOrderingWellFounded
<1>2. T \subseteq FiniteSubsetsOf(S) /\ T # {}
  <2>1. T # {} /\ \A v \in T : v \in SUBSET S
    OBVIOUS
  <2>. QED
    BY <2>1, FS_Subset DEF FiniteSubsetsOf
<1>3. PICK u \in T : \A v \in T : ~(<<v, u>> \in StrictSubsetOrdering(S))
  BY <1>1, <1>2, WFMin
<1>4. PICK x \in S : u = Over(x)
  OBVIOUS
<1>5. ASSUME NEW y \in S, ~(x >= y) PROVE FALSE
  <2>1. y > x
    BY <1>5
  <2>2. /\ \A z \in S : z > y => z > x
        /\ y > x /\ ~(y > y)
    BY <2>1
  <2>3. Over(y) \in T /\ Over(y) # u /\ Over(y) \subseteq u /\ u \subseteq S
    BY <1>4, <2>2, Zenon
  <2>4. <<Over(y), u>> \in StrictSubsetOrdering(S)
    BY <2>3 DEF StrictSubsetOrdering
  <2>. QED
    BY <1>3, <2>3, <2>4
<1>. QED
  BY <1>5 DEF Max

\* The indices of a finite set of files are a finite set of numbers.
LEMMA IndicesFinite ==
  ASSUME NEW F \in SUBSET (Nat \X Ids), IsFiniteSet(F)
  PROVE  IsFiniteSet({f[1] : f \in F}) /\ {f[1] : f \in F} \in SUBSET Nat
<1>. DEFINE S == {f[1] : f \in F}
            i == [f \in F |-> f[1]]
<1>1. i \in Surjection(F, S)
  BY DEF Surjection
<1>. QED
  BY <1>1, FS_Surjection

\* One past the last index is above every index.
LEMMA PastLastBounds ==
  ASSUME NEW F \in SUBSET (Nat \X Ids), IsFiniteSet(F)
  PROVE  /\ PastLast(F) \in Nat
         /\ \A f \in F : f[1] < PastLast(F)
<1>. DEFINE S == {f[1] : f \in F}
<1>1. S \in SUBSET Nat /\ IsFiniteSet(S)
  BY IndicesFinite
<1>2. /\ \A f \in F : f[1] \in S
      /\ F # {} => S # {} /\ PastLast(F) = Max(S) + 1
  BY DEF PastLast
<1>. HIDE DEF S
<1>3. CASE F = {}
  BY <1>3 DEF PastLast
<1>4. CASE F # {}
  <2>1. Max(S) \in S /\ \A y \in S : Max(S) >= y
    <3>1. S \in SUBSET Int /\ S # {}
      BY <1>1, <1>2, <1>4
    <3>. QED
      BY <1>1, <3>1, MaxExists
  <2>2. Max(S) \in Nat /\ PastLast(F) = Max(S) + 1
    BY <1>1, <1>2, <1>4, <2>1
  <2>3. ASSUME NEW f \in F PROVE f[1] < PastLast(F)
    BY <1>1, <1>2, <2>1, <2>2
  <2>. QED
    BY <2>2, <2>3
<1>. QED
  BY <1>3, <1>4

\* The greater of two numbers.
LEMMA MaxOfTwo ==
  ASSUME NEW a \in Nat, NEW b \in Nat
  PROVE  Max({a, b}) \in Nat /\ Max({a, b}) >= a /\ Max({a, b}) >= b
<1>. DEFINE S == {a, b}
<1>1. S \in SUBSET Int /\ IsFiniteSet(S) /\ S # {}
  <2>1. S = {a} \cup {b}
    OBVIOUS
  <2>2. IsFiniteSet({a})
    BY FS_Singleton
  <2>3. IsFiniteSet(S)
    BY <2>1, <2>2, FS_AddElement
  <2>. QED
    BY <2>3
<1>2. \A x \in S : x \in Nat
  OBVIOUS
<1>3. a \in S /\ b \in S
  OBVIOUS
<1>4. Max(S) \in S /\ \A y \in S : Max(S) >= y
  <2>. HIDE DEF S
  <2>. QED
    BY <1>1, MaxExists
<1>. QED
  BY <1>2, <1>3, <1>4

-----------------------------------------------------------------------------
(* The inductive invariant *)

\* The numbers an invariant state is about.
LEMMA StateSizes ==
  ASSUME TypeOK, Finite
  PROVE  /\ Cardinality(files) \in Nat
         /\ \A m \in marks : m \in Nat
         /\ \A f \in files : f[1] \in Nat /\ f[2] \in Ids
         /\ \A p \in Procs :
              /\ Length(p) \in Nat /\ nextIdx[p] \in Nat
              /\ \A f \in known[p] : f[1] \in Nat /\ f[2] \in Ids
  BY FS_CardinalityType DEF TypeOK, Finite, Length

\* The initial states satisfy the invariant.
LEMMA InitInv == Init => IInv
<1>. SUFFICES ASSUME Init PROVE IInv
  OBVIOUS
<1>0. failures \in 0..MaxFailures /\ faults \in SUBSET Faults
  <2>1. failures = 0 /\ faults = {}
    BY DEF Init
  <2>. QED
    BY <2>1, BoundsAssumption
<1>1. TypeOK
  BY <1>0, ProcsAssumption DEF Init, TypeOK, Points
<1>2. Finite
  BY FS_EmptySet DEF Init, Finite
<1>. QED
  BY <1>1, <1>2 DEF Init, IInv, InstanceSound, OneOpen, KnowsPrefix, Alone, InStep, NotBehind

\* Only an opening of the log that nobody has open makes it undisturbed again.
LEMMA UndisturbedKept ==
  ASSUME faults \subseteq faults', shared => shared', Undisturbed'
  PROVE  /\ Undisturbed
         /\ shared' => faults = {} /\ faults' = {}
         /\ "lost" \notin faults' => "lost" \notin faults
  BY DEF Undisturbed

\* Opening the log keeps the invariant.
LEMMA OpenKeeps ==
  ASSUME IInv, NEW p \in Procs, Open(p)
  PROVE  IInv'
<1>. DEFINE first == \A q \in Procs : pc[q] = "down"
            before == IF first THEN {} ELSE faults
<1>1. /\ pc[p] = "down" /\ pc' = [pc EXCEPT ![p] = "idle"]
      /\ shared' = ~first
      /\ \/ Scan(p) /\ faults' = before /\ UNCHANGED failures
         \/ ScanFails(p) /\ faults' = before \cup {"unlisted"}
      /\ UNCHANGED <<files, marks, owner, evt, used>>
  BY DEF Open
<1>2. PICK K, n : /\ known' = [known EXCEPT ![p] = K] /\ nextIdx' = [nextIdx EXCEPT ![p] = n]
                  /\ K \in SUBSET (Nat \X Ids) /\ IsFiniteSet(K) /\ n \in Nat
                  /\ \A f \in K : f[1] < n
                  /\ Undisturbed' => K = files
  <2>1. CASE Scan(p) /\ faults' = before
    <3>1. PastLast(files) \in Nat /\ \A f \in files : f[1] < PastLast(files)
      BY PastLastBounds DEF IInv, TypeOK, Finite
    <3>. QED
      BY <2>1, <3>1 DEF Scan, IInv, TypeOK, Finite
  <2>2. CASE ScanFails(p) /\ faults' = before \cup {"unlisted"}
    <3>. DEFINE K == {}
    <3>1. K \in SUBSET (Nat \X Ids) /\ \A f \in K : f[1] < 0
      OBVIOUS
    <3>2. IsFiniteSet(K) /\ ~Undisturbed'
      BY <2>2, FS_EmptySet DEF Undisturbed
    <3>3. known' = [known EXCEPT ![p] = K] /\ nextIdx' = [nextIdx EXCEPT ![p] = 0]
      BY <2>2 DEF ScanFails
    <3>. HIDE DEF K
    <3>. QED
      BY <3>1, <3>2, <3>3
  <2>. QED
    BY <1>1, <2>1, <2>2
<1>3. /\ known'[p] = K /\ nextIdx'[p] = n /\ pc'[p] = "idle"
      /\ \A q \in Procs \ {p} :
           known'[q] = known[q] /\ nextIdx'[q] = nextIdx[q] /\ pc'[q] = pc[q]
  BY <1>1, <1>2 DEF IInv, TypeOK
<1>4. TypeOK'
  <2>1. faults' \in SUBSET Faults /\ failures' \in 0..MaxFailures
    <3>1. before \in SUBSET Faults /\ "unlisted" \in Faults
      BY DEF IInv, TypeOK, Faults
    <3>2. faults' \in SUBSET Faults
      BY <1>1, <3>1
    <3>3. failures \in 0..MaxFailures
      BY DEF IInv, TypeOK
    <3>4. failures' = failures \/ Fail
      BY <1>1 DEF ScanFails
    <3>. QED
      BY <3>2, <3>3, <3>4, BoundsAssumption DEF Fail
  <2>2. \A q \in Procs : owner' = q <=> pc'[q] \in {"locked", "written", "unmarked"}
    BY <1>1, <1>3 DEF IInv, TypeOK
  <2>3. /\ pc' \in [Procs -> Points] /\ shared' \in BOOLEAN
        /\ known' \in [Procs -> SUBSET (Nat \X Ids)] /\ nextIdx' \in [Procs -> Nat]
    BY <1>1, <1>2 DEF IInv, TypeOK, Points
  <2>. QED
    BY <1>1, <2>1, <2>2, <2>3 DEF IInv, TypeOK
<1>5. Finite' /\ InstanceSound'
  <2>1. Finite'
    BY <1>1, <1>2, <1>3 DEF IInv, Finite
  <2>2. ASSUME NEW q \in Procs
        PROVE  /\ pc'[q] = "down" => known'[q] = {}
               /\ pc'[q] = "locked" => evt'[q] \in Ids \ IdsOf(known'[q])
               /\ \A f \in known'[q] : f[1] < nextIdx'[q]
    BY <1>1, <1>2, <1>3 DEF IInv, InstanceSound
  <2>. QED
    BY <2>1, <2>2 DEF InstanceSound, IdsOf
<1>6. OneOpen'
  BY <1>1, <1>3 DEF OneOpen
<1>7. CASE first
  <2>1. ~shared' /\ \A q \in Procs \ {p} : pc'[q] = "down"
    BY <1>1, <1>3, <1>7
  <2>2. KnowsPrefix' /\ Alone' /\ InStep' /\ NotBehind'
    BY <1>1, <1>2, <1>3, <2>1 DEF KnowsPrefix, Alone, InStep, NotBehind
  <2>. QED
    BY <1>4, <1>5, <1>6, <2>2 DEF IInv
<1>8. CASE ~first
  <2>1. shared' /\ faults \subseteq faults'
    BY <1>1, <1>8
  <2>2. SUFFICES ASSUME Undisturbed'
                 PROVE  KnowsPrefix' /\ Alone' /\ InStep' /\ NotBehind'
    BY <1>4, <1>5, <1>6, <2>1 DEF IInv, KnowsPrefix, Alone, InStep, NotBehind
  <2>3. Undisturbed /\ faults = {} /\ K = files
    BY <1>2, <2>1, <2>2, UndisturbedKept
  <2>4. KnowsPrefix' /\ InStep' /\ Alone'
    BY <1>1, <1>3, <2>1, <2>3 DEF IInv, KnowsPrefix, Alone, InStep
  <2>5. ASSUME NEW q \in Procs, pc'[q] # "down", Length(q)' \in marks'
        PROVE  \/ known'[q] = files'
               \/ \E r \in Procs : pc'[r] = "written" /\ Length(q)' = Length(r)' - 1
    <3>1. CASE q = p
      BY <1>1, <1>3, <2>3, <3>1
    <3>2. CASE q # p /\ ~shared
      <4>1. pc[q] # "down" /\ known'[q] = known[q]
        BY <1>3, <2>5, <3>2
      <4>2. files \subseteq known[q] /\ known[q] \subseteq files
        BY <2>3, <3>2, <4>1 DEF IInv, Alone, KnowsPrefix
      <4>. QED
        BY <1>1, <4>1, <4>2
    <3>3. CASE q # p /\ shared
      <4>1. Length(q)' = Length(q) /\ pc[q] # "down" /\ Length(q) \in marks
        BY <1>1, <1>3, <2>5, <3>3 DEF Length
      <4>2. CASE known[q] = files
        BY <1>1, <1>3, <3>3, <4>2
      <4>3. CASE \E r \in Procs : pc[r] = "written" /\ Length(q) = Length(r) - 1
        <5>1. PICK r \in Procs : pc[r] = "written" /\ Length(q) = Length(r) - 1
          BY <4>3
        <5>2. r # p
          BY <1>1, <5>1
        <5>3. pc'[r] = "written" /\ Length(r)' = Length(r)
          BY <1>3, <5>1, <5>2 DEF Length
        <5>. QED
          BY <4>1, <5>1, <5>3
      <4>. QED
        BY <2>3, <3>3, <4>1, <4>2, <4>3 DEF IInv, NotBehind
    <3>. QED
      BY <3>1, <3>2, <3>3
  <2>6. NotBehind'
    BY <2>5 DEF NotBehind, Length
  <2>. QED
    BY <2>4, <2>6
<1>. QED
  BY <1>7, <1>8

\* append() is in step with the disk after its sync: where the marker or the
\* count of the files lets it skip the scan, its index was in step already.
LEMMA SyncIsFresh ==
  ASSUME IInv, NEW p \in Procs, pc[p] = "idle", owner = NoProc, Sync(p)
  PROVE  \E K, n :
           /\ known' = [known EXCEPT ![p] = K] /\ nextIdx' = [nextIdx EXCEPT ![p] = n]
           /\ K \in SUBSET (Nat \X Ids) /\ IsFiniteSet(K) /\ n \in Nat
           /\ \A f \in K : f[1] < n
           /\ Undisturbed' /\ UNCHANGED shared =>
                /\ Undisturbed /\ faults' = faults
                /\ files \subseteq K
                /\ "lost" \notin faults => K = files
<1>1. CASE Scan(p) /\ UNCHANGED <<failures, faults>>
  <2>1. PastLast(files) \in Nat /\ \A f \in files : f[1] < PastLast(files)
    BY PastLastBounds DEF IInv, TypeOK, Finite
  <2>. QED
    BY <1>1, <2>1 DEF Scan, IInv, TypeOK, Finite, Undisturbed
<1>2. CASE UNCHANGED <<known, nextIdx>>
  <2>. DEFINE K == known[p]
              n == nextIdx[p]
  <2>1. /\ known' = [known EXCEPT ![p] = K] /\ nextIdx' = [nextIdx EXCEPT ![p] = n]
        /\ K \in SUBSET (Nat \X Ids) /\ IsFiniteSet(K) /\ n \in Nat
        /\ \A f \in K : f[1] < n
    BY <1>2 DEF IInv, TypeOK, Finite, InstanceSound
  <2>2. ASSUME Undisturbed', UNCHANGED shared
        PROVE  /\ Undisturbed /\ faults' = faults
               /\ files \subseteq K
               /\ "lost" \notin faults => K = files
    <3>1. faults' = faults
      BY <2>2 DEF Sync, Undisturbed
    <3>2. Undisturbed
      BY <2>2, <3>1 DEF Undisturbed
    <3>3. "lost" \notin faults => K \in SUBSET files
      BY <3>2 DEF IInv, KnowsPrefix
    <3>4. CASE ~shared
      BY <3>1, <3>2, <3>3, <3>4 DEF IInv, Alone
    <3>5. CASE shared
      <4>1. faults = {} /\ \A q \in Procs : pc[q] # "written"
        BY <3>2, <3>5, ProcsAssumption DEF Undisturbed, IInv, TypeOK
      <4>2. CASE MarkerMatchesLength(p)
        BY <3>1, <3>2, <3>5, <4>1, <4>2 DEF IInv, NotBehind, MarkerMatchesLength
      <4>3. CASE ~MarkerMatchesLength(p)
        <5>0. UNCHANGED <<known, nextIdx>> /\ (Cardinality(files) > Length(p) => Scan(p))
          BY <1>2, <2>2, <4>3 DEF Sync, Undisturbed
        <5>1. CASE Cardinality(files) > Length(p)
          BY <2>1, <3>1, <3>2, <5>0, <5>1 DEF Scan, IInv, TypeOK
        <5>2. CASE ~(Cardinality(files) > Length(p))
          <6>1. Cardinality(files) = Cardinality(K)
            BY <3>3, <4>1, <5>2, StateSizes, FS_Subset DEF IInv, Finite, Length
          <6>2. files = K
            BY <3>3, <4>1, <6>1, FS_Subset DEF IInv, Finite
          <6>. QED
            BY <3>1, <3>2, <6>2
        <5>. QED
          BY <5>1, <5>2
      <4>. QED
        BY <4>2, <4>3
    <3>. QED
      BY <3>4, <3>5
  <2>. QED
    BY <2>1, <2>2
<1>. QED
  BY <1>1, <1>2 DEF Sync

\* Taking the lock of append() keeps the invariant.
LEMMA LockKeeps ==
  ASSUME IInv, NEW p \in Procs, NEW e \in Ids, Lock(p, e)
  PROVE  IInv'
<1>1. PICK K, n :
           /\ known' = [known EXCEPT ![p] = K] /\ nextIdx' = [nextIdx EXCEPT ![p] = n]
           /\ K \in SUBSET (Nat \X Ids) /\ IsFiniteSet(K) /\ n \in Nat
           /\ \A f \in K : f[1] < n
           /\ Undisturbed' /\ UNCHANGED shared =>
                /\ Undisturbed /\ faults' = faults
                /\ files \subseteq K
                /\ "lost" \notin faults => K = files
  BY SyncIsFresh DEF Lock
<1>2. /\ pc[p] = "idle" /\ owner = NoProc
      /\ UNCHANGED <<files, marks, used, shared>>
      /\ \/ UNCHANGED <<pc, owner, evt>>
         \/ /\ e \notin IdsOf(known'[p])
            /\ pc' = [pc EXCEPT ![p] = "locked"] /\ owner' = p
            /\ evt' = [evt EXCEPT ![p] = e]
  BY DEF Lock
<1>3. /\ known'[p] = K /\ nextIdx'[p] = n /\ pc'[p] \in {"idle", "locked"}
      /\ pc'[p] = "locked" => evt'[p] \in Ids \ IdsOf(known'[p])
      /\ \A q \in Procs \ {p} : /\ known'[q] = known[q] /\ nextIdx'[q] = nextIdx[q]
                                /\ pc'[q] = pc[q] /\ evt'[q] = evt[q]
  BY <1>1, <1>2 DEF IInv, TypeOK
<1>4. TypeOK'
  <2>1. faults' \in SUBSET Faults /\ failures' \in 0..MaxFailures
    <3>1. \/ UNCHANGED <<failures, faults>>
          \/ Fail /\ faults' = faults \cup {"unlisted"}
      BY DEF Lock, Sync
    <3>2. faults \in SUBSET Faults /\ failures \in 0..MaxFailures /\ "unlisted" \in Faults
      BY DEF IInv, TypeOK, Faults
    <3>3. faults' \in SUBSET Faults
      BY <3>1, <3>2
    <3>. QED
      BY <3>1, <3>2, <3>3, BoundsAssumption DEF Fail
  <2>2. \A q \in Procs : owner' = q <=> pc'[q] \in {"locked", "written", "unmarked"}
    BY <1>2, <1>3, ProcsAssumption DEF IInv, TypeOK
  <2>3. /\ pc' \in [Procs -> Points] /\ owner' \in Procs \cup {NoProc}
        /\ evt' \in [Procs -> Ids \cup {NoEvent}]
    BY <1>2 DEF IInv, TypeOK, Points
  <2>4. known' \in [Procs -> SUBSET (Nat \X Ids)] /\ nextIdx' \in [Procs -> Nat]
    BY <1>1 DEF IInv, TypeOK
  <2>. QED
    BY <1>2, <2>1, <2>2, <2>3, <2>4 DEF IInv, TypeOK
<1>5. Finite' /\ InstanceSound' /\ OneOpen'
  <2>1. Finite'
    BY <1>1, <1>2, <1>3 DEF IInv, Finite
  <2>2. ASSUME NEW q \in Procs
        PROVE  /\ pc'[q] = "down" => known'[q] = {}
               /\ pc'[q] = "locked" => evt'[q] \in Ids \ IdsOf(known'[q])
               /\ \A f \in known'[q] : f[1] < nextIdx'[q]
    BY <1>1, <1>3 DEF IInv, InstanceSound, IdsOf
  <2>3. OneOpen'
    BY <1>2, <1>3 DEF IInv, OneOpen
  <2>. QED
    BY <2>1, <2>2, <2>3 DEF InstanceSound, IdsOf
<1>6. ASSUME Undisturbed'
      PROVE  /\ Undisturbed /\ faults' = faults /\ files \subseteq K
             /\ "lost" \notin faults => K = files
  BY <1>1, <1>2, <1>6
<1>7. KnowsPrefix' /\ Alone' /\ InStep'
  BY <1>2, <1>3, <1>6 DEF IInv, KnowsPrefix, Alone, InStep
<1>8. NotBehind'
  <2>. SUFFICES ASSUME Undisturbed', shared',
                       NEW q \in Procs, pc'[q] # "down", Length(q)' \in marks'
                PROVE  known'[q] = files'
    BY DEF NotBehind, Length
  <2>1. faults = {} /\ \A r \in Procs : pc[r] # "written"
    BY <1>2, <1>6, ProcsAssumption DEF Undisturbed, IInv, TypeOK
  <2>2. CASE q = p
    BY <1>2, <1>3, <1>6, <2>1, <2>2
  <2>3. CASE q # p
    <3>1. Length(q)' = Length(q) /\ Length(q) \in marks /\ pc[q] # "down"
      BY <1>2, <1>3, <2>3 DEF Length
    <3>. QED
      BY <1>2, <1>3, <1>6, <2>1, <2>3, <3>1 DEF IInv, NotBehind
  <2>. QED
    BY <2>2, <2>3
<1>. QED
  BY <1>4, <1>5, <1>7, <1>8 DEF IInv

\* What writing an event does: the new file's index is above every index the
\* process knows, and no event it knows has the new one's id.
LEMMA WriteAdds ==
  ASSUME IInv, NEW p \in Procs, Write(p)
  PROVE  \E idx \in Nat :
           /\ files' = files \cup {<<idx, evt[p]>>}
           /\ known' = [known EXCEPT ![p] = @ \cup {<<idx, evt[p]>>}]
           /\ nextIdx' = [nextIdx EXCEPT ![p] = idx + 1]
           /\ used' \in Nat
           /\ \A f \in known[p] : f[1] < idx /\ f[2] # evt[p]
           /\ evt[p] \in Ids
<1>. DEFINE idx == Max({Length(p), nextIdx[p]})
<1>1. Length(p) \in Nat /\ nextIdx[p] \in Nat /\ used \in Nat
  BY StateSizes DEF IInv, TypeOK
<1>2. idx \in Nat /\ idx >= nextIdx[p]
  BY <1>1, MaxOfTwo
<1>3. /\ files' = files \cup {<<idx, evt[p]>>}
      /\ known' = [known EXCEPT ![p] = @ \cup {<<idx, evt[p]>>}]
      /\ nextIdx' = [nextIdx EXCEPT ![p] = idx + 1]
      /\ used' = Max({used, idx + 1})
  BY DEF Write
<1>. HIDE DEF idx
<1>4. used' \in Nat
  BY <1>1, <1>2, <1>3, MaxOfTwo
<1>5. ASSUME NEW f \in known[p] PROVE f[1] < idx /\ f[2] # evt[p]
  <2>1. f[1] < nextIdx[p] /\ f[1] \in Nat
    BY StateSizes DEF IInv, InstanceSound
  <2>2. f[2] # evt[p]
    BY DEF Write, IInv, InstanceSound, IdsOf
  <2>. QED
    BY <1>1, <1>2, <2>1, <2>2
<1>6. evt[p] \in Ids
  BY DEF Write, IInv, InstanceSound
<1>. QED
  BY <1>2, <1>3, <1>4, <1>5, <1>6

\* Writing an event keeps the invariant.
LEMMA WriteKeeps ==
  ASSUME IInv, NEW p \in Procs, Write(p)
  PROVE  IInv'
<1>1. PICK idx \in Nat :
           /\ files' = files \cup {<<idx, evt[p]>>}
           /\ known' = [known EXCEPT ![p] = @ \cup {<<idx, evt[p]>>}]
           /\ nextIdx' = [nextIdx EXCEPT ![p] = idx + 1]
           /\ used' \in Nat
           /\ \A f \in known[p] : f[1] < idx /\ f[2] # evt[p]
           /\ evt[p] \in Ids
  BY WriteAdds
<1>. DEFINE new == <<idx, evt[p]>>
<1>2. /\ new[1] = idx /\ new[2] = evt[p] /\ new \in Nat \X Ids
      /\ files' = files \cup {new}
  BY <1>1
<1>3. /\ known'[p] = known[p] \cup {new} /\ nextIdx'[p] = idx + 1
      /\ \A q \in Procs \ {p} : known'[q] = known[q] /\ nextIdx'[q] = nextIdx[q]
      /\ known' \in [Procs -> SUBSET (Nat \X Ids)] /\ nextIdx' \in [Procs -> Nat]
  BY <1>1 DEF IInv, TypeOK
<1>. HIDE DEF new
<1>4. /\ pc[p] = "locked" /\ pc' = [pc EXCEPT ![p] = "written"] /\ pc'[p] = "written"
      /\ \A q \in Procs \ {p} : pc'[q] = pc[q]
      /\ UNCHANGED <<marks, owner, evt, failures, shared, faults>>
  BY DEF Write, IInv, TypeOK
<1>5. new \notin known[p]
  BY <1>1, <1>2
<1>6. \A q \in Procs \ {p} : pc[q] \notin {"locked", "written", "unmarked"}
  BY <1>4 DEF IInv, TypeOK
<1>7. TypeOK'
  <2>1. files' \in SUBSET (Nat \X Ids)
    BY <1>2 DEF IInv, TypeOK
  <2>2. /\ pc' \in [Procs -> Points]
        /\ \A q \in Procs : owner' = q <=> pc'[q] \in {"locked", "written", "unmarked"}
    BY <1>4 DEF IInv, TypeOK, Points
  <2>. QED
    BY <1>1, <1>3, <1>4, <2>1, <2>2 DEF IInv, TypeOK
<1>8. Finite'
  <2>1. IsFiniteSet(files \cup {new}) /\ IsFiniteSet(known[p] \cup {new})
    BY FS_AddElement DEF IInv, Finite
  <2>. QED
    BY <1>2, <1>3, <2>1 DEF IInv, Finite
<1>9. InstanceSound'
  <2>. SUFFICES ASSUME NEW q \in Procs
                PROVE  /\ pc'[q] = "down" => known'[q] = {}
                       /\ pc'[q] = "locked" => evt'[q] \in Ids \ IdsOf(known'[q])
                       /\ \A f \in known'[q] : f[1] < nextIdx'[q]
    BY DEF InstanceSound, IdsOf
  <2>1. CASE q = p
    <3>1. \A f \in known[p] : f[1] < idx + 1
      BY <1>1, StateSizes DEF IInv
    <3>2. \A f \in known'[p] : f[1] < idx + 1
      BY <1>2, <1>3, <3>1
    <3>. QED
      BY <1>3, <1>4, <2>1, <3>2
  <2>2. CASE q # p
    BY <1>3, <1>4, <2>2 DEF IInv, InstanceSound
  <2>. QED
    BY <2>1, <2>2
<1>10. OneOpen'
  BY <1>4 DEF IInv, OneOpen
<1>11. SUFFICES ASSUME Undisturbed'
                PROVE  KnowsPrefix' /\ Alone' /\ InStep' /\ NotBehind'
  BY <1>7, <1>8, <1>9, <1>10 DEF IInv, KnowsPrefix, Alone, InStep, NotBehind
<1>12. Undisturbed /\ files \subseteq known[p]
  <2>1. Undisturbed
    BY <1>4, <1>11 DEF Undisturbed
  <2>. QED
    BY <1>4, <2>1 DEF IInv, InStep
<1>13. KnowsPrefix'
  <2>. SUFFICES ASSUME "lost" \notin faults, NEW q \in Procs, pc'[q] # "down"
                PROVE  /\ known'[q] \subseteq files'
                       /\ \A f \in files' \ known'[q], g \in known'[q] : g[1] < f[1]
    BY <1>4 DEF KnowsPrefix
  <2>1. CASE q = p
    BY <1>2, <1>3, <1>4, <1>12, <2>1 DEF IInv, KnowsPrefix
  <2>2. CASE q # p
    <3>1. /\ known'[q] = known[q] /\ known[q] \subseteq files
          /\ \A f \in files \ known[q], g \in known[q] : g[1] < f[1]
      BY <1>3, <1>4, <1>12, <2>2 DEF IInv, KnowsPrefix
    <3>2. \A g \in known[q] : g[1] < new[1]
      BY <1>1, <1>2, <1>12, <3>1
    <3>. QED
      BY <1>2, <3>1, <3>2
  <2>. QED
    BY <2>1, <2>2
<1>14. files' \subseteq known'[p]
  BY <1>2, <1>3, <1>12
<1>15. InStep'
  BY <1>4, <1>6, <1>14 DEF InStep
<1>16. Alone'
  BY <1>4, <1>14 DEF IInv, OneOpen, Alone
<1>17. NotBehind'
  <2>. SUFFICES ASSUME shared', NEW q \in Procs, pc'[q] # "down", Length(q)' \in marks'
                PROVE  \/ known'[q] = files'
                       \/ Length(q)' = Length(p)' - 1
    BY <1>4 DEF NotBehind, Length
  <2>1. faults = {}
    BY <1>4, <1>12 DEF Undisturbed
  <2>2. known[p] = files
    BY <1>4, <1>12, <2>1 DEF IInv, KnowsPrefix
  <2>3. CASE q = p
    BY <1>2, <1>3, <2>2, <2>3
  <2>4. CASE q # p
    <3>1. Length(q)' = Length(q) /\ pc[q] # "down" /\ Length(q) \in marks
      BY <1>3, <1>4, <2>4 DEF Length
    <3>2. known[q] = files
      BY <1>4, <1>6, <1>12, <3>1 DEF IInv, NotBehind
    <3>3. Length(p)' = Cardinality(files) + 1
      BY <1>3, <1>5, <2>2, FS_AddElement DEF IInv, Finite, Length
    <3>. QED
      BY <3>1, <3>2, <3>3, StateSizes DEF IInv, Length
  <2>. QED
    BY <2>3, <2>4
<1>. QED
  BY <1>13, <1>15, <1>16, <1>17

\* Steps of the lock's holder that leave the files and every index alone.
LEMMA IndexKept ==
  ASSUME IInv, TypeOK', NEW p \in Procs,
         UNCHANGED <<files, known, nextIdx, shared>>, faults \subseteq faults',
         \A q \in Procs \ {p} : pc'[q] = pc[q] /\ evt'[q] = evt[q],
         pc[p] \in {"locked", "written", "unmarked"}, pc'[p] \in {"idle", "unmarked"},
         NotBehind'
  PROVE  IInv'
<1>1. Finite' /\ OneOpen'
  BY DEF IInv, Finite, OneOpen
<1>2. InstanceSound'
  BY DEF IInv, InstanceSound, IdsOf
<1>3. Undisturbed' => Undisturbed /\ ("lost" \notin faults' => "lost" \notin faults)
  BY UndisturbedKept
<1>4. KnowsPrefix' /\ InStep' /\ Alone'
  BY <1>3 DEF IInv, KnowsPrefix, InStep, Alone
<1>. QED
  BY <1>1, <1>2, <1>4 DEF IInv

\* In a shared log the process that holds the lock knows exactly the files, and
\* nobody else is inside append().
LEMMA HolderInStep ==
  ASSUME IInv, Undisturbed, shared, NEW p \in Procs,
         pc[p] \in {"locked", "written", "unmarked"}
  PROVE  /\ known[p] = files
         /\ \A q \in Procs \ {p} : pc[q] \notin {"locked", "written", "unmarked"}
  BY DEF IInv, TypeOK, KnowsPrefix, InStep, Undisturbed

\* A failed write keeps the invariant.
LEMMA WriteFailsKeeps ==
  ASSUME IInv, NEW p \in Procs, WriteFails(p)
  PROVE  IInv'
<1>1. TypeOK'
  BY ProcsAssumption DEF IInv, TypeOK, WriteFails, Points
<1>2. /\ \A q \in Procs \ {p} : pc'[q] = pc[q] /\ evt'[q] = evt[q]
      /\ pc'[p] = "idle" /\ pc[p] = "locked"
  BY DEF WriteFails, IInv, TypeOK
<1>3. NotBehind'
  BY <1>2 DEF WriteFails, IInv, NotBehind, Length, Undisturbed
<1>. QED
  BY <1>1, <1>2, <1>3, IndexKept DEF WriteFails

\* Deleting the old marker keeps the invariant.
LEMMA DropMarkerKeeps ==
  ASSUME IInv, NEW p \in Procs, DropMarker(p)
  PROVE  IInv'
<1>1. TypeOK'
  BY ProcsAssumption DEF IInv, TypeOK, DropMarker, Points
<1>2. /\ \A q \in Procs \ {p} : pc'[q] = pc[q]
      /\ pc'[p] = "unmarked" /\ pc[p] = "written"
  BY DEF DropMarker, IInv, TypeOK
<1>3. NotBehind'
  <2>. SUFFICES ASSUME Undisturbed, shared, NEW q \in Procs, pc[q] # "down",
                       Length(q) \in marks \ {Length(p) - 1}
                PROVE  known[q] = files
    BY <1>2 DEF DropMarker, NotBehind, Length, Undisturbed
  <2>1. \A r \in Procs : pc[r] = "written" => r = p
    BY <1>2, HolderInStep
  <2>. QED
    BY <2>1 DEF IInv, NotBehind
<1>. QED
  BY <1>1, <1>2, <1>3, IndexKept DEF DropMarker

\* A marker that is not deleted disturbs the log, and keeps the invariant.
LEMMA DropMarkerFailsKeeps ==
  ASSUME IInv, NEW p \in Procs, DropMarkerFails(p)
  PROVE  IInv'
<1>1. TypeOK'
  BY ProcsAssumption, BoundsAssumption
     DEF IInv, TypeOK, DropMarkerFails, Points, Fail, LeftBehind, Faults
<1>2. /\ \A q \in Procs \ {p} : pc'[q] = pc[q]
      /\ pc'[p] = "unmarked" /\ pc[p] = "written"
      /\ faults \subseteq faults'
  BY DEF DropMarkerFails, IInv, TypeOK, LeftBehind
<1>3. NotBehind'
  <2>. SUFFICES ASSUME Undisturbed', shared, NEW q \in Procs, pc[q] # "down", Length(q) \in marks
                PROVE  known[q] = files
    BY <1>2 DEF DropMarkerFails, NotBehind, Length
  <2>1. faults' = {} /\ Undisturbed
    BY <1>2, UndisturbedKept DEF DropMarkerFails
  <2>2. Length(p) - 1 \notin marks
    BY <2>1 DEF DropMarkerFails, LeftBehind
  <2>3. \A r \in Procs : pc[r] = "written" => r = p
    BY <1>2, <2>1, HolderInStep
  <2>. QED
    BY <2>1, <2>2, <2>3 DEF IInv, NotBehind
<1>. QED
  BY <1>1, <1>2, <1>3, IndexKept DEF DropMarkerFails

\* Writing the new marker keeps the invariant.
LEMMA SetMarkerKeeps ==
  ASSUME IInv, NEW p \in Procs, SetMarker(p)
  PROVE  IInv'
<1>1. TypeOK'
  <2>1. marks' \in SUBSET Nat
    BY StateSizes DEF IInv, TypeOK, SetMarker
  <2>. QED
    BY <2>1, ProcsAssumption DEF IInv, TypeOK, SetMarker, Points
<1>2. /\ \A q \in Procs \ {p} : pc'[q] = pc[q] /\ evt'[q] = evt[q]
      /\ pc'[p] = "idle" /\ pc[p] = "unmarked"
  BY DEF SetMarker, IInv, TypeOK
<1>3. NotBehind'
  <2>. SUFFICES ASSUME Undisturbed, shared, NEW q \in Procs, pc[q] # "down", Length(q) \in marks'
                PROVE  known[q] = files
    BY <1>2 DEF SetMarker, NotBehind, Length, Undisturbed
  <2>1. known[p] = files /\ \A r \in Procs : pc[r] # "written"
    BY <1>2, HolderInStep
  <2>2. CASE Length(q) \in marks
    BY <2>1, <2>2 DEF IInv, NotBehind
  <2>3. CASE Length(q) = Length(p)
    <3>1. known[q] \in SUBSET files
      BY DEF IInv, KnowsPrefix, Undisturbed
    <3>2. Cardinality(files) = Cardinality(known[q])
      BY <2>1, <2>3 DEF Length
    <3>. QED
      BY <3>1, <3>2, FS_Subset DEF IInv, Finite
  <2>. QED
    BY <2>2, <2>3 DEF SetMarker
<1>. QED
  BY <1>1, <1>2, <1>3, IndexKept DEF SetMarker

\* The end of a process keeps the invariant.
LEMMA CrashKeeps ==
  ASSUME IInv, NEW p \in Procs, Crash(p)
  PROVE  IInv'
<1>1. TypeOK'
  BY ProcsAssumption DEF IInv, TypeOK, Crash, Points, LeftBehind, Faults
<1>2. /\ \A q \in Procs \ {p} :
            /\ pc'[q] = pc[q] /\ evt'[q] = evt[q]
            /\ known'[q] = known[q] /\ nextIdx'[q] = nextIdx[q]
      /\ pc'[p] = "down" /\ known'[p] = {}
      /\ UNCHANGED <<files, marks, shared>>
      /\ faults \subseteq faults'
  BY DEF Crash, IInv, TypeOK, LeftBehind
<1>3. Finite' /\ OneOpen'
  BY <1>2, FS_EmptySet DEF IInv, Finite, OneOpen
<1>4. InstanceSound'
  BY <1>2 DEF IInv, InstanceSound, IdsOf
<1>5. Undisturbed' => Undisturbed /\ ("lost" \notin faults' => "lost" \notin faults)
  BY <1>2, UndisturbedKept
<1>6. KnowsPrefix' /\ InStep' /\ Alone'
  BY <1>2, <1>5 DEF IInv, KnowsPrefix, InStep, Alone
<1>7. NotBehind'
  <2>. SUFFICES ASSUME Undisturbed', shared, NEW q \in Procs \ {p},
                       pc[q] # "down", Length(q) \in marks
                PROVE  \/ known[q] = files
                       \/ \E r \in Procs \ {p} : pc[r] = "written" /\ Length(q) = Length(r) - 1
    BY <1>2 DEF NotBehind, Length
  <2>1. CASE known[q] = files
    BY <2>1
  <2>2. CASE \E r \in Procs : pc[r] = "written" /\ Length(q) = Length(r) - 1
    <3>1. PICK r \in Procs : pc[r] = "written" /\ Length(q) = Length(r) - 1
      BY <2>2
    <3>2. faults' = {}
      BY <1>2 DEF Undisturbed
    <3>3. r # p
      BY <3>1, <3>2 DEF Crash, LeftBehind
    <3>. QED
      BY <3>1, <3>3
  <2>. QED
    BY <1>5, <2>1, <2>2 DEF IInv, NotBehind
<1>. QED
  BY <1>1, <1>3, <1>4, <1>6, <1>7 DEF IInv

\* The loss of a file keeps the invariant.
LEMMA LoseFileKeeps ==
  ASSUME IInv, NEW f \in files, LoseFile(f)
  PROVE  IInv'
<1>0. /\ files' = files \ {f} /\ faults' = faults \cup {"lost"}
      /\ UNCHANGED <<marks, owner, pc, known, nextIdx, evt, used, shared>>
      /\ failures < MaxFailures /\ failures' = failures + 1
  BY DEF LoseFile, Fail
<1>1. TypeOK'
  <2>1. failures' \in 0..MaxFailures /\ faults' \in SUBSET Faults
    BY <1>0, BoundsAssumption DEF IInv, TypeOK, Faults
  <2>. QED
    BY <1>0, <2>1 DEF IInv, TypeOK
<1>2. Finite'
  <2>1. IsFiniteSet(files')
    BY <1>0, FS_RemoveElement DEF IInv, Finite
  <2>. QED
    BY <1>0, <2>1 DEF IInv, Finite
<1>3. InstanceSound' /\ OneOpen'
  BY <1>0 DEF IInv, InstanceSound, OneOpen, IdsOf
<1>4. Undisturbed' => Undisturbed /\ ~shared'
  BY <1>0 DEF Undisturbed
<1>5. KnowsPrefix' /\ InStep' /\ Alone' /\ NotBehind'
  BY <1>0, <1>4 DEF IInv, KnowsPrefix, InStep, Alone, NotBehind
<1>. QED
  BY <1>1, <1>2, <1>3, <1>5 DEF IInv

-----------------------------------------------------------------------------
(* The search for a cursor *)

\* The events of K below an index, and those up to it.
Below(K, n) == {f \in K : f[1] < n}
UpTo(K, n) == {f \in K : f[1] <= n}

\* Every rank below the size of an index has its on-disk index: the least one up to
\* which there are more than i events.
LEMMA RankExists ==
  ASSUME NEW K \in SUBSET (Nat \X Ids), IsFiniteSet(K),
         NEW i \in 0..(Cardinality(K) - 1)
  PROVE  \E n \in {f[1] : f \in K} :
           Cardinality(Below(K, n)) <= i /\ Cardinality(UpTo(K, n)) > i
<1>. DEFINE S == {f[1] : f \in K}
            T == {0 - x : x \in {y \in S : Cardinality(UpTo(K, y)) > i}}
<1>0. /\ Cardinality(K) \in Nat /\ i \in Nat /\ i < Cardinality(K)
      /\ \A f \in K : f[1] \in Nat /\ f[1] \in S
  BY FS_CardinalityType
<1>1. IsFiniteSet(S) /\ S \in SUBSET Nat /\ S \in SUBSET Int
  BY IndicesFinite
<1>2. ASSUME NEW n \in Int
      PROVE  /\ IsFiniteSet(Below(K, n)) /\ Cardinality(Below(K, n)) \in Nat
             /\ IsFiniteSet(UpTo(K, n)) /\ Cardinality(UpTo(K, n)) \in Nat
             /\ Below(K, n) \in SUBSET (Nat \X Ids)
  <2>1. Below(K, n) \in SUBSET K /\ UpTo(K, n) \in SUBSET K
    BY DEF Below, UpTo
  <2>. QED
    BY <2>1, FS_Subset, FS_CardinalityType
<1>3. T # {}
  <2>1. S # {}
    <3>1. K # {}
      BY <1>0, FS_EmptySet
    <3>. QED
      BY <1>0, <3>1
  <2>2. Max(S) \in S /\ \A y \in S : Max(S) >= y
    <3>. HIDE DEF S
    <3>. QED
      BY <1>1, <2>1, MaxExists
  <2>3. \A f \in K : f[1] <= Max(S)
    BY <1>0, <1>1, <2>2
  <2>4. UpTo(K, Max(S)) = K
    BY <2>3 DEF UpTo
  <2>. QED
    BY <1>0, <2>2, <2>4
<1>4. IsFiniteSet(T) /\ T \in SUBSET Int
  <2>. DEFINE P == {y \in S : Cardinality(UpTo(K, y)) > i}
              m == [x \in P |-> 0 - x]
  <2>1. P \in SUBSET S
    OBVIOUS
  <2>2. IsFiniteSet(P)
    <3>. HIDE DEF P, S
    <3>. QED
      BY <1>1, <2>1, FS_Subset
  <2>3. m \in Surjection(P, T)
    BY DEF Surjection
  <2>4. T \in SUBSET Int
    BY <1>1
  <2>. QED
    BY <2>2, <2>3, <2>4, FS_Surjection
<1>5. Max(T) \in T /\ \A t \in T : Max(T) >= t
  <2>. HIDE DEF T
  <2>. QED
    BY <1>3, <1>4, MaxExists
<1>6. PICK n \in S : /\ Cardinality(UpTo(K, n)) > i
                     /\ \A y \in S : Cardinality(UpTo(K, y)) > i => 0 - n >= 0 - y
  BY <1>5
<1>. HIDE DEF S, T
<1>7. n \in Nat
  BY <1>1
<1>8. ASSUME ~(Cardinality(Below(K, n)) <= i) PROVE FALSE
  <2>. DEFINE R == {f[1] : f \in Below(K, n)}
  <2>1. Below(K, n) # {}
    BY <1>0, <1>8, FS_EmptySet
  <2>2. IsFiniteSet(R) /\ R \in SUBSET Nat
    <3>1. n \in Int
      BY <1>7
    <3>2. IsFiniteSet(Below(K, n)) /\ Below(K, n) \in SUBSET (Nat \X Ids)
      BY <1>2, <3>1
    <3>. QED
      BY <3>2, IndicesFinite
  <2>3. R # {} /\ R \in SUBSET Int
    BY <2>1, <2>2
  <2>4. Max(R) \in R /\ \A y \in R : Max(R) >= y
    <3>. HIDE DEF R
    <3>. QED
      BY <2>2, <2>3, MaxExists
  <2>5. PICK g \in Below(K, n) : Max(R) = g[1]
    BY <2>4
  <2>6. g \in K /\ g[1] < n /\ g[1] \in S /\ g[1] \in Nat
    BY <1>0, <2>5 DEF Below
  <2>7. \A f \in K : f[1] < n => f[1] <= g[1]
    <3>1. \A f \in Below(K, n) : f[1] \in R
      OBVIOUS
    <3>. QED
      BY <1>0, <2>4, <2>5, <2>6, <3>1 DEF Below
  <2>8. Below(K, n) \in SUBSET UpTo(K, g[1])
    BY <2>7 DEF Below, UpTo
  <2>9. Cardinality(Below(K, n)) <= Cardinality(UpTo(K, g[1]))
    BY <1>2, <2>6, <2>8, FS_Subset
  <2>10. Cardinality(UpTo(K, g[1])) > i
    BY <1>0, <1>2, <1>7, <1>8, <2>6, <2>9
  <2>. QED
    BY <1>6, <1>7, <2>6, <2>10
<1>. QED
  BY <1>6, <1>8 DEF S

\* Position mid of an index is past a cursor exactly when no more than mid events
\* are at or before the cursor.
LEMMA GetSeqPastCursor ==
  ASSUME NEW p \in Procs, known[p] \in SUBSET (Nat \X Ids), IsFiniteSet(known[p]),
         NEW seq \in Int, NEW mid \in 0..(Length(p) - 1)
  PROVE  seq < GetSeq(p, mid) <=> Cardinality(UpTo(known[p], seq)) <= mid
<1>. DEFINE K == known[p]
            n == GetSeq(p, mid)
<1>1. n \in {f[1] : f \in K} /\ Cardinality(Below(K, n)) <= mid /\ Cardinality(UpTo(K, n)) > mid
  <2>1. \E x \in {f[1] : f \in K} :
          Cardinality(Below(K, x)) <= mid /\ Cardinality(UpTo(K, x)) > mid
    BY RankExists DEF Length
  <2>. QED
    BY <2>1 DEF GetSeq, Below, UpTo
<1>. HIDE DEF n
<1>2. n \in Nat /\ mid \in Nat /\ \A f \in K : f[1] \in Nat
  BY <1>1, FS_CardinalityType DEF Length
<1>3. /\ IsFiniteSet(Below(K, n)) /\ IsFiniteSet(UpTo(K, n)) /\ IsFiniteSet(UpTo(K, seq))
      /\ Cardinality(Below(K, n)) \in Nat /\ Cardinality(UpTo(K, n)) \in Nat
      /\ Cardinality(UpTo(K, seq)) \in Nat
  <2>1. Below(K, n) \in SUBSET K /\ UpTo(K, n) \in SUBSET K /\ UpTo(K, seq) \in SUBSET K
    BY DEF Below, UpTo
  <2>. QED
    BY <2>1, FS_Subset, FS_CardinalityType
<1>4. CASE seq < n
  <2>1. UpTo(K, seq) \in SUBSET Below(K, n)
    BY <1>2, <1>4 DEF UpTo, Below
  <2>2. Cardinality(UpTo(K, seq)) <= Cardinality(Below(K, n))
    BY <1>3, <2>1, FS_Subset
  <2>. QED
    BY <1>1, <1>2, <1>3, <1>4, <2>2 DEF n
<1>5. CASE ~(seq < n)
  <2>1. UpTo(K, n) \in SUBSET UpTo(K, seq)
    BY <1>2, <1>5 DEF UpTo
  <2>2. Cardinality(UpTo(K, n)) <= Cardinality(UpTo(K, seq))
    BY <1>3, <2>1, FS_Subset
  <2>. QED
    BY <1>1, <1>2, <1>3, <1>5, <2>2 DEF n
<1>. QED
  BY <1>4, <1>5

\* bisect_right gives the number of events at or before the cursor.  Its result
\* for every interval is that number, kept within the interval: this solves the
\* equation of the search, and a shortest interval on which another solution
\* differs cannot exist.
LEMMA SearchIsExact ==
  ASSUME NEW p \in Procs, known[p] \in SUBSET (Nat \X Ids), IsFiniteSet(known[p]),
         NEW seq \in Int
  PROVE  IndexAfterSeq(p, seq) = Cardinality(UpTo(known[p], seq))
<1>. DEFINE L == Length(p)
            R == Cardinality(UpTo(known[p], seq))
            D == (0..L) \X (0..L)
            Solves(g) ==
              g = [i \in D |->
                     IF i[1] >= i[2] THEN i[1]
                     ELSE LET mid == (i[1] + i[2]) \div 2
                          IN  IF seq < GetSeq(p, mid)
                              THEN g[<<i[1], mid>>] ELSE g[<<mid + 1, i[2]>>]]
            Within(lo, hi) ==
              IF lo >= hi \/ R < lo THEN lo ELSE IF R > hi THEN hi ELSE R
            h == [i \in D |-> Within(i[1], i[2])]
<1>1. IndexAfterSeq(p, seq) = (CHOOSE g : Solves(g))[<<0, L>>]
  BY DEF IndexAfterSeq
<1>2. L \in Nat /\ R \in 0..L
  <2>1. UpTo(known[p], seq) \in SUBSET known[p]
    BY DEF UpTo
  <2>. QED
    BY <2>1, FS_Subset, FS_CardinalityType DEF Length
<1>3. \A mid \in 0..(L - 1) : seq < GetSeq(p, mid) <=> R <= mid
  BY GetSeqPastCursor
<1>. HIDE DEF L, R
<1>4. ASSUME NEW lo \in 0..L, NEW hi \in 0..L, NEW mid, mid = (lo + hi) \div 2, ~(lo >= hi)
      PROVE  /\ mid \in 0..(L - 1) /\ mid + 1 \in 0..L /\ lo <= mid /\ mid < hi
             /\ <<lo, mid>> \in D /\ <<mid + 1, hi>> \in D
             /\ Within(lo, hi) =
                  IF seq < GetSeq(p, mid) THEN Within(lo, mid) ELSE Within(mid + 1, hi)
  <2>1. /\ mid \in 0..(L - 1) /\ mid \in 0..L /\ mid + 1 \in 0..L
        /\ lo <= mid /\ mid < hi
    BY <1>2, <1>4
  <2>2. seq < GetSeq(p, mid) <=> R <= mid
    BY <1>3, <2>1
  <2>3. R <= mid => Within(lo, hi) = Within(lo, mid)
    BY <1>2, <1>4, <2>1
  <2>4. ~(R <= mid) => Within(lo, hi) = Within(mid + 1, hi)
    BY <1>2, <1>4, <2>1
  <2>. QED
    BY <2>1, <2>2, <2>3, <2>4
<1>. HIDE DEF Within
<1>5. Solves(h)
  <2>1. ASSUME NEW i \in D
        PROVE  Within(i[1], i[2]) =
                 IF i[1] >= i[2] THEN i[1]
                 ELSE LET mid == (i[1] + i[2]) \div 2
                      IN  IF seq < GetSeq(p, mid)
                          THEN h[<<i[1], mid>>] ELSE h[<<mid + 1, i[2]>>]
    <3>1. i[1] \in 0..L /\ i[2] \in 0..L
      OBVIOUS
    <3>2. CASE i[1] >= i[2]
      BY <3>2 DEF Within
    <3>3. CASE ~(i[1] >= i[2])
      BY <1>4, <3>1, <3>3
    <3>. QED
      BY <3>2, <3>3
  <2>. QED
    BY <2>1
<1>6. ASSUME NEW g, Solves(g)
      PROVE  \A i \in D : g[i] = Within(i[1], i[2])
  <2>. DEFINE Bad == {i \in D : g[i] # Within(i[1], i[2])}
              B == {i[1] - i[2] : i \in Bad}
  <2>1. \A i \in D : i[1] \in 0..L /\ i[2] \in 0..L
    OBVIOUS
  <2>2. B \in SUBSET Int /\ IsFiniteSet(B)
    <3>1. ASSUME NEW b \in B PROVE b \in (0 - L)..L
      BY <1>2, <2>1
    <3>2. IsFiniteSet((0 - L)..L)
      <4>1. 0 - L \in Int /\ L \in Int
        BY <1>2
      <4>. QED
        BY <4>1, FS_Interval
    <3>. QED
      BY <1>2, <3>1, <3>2, FS_Subset
  <2>3. SUFFICES ASSUME B # {} PROVE FALSE
    OBVIOUS
  <2>4. Max(B) \in B /\ \A b \in B : Max(B) >= b
    <3>. HIDE DEF B
    <3>. QED
      BY <2>2, <2>3, MaxExists
  <2>5. PICK i \in Bad : \A k \in Bad : i[1] - i[2] >= k[1] - k[2]
    BY <2>4
  <2>6. i \in D /\ i[1] \in 0..L /\ i[2] \in 0..L /\ g[i] # Within(i[1], i[2])
    BY <2>1
  <2>7. CASE i[1] >= i[2]
    BY <1>6, <2>6, <2>7 DEF Within
  <2>8. CASE ~(i[1] >= i[2])
    <3>. DEFINE mid == (i[1] + i[2]) \div 2
                a == <<i[1], mid>>
                z == <<mid + 1, i[2]>>
    <3>1. /\ mid \in 0..(L - 1) /\ mid + 1 \in 0..L /\ i[1] <= mid /\ mid < i[2]
          /\ a \in D /\ z \in D
          /\ Within(i[1], i[2]) =
               IF seq < GetSeq(p, mid) THEN Within(i[1], mid) ELSE Within(mid + 1, i[2])
      BY <1>4, <2>6, <2>8
    <3>2. g[i] = IF seq < GetSeq(p, mid) THEN g[a] ELSE g[z]
      BY <1>6, <2>6, <2>8
    <3>3. a[1] = i[1] /\ a[2] = mid /\ z[1] = mid + 1 /\ z[2] = i[2]
      OBVIOUS
    <3>. HIDE DEF a, z, mid
    <3>4. ~(i[1] - i[2] >= a[1] - a[2]) /\ ~(i[1] - i[2] >= z[1] - z[2])
      BY <1>2, <2>6, <3>1, <3>3
    <3>5. a \notin Bad /\ z \notin Bad
      BY <2>5, <3>4
    <3>. QED
      BY <2>6, <3>1, <3>2, <3>3, <3>5
  <2>. QED
    BY <2>7, <2>8
<1>7. Within(0, L) = R
  BY <1>2 DEF Within
<1>8. <<0, L>> \in D
  BY <1>2
<1>9. Solves(CHOOSE g : Solves(g))
  <2>. HIDE DEF Solves
  <2>. QED
    BY <1>5
<1>. QED
  <2>. HIDE DEF Solves
  <2>1. (CHOOSE g : Solves(g))[<<0, L>>] = Within(0, L)
    BY <1>6, <1>8, <1>9
  <2>. QED
    BY <1>1, <1>7, <2>1 DEF R

-----------------------------------------------------------------------------
(* The theorems *)

\* The invariant is kept by every step.
LEMMA NextInv ==
  ASSUME IInv, [Next]_vars
  PROVE  IInv'
<1>1. CASE UNCHANGED vars
  BY <1>1 DEF vars, IInv, TypeOK, Finite, InstanceSound, OneOpen, KnowsPrefix, Alone, InStep,
              NotBehind, Undisturbed, Length, IdsOf
<1>2. ASSUME NEW p \in Procs,
             \/ Open(p) \/ \E e \in Ids : Lock(p, e)
             \/ Write(p) \/ WriteFails(p)
             \/ DropMarker(p) \/ DropMarkerFails(p) \/ SetMarker(p) \/ Crash(p)
      PROVE  IInv'
  BY <1>2, OpenKeeps, LockKeeps, WriteKeeps, WriteFailsKeeps, DropMarkerKeeps,
     DropMarkerFailsKeeps, SetMarkerKeeps, CrashKeeps
<1>3. ASSUME NEW f \in files, LoseFile(f) PROVE IInv'
  BY <1>3, LoseFileKeeps
<1>. QED
  BY <1>1, <1>2, <1>3 DEF Next

\* The invariant implies that events have one place each.
LEMMA InvImpliesIndexSound == IInv => IndexSound
<1>. SUFFICES ASSUME IInv PROVE CursorExact
  BY DEF IInv, IndexSound
<1>. SUFFICES ASSUME NEW p \in Procs, NEW seq \in -1..used
              PROVE  IndexAfterSeq(p, seq) = Cardinality(UpTo(known[p], seq))
  BY DEF CursorExact, UpTo
<1>1. seq \in Int /\ known[p] \in SUBSET (Nat \X Ids) /\ IsFiniteSet(known[p])
  BY DEF IInv, TypeOK, Finite
<1>. QED
  BY <1>1, SearchIsExact

\* The invariant implies that a marker proves an index current.
LEMMA InvImpliesMarkerIsProof == IInv => MarkerIsProof
<1>. SUFFICES ASSUME IInv, Undisturbed, owner = NoProc,
                     NEW p \in Procs, pc[p] = "idle", MarkerMatchesLength(p)
              PROVE  files \subseteq known[p]
  BY DEF MarkerIsProof
<1>1. CASE ~shared
  BY <1>1 DEF IInv, Alone
<1>2. CASE shared
  <2>1. \A q \in Procs : pc[q] # "written"
    BY ProcsAssumption DEF IInv, TypeOK
  <2>. QED
    BY <1>2, <2>1 DEF IInv, NotBehind, MarkerMatchesLength
<1>. QED
  BY <1>1, <1>2

\* What AppendsLast says of one step.
LastIn ==
  Undisturbed =>
    \A f \in files' \ files, g \in files \cup UNION {known[p] : p \in Procs} :
      g[1] < f[1] /\ g[2] # f[2]

\* Only a write adds a file, and what is on disk or known to anyone the writer
\* knows too.
LEMMA StepAppendsLast ==
  ASSUME IInv, [Next]_vars
  PROVE  LastIn
<1>1. CASE \E p \in Procs : Write(p)
  <2>. SUFFICES ASSUME Undisturbed PROVE LastIn
    BY DEF LastIn
  <2>1. PICK p \in Procs : Write(p)
    BY <1>1
  <2>2. PICK idx \in Nat : /\ files' = files \cup {<<idx, evt[p]>>}
                           /\ \A f \in known[p] : f[1] < idx /\ f[2] # evt[p]
    BY <2>1, WriteAdds
  <2>3. pc[p] = "locked" /\ files \subseteq known[p]
    BY <2>1 DEF Write, IInv, InStep
  <2>4. ASSUME NEW q \in Procs PROVE known[q] \subseteq known[p]
    <3>1. CASE shared
      BY <2>3, <2>4, <3>1 DEF IInv, Undisturbed, KnowsPrefix, InstanceSound
    <3>2. CASE ~shared
      BY <2>3, <2>4, <3>2 DEF IInv, OneOpen, InstanceSound
    <3>. QED
      BY <3>1, <3>2
  <2>. QED
    BY <2>2, <2>3, <2>4 DEF LastIn
<1>2. CASE files' \subseteq files
  BY <1>2 DEF LastIn
<1>. QED
  BY <1>1, <1>2 DEF Next, vars, Open, Lock, WriteFails, DropMarker, DropMarkerFails, SetMarker,
                    Crash, LoseFile

\* The inductive invariant of the log holds in every reachable state.
THEOREM EventLogInv == Spec => []IInv
<1>1. IInv /\ [Next]_vars => IInv'
  BY NextInv
<1>. QED
  BY <1>1, InitInv, PTL DEF Spec

\* An event has one place (IndexSound): while the log is not disturbed, what an
\* instance knows is an initial part of the directory; and whatever happened,
\* bisect_right finds exactly the events of the instance past a cursor.
THEOREM IndexSoundHolds == Spec => []IndexSound
  BY EventLogInv, InvImpliesIndexSound, PTL

\* While the log is not disturbed, a marker with the length of an instance proves
\* that the instance knows every event on disk (MarkerIsProof), whatever markers
\* earlier faults left.
THEOREM MarkerIsProofHolds == Spec => []MarkerIsProof
  BY EventLogInv, InvImpliesMarkerIsProof, PTL

\* While the log is not disturbed, a new event's on-disk index is above every
\* other one on disk or known to an open instance, and its id is new
\* (AppendsLast).
THEOREM AppendsLastHolds == Spec => AppendsLast
<1>1. IInv /\ [Next]_vars => LastIn
  BY StepAppendsLast
<1>. QED
  BY <1>1, EventLogInv, PTL DEF Spec, AppendsLast, LastIn

=============================================================================
