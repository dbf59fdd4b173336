------------------------------ MODULE EventLog ------------------------------
(***************************************************************************)
(* The persistent event log (openhands-sdk/openhands/sdk/conversation/     *)
(* event_store.py) as several processes append to one directory: a file    *)
(* per event, named by an on-disk index and the event's id, a file lock,   *)
(* and a marker file whose name is the number of events, which lets a      *)
(* writer skip the listing of the directory.                               *)
(*                                                                         *)
(* An instance's index is the set of the <<on-disk index, id>> pairs it    *)
(* knows: the dense index of an event is its rank in that set, as a scan   *)
(* sorts the files and an append comes last.  A wait for the file lock     *)
(* that times out changes nothing and is not an action.                    *)
(*                                                                         *)
(* Faults come at any moment: a process ends, a file gets lost, a marker   *)
(* is not deleted or not written, a listing of the directory fails.  What  *)
(* the log promises then is stated with two history variables that say     *)
(* what happened since nobody had the log open.                            *)
(***************************************************************************)
EXTENDS Integers, FiniteSets, FiniteSetsExt

CONSTANTS
  Procs,        \* processes that may have the log open
  NoProc,       \* the file lock is free
  Ids,          \* event ids
  NoEvent,      \* a process appends nothing
  MaxFailures   \* bound: files lost, markers not deleted, listings that fail

ASSUME ProcsAssumption == NoProc \notin Procs
ASSUME IdsAssumption == NoEvent \notin Ids /\ IsFiniteSet(Ids)
ASSUME BoundsAssumption == MaxFailures \in Nat

VARIABLES
  files,    \* event files: <<on-disk index, id>>
  marks,    \* lengths for which a marker file exists
  owner,    \* who holds .eventlog.lock
  pc,       \* where each process is
  known,    \* the events in each instance's index
  nextIdx,  \* each instance's _next_disk_idx
  evt,      \* the event each process is appending
  failures, \* how often the file system failed so far
  used,     \* history: one past the highest on-disk index ever given out
  shared,   \* history: several processes had the log open at once, and
  faults    \* history: the faults seen, since nobody had the log open

vars == <<files, marks, owner, pc, known, nextIdx, evt, failures, used, shared, faults>>

\* "down"     no instance
\* "idle"     not inside append()
\* "locked"   holds the lock and is in step with the disk
\* "written"  the event file is there, the old marker too
\* "unmarked" the old marker is gone, the new one not written
Points == {"down", "idle", "locked", "written", "unmarked"}

\* "lost"     an event file got lost
\* "stale"    the marker of a length the log has outgrown was left behind
\* "unlisted" a listing of the directory failed
Faults == {"lost", "stale", "unlisted"}

Length(p) == Cardinality(known[p])

\* One past the highest on-disk index of a set of files.
PastLast(F) == IF F = {} THEN 0 ELSE Max({f[1] : f \in F}) + 1

IdsOf(F) == {f[2] : f \in F}

Init ==
  /\ files = {} /\ marks = {} /\ owner = NoProc
  /\ pc = [p \in Procs |-> "down"]
  /\ known = [p \in Procs |-> {}]
  /\ nextIdx = [p \in Procs |-> 0]
  /\ evt = [p \in Procs |-> NoEvent]
  /\ failures = 0 /\ used = 0
  /\ shared = FALSE /\ faults = {}

\* The file system fails once more.
Fail == failures < MaxFailures /\ failures' = failures + 1

\* _scan_and_build_index.
Scan(p) ==
  /\ known' = [known EXCEPT ![p] = files]
  /\ nextIdx' = [nextIdx EXCEPT ![p] = PastLast(files)]

\* A scan that cannot list the directory leaves an empty index.
ScanFails(p) ==
  /\ Fail
  /\ known' = [known EXCEPT ![p] = {}]
  /\ nextIdx' = [nextIdx EXCEPT ![p] = 0]

\* Nobody else has the log open: what happened before is history.
Open(p) ==
  LET first == \A q \in Procs : pc[q] = "down"
      before == IF first THEN {} ELSE faults
  IN  /\ pc[p] = "down"
      /\ pc' = [pc EXCEPT ![p] = "idle"]
      /\ shared' = ~first
      /\ \/ Scan(p) /\ faults' = before /\ UNCHANGED failures
         \/ ScanFails(p) /\ faults' = before \cup {"unlisted"}
      /\ UNCHANGED <<files, marks, owner, evt, used>>

\* _marker_matches_length.
MarkerMatchesLength(p) == Length(p) \in marks

\* Seeded fault: the index is never brought up to date.
SyncNever(p) == UNCHANGED <<known, nextIdx, failures, faults>>

\* The head of append(): the marker, else a count of the files, tells whether
\* the index is behind the disk.  A count that fails is 0.
Sync(p) ==
  \/ /\ IF ~MarkerMatchesLength(p) /\ Cardinality(files) > Length(p)
        THEN Scan(p) ELSE UNCHANGED <<known, nextIdx>>
     /\ UNCHANGED <<failures, faults>>
  \/ /\ ~MarkerMatchesLength(p) /\ Fail
     /\ faults' = faults \cup {"unlisted"}
     /\ UNCHANGED <<known, nextIdx>>

\* append() takes the file lock, syncs, and rejects an id it knows.
Lock(p, e) ==
  /\ pc[p] = "idle" /\ owner = NoProc
  /\ Sync(p)
  /\ IF e \in IdsOf(known'[p])
     THEN UNCHANGED <<pc, owner, evt>>
     ELSE /\ pc' = [pc EXCEPT ![p] = "locked"]
          /\ owner' = p
          /\ evt' = [evt EXCEPT ![p] = e]
  /\ UNCHANGED <<files, marks, used, shared>>

\* Seeded fault: the dense index names the file.
WriteDenseIndex(p) ==
  /\ pc[p] = "locked"
  /\ files' = files \cup {<<Length(p), evt[p]>>}
  /\ known' = [known EXCEPT ![p] = @ \cup {<<Length(p), evt[p]>>}]
  /\ nextIdx' = [nextIdx EXCEPT ![p] = Length(p) + 1]
  /\ used' = Max({used, Length(p) + 1})
  /\ pc' = [pc EXCEPT ![p] = "written"]
  /\ UNCHANGED <<marks, owner, evt, failures, shared, faults>>

\* The event file is written, then the index in memory.
Write(p) ==
  /\ pc[p] = "locked"
  /\ LET idx == Max({Length(p), nextIdx[p]})
     IN  /\ files' = files \cup {<<idx, evt[p]>>}
         /\ known' = [known EXCEPT ![p] = @ \cup {<<idx, evt[p]>>}]
         /\ nextIdx' = [nextIdx EXCEPT ![p] = idx + 1]
         /\ used' = Max({used, idx + 1})
  /\ pc' = [pc EXCEPT ![p] = "written"]
  /\ UNCHANGED <<marks, owner, evt, failures, shared, faults>>

\* Seeded fault: a failed write does not give the lock back.
WriteFailsLocked(p) ==
  /\ pc[p] = "locked"
  /\ pc' = [pc EXCEPT ![p] = "idle"]
  /\ evt' = [evt EXCEPT ![p] = NoEvent]
  /\ UNCHANGED <<files, marks, owner, known, nextIdx, failures, used, shared, faults>>

\* The write guard or the write raises: nothing is recorded.
WriteFails(p) ==
  /\ pc[p] = "locked"
  /\ pc' = [pc EXCEPT ![p] = "idle"]
  /\ owner' = NoProc
  /\ evt' = [evt EXCEPT ![p] = NoEvent]
  /\ UNCHANGED <<files, marks, known, nextIdx, failures, used, shared, faults>>

\* Seeded fault: the old marker stays.
DropMarkerSkipped(p) ==
  /\ pc[p] = "written"
  /\ pc' = [pc EXCEPT ![p] = "unmarked"]
  /\ UNCHANGED <<files, marks, owner, known, nextIdx, evt, failures, used, shared, faults>>

\* _advance_length_marker deletes the marker of the previous length ...
DropMarker(p) ==
  /\ pc[p] = "written"
  /\ marks' = marks \ {Length(p) - 1}
  /\ pc' = [pc EXCEPT ![p] = "unmarked"]
  /\ UNCHANGED <<files, owner, known, nextIdx, evt, failures, used, shared, faults>>

\* What is said to have happened when p leaves the marker of the previous length.
LeftBehind(p) == IF Length(p) - 1 \in marks THEN faults \cup {"stale"} ELSE faults

\* ... or fails to, which the file store logs and does not report ...
DropMarkerFails(p) ==
  /\ pc[p] = "written"
  /\ pc' = [pc EXCEPT ![p] = "unmarked"]
  /\ Fail
  /\ faults' = LeftBehind(p)
  /\ UNCHANGED <<files, marks, owner, known, nextIdx, evt, used, shared>>

\* ... and writes that of the current one, or fails to; append() returns.
SetMarker(p) ==
  /\ pc[p] = "unmarked"
  /\ marks' \in {marks \cup {Length(p)}, marks}
  /\ pc' = [pc EXCEPT ![p] = "idle"]
  /\ owner' = NoProc
  /\ evt' = [evt EXCEPT ![p] = NoEvent]
  /\ UNCHANGED <<files, known, nextIdx, failures, used, shared, faults>>

\* The process ends; the operating system gives its lock back.
Crash(p) ==
  /\ pc[p] # "down"
  /\ pc' = [pc EXCEPT ![p] = "down"]
  /\ owner' = IF owner = p THEN NoProc ELSE owner
  /\ known' = [known EXCEPT ![p] = {}]
  /\ nextIdx' = [nextIdx EXCEPT ![p] = 0]
  /\ evt' = [evt EXCEPT ![p] = NoEvent]
  /\ faults' = IF pc[p] = "written" THEN LeftBehind(p) ELSE faults
  /\ UNCHANGED <<files, marks, failures, used, shared>>

LoseFile(f) ==
  /\ files' = files \ {f}
  /\ Fail
  /\ faults' = faults \cup {"lost"}
  /\ UNCHANGED <<marks, owner, pc, known, nextIdx, evt, used, shared>>

Next ==
  \/ \E p \in Procs :
       \/ Open(p)
       \/ \E e \in Ids : Lock(p, e)
       \/ Write(p) \/ WriteFails(p)
       \/ DropMarker(p) \/ DropMarkerFails(p) \/ SetMarker(p)
       \/ Crash(p)
  \/ \E f \in files : LoseFile(f)

Spec == Init /\ [][Next]_vars

-----------------------------------------------------------------------------
(* index_after_seq *)

\* get_seq of the event at dense index i of p: the on-disk index with rank i.
GetSeq(p, i) ==
  CHOOSE n \in {f[1] : f \in known[p]} :
    /\ Cardinality({f \in known[p] : f[1] < n}) <= i
    /\ Cardinality({f \in known[p] : f[1] <= n}) > i

\* Seeded fault: a search that stops one short.
IndexAfterSeqShort(p, seq) ==
  LET search[i \in (0..Length(p)) \X (0..Length(p))] ==
        IF i[1] >= i[2] THEN i[1]
        ELSE LET mid == (i[1] + i[2]) \div 2
             IN  IF seq <= GetSeq(p, mid) THEN search[<<i[1], mid>>] ELSE search[<<mid + 1, i[2]>>]
  IN  search[<<0, Length(p)>>]

\* bisect_right over the dense indices lo = i[1] to hi = i[2], get_seq as the key.
IndexAfterSeq(p, seq) ==
  LET search[i \in (0..Length(p)) \X (0..Length(p))] ==
        IF i[1] >= i[2] THEN i[1]
        ELSE LET mid == (i[1] + i[2]) \div 2
             IN  IF seq < GetSeq(p, mid) THEN search[<<i[1], mid>>] ELSE search[<<mid + 1, i[2]>>]
  IN  search[<<0, Length(p)>>]

-----------------------------------------------------------------------------
(* Properties *)

\* Types; the lock is held exactly by the process that is inside append().
TypeOK ==
  /\ files \in SUBSET (Nat \X Ids)
  /\ marks \in SUBSET Nat
  /\ owner \in Procs \cup {NoProc}
  /\ pc \in [Procs -> Points]
  /\ known \in [Procs -> SUBSET (Nat \X Ids)]
  /\ nextIdx \in [Procs -> Nat]
  /\ evt \in [Procs -> Ids \cup {NoEvent}]
  /\ failures \in 0..MaxFailures
  /\ used \in Nat
  /\ shared \in BOOLEAN
  /\ faults \in SUBSET Faults
  /\ \A p \in Procs : owner = p <=> pc[p] \in {"locked", "written", "unmarked"}

\* Since nobody had the log open every listing worked, and while several
\* processes had it open no file got lost and no stale marker was left.
Undisturbed == "unlisted" \notin faults /\ (shared => faults = {})

\* "Never reuse an on-disk index" (append): a new file's index, its seq, is above
\* every other one on disk or known to a process that has the log open, lost
\* files included, and its id is new: the order of a reload is the order of the
\* appends.  This needs the log undisturbed; across a reopening see SeqNeverReused.
AppendsLast ==
  [][Undisturbed =>
       \A f \in files' \ files, g \in files \cup UNION {known[p] : p \in Procs} :
         g[1] < f[1] /\ g[2] # f[2]]_vars

\* "Whether the marker proves no one has appended since we last did"
\* (_marker_matches_length): in a log that was not disturbed, an instance whose
\* length has a marker knows every event on disk, whatever markers failed
\* writes, crashes and lost files of earlier times left behind.
MarkerIsProof ==
  Undisturbed /\ owner = NoProc =>
    \A p \in Procs : pc[p] = "idle" /\ MarkerMatchesLength(p) => files \subseteq known[p]

\* All instances, and a reload, give an event the same dense index: what an
\* instance knows is an initial part of what is on disk, unless files got lost.
KnowsPrefix ==
  Undisturbed /\ "lost" \notin faults =>
    \A p \in Procs : pc[p] # "down" =>
      /\ known[p] \subseteq files
      /\ \A f \in files \ known[p], g \in known[p] : g[1] < f[1]

\* A client that resumes from a cursor is given exactly the events of the instance
\* with a higher seq: behind lost files too, and where faults made two files
\* share an index.
CursorExact ==
  \A p \in Procs : pc[p] = "idle" =>
    \A seq \in -1..used :
      IndexAfterSeq(p, seq) = Cardinality({f \in known[p] : f[1] <= seq})

\* An event has one place, the same for every process, for a reload and for a
\* client that reads from a cursor.
IndexSound == TypeOK /\ KnowsPrefix /\ CursorExact

\* "an interrupted update leaves no marker rather than a stale one claiming to be
\* current" (_advance_length_marker): with no file lost and every listing good, an
\* instance whose length has a marker knows every event on disk.  The code does
\* not keep this when an update is cut off, or its deletion fails, while another
\* process has the log open.
MarkerNeverStale ==
  owner = NoProc /\ faults \subseteq {"stale"} =>
    \A p \in Procs : pc[p] = "idle" /\ MarkerMatchesLength(p) => files \subseteq known[p]

\* "Never reuse an on-disk index" (append), which get_seq hands out "as a resume
\* cursor", over the life of the log.  The code does not keep this when the last
\* file is lost and the log reopened.
SeqNeverReused == [][\A f \in files' \ files : f[1] >= used]_vars

\* "a shared index makes the reload order depend on the event ids" (append): with
\* good markers and listings, no new file has the on-disk index of another.  The
\* code does not keep this when a file is lost while two processes have the log
\* open: the number of files no longer tells the one that it is behind the other.
IndexNeverShared ==
  [][faults \subseteq {"lost"} => \A f \in files' \ files, g \in files : f[1] # g[1]]_vars
=============================================================================
