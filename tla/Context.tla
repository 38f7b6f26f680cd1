------------------------------ MODULE Context -------------------------------
(***************************************************************************)
(* ContextManager.build (context/builder.py) with the runtime's summary    *)
(* sink: what each request to the model is made of, and the summaries that *)
(* survive a restart.  Every action of this module is one way of a call of *)
(* build, or one transaction of it.                                        *)
(***************************************************************************)
EXTENDS Compaction

VARIABLES
  log,      \* the committed messages of the session
  stored,   \* rows of the summaries table, in the order they were written
  record,   \* ContextManager._records, the summary in force in this process
  pending,  \* a summary in the store whose checkpoint is being saved
  request   \* the context of the request under way

context == <<stored, record, pending, request>>

NoRecord == [version |-> 0, through |-> 0]
NoRequest == [version |-> 0, sources |-> {}, first |-> 0]

\* Compactor.compact: the summary of everything before the cut, from the
\* messages themselves and never from an older summary.
Compacted == [version |-> record.version + 1, through |-> FindCut(log)]

\* _tail_after: the messages behind the one the summary ends with.
TailStart(r) == r.through + 1

Plain == [version |-> 0, sources |-> {}, first |-> 1]

\* extract_summary lists every message it has seen.
Summarised(r) == [version |-> r.version, sources |-> 1..r.through, first |-> TailStart(r)]

MustCompact == Answerable(log) /\ Decide(Estimate(log, 1)) # "fit"

\* There is a legal cut and the request behind it fits.
CanCompact ==
  /\ MustCompact /\ FindCut(log) # 0
  /\ Decide(Estimate(log, TailStart(Compacted))) # "reject"

\* Only a summary with a new boundary is committed.
NewBoundary == record = NoRecord \/ record.through # Compacted.through

BuildPlain ==
  /\ Answerable(log) /\ Decide(Estimate(log, 1)) = "fit"
  /\ request' = Plain
  /\ UNCHANGED <<log, stored, record, pending>>

\* ContextError: the history cannot be answered, no cut is legal, or what
\* remains does not fit either.  Nothing has been changed.
BuildRefused ==
  /\ ~Answerable(log) \/ (MustCompact /\ ~CanCompact)
  /\ UNCHANGED <<log, context>>

\* The boundary of the record in force again: nothing is committed, although
\* the request carries the next version.
BuildAgain ==
  /\ CanCompact /\ ~NewBoundary
  /\ request' = Summarised(Compacted)
  /\ UNCHANGED <<log, stored, record, pending>>

\* Mutant: every compaction is persisted.
PersistAlways ==
  /\ CanCompact
  /\ stored' = Append(stored, Compacted)
  /\ pending' = Compacted
  /\ UNCHANGED <<log, record, request>>

\* Mutant: the record is in force before the sink has accepted it.
PersistSummaryLate ==
  /\ CanCompact /\ NewBoundary
  /\ \A i \in 1..Len(stored) : stored[i].version # Compacted.version
  /\ record' = Compacted
  /\ pending' = Compacted
  /\ \/ stored' = Append(stored, Compacted)
     \/ UNCHANGED stored
  /\ UNCHANGED <<log, request>>

\* The sink: the row is committed, unless its version is taken.
PersistSummary ==
  /\ CanCompact /\ NewBoundary
  /\ \A i \in 1..Len(stored) : stored[i].version # Compacted.version
  /\ stored' = Append(stored, Compacted)
  /\ pending' = Compacted
  /\ UNCHANGED <<log, record, request>>

\* SummaryVersionConflictError, or a store that fails: the exception leaves
\* build and the run.
SummaryRefused(fails) ==
  /\ CanCompact /\ NewBoundary
  /\ fails \/ \E i \in 1..Len(stored) : stored[i].version = Compacted.version
  /\ UNCHANGED <<log, context>>

\* The checkpoint is saved, then the record is in force.
CommitRecord ==
  /\ pending # NoRecord
  /\ record' = pending
  /\ request' = Summarised(pending)
  /\ pending' = NoRecord
  /\ UNCHANGED <<log, stored>>

\* The checkpoint fails: the row stays, the record in memory is the old one.
CheckpointFails ==
  /\ pending # NoRecord
  /\ pending' = NoRecord
  /\ UNCHANGED <<log, stored, record, request>>

\* _restore_compaction: the latest summary of the store.
RestoreRecord ==
  /\ record' = IF stored = <<>> THEN NoRecord
               ELSE CHOOSE r \in {stored[i] : i \in 1..Len(stored)} :
                      \A i \in 1..Len(stored) : stored[i].version <= r.version
  /\ UNCHANGED <<log, stored, pending, request>>
=============================================================================
