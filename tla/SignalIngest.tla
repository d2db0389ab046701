---------------------------- MODULE SignalIngest ----------------------------
(***************************************************************************)
(* ingest() of signal_engine/pipeline.py: which communications are stored. *)
(* A row may carry the id its source gave it (the structured lane, unique  *)
(* per tenant) and is otherwise recognised by the words: the newest row of *)
(* the same account with the same content hash, if it is at most Window    *)
(* days away.  Several lanes (HTTP, MCP, CSV, bulk import) look up and     *)
(* insert concurrently; only the id is protected by the table.             *)
(* Names that begin with Mut are wrong variants, as in SignalPipeline.     *)
(***************************************************************************)
EXTENDS Integers, Sequences, FiniteSets

CONSTANTS
  Lane,          \* threads that call ingest
  SignalId,      \* ids sources give their rows
  NoId,          \* free text: ingest draws a fresh uuid
  Text,          \* (account, normalised words): what content_hash tells apart
  Moments,       \* occurred_at, in half days
  Window,        \* dedup.window_days
  MaxRows        \* bound: rows stored or about to be

ASSUME IngestAssumption ==
  /\ Moments \subseteq Nat /\ Window \in Nat /\ MaxRows \in Nat
  /\ NoId \notin SignalId /\ IsFiniteSet(Lane)

VARIABLES
  rows,          \* qualitative_signals in order of id
  adding,        \* what each lane has found new and not yet inserted, or {}
  dropped,       \* what was answered 'exists' or 'duplicate' (history)
  clock,         \* for each text, the latest occurred_at that has arrived (history)
  messy          \* texts that have arrived late, or twice at once (history)

vars == <<rows, adding, dropped, clock, messy>>

Item == [sid : SignalId \cup {NoId}, text : Text, at : Moments]

TypeOK ==
  /\ rows \in Seq(Item) /\ Len(rows) <= MaxRows
  /\ adding \in [Lane -> {{}} \cup {{m} : m \in Item}]
  /\ dropped \in SUBSET Item
  /\ clock \in [Text -> Moments \cup {0}]
  /\ messy \in SUBSET Text

Init ==
  /\ rows = <<>>
  /\ adding = [l \in Lane |-> {}]
  /\ dropped = {}
  /\ clock = [t \in Text |-> 0]
  /\ messy = {}

Stored == 1..Len(rows)

\* timedelta.days rounds down, also below zero: -0.5 days is -1.
Days(later, earlier) == (later - earlier) \div 2
Abs(n) == IF n < 0 THEN -n ELSE n

Exists(sid) == sid # NoId /\ \E i \in Stored : rows[i].sid = sid

MutDuplicate(m) ==
  \E i \in Stored :
    /\ rows[i].text = m.text
    /\ \A j \in Stored : rows[j].text = m.text => j <= i
    /\ Abs(Days(m.at, rows[i].at)) < Window

MutDuplicateEver(m) == \E i \in Stored : rows[i].text = m.text

\* Only the newest row (by id) with these words is compared.
Duplicate(m) ==
  \E i \in Stored :
    /\ rows[i].text = m.text
    /\ \A j \in Stored : rows[j].text = m.text => j <= i
    /\ Abs(Days(m.at, rows[i].at)) <= Window

\* The two queries of ingest.  They are one step: an id that appears between
\* them is refused by the insert.
Look(l, m) ==
  /\ adding[l] = {}
  /\ Len(rows) + Cardinality({k \in Lane : adding[k] # {}}) < MaxRows
  /\ clock' = [clock EXCEPT ![m.text] = IF m.at > @ THEN m.at ELSE @]
  /\ messy' = IF m.at < clock[m.text] \/ \E k \in Lane : \E n \in adding[k] : n.text = m.text
              THEN messy \cup {m.text} ELSE messy
  /\ IF Exists(m.sid) \/ Duplicate(m)
     THEN dropped' = dropped \cup {m} /\ UNCHANGED adding
     ELSE adding' = [adding EXCEPT ![l] = {m}] /\ UNCHANGED dropped
  /\ UNCHANGED rows

MutInsert(l) ==
  /\ \E m \in adding[l] : rows' = Append(rows, m)
  /\ adding' = [adding EXCEPT ![l] = {}]
  /\ UNCHANGED <<dropped, clock, messy>>

MutInsertTwice(l) ==
  /\ \E m \in adding[l] : rows' = rows \o <<m, m>>
  /\ adding' = [adding EXCEPT ![l] = {}]
  /\ UNCHANGED <<dropped, clock, messy>>

\* INSERT and commit; uq_customer_signal_id refuses an id that is there by now,
\* and the call fails.
Insert(l) ==
  /\ \E m \in adding[l] : rows' = IF Exists(m.sid) THEN rows ELSE Append(rows, m)
  /\ adding' = [adding EXCEPT ![l] = {}]
  /\ UNCHANGED <<dropped, clock, messy>>

Next == \E l \in Lane : Insert(l) \/ \E m \in Item : Look(l, m)

Spec == Init /\ [][Next]_vars

-----------------------------------------------------------------------------
\* How far apart two moments are, said without the code's rounding: ingest may
\* call two communications the same only if less than Window + 1 days apart.
Near(a, b) == Abs(a - b) < 2 * (Window + 1)

\* A source's id names one row, however the lanes race (pipeline.py:98-101).
IdOnce ==
  \A i, j \in Stored : rows[i].sid = rows[j].sid /\ rows[i].sid # NoId => i = j

\* Nothing a source sends is lost: what was turned away is on record, under its
\* id or in the same words at about the same time (pipeline.py:98-111).
DropsAreCovered ==
  \A m \in dropped : \E i \in Stored :
    \/ rows[i].sid = m.sid /\ m.sid # NoId
    \/ rows[i].text = m.text /\ Near(rows[i].at, m.at)

\* The same words on the same account within the window are one piece of
\* evidence (tests/test_tier2_parity_customer415.py:99-101), until they arrive
\* out of order of occurred_at or in two lanes at once.
OneInWindow ==
  \A i, j \in Stored :
    i < j /\ rows[i].text = rows[j].text =>
      rows[i].text \in messy \/ ~Near(rows[i].at, rows[j].at)

\* Sending a communication again stores nothing: no two rows have the same words
\* and the same moment (scripts/onboard_tenant.py:12: "re-sending overlap is safe").
ResendIsSafe ==
  \A i, j \in Stored :
    rows[i].text = rows[j].text /\ rows[i].at = rows[j].at => i = j
=============================================================================
