---------------------------- MODULE ManifestQueue ----------------------------
(***************************************************************************)
(* enqueueBatch of buffer/manifest.go, by several producers that share one *)
(* manifest object, under the retries of the committer (casWithRetry in    *)
(* buffer/producer.go) and over the conditional PUT of objstore.           *)
(*                                                                         *)
(* A PUT travels: the store handles a request at any time after it was     *)
(* sent, also after its sender has given it up.  The manifest is the       *)
(* record its bytes encode: the entries and the footer.                    *)
(***************************************************************************)
EXTENDS Integers, Sequences

CONSTANTS
  Producers,
  Groups, Size,          \* groups each producer commits; entries of each group
  ManifestMaxAttempts,
  MaxEntries,            \* what the entries count of the footer holds (u32)
  MaxTrims,              \* bound: manifest writes by the consumer
  Readers,               \* producers whose ConflictRate is called
  Faults,                \* calls of the store may fail, producers may stop
  Redelivers             \* the store's client may send a request again by itself

ASSUME QueueAssumption ==
  /\ Groups \in Nat /\ MaxTrims \in Nat /\ MaxEntries \in Nat
  /\ Size \in [Producers -> [1 .. Groups -> Nat \ {0}]]
  /\ ManifestMaxAttempts \in Nat \ {0} /\ Readers \subseteq Producers
  /\ Faults \in BOOLEAN /\ Redelivers \in BOOLEAN

VARIABLES
  manifest, version,     \* the object; version 0 when there is none
  requests,              \* PUTs on their way to the store
  consumed, trims,       \* entries the consumer has removed; its writes
  pc, group,             \* of each committer: where it is, its current group
  tries,                 \* attempts made at each group
  answer,                \* the store's answer to the PUT it waits for
  writeCount, conflictCount,    \* conflictCounter
  loaded, rate,          \* conflictRate: writeCount as loaded, the rate returned
  landed, acked          \* history: attempts the store applied; groups returned as committed

storeVars == <<manifest, version, requests, landed>>
consVars  == <<consumed, trims>>
rateVars  == <<loaded, rate>>

vars == <<storeVars, consVars, pc, group, tries, answer, writeCount, conflictCount,
          rateVars, acked>>

NoAnswer == "none"

emptyManifest == [entries |-> <<>>, count |-> 0, nextSequence |-> 0, epoch |-> 0]

Init ==
  /\ manifest = emptyManifest /\ version = 0 /\ requests = {} /\ landed = {}
  /\ consumed = <<>> /\ trims = 0
  /\ pc = [p \in Producers |-> "idle"] /\ group = [p \in Producers |-> 1]
  /\ tries = [p \in Producers |-> [g \in 1 .. Groups |-> 0]]
  /\ answer = [p \in Producers |-> NoAnswer]
  /\ writeCount = [p \in Producers |-> 0] /\ conflictCount = [p \in Producers |-> 0]
  /\ loaded = [p \in Producers |-> 0] /\ rate = [p \in Producers |-> 0]
  /\ acked = {}

-----------------------------------------------------------------------------
(* The manifest's bytes *)

\* Mutant: toBytes writes the nextSequence it has read.
AppendedKeepsSequence(m, p, g) ==
  [entries      |-> m.entries \o [i \in 1 .. Size[p][g] |->
                      [sequence |-> m.nextSequence + i - 1, location |-> <<p, g, i>>]],
   count        |-> m.count + Size[p][g],
   nextSequence |-> m.nextSequence,
   epoch        |-> m.epoch]

\* append for every item of a group, then toBytes.
Appended(m, p, g) ==
  [entries      |-> m.entries \o [i \in 1 .. Size[p][g] |->
                      [sequence |-> m.nextSequence + i - 1, location |-> <<p, g, i>>]],
   count        |-> m.count + Size[p][g],
   nextSequence |-> m.nextSequence + Size[p][g],
   epoch        |-> m.epoch]

\* Mutant: only the count that was read is looked at.
FitsFooterBefore(m, p, g) == m.count <= MaxEntries

\* toBytes refuses a count that the footer cannot hold.
FitsFooter(m, p, g) == m.count + Size[p][g] <= MaxEntries

-----------------------------------------------------------------------------
(* casWithRetry and enqueueBatch *)

QueueFrame == UNCHANGED <<consVars, rateVars>>

\* The attempt p is making.
Current(p) == <<p, group[p], tries[p][group[p]]>>

\* casWithRetry makes its first, or its next, attempt.
Attempt(p) ==
  /\ (pc[p] = "idle" /\ group[p] <= Groups) \/ pc[p] = "backoff"
  /\ tries' = [tries EXCEPT ![p][group[p]] = @ + 1]
  /\ pc' = [pc EXCEPT ![p] = "read"]
  /\ UNCHANGED <<storeVars, group, answer, writeCount, conflictCount, acked>> /\ QueueFrame

\* The attempt returns an error; after the last one the committer halts.
AttemptFails(p) ==
  /\ pc' = [pc EXCEPT ![p] = IF tries[p][group[p]] < ManifestMaxAttempts
                               THEN "backoff" ELSE "halted"]
  /\ answer' = [answer EXCEPT ![p] = NoAnswer]
  /\ UNCHANGED <<storeVars, group, tries, writeCount, conflictCount, acked>> /\ QueueFrame

ReadFails(p) ==
  /\ pc[p] = "read" /\ Faults
  /\ AttemptFails(p)

\* Mutant: the error is taken for a conflict and the loop goes on.
TooManyEntriesRetries(p) ==
  /\ pc[p] = "read" /\ ~FitsFooter(manifest, p, group[p])
  /\ UNCHANGED vars

TooManyEntries(p) ==
  /\ pc[p] = "read" /\ ~FitsFooter(manifest, p, group[p])
  /\ AttemptFails(p)

\* readManifest, append, toBytes, recordWrite; the PUT is sent.
ReadAndSend(p) ==
  /\ pc[p] = "read" /\ FitsFooter(manifest, p, group[p])
  /\ requests' = requests \cup {[by |-> Current(p), version |-> version,
                                 data |-> Appended(manifest, p, group[p]), again |-> Redelivers]}
  /\ writeCount' = [writeCount EXCEPT ![p] = @ + 1]
  /\ pc' = [pc EXCEPT ![p] = "put"]
  /\ UNCHANGED <<manifest, version, landed, group, tries, answer, conflictCount, acked>>
  /\ QueueFrame

\* PutIfMatch returns nil.
Committed(p) ==
  /\ pc[p] = "put" /\ answer[p] = "ok"
  /\ acked' = acked \cup {<<p, group[p]>>}
  /\ group' = [group EXCEPT ![p] = @ + 1]
  /\ pc' = [pc EXCEPT ![p] = "idle"]
  /\ answer' = [answer EXCEPT ![p] = NoAnswer]
  /\ UNCHANGED <<storeVars, tries, writeCount, conflictCount>> /\ QueueFrame

\* PutIfMatch returns ErrPreconditionFailed.
Conflict(p) ==
  /\ pc[p] = "put" /\ answer[p] = "precondition"
  /\ conflictCount' = [conflictCount EXCEPT ![p] = @ + 1]
  /\ pc' = [pc EXCEPT ![p] = "read"]
  /\ answer' = [answer EXCEPT ![p] = NoAnswer]
  /\ UNCHANGED <<storeVars, group, tries, writeCount, acked>> /\ QueueFrame

\* PutIfMatch returns another error, whatever the store did or will do.
PutFails(p) ==
  /\ pc[p] = "put" /\ Faults
  /\ AttemptFails(p)

\* The process stops, or shutdownCh ends the backoff.
Stop(p) ==
  /\ Faults /\ pc[p] # "halted"
  /\ pc' = [pc EXCEPT ![p] = "halted"]
  /\ answer' = [answer EXCEPT ![p] = NoAnswer]
  /\ UNCHANGED <<storeVars, group, tries, writeCount, conflictCount, acked>> /\ QueueFrame

-----------------------------------------------------------------------------
(* The object store *)

StoreFrame ==
  UNCHANGED <<consVars, pc, group, tries, writeCount, conflictCount, rateVars, acked>>

\* Mutant: the version is not looked at.
MatchesAny(r) == r.version <= version

\* Mutant: a nil version overwrites.
MatchesNil(r) == r.version \in {0, version}

\* PutIfMatch: a nil version creates, any other must be the current one.
Matches(r) == r.version = version

Apply(r) ==
  IF Matches(r)
    THEN manifest' = r.data /\ version' = version + 1 /\ landed' = landed \cup {r.by}
    ELSE UNCHANGED <<manifest, version, landed>>

\* The store handles a request; its sender may not wait for the answer any more.
HandlePut(r) ==
  /\ Apply(r)
  /\ requests' = requests \ {r}
  /\ answer' = [p \in Producers |->
                  IF pc[p] = "put" /\ r.by = Current(p)
                    THEN IF Matches(r) THEN "ok" ELSE "precondition"
                    ELSE answer[p]]
  /\ StoreFrame

\* The answer to a request is lost and the client of the store sends it again.
HandlePutTwice(r) ==
  /\ r.again
  /\ Apply(r)
  /\ requests' = (requests \ {r}) \cup {[r EXCEPT !.again = FALSE]}
  /\ UNCHANGED answer /\ StoreFrame

\* The consumer removes entries it has read; it may raise the epoch.
Trim(n, e) ==
  /\ version > 0 /\ trims < MaxTrims /\ n <= Len(manifest.entries)
  /\ manifest' = [entries      |-> SubSeq(manifest.entries, n + 1, Len(manifest.entries)),
                  count        |-> manifest.count - n,
                  nextSequence |-> manifest.nextSequence,
                  epoch        |-> manifest.epoch + e]
  /\ version' = version + 1
  /\ consumed' = consumed \o SubSeq(manifest.entries, 1, n)
  /\ trims' = trims + 1
  /\ UNCHANGED <<requests, landed, pc, group, tries, answer, writeCount, conflictCount,
                 rateVars, acked>>

-----------------------------------------------------------------------------
(* conflictRate, which loads its two counters one after the other *)

\* Mutant: the rate is not capped.
PercentageUncapped(conflicts, writes) == (100 * conflicts) \div writes

Percentage(conflicts, writes) ==
  IF conflicts > writes THEN 100 ELSE (100 * conflicts) \div writes

RateFrame ==
  UNCHANGED <<storeVars, consVars, pc, group, tries, answer, writeCount, conflictCount, acked>>

LoadWrites(p) ==
  /\ loaded[p] = 0
  /\ loaded' = [loaded EXCEPT ![p] = writeCount[p]]
  /\ rate' = IF writeCount[p] = 0 THEN [rate EXCEPT ![p] = 0] ELSE rate
  /\ RateFrame

ReturnRate(p) ==
  /\ loaded[p] > 0
  /\ rate' = [rate EXCEPT ![p] = Percentage(conflictCount[p], loaded[p])]
  /\ loaded' = [loaded EXCEPT ![p] = 0]
  /\ RateFrame

-----------------------------------------------------------------------------
Enqueue(p) ==
  \/ Attempt(p) \/ ReadFails(p) \/ TooManyEntries(p) \/ ReadAndSend(p)
  \/ Committed(p) \/ Conflict(p) \/ PutFails(p)

Next ==
  \/ \E p \in Producers : Enqueue(p) \/ Stop(p)
  \/ \E r \in requests : HandlePut(r) \/ HandlePutTwice(r)
  \/ \E n \in 0 .. Len(manifest.entries), e \in 0 .. 1 : Trim(n, e)
  \/ \E p \in Readers : LoadWrites(p) \/ ReturnRate(p)

Spec == Init /\ [][Next]_vars

\* The committer's goroutine runs and the store answers.
FairSpec ==
  /\ Spec
  /\ \A p \in Producers : WF_vars(Enqueue(p))
  /\ WF_vars(\E r \in requests : HandlePut(r))

-----------------------------------------------------------------------------
QueueEntry == [sequence : Nat, location : Producers \X (1 .. Groups) \X Nat]
Manifests ==
  [entries : Seq(QueueEntry),
   count : Nat, nextSequence : Nat, epoch : Nat]
Attempts == Producers \X (1 .. Groups) \X (1 .. ManifestMaxAttempts)

\* Every variable has its type; the entries count fits its field.
TypeOK ==
  /\ manifest \in Manifests /\ manifest.count <= MaxEntries /\ version \in Nat
  /\ requests \subseteq [by : Attempts, version : Nat, data : Manifests, again : BOOLEAN]
  /\ consumed \in Seq(QueueEntry)
  /\ trims \in 0 .. MaxTrims
  /\ pc \in [Producers -> {"idle", "read", "put", "backoff", "halted"}]
  /\ group \in [Producers -> 1 .. Groups + 1]
  /\ tries \in [Producers -> [1 .. Groups -> 0 .. ManifestMaxAttempts]]
  /\ answer \in [Producers -> {NoAnswer, "ok", "precondition"}]
  /\ writeCount \in [Producers -> Nat] /\ conflictCount \in [Producers -> Nat]
  /\ loaded \in [Producers -> Nat] /\ rate \in [Producers -> Nat]
  /\ landed \subseteq Attempts /\ acked \subseteq Producers \X (1 .. Groups)

\* What DecodeManifestEntries reads is what was written: the footer counts the
\* entries, and their sequence numbers run up to nextSequence without gaps.
FooterAgrees ==
  /\ manifest.count = Len(manifest.entries)
  /\ \A i \in 1 .. Len(manifest.entries) :
       manifest.entries[i].sequence = manifest.nextSequence - Len(manifest.entries) + i - 1

\* The groups of a committer are committed one after the other, and a group is
\* tried only when it is its turn.
CommitterSound ==
  \A p \in Producers :
    /\ pc[p] \in {"read", "put", "backoff"} => group[p] <= Groups /\ tries[p][group[p]] > 0
    /\ pc[p] = "backoff" => tries[p][group[p]] < ManifestMaxAttempts
    /\ \A g \in 1 .. Groups :
         /\ <<p, g>> \in acked <=> g < group[p]
         /\ g > group[p] \/ (g = group[p] /\ pc[p] = "idle") => tries[p][g] = 0

\* A request whose version is still current appends to the current manifest.
RequestsSound ==
  \A r \in requests :
    /\ r.by[3] <= tries[r.by[1]][r.by[2]]
    /\ r.version <= version /\ r.data.count <= MaxEntries
    /\ r.version = version => r.data = Appended(manifest, r.by[1], r.by[2])

\* An attempt that was told so has added its group.
AnswersSound ==
  /\ \A x \in landed : x[3] <= tries[x[1]][x[2]]
  /\ \A p \in Producers :
       /\ answer[p] # NoAnswer => pc[p] = "put"
       /\ answer[p] = "ok" => Current(p) \in landed

\* An attempt has one request at most, and none once it has added its group.
OneRequest ==
  /\ \A r \in requests : r.by \notin landed /\ ~r.again
  /\ \A r, s \in requests : r.by = s.by => r = s
  /\ \A p \in Producers :
       pc[p] = "read" \/ answer[p] = "precondition" =>
         Current(p) \notin landed /\ \A r \in requests : r.by # Current(p)

\* The log is numbered by position.
Numbering ==
  /\ manifest.count = Len(manifest.entries)
  /\ manifest.nextSequence = Len(consumed \o manifest.entries)
  /\ \A i \in 1 .. Len(consumed \o manifest.entries) :
       (consumed \o manifest.entries)[i].sequence = i - 1

QueueSound ==
  /\ CommitterSound /\ RequestsSound /\ AnswersSound /\ Numbering
  /\ Redelivers \/ OneRequest

L == INSTANCE DurableLog WITH log <- consumed \o manifest.entries

\* Producers that share a manifest append to one log: whole groups, each at
\* most once an attempt, numbered without gaps, none lost to another
\* producer's or the consumer's write, and committed when reported so.
ImplementsLog == L!Spec

\* enqueueBatch does not conflict for ever: every call returns.
EnqueueReturns == \A p \in Producers : pc[p] = "read" ~> pc[p] \in {"idle", "halted"}

\* ConflictRate is a percentage, also when writes and conflicts are recorded
\* between its two loads.
RateIsPercentage == \A p \in Producers : rate[p] <= 100
=============================================================================
