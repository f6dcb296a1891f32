------------------------- MODULE ProducerInvariants -------------------------
(***************************************************************************)
(* The type invariant of Producer, what an acknowledgement promises, and   *)
(* the inductive invariant that the promise rests on.                      *)
(***************************************************************************)
EXTENDS Producer

AppendTypes ==
  /\ apc \in [Msgs -> AppendStates] /\ watch \in [Msgs -> Errors \cup {"pending"}]
  /\ accepted \in Seq(Msgs) /\ appendCh \in Seq(Msgs) /\ appendClosed \in BOOLEAN

RotatorTypes ==
  /\ rpc \in {"select", "drain", "slot", "blocked", "send", "done"}
  /\ acc \in [msgs : Seq(Msgs), bytes : Nat, entries : Nat]
  /\ rack \in FlushCalls \cup {NoFlush} /\ rexit \in BOOLEAN /\ nextOrdinal \in Nat

BatchTypes ==
  /\ batches \in [Ordinals -> [msgs : Seq(Msgs), ack : FlushCalls \cup {NoFlush},
                               cost : Nat]]
  /\ stage \in [Ordinals -> Stages] /\ err \in [Ordinals -> Errors]
  /\ tries \in [Ordinals -> Nat]
  /\ encodersDone \in BOOLEAN /\ uploadersDone \in BOOLEAN

CommitterTypes ==
  /\ cpc \in {"recv", "drain", "read", "put", "backoff", "resolve", "done"}
  /\ next \in Nat /\ group \in Seq(Nat) /\ failed \in Seq(Nat) /\ casTries \in Nat
  /\ snap \in [data : Seq(Nat \cup {Other}), version : Nat]
  /\ sawClosed \in BOOLEAN /\ halted \in BOOLEAN

ResolverTypes ==
  /\ vpc \in {"recv", "observe", "watchers", "ack", "release", "done"}
  /\ cur \in Nat /\ observed \subseteq Nat
  /\ bytesUsed \in Nat /\ batchesUsed \in Nat

StoreTypes ==
  /\ objects \subseteq Nat /\ manifest \in Seq(Nat \cup {Other})
  /\ version \in Nat /\ unacked \subseteq Nat /\ otherWrites \in Nat

FlushTypes ==
  /\ fpc \in [FlushCalls -> {"idle", "ctx"} \cup FlushWaits \cup Errors]
  /\ ackCh \in [FlushCalls -> Errors \cup {"none"}]
  /\ covers \in [FlushCalls -> SUBSET Msgs]
  /\ \A f \in FlushCalls : fpc[f] \in {"waitDrained", "draining"} => ackCh[f] # "none"

CloseTypes ==
  /\ clpc \in {"idle", "flush", "wait", "closed", "cancel", "forced"}
  /\ closeCtx \in BOOLEAN /\ cancelled \in BOOLEAN /\ shutdown \in BOOLEAN

\* Every variable has its type.
TypeOK ==
  /\ AppendTypes /\ RotatorTypes /\ BatchTypes /\ CommitterTypes
  /\ ResolverTypes /\ StoreTypes /\ FlushTypes /\ CloseTypes

\* A watcher resolves without an error only when the batch of its message is
\* durable: its data object was written and the manifest refers to it.
AckedIsDurable ==
  \A m \in Msgs : watch[m] = "nil" =>
    \E o \in Ordinals : /\ m \in Range(batches[o].msgs)
                        /\ o \in Range(manifest) \cap objects

\* The manifest never refers to a data object that was not written, also when
\* a CAS was applied without being acknowledged.
EntriesHaveObjects == Range(manifest) \ {Other} \subseteq objects

-----------------------------------------------------------------------------
(* Why an acknowledged message is durable *)

\* What the stage of a batch says about its error, its object and the manifest.
StagesSound ==
  \A o \in Ordinals :
    /\ (stage[o] \in {"completed", "ready"} /\ err[o] = "nil") => o \in objects
    /\ stage[o] \in {"failed", "abandoned"} => err[o] # "nil"
    /\ (stage[o] \in {"resolving", "done"} /\ err[o] = "nil")
         => o \in Range(manifest) \cap objects

\* The committer's group holds uploaded batches, each once; when it is resolved
\* only batches in the manifest have no error.
GroupSound ==
  /\ \A i \in DOMAIN group : group[i] \in Ordinals \cap objects /\ stage[group[i]] = "group"
  /\ \A i, j \in DOMAIN group : group[i] = group[j] => i = j
  /\ cpc = "recv" => group = <<>>
  /\ cpc = "resolve" => \A i \in DOMAIN group :
                          err[group[i]] = "nil" => group[i] \in Range(manifest)

FailedSound ==
  /\ \A i \in DOMAIN failed : failed[i] \in Ordinals /\ stage[failed[i]] = "failed"
  /\ \A i, j \in DOMAIN failed : failed[i] = failed[j] => i = j

\* What readManifest returned is the manifest while the version is the same.
SnapshotSound ==
  /\ Range(snap.data) \ {Other} \subseteq objects
  /\ snap.version <= version
  /\ snap.version = version => snap.data = manifest

\* The batches that the rotator sends and that the resolver works on.
HandoffSound ==
  /\ rpc = "send" => nextOrdinal > 0 /\ stage[nextOrdinal - 1] = "pending"
  /\ vpc \notin {"recv", "done"} => cur \in Ordinals /\ stage[cur] = "resolving"

WatchersSound ==
  \A m \in Msgs : watch[m] = "nil" =>
    \E o \in Ordinals : /\ m \in Range(batches[o].msgs)
                        /\ stage[o] \in {"resolving", "done"} /\ err[o] = "nil"

\* At every stage of the pipeline a batch that is not failed has its object
\* from the completion of its upload on, the committer's group holds such
\* batches only, and a batch handed to the resolver has an error that is final,
\* and nil only if the manifest has the batch.
Durability ==
  /\ StagesSound /\ GroupSound /\ FailedSound /\ SnapshotSound
  /\ HandoffSound /\ WatchersSound /\ EntriesHaveObjects
=============================================================================
