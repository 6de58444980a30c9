# A TLA+ model of CRISalid IKG

CRISalid IKG maintains the institutional knowledge graph of a research organization: it
consumes messages about people, structures, publications and user actions from RabbitMQ,
writes them to Neo4j, groups the bibliographic records of several sources into documents,
and publishes what changed. This directory has TLA+ modules of its core, TLC
configurations that check them on small instances, and TLAPS proofs for every instance.
Paths are relative to the repository; `app/` is `src/app/`.

## 1. Inventory

| Component | State | Operations | What is hard | What makes it correct |
|---|---|---|---|---|
| AMQP consumption (`app/amqp/amqp_interface.py`, `amqp_message_processor.py`) | broker queue, prefetch window, one in-process `asyncio.Queue` and a pool of worker tasks per topic | connect, listen, take, process, ack / nack, attach a worker, join, cancel | redelivery, stale deliveries, crashes, wake-ups, shutdown with timeouts, a pool that only grows | at least once, nothing lost that was not refused, the window is not leaked, every message leaves in the end |
| User changes (`app/services/changes`, `change_dao.py`) | `Change` nodes with a status | create, apply, mark, replay | handlers and recomputations interleaved; duplicates; errors half-way | an applied edit is never lost for good, the last edit wins, acknowledged means decided |
| Equivalences (`equivalence_service.py`, `source_record_dao.py`) | `INFERRED_` / `ASSERTED_EQUIVALENT` links, one list of records to treat shared by all workers | infer, detach, assert | reads before awaits, in-memory list lost on error, recursion | links follow the identifiers, the treatment ends |
| Documents (`document_service.py`, `document_dao.py`) | `Document` nodes, `RECORDED_BY`, `TO_BE_MERGED_INTO`, flags | attach records, merge, recompute | several writes per treatment, stale copies written back | one document per cluster, an heir for each emptied document, fresh metadata |
| Source records (`amqp_reference_message_processor.py`, `source_record_service.py`) | `SourceRecord`, identifiers, contributions | create, update (each falls back on the other) | partial failure, swallowed errors | a record holds what its last message said, the signal comes after its last change, a message is not given up without a record |
| Metadata computation (`metadata_computation_service.py`, `merge_strategies`, `oa_colors_computation_service.py`) | none | merge the values of several sources | priorities, ties, absent values | deterministic, independent of the order of records |
| People (`amqp_people_message_processor.py`, `people_service.py`, `person_dao.py`, `identifier_service.py`) | `Person`, shared `AgentIdentifier` nodes | create, update, create or update, authenticate | conflict / not found retries, identifiers that move or stay, read-modify-write | what the directory says is stored, publications are requested with the identifiers held, a creation is announced once |
| Structures (`amqp_structure_message_processor.py`, `research_unit_service.py`) | `ResearchUnit` | create, update | mutual recursion without retry flag | terminates |
| Institutions (`institution_service.py`, registry) | `Institution` | get or create | external lookups, races | one node per institution |
| Contributor mapping (`app/services/source_contributors`) | `SourcePerson` links, external people, contributions | match, create, merge | merging and deleting of people that other documents use, several transactions | each source person of a document is recorded by a contributor of it, and equivalent ones by a common one |
| Authority organizations (`app/services/authority_organizations`) | roots and states | split a cluster, get or create, attach | compatibility of identifiers, choice of the root, races | a state has identifiers that do not contradict each other and one root at most; affiliations are stated |
| Journals (`app/services/journals`, `source_journals`) | journals, ISSNs | link, resolve | external lookups, two passes, partial answers | a checked ISSN leads to a journal |
| Concepts (`concept_service.py`, `concept_dao.py`) | `Concept`, labels | get or create, update | a copy is read, merged in memory and written | one preferred label per language |
| Outgoing messages (`app/amqp/amqp_message_publisher.py`, message factories) | none | read the graph, publish | a failed publication is forgotten | the last request has the last identifiers |
| Harvesting events, search index, routes, command line, setup, models | little or none | forward, index | | see `PROJECT.json` |

### How they interact

- RabbitMQ delivers to the listener of a topic, which moves deliveries to the inner queue;
  a worker calls the processor of its topic and settles the delivery. `ValueError` and
  unexpected errors refuse the message, `DatabaseError` puts it back.
- A reference message writes a source record and sends `source_record_created` or
  `_updated`. One `EquivalenceService`, shared by all the workers, treats the record and
  sends `document_created_from_sources` or `document_sources_changed`; `DocumentService`
  then recomputes each document (contributions first, then metadata) and replays the
  changes stored for it.
- A source record refers to concepts, source people and organizations and a source journal,
  which are shared by records and written before it; source people, external people and
  authority organizations are shared by documents, and written while one is recomputed.
- A user action creates and applies a `Change`. A MERGE change asserts equivalences and
  runs an `EquivalenceService` of its own.
- A message about a person or a structure updates the graph, then requests publications of
  the harvesters and publishes an event; an authentication by a user does the same.
- Signals are awaited: the message is acknowledged after everything above has been done.
- Each call of a DAO is one Neo4j transaction; nothing spans several of them.

## 2. Modules

| Module | Models | Proofs and runs |
|---|---|---|
| `DeliveryContract` | what the consumer of a topic promises (abstract) | implemented by `AmqpConsumer` |
| `AmqpConsumer` | one topic of `app/amqp`, with the life of the process | `AmqpConsumerProofs`; `MCAmqpConsumer`, `consumer_*.cfg` |
| `DocumentChanges` | the changes of one document and its recomputations | `DocumentChangesProofs`; `MCDocumentChanges`, `changes_*.cfg` |
| `DocumentClusters` | records, equivalences and documents | `DocumentClustersProofs`; `MCDocumentClusters`, `clusters_*.cfg` |
| `AgentRegistry` | people, research units, employers, authentication, announcements | `AgentRegistryProofs`; `MCAgentRegistry`, `registry.cfg` |
| `SourceRecords` | the messages about references, up to the signal | `SourceRecordsProofs`; `MCSourceRecords`, `records.cfg` |
| `Concepts`, `Journals` | the calls a source record makes | instantiated by `SourceRecords`, and proved about there |
| `Contributions` | contributors and affiliations of documents | `ContributionsProofs`, `ContributorsProofs`, `AffiliationsProofs`; `MCContributions`, `contributions.cfg` |
| `AuthorityOrganizations` | the call a recomputation makes for an affiliation | instantiated by `Contributions`, and proved about in `ContributionsProofs` and `AffiliationsProofs` |

`PROJECT.json` maps every definition to the lines it stands for. Definitions marked
`\* mutant` in a comment are faulty variants of the definition that follows them: each
shows that a property notices a plausible bug. They are used nowhere in the specifications.

### AmqpConsumer

`ready`, `unacked` and `fate` are the broker; `buffer` is the iterator of the queue,
`inner` the `asyncio.Queue`; each worker has a `pc` and the delivery it holds (`task`).
One action is the code between two awaits that let others run: `Receive` is a turn of the
loop of `listen` (test of the size, attachment of a worker, `put`, `sleep(0)`), `Take` and
`Wait` are `get()`, `Succeed` / `Refuse` / `DatabaseFailure` the three ways the processing
ends, `Ack` / `Nack` the settlement with `task_done()`. A delivery has a `live` flag:
`ChannelLost` makes all of them stale, the broker delivers their messages again, and the
stale ones are processed all the same. Worker states: `waiting` (in `get()`), `due` (made
ready, will run before the next turn of the listener), `yielding` (in `sleep(0)`).
The content of the messages and the declaration of exchanges are left out.

### DocumentChanges

One document, changes numbered by timestamp, of which one adds or removes an element or
replaces the type (`Field`, `Left`), and two kinds of workers that share
`apply_change`: handlers of user actions and recomputations. A step is one transaction.
`Rewrite` and `Recompute` may write any contents: what they write was computed from
records, and from copies of the document, read some time ago. `Fails` is an error of a DAO
in a handler or a replay, whose write may have been committed. `Abandon` is an exception that
ends a recomputation: the message of its record is put back (`DatabaseError`) or given up
(any other), and one that comes back recomputes the documents it then changes, this one or
not; the same holds after a `Crash`. History variables: `undisturbed`, the recomputations
that were alone in writing since their last rewrite; `interrupted`, whether one was ended
after it wrote, or could have, and none read the changes since.

### DocumentClusters

Records with sets of identifiers, the two kinds of links, documents with their records, heirs
and flag. A step is one write with the reads that prepare it, except that the documents read by
`_update_documents` (`Gather`) are kept in `job` and written one by one (`Write`), and that a
recomputation reads the records of its document (`ReadSources`) and writes the metadata later
(`Recompute`), as in the code; the history variable `overtaken` has the documents last written
from records that had changed in between. `waiting` is the list of records to treat: one for
the service connected to the signals, shared by all workers, and one for each merge under way.
`Fail` is an error of a DAO at any point. Not in this module: what the metadata are, the
changes replayed after a recomputation, merges of more than two documents in one change,
predicted equivalences (nothing creates them). `Reached` follows links without the limit of 100
levels that the queries give `apoc.path` (`Equivalents` of `Contributions` likewise).

### AgentRegistry

The graph is `nodes` (identifier nodes, unique by type and value, shared by people and units),
`authenticated`, and the links `holds`, `memberOf`, `employedAt`, `unitHolds`. A worker has one
message; `job` has the `Person` object it works on, the announcements it still owes (`outbox`)
and the request it has built of one. A step is one transaction of a DAO, one answer of the
registry of organisations, or one message built or sent. The transaction of an update is two
steps, as it reads the person before it takes a lock: `ReadExisting`, and `UpdatePerson`, which
compares and writes by what was read (a worker is `updating` in between). `RegistryTimesOut` is
the total timeout of a request, which no caller catches: the message is given up.
`CreateConflict` and `UpdateAbsent` are the two ways a creation and an update turn into each
other, `SwitchUnit` the same for units, without a limit. `FirstRow` is `single()` on a query
that returns several rows: an update compares, and an authentication reads, one membership and
one employment. An identifier is detached when its type *or* its value is not listed
(`Listed`). `Fail` is an error of the database or a crash, `LoseAnnouncement` an error of the
broker. `requested` has the sets of identifiers publications were requested with since those of
the person last changed. History variables name the exceptions of the properties: `overtaken`
(workers that read a person which another one has written since) and `contested` (people last
written by such a worker), `interrupted` and `silenced` (a request or an event lost or never
made), `lost` (messages given up) and `unanswered` (those given up on a timeout). An
authentication promises nothing of the memberships and employments, of which it writes back the
first row it read. Not in this module: names, positions, places, the tutelles of units.

### SourceRecords, Concepts, Journals

A worker looks whether the record exists, checks the owner, stores source people and
organizations, registers each subject and the journal, stores the record, deletes its
contributions and creates them one by one, and sends the signal. `Switch` is the fallback
between creation and update, once. The search index hears of a created record before the
equivalence service: `IndexRefuses` is an error of it that leaves the signal, so that the
message is refused and the equivalence service may not be told. `Concepts` and `Journals` have
a `Call` per worker, a small state machine with one step per transaction; `SourceRecords`
shares their variables and takes their steps (`TreatConcept`, `TreatJournal`) while it waits
for the call, and `KeepConcept` / `KeepJournal` are the `except` clauses that leave a subject
or a journal out. A concept is read, its labels merged in memory (`Merged`) and written back; a
conflict on creation searches again. A journal is looked for by the ISSN portal (`Portal`,
external), which answers nothing, or the group of ISSNs of a journal, or not in time
(`TimesOut`): the timeout is caught neither by the call nor by the record, whose message is
refused (`RefuseUnanswered`). The history variables `unanswered` and `silenced` have these
messages, and the records nobody was told of because of them or of the index. ISSNs not checked
yet are treated one after the other. Not in these modules: the messages that are left out
because of the settings or of the identifier the record was found with, urls, titles,
abstracts, document types, and the vocabularies dereferenced over HTTP. `Portal` answers the
whole group for each ISSN of it: with partial groups, the check of an ISSN could detach another
that was checked.

### Contributions, AuthorityOrganizations

`Take` moves a record to a document, as `DocumentClusters` does, and makes both documents due;
the worker recomputes each: `Relate` writes the equivalences of source people (the paths over
platforms; `Selections` is every result of `filter_unique_paths`, over the orders of equally
efficient paths), then for each cluster `Match` (by identifiers, then by name), `Search` for an
external person, `CreateExternal`, `Merge`, `Link`, then for each person linked `Contribute`,
the calls for organizations (`CallOrganization`, `TreatOrganization`, one per organization of
no call yet), `Affiliate`; `Finish` deletes the contributions of the document that were not
written. A person that another step deleted comes back by the `MERGE` of a contribution,
without name or identifier: `ghosts`. History variables name the exceptions of the properties:
`disturbed` (documents another worker took something from, or works on), `accompanied` and
`raced` (workers that met, and what they brought back), `regrouped` (documents of which source
people became equivalent because of another document, after they were matched: nothing
recomputes them). `GiveUp` ends the message when the call for an organization is refused or
finds nothing. `AuthorityOrganizations` splits the cluster of an organization in memory
(`Split`: one state per group of compatible organizations, in every order the code leaves
open), then for each state looks in the graph by identifiers, or by name when it has none,
completes or creates it, and finds, creates or elects the root. A state that was written is
signalled, and the receiver may raise on an organization of `Unlocatable` (`Told`): the message
is refused. The transaction that attaches states to a root is two steps: `ReadLinks`, which
matches the links to other roots before anything is locked, and `Attach`, which deletes those
and adds its own; `contested` has the states that two such transactions attached at the same
time. Two workers can write a state from stale copies, and a worker can create it again over
one that was there: no property excludes these cases. Not in these modules: roles of
contributions, places and types of organizations.

## 3. Runs

| Run | Instance | Shows |
|---|---|---|
| `consumer_faults` | 3 messages, prefetch 2, 2 workers, 2 faults (listener, channel, crash), 1 database error | `TypeOK`, `OneLiveCopy`, `NoUnrefusedLoss`, `NoLostWakeup`, `ImplementsContract` |
| `consumer_pool` | 4 messages, prefetch 3, 1 initial worker, at most 4, the first message always fails, 1 fault, shutdowns | `PoolBound`, `HealthySettled`, `ShutdownCompletes` |
| `consumer_cancel` | 1 shutdown | violation: a cancelled worker loses its message |
| `changes_concurrent` | 2 changes of the type, 2 handlers, 2 recomputations, 2 faults (handler, recomputation, channel, crash) | `TypeOK`, `EditsSurvive` |
| `changes_outages` | 4 changes (one malformed, one always refused by the database), 1 handler, 1 recomputation, 1 fault | `ReplayIsFaithful`, `AckedIsDecided`, `EveryMessageLeaves`, `RecomputationEnds` |
| `changes_retry` | 1 transient error | violation: a failed change is not retried |
| `clusters_sequential` | 4 records, 2 identifiers, 1 worker, 2 messages, from any settled graph | `LinksFollowIdentifiers`, `DocumentsAreClusters`, `EmptiedHaveAnHeir` |
| `clusters_concurrent` | 2 records, 1 identifier, 2 workers, 2 messages, 1 error | `TypeOK`, `MetadataAreFresh`, `UpdateEnds` |
| `clusters_failure` | 3 records, 2 identifiers, 1 worker, 1 message, 1 error | violation: a detached record is forgotten |
| `registry` | 2 people, 2 units, 1 institution, 7 identifiers, 8 kinds of messages, 3 messages, 2 workers, 1 failure | `TypeOK`, `HarvestFollowsIdentifiers`, `CreatedOnce`, `DirectoryIsStored`, `LossHasAReason`, `MessagesEnd` |
| `records` | 2 records, 2 source people, 2 concepts, 3 ISSNs, 4 kinds of messages, 2 messages, 2 workers, 1 error | `TypeOK`, `RecordFollowsItsMessage`, `ToldAfterLastChange`, `DroppedHaveARecord`, `OneLabelPerLanguage`, `CheckedHaveAJournal`, `MessagesEnd` |
| `contributions` | 5 records, 2 documents, 1 internal person, 3 source people, 5 organizations, 2 workers, 7 pasts | `TypeOK`, `ContributorsFollowRecords`, `GhostsComeFromRaces`, `AffiliationsAreStated`, `StatesAreConsistent`, `OneRootPerState`, `RecomputationsEnd` |

### Bounds, and why they are enough

- *Consumer.* Three messages and a prefetch count of two give a message in each place
  (broker, buffer or inner queue, worker) and one that waits for the window. Two faults let
  a stale delivery meet a redelivery that becomes stale too. The prefetch count of three is
  the smallest with which a worker is attached at a size greater than zero; one initial
  worker and `MaxWorkers` 4 leave room for a violation of the bound of three.
  `PoolBound` needs a channel that holds and a prefetch count of at least three: after a
  loss of the channel the stale deliveries are outside the window, and the pool can grow
  again. The 10000 places of the inner queue are never reached, as the window bounds it.
- *Changes.* Two changes of the type, which undo each other, each delivered
  twice, and two recomputations that overlap are the smallest case in which an edit can be
  erased and restored in the wrong order. The four of `changes_outages` are an edit, its
  opposite, a malformed and a refused change.
- *Clusters.* The initial states are all settled graphs without asserted links, so two
  messages reach any change of identifiers of one record (split, join, or both), followed by
  another or by a merge. Four records are the smallest number with two documents of two
  records; with two identifiers a record can be the bridge between others.
  `MaxDocuments` is never reached there. The run with two workers has two records, so that
  their shared list can be explored with an error at any point, and a recomputation of one
  worker can fall anywhere in the treatment of the other; its four documents can
  all be in use, but no treatment that needs another one then is ever left without.
- *Registry.* A conflict needs an identifier two agents claim: an ORCID both people list, and
  a unit with the local identifier of a person. Three messages are a creation, a change, and
  a third that meets one of them; one failure falls at every step of them. Two memberships
  are the smallest number of which `single()` hides one; only one message has an employer.
- *Records.* The two messages may be any of a creation, an update of the same record with
  another owner and another journal, and two of another record that shares a source person,
  an organization, an issue and the journal, or has a subject without uri. Two ISSNs are of
  one journal and one is of none.
- *Contributions.* Whole histories are too long to interleave, so `Past` gives the first
  events, treated one by one by the same worker, and how many events and failures are to come,
  interleaved: two with no past; one after two documents are there, in four ways; and two long
  histories without any. The five organizations are two that share an identifier and complete
  each other, one that contradicts a state made of them, a name, and nothing. Two documents
  share a source person, which is equivalent to one of another platform in one of them; these
  two get an external person each, which is merged when a record moves. The third source
  person has the identifiers of one of them, and is a namesake of the internal person that has
  those of the other: two clusters of a document are matched with one person, and a source
  person of the other document makes two source people of this one equivalent, before or after
  it is recomputed. Without the exceptions for these two cases `ContributorsFollowRecords` and
  `AffiliationsAreStated` are violated there.
- Deadlock is not checked (`CHECK_DEADLOCK FALSE`) where the bounds on messages, events or
  recomputations let a behaviour end: all messages settled and no event left.

### Fairness

- *Consumer.* Every ready task of the loop gets its turn (`WF` of `Receive`, `Work`); the
  broker goes on delivering while the window is open (`SF` of `Deliver`, as the window
  opens and closes); `open_rabbitmq_connexion` retries until it is connected (`Start`);
  `wait_for` has a timeout (`JoinEnds`); `loop-restart.sh` stops and starts the process
  (`BeginShutdown` without listener). Faults and outcomes of the processing have none.
  The last assumption is about the deployment: nothing in the application ends it when a
  listener dies, and neither the `Dockerfile` nor the compose file restarts it.
  Without the script, `HealthySettled` does not hold after a listener has died.
- *Changes.* Every worker goes on, and every message in the queue is delivered in the end.
- *Clusters.* Every worker goes on. The arrival of messages and errors have no fairness.
- *Registry, records, contributions.* Every worker that has a message goes on (`WF` of
  `Work(w)`): its coroutine is scheduled again when its transaction or request has ended,
  and HTTP requests have timeouts, which raise. Messages, failures and errors have no fairness.

### Disagreements found

1. `amqp_message_processor.py:62`: a worker cancelled by `stop_listening` gets
   `CancelledError`; the handler that logs "has been cancelled" and puts the message back
   is for `KeyboardInterrupt`. The inner `finally` refuses the message and, except for user
   actions, the queues have no dead-letter exchange (`consumer_cancel`).
2. `change_service.py:36`: "had failed. Retrying." is followed by `return`
   (`changes_retry`).
3. `equivalence_service.py:75`, `:81`: a detached record is in a list in memory, popped
   before it is treated; after an error nothing treats it again (`clusters_failure`).

Known not to hold, and not stated as properties:

- *Clusters and changes.* `DocumentsAreClusters` with two workers (they read and write the
  documents of the same cluster in turn, and a record ends with two documents or none), and
  `EditsSurvive` when the replay itself fails (the error is swallowed). A recomputation that
  ends early leaves a document without the edits, if it had been rewritten from a stale copy,
  until a recomputation reaches the changes again: the message that comes back need not
  recompute that document, which may have lost the record. Two recomputations of a document
  can leave the metadata of the older read, without a later signal.
- *Registry.* A failure between a write and its announcement loses the request of
  publications and the creation event for good: the redelivered message finds nothing
  changed, or updates. A message of type unchanged requests no publications, even when it
  creates. Identifier nodes stay when they are detached, and a later creation that lists one
  conflicts, then finds nobody to update, and is given up; so does one that lists the local
  identifier of a unit. A membership that comes before its unit, or whose unit has no
  description, is lost until the next message about the person; the events of such a unit
  cannot be built. An identifier that was authenticated and that the directory does not list
  is detached. An authentication writes back what it read: a concurrent update is lost, and
  all memberships but one. An update compares with a person read before it waits for a lock:
  if another one commits in between, it can see no change in identifiers that it replaces,
  and request nothing, or leave the memberships and employments of the other message. A
  timeout of the registry of organisations refuses the message for good, without retry.
- *Records.* A timeout of the ISSN portal, or an error of the search index that is no transport
  error, refuses the message: its record may be missing, or have no document, until the next
  message about it. Two workers on one record can mix or double its contributions until the
  next message; two creations of one record for different owners leave one owner. A source
  person that cannot be stored leaves its contribution out, without an error. A race on a new
  source journal or journal leaves the record without a journal. The stale writer of a concept
  deletes a label another worker added. An issue keeps the journals it had.
- *Contributions.* The link of a source person, or a merge, deletes an external person that the
  contribution of another document needs; two recomputations of one document delete each
  other's contributions; equivalences are never removed. A root can lose all its states to
  another worker, and the assertion on it then gives the message up. Two workers that attach
  one state at the same time leave it with two roots; the next that attaches it keeps one.
  States without identifiers all have the same signature: a new one takes over the one that is
  there, although `authority_organization_service.py:67` says that a new state is created. The
  docstring of `_is_compatible` (`:335`) mentions excluded types, which the code does not
  check. Two clusters of a document matched with one person (by name, or by different
  identifiers) overwrite each other in the dictionary of
  `source_contributor_mapping_service.py:103`: only the last one's affiliations and roles are
  kept. Source people of a document that become equivalent through a source person, or an
  equivalence, of another document keep the two people they were matched with: only the
  documents whose records change are recomputed. An organization all of whose identifiers are
  ambiguous (several values of each type) is treated by its name: its affiliation may be stated
  by the state of another organization of that name, without identifiers.

## 4. Proofs

What TLC checks on an instance is proved by TLAPS for every value of the constants that the
`ASSUME` of the module allows. The constants are finite only where a proof counts (workers
of the pool, changes, source organizations). Each theorem comes from an inductive invariant
that TLC checked first on the runs above; a theorem then combines its initial case, its step
(one lemma or case per action) and its implication. `PROJECT.json` lists the theorems.

### AmqpConsumerProofs

- `TypeCorrect`. `TypeOK` alone is not inductive: `Start` starts the workers, which is
  sound only because a process that is down holds nothing (`DownIsEmpty`).
- `CopiesCorrect` (`OneLiveCopy`): the messages of the broker are those of three places of
  the process, and no message is in two of them. Inductive with the types (`CopyInv`).
- `LossOnlyByRefusal` (`NoUnrefusedLoss`), if `FaultKinds` has no shutdown: a worker in
  `refused` holds a message of `refused`. The hypothesis is necessary: see `consumer_cancel`.
- `ImplementsDelivery`: `Spec => Contract!Spec`, shutdowns included, with `queued <- ready`
  and `leased <- unacked`. `Deliver` is a `Lease`, `Succeed` a `Handle`; the steps that
  settle messages or bring them back are a `Return`, for which one needs `CopyInv` (what
  is settled is leased) and that a worker in `succeeded` holds a handled message.
- `WakeupsKept` (`NoLostWakeup`): inductive with the types (`WakeInv`). The case to argue
  about is a worker out of its `sleep(0)` that takes the delivery another one was woken for.
- `PoolBounded` (`PoolBound`), if the channel is not lost and the prefetch count is three
  or more. `PoolInv` says that all deliveries are live, so that those in the process are
  inside the window, and that the workers out of `get()` and the deliveries of the inner
  queue are together no more than the window (`CrowdBound`): the queue is then only almost
  full when few workers are idle. Both hypotheses are necessary: see the bounds above.

### DocumentChangesProofs

- `TypeCorrect`: with `Places`, where each worker may be and with how many changes.
- `AcknowledgedAreDecided` (`AckedIsDecided`), if the channel is not lost: a message is in
  one place (`OnePlace`), and only acknowledged by a handler whose change is decided. After
  a loss of the channel two handlers can have the same message.
- `RecomputationKeepsEdits` (`EditsSurvive`), if the replay itself does not fail: an edit
  that was applied is in the document, or some recomputation has still to read the changes,
  or to apply one about the same element (`Coming`), or one was `interrupted`. The flag falls
  only when a recomputation reads all the changes stored, which is what makes the others
  `Coming` again.
- `ReplayFollowsTimestamps` (`ReplayIsFaithful`): what an undisturbed recomputation has
  still to apply are the last of the stored changes, and each field is as the last of the
  others left it (`Faithful`).

### AgentRegistryProofs

- `TypeCorrect` is also that links are between nodes that exist (`GraphInv`).
- `LossesHaveAReason` (`LossHasAReason`): a creation that turned into an update met a node of an
  identifier, and nodes are never deleted; a message the registry did not answer has employers.
- `CreationsAnnouncedOnce` (`CreatedOnce`): an announcement that was not made is owed by a
  worker (`Owing`), and a creation by one worker only. This covers a creation that conflicts
  and becomes an update.
- `HarvestsFollowIdentifiers` (`HarvestFollowsIdentifiers`): what a worker read of a person
  is still so, unless it is `overtaken`; then an update that sees no change changes nothing,
  and any other owes a request, or has built one that was right when it was built and that
  the next change makes out of date (`requested` is emptied).
- `DirectoryStored` (`DirectoryIsStored`): the copy an authentication is to write has the
  identifiers of the directory, but for the type it authenticates (`UpToDate`), and the rows an
  update compares with are those of the person, unless the worker is `overtaken`. The person
  it then writes is `contested` until the next message about it that no other worker overtakes.
  That only messages about people list employers is assumed in `RegistryAssumption`.

### SourceRecordsProofs

The module proves about `SourceRecords` together with the calls of `Concepts` and
`Journals`, whose variables it shares.

- `TypeCorrect`: a call is about a node that exists from the place where it was found
  (`ConceptInv`, `JournalInv`), and the record a worker builds refers to such nodes.
- `LabelsPerLanguage` (`OneLabelPerLanguage`), from the assumption that a subject has one
  label per language: the copy a call is to write is what it found, with the labels of its
  subject in place of those of their languages (`Completed`).
- `ChecksHaveAJournal` (`CheckedHaveAJournal`), if the portal answers the same for all the ISSNs
  of a journal (`WholeGroups`): see the end of the section on the module.
- `GivenUpHaveARecord` (`DroppedHaveARecord`): an update that was a creation, or that looked
  for its record, found it; or it waited for the portal (`unanswered`).
- `SignalFollowsChange` (`ToldAfterLastChange`): a change not signalled belongs to a worker that
  will signal it, or to a message that comes back and cannot be given up, or is `silenced`.
- `RecordsFollowMessages` (`RecordFollowsItsMessage`): until a worker stores its record, it
  has found all that its message refers to but for the subjects left (`Gathered`); then the
  record has what the message says, but for the contributions still to create (`Follows`).

### DocumentClustersProofs

The clusters that links lead to are least closed sets (`Reached`), so that they can be
reasoned about without induction.

- `TypeCorrect`: with the types of what each worker has read.
- `MetadataFresh` (`MetadataAreFresh`), for any number of workers: as long as no call has
  failed, a document that is not `overtaken` and whose flag or metadata are not those of its
  records is to be signalled (`WillRecompute`, `Fresh`).
- With one worker and no failed call (`OneWorker`, `MaxErrors = 0`): `LinksFollow`
  (`LinksFollowIdentifiers`), a link that is missing or without reason is about a record
  that waits to be treated; `ClustersRecorded` (`DocumentsAreClusters`), a record that is not in
  the one document of its cluster is in a cluster with a record that waits, and while
  documents are written those not yet written are as they were read; `MergedAreFound`
  (`EmptiedHaveAnHeir`), documents are not merged into each other in circles (`Fruitful`: a
  set of documents no heir leads out of has one with records); that a worker alone reads what it
  then writes is `AloneInv`. Both hypotheses
  are necessary: see `clusters_failure` and what is known not to hold.

### ContributionsProofs

- `TypeCorrect`, `StatesConsistent` (`StatesAreConsistent`) and `RootsUnique`
  (`OneRootPerState`) come from one invariant (`TypeInv`, with `OrgInv` for the calls of
  `AuthorityOrganizations`): every state in memory is as sound as those written, so that
  what a worker writes is consistent even if others wrote since it read. For the roots
  (`RootsInv`): a state that is not `contested` has at most one link, and a worker about to
  attach it has read it (`HasReadLinks`), as nobody else has attached it since. The split of a
  cluster is a recursive function: that its definition has a solution, and that each split
  of it is sound, is proved by the least counterexample (`WFMin` on the naturals). It needs
  finitely many source organizations.
- `GhostsFollowRaces` (`GhostsComeFromRaces`): source people recorded by one external person are
  equivalent to each other, whatever other workers do, as equivalences only grow
  (`RecordersOK`, `HandOf`); a worker that met no other matched people that record nothing
  equivalent to the clusters it still has to match (`Distinct`), so it deletes none of them.
  It rests on the relation of `Equivalents` being an equivalence, proved from its definition
  as a least closed set.

### ContributorsProofs

- `ContributorsFollow` (`ContributorsFollowRecords`): of a document that nothing disturbed, one
  worker at most is at work on it, and two of its source people that were equivalent when they
  were matched are both still to match, or both in the cluster being matched, or recorded in
  common by a person that the worker linked (`Matching`); those people and those that
  already have a contribution are `Chosen`, and when the worker has ended, its contributors
  are exactly them (`Followed`). A step about one document keeps this for another
  (`Bystander`): it deletes no person the other needs, or marks it as disturbed
  (`FollowTakes`), and it relates source people of the other, or marks it as regrouped
  (`KeptApart`). The last was missing at first: this case of the proof could not be closed,
  and TLC confirmed on a larger instance that the property was false without it.

### AffiliationsProofs

Both theorems suppose that an organization that has identifiers has one that can be used, of
a type with one value (`HasUsable`); the instance of `contributions` satisfies it. It is
necessary: without it an organization with identifiers gets a state that has none, found by
name. The clusters of organizations are least closed sets; what is about a cluster stays so
when records come and clusters merge (`AboutGrows`).

- `RootsGather`: a root gathers states of one cluster. The identifiers of a state that has
  some are those of one cluster (`About`), however many workers complete it from stale copies;
  what a call has in hand, and the root it read, created or elected before others attached
  states to it, are about the cluster it was called for (`CallAbout`, with `OrgAbout` for the
  graph). The split of a cluster keeps to it: by the least counterexample again.
- `AffiliationsStated` (`AffiliationsAreStated`), on top of `FollowInv`. What a worker has
  found for its cluster covers the organizations it has sought, and each of the others is
  still to call, or in the call under way (`Seeking`, `SeekInv`). Then, of a document that
  nothing disturbed, the source people of each cluster (`Group`) have their affiliations
  declared for each person that records one of them and that the worker has still to
  treat (`Entry`, `Declaring`), and stated for each that it has treated (`DocumentStated`,
  `StatedInv`). The property once excluded the states written from a stale copy; the
  proof did not need it, so that it was removed from the property, with the history variable
  that recorded it, and TLC checked the stronger property first.

### Only model-checked

Every invariant and the refinement that the passing runs check are proved, some under the
hypotheses named above. What is left to TLC:

- All liveness properties (`HealthySettled`, `ShutdownCompletes`, `EveryMessageLeaves`,
  `RecomputationEnds`, `UpdateEnds`, `MessagesEnd`, `RecomputationsEnd`): liveness under
  fairness, and `ENABLED`, are out of reach of the prover.
- Induction over data is only possible as an argument about a least counterexample, and
  `RECURSIVE` operators not at all; no module declares one.

## 5. Plan

Done: `AmqpConsumer` with its contract, `DocumentChanges`, `DocumentClusters`,
`AgentRegistry`, `SourceRecords` with `Concepts` and `Journals`, `Contributions` with
`AuthorityOrganizations`, and the theorems of section 4.

Models left: the merge of the metadata of several sources and the open access colours as pure
operators; the replay of the changes of
a merged document, with `DocumentChanges` and `DocumentClusters` composed; the roles of
contributions.

Not modelled, and not planned: HTTP lookups, the search index, harvesting events, routes and
command line (no state of their own), indexes and the imported hierarchy of domains,
validation of models, logging and formats.
