# A TLA+ model of the remote.network node

The repository implements a peer-to-peer compute node in Go: peers find each
other through a DHT, connect over QUIC directly or through relays, offer
services (data, Docker, standalone executables), order them from each other as
the jobs of a workflow, pay for them through an x402 facilitator that keeps the
money in escrow, send each other invoices, and chat. This directory holds TLA+
modules for the parts of the node where goroutines, messages and restarts meet
on shared state, TLC configurations for small instances of them, and TLAPS
proofs, for every instance, of every safety property the runs check.

Source paths below are relative to `src/internal/`. `PROJECT.json` has the
definition-to-line map, the hazards, the mutants and the findings.

## 1. The system

| component | state | operations | correct means |
|---|---|---|---|
| job manager (`core/job_manager.go`, `database/job_executions.go`, `workers/worker_pool.go`) | `job_executions.status`, `start_received`, interface rows, `runningJobs`, worker channel, `statusUpdateChan` | HandleJobRequest, HandleJobStart, HandleJobCancel, processJobQueue, checkIdleJobsForReadiness, executeJob, processStatusUpdate | a job runs only when it may, on one worker; it ends; it is paid for by what it did |
| escrow manager (`payment/escrow.go`, `payment/x402_client.go`) | `job_payments.status` | CreateEscrow, SettleEscrow, RefundEscrow | a row never claims a movement that did not happen |
| workflow manager (`core/workflow_manager.go`, `database/workflows.go`) | `workflow_executions`, `workflow_jobs`, `activeWorkflows` | ExecuteWorkflow, three phases of executeWorkflowJobs, HandleJobStatusUpdate, checkWorkflowCompletion, recovery | rows say what executors reported; the verdict fits the rows; executions are closed |
| job messages (`p2p/job_handler.go`, `p2p/quic.go`, `p2p/relay.go`) | pending answers, retries | SendJobRequest, SendJobStart, status requests, cancels, capability queries, over a connection or a relay | a request ends; a retried order makes one job; an answer is one's own |
| data worker (`workers/data_worker.go`, `database/data_transfers.go`) | incoming transfers, received chunks, files, rows of both nodes | request, chunk, acknowledgement, checkpoint, resume, finalise, clean up | the input of a job appears at once, whole, and stays |
| file upload (`api/websocket/file_upload_handler.go`, the browser's composable) | upload sessions, temporary files | start, chunk, pause, resume, cancel, package | what is stored is what the user chose |
| service search (`api/websocket/service_search_handler.go`) | targets, results | collect, ask, fall back to relays, answer in parts | each peer once, nothing after the end |
| invoices (`payment/invoice_manager.go`, `p2p/invoice_*.go`) | `payment_invoices` at payer and payee | create, send, accept, reject, settle, notify, expire, delete | both ends and the ledger agree; paid at most once |
| relay service (`p2p/relay.go`, `database/relay.go`) | sessions, receive streams, stored messages, usage | connect, keepalive, disconnect, forward, store, deliver | what was confirmed arrives or is kept |
| relay client (`p2p/relay_manager.go`, `relay_selector.go`) | current relay, listeners, keepalive loops | connect, publish, lose, fail over, re-evaluate | a dead relay is left |
| connections (`p2p/quic.go`, `identity_exchange.go`) | connections by address, addresses by peer | dial, accept, handshake, clean up | the address of a peer leads to that peer |
| local store (`p2p/local_store_forward.go`, `database/local_store.go`) | stored messages, attempts, usage | store, deliver, give up, expire | an accepted message is kept until it is sent |
| chat and ratchet (`chat/`, `p2p/chat_*.go`, `crypto/`) | ratchets in memory and on disk, skipped keys, sender keys, queues | exchange keys, encrypt, decrypt, distribute, leave | both ends derive the same keys, and keep them until used |
| metadata (`p2p/metadata_*.go`, `dht_bep44.go`, `network_state_monitor.go`, `peer_validator.go`) | current metadata, puts under way, items of DHT nodes, known peers | publish, update, republish, fetch, retry, validate | the DHT ends up with the truth; look-ups end |
| hole punching, NAT detection | — | — | never runs, see section 6 |
| wallets, key store, services, rest of API, UI, command line | files, containers, HTTP requests | — | not a matter of interleavings |

How the parts interact: a workflow manager inserts one `workflow_jobs` row per
job, orders each job from its executor (a direct call for its own, a message
for others), and sends a start command when all are ordered. The executor's job
manager checks the payment with the escrow manager, creates the job, waits for
the start and the inputs, dispatches the job to its worker pool, and sends
status updates back. The end of a run settles or refunds the escrow. The data
worker moves outputs to the node of the next job, whose readiness checker then
finds its inputs. Messages go over a connection, or through the relay that the
metadata of the other peer name, or wait in a store.

What makes it hard:

* **Goroutines over one table.** Handlers, tickers and workers write
  a status after a decision made on an older read, with no transaction and
  no condition in the UPDATE. Invoices, rows of workflows, jobs, payments and
  upload sessions all have this shape.
* **Snapshots.** The queue works through a list of READY jobs while Submit
  blocks; a round of delivery through a list of rows; a put carries metadata
  that have changed since.
* **Messages.** Updates are lost, repeated and reordered; requests are repeated
  through a relay although the first copy was executed; keys and group messages
  overtake the invitation.
* **Failures in the middle.** The facilitator may have moved the money when its
  answer is lost; a node may die between any two writes, and start-up repairs
  little.
* **Bounds.** The worker channel blocks its sender when it is full, the status
  channel drops; relay and local store have quotas counted apart from their
  rows.

## 2. Modules

| module | models |
|---|---|
| `Escrow` | the three calls of the escrow manager, step by step, and the external facilitator |
| `JobExecution` (extends `Escrow`) | the executor: job manager, worker pool, job and payment tables |
| `WorkflowManager` | the orchestrator: one execution of a workflow |
| `DataTransfer` | one file from node to node |
| `FileDelivery` | what a transfer promises: the abstract specification of `DataTransfer` |
| `FileUpload` | files from the browser to the node |
| `Files` (extends `DataTransfer`, `FileUpload`) | both |
| `Invoice` (extends `Escrow`) | invoices at payer and payee |
| `RelayService` | a relay with its sessions and its store |
| `RelayClient` (extends `RelayService`) | the relay manager of a client, with that relay |
| `PeerRequests` | requests that wait for an answer, over a connection or a relay |
| `ServiceSearch` | a search among all peers |
| `PeerTraffic` (extends the last three) | the three of them |
| `Connections` | connections of a node, and who is at the other end |
| `LocalStore` (extends `Connections`) | sending over them, and the store for what cannot be sent |
| `ChatRatchet`, `GroupChat`, `Chat` | conversations of two, of groups, and the choice between them |
| `MetadataPublisher`, `MetadataQuery`, `Metadata` | publishing, shared look-ups, and a node that reads what another publishes |
| `MC*` | small constants for TLC |
| `JobExecution_proofs`, `WorkflowManager_proofs`, `Invoice_proofs`, `Files_proofs`, `PeerTraffic_proofs`, `LocalStore_proofs`, `Chat_proofs`, `Metadata_proofs` | the theorems about the module of that name and those it extends |

Components that share state are composed for good: the jobs and the invoices
with the escrow manager they call, the client with its relay, the store with
the connections it sends over, the reader of metadata with their publisher.
`Files`, `PeerTraffic`, `Metadata` and `Chat` also put parts side by side that
share no state at the granularity of the model; there a behaviour is about one
part, chosen by the initial state (`part`, `conversationType`), because the
product of two independent parts has no behaviour of interest that its factors
lack.

### Escrow

`payStatus` is the row, `ledger` what the facilitator has really done, `callPc`
and `callPay` where a calling goroutine is. A settlement or refund is three
steps: read the row and check its status, call the facilitator, write the row.
The call may be executed and acknowledged, executed with the answer lost, or not
executed; the retries of the HTTP client are inside the one step, since they
only decide which of the three it is.

### JobExecution

Each goroutine of the code is a process, with a program counter where it can be
interrupted between two accesses of shared state:

| process | code | actions |
|---|---|---|
| request handler, per job | HandleJobRequest, SubmitJobWithOptions | VerifyPayment, SubmitJob, LinkPayment |
| start handler, per job and delivery | HandleJobStart, CreateJobInterfaces | HandleJobStart, CreateJobInterfaces, MarkJobStartReceived, DecideStartStatus, WriteStartStatus |
| cancel handler | HandleJobCancel, CancelJob | CancelJob, CancelForget |
| readiness checker | checkIdleJobsForReadiness | StartCheck, CheckIdleJob, WriteReady |
| queue processor | processJobQueue, Submit | GetReadyJobs, SelectJob, SubmitTask, MarkRunning |
| worker | executeJob and its deferred function | TakeTask, BeginRun, BeginFails, ReadRow, WriteRow, ServiceSucceeds, ServiceFails, TransferDocker, TransferStandalone, Panic, DeferForget, SettleOrRefund, PayStep, PayDone, Recover |
| status worker | processStatusUpdate | ProcessStatusUpdate |
| environment | data transfer, other peers, the machine | InputsArrive, DestinationsAccept, Restart |

Abstractions, and why they lose nothing the properties look at:

* An SQLite statement is atomic and succeeds, except the write of RUNNING, whose
  failure ends a run early (`BeginFails`).
* The inputs of a job are one flag: every source directory has content, which is
  what checkInputsReady sees. Only jobs with the constraint INPUTS_READY have it
  looked at. That content may be a file still being transferred is in
  `DataTransfer` (finding ReadyMeansDelivered).
* The outputs of a job are `kept`, `sent` or `lost`, and describe its latest
  transfer; a job without outputs counts as `sent`.
* A snapshot is a set: its jobs are taken in any order, which includes the
  order by creation the code uses.
* The contents of status updates matter to the orchestrator only; here the
  channel is a count. `WorkflowManager` has the contents.
* `completed` and `failed` are history: which jobs a run has completed or failed.
* `WorkflowJobID` may be the id of a row of this node's own table although the
  job was ordered elsewhere, as `UpdateWorkflowJobStatus` does not tell them
  apart.

### WorkflowManager

`driverPc` and `next` are the loops of ExecuteWorkflow and executeWorkflowJobs,
`tickPc` the updater between its read, its write and the removal from
`activeWorkflows`, `handPc` the handlers of updates between the SELECT and the
UPDATE of UpdateWorkflowJobStatus. `reported[j]` is the set of what the executor
of `j` has said so far; a handler may take any element of it at any time, which
is loss, duplication and reordering at once.

### DataTransfer, FileDelivery, FileUpload

The sender is transferDataToPeer (`sendPc`, `sendNext`) and, beside it, a
resume (`resumePc`); the receiver handles every chunk in a goroutine of its own
(`handPc`), looks the transfer up, opens a nameless one under `/tmp` when it is
not there, writes the chunk under the transfer's mutex, releases it for the
acknowledgement and finalises. A chunk on the wire is a chunk of the encrypted
or of the original file, which is all a hash and a decryption tell apart. The
refinement mapping reads the abstract archive off the `.dat` file in the job's
input directory and the abstract output off what was extracted beside it.

In `FileUpload` the browser and the server each are one event loop over a
WebSocket; the step of the server is split where it writes the file, the row
and the answer. The server appends what it gets. The history variable
`disturbed` marks the three cases in which that goes wrong (a resume that meets
a message under way, a command that meets a completed session, a crash between
a chunk and its row), and the properties are about all others.

### Invoice

Each API call at the payer is a goroutine (`pc`, `inv`, `pay`) that reads the
row, signs, creates an escrow, writes the row, answers, and settles over
`Escrow`. Messages are counted per kind and invoice: lost, sent twice, or
delivered although the sender was told they failed.

### RelayService, RelayClient

A session has its own connection (`link`: up, silent, down) and stream. A
forwarded message is a goroutine from the look-up of the session through the
write to the stream to the row of the store and its usage; a delivery of stored
messages runs through the same steps. `registered` is keyed by peer id when it
is set and by node id when it is removed, as in the code, and so never removed;
`stuck` is the mutex that DisconnectSession takes twice. At the client,
ConnectToRelay runs in whatever goroutine wants it (`Threads`), its steps
protected one by one and not as a whole; a keepalive loop reads the current
connection anew every time.

### PeerRequests, ServiceSearch

A copy of a request is the request and the way it takes. The relay notes one
stream for each pair of peers; `noted` is that entry. `overlap` is history: the
copies of two requests were at the relay together. A search collects targets
from connections, known peers and metadata; a target keeps the peer that really
answers, since two peers may share a public address.

### Connections, LocalStore

`connections` is keyed by address and `peerConnections` by peer; a connection's
goroutine cleans both up by address. A thread that connects is split at every
release of the mutex. A stored message is a row with a status and attempts; a
round of delivery works from a snapshot of rows and sends with the same
SendMessageToPeer, which stores the message again when the peer is gone.

### ChatRatchet, GroupChat

Keys are symbolic: a key pair is a number, a root key the sequence of the
Diffie-Hellman pairs it came from, a message key a chain and a position. The
ratchet in memory and the one on disk are kept apart; a crash forgets the
first. A conversation has one `Starter`: its id is a UUID that the peer makes
whose user opens it, and the other peer learns it from the key exchange. Two
users who open one at once have two conversations, with a ratchet each. A sender key of a group is the position of its chain at each member.

### MetadataPublisher, MetadataQuery, Metadata

The metadata are an address and versions of relay and services. A put visits
the store nodes and then the bootstrap nodes until enough have taken it; the
goroutines of relay changes, the calls that hold the mutex and the ticker of
Republish put concurrently. Sequence numbers are left out on purpose: a put asks
a node for its number and takes a higher one, and a node stores whatever comes,
so the last put wins. `MetadataQuery` is the single flight of QueryMetadata and
the retry scheduler.

## 3. Runs

All runs pass. TLC needs between seconds and three minutes for each.

| run | instance | shows |
|---|---|---|
| `job_safety` | one paid Docker job with inputs, one cancel, two workers | eligibility, exclusion, payments, rows behind the ledger, transfer before payment |
| `job_crash` | one paid data job, two workers, one crash, one failing write | payments across the restart |
| `job_finish` | one standalone job, inputs and destinations late, start delivered twice | StartedJobsFinish |
| `wf_safety` | three jobs, two concurrent handlers, one crash | RowsTellTheTruth, VerdictIsRight |
| `wf_close` | two jobs, one handler, one crash | EndedRowsStay, EndedWorkflowsClose |
| `transfer` | two chunks, two handlers, one fault; or two files of two chunks, one command, one fault | Delivery (the refinement of `FileDelivery`), TransfersAreOwned, EntriesLeave, UploadedIsWhole, FilesArrive |
| `invoice` | an invoice and its resend, two goroutines, two payments, one fault | PaymentsMatchInvoices, AcceptedInvoicesSettle |
| `relay_client` | two threads, two sessions, one fault; or a search with two peers | LossIsHandled, SearchIsSound |
| `relay_store` | one message, two sessions, a store of one place, one fault; or two requests of every mix of kinds that matters, one fault | ConfirmedIsKept, StoredIsDelivered, OrdersAreSound, RequestsEnd |
| `chat` | three messages both ways, two attempts at an exchange, two faults; or a group of three, one fault | InStepMeansSameChains, RatchetKeysFit, KeysAreNotAhead |
| `connections` | one peer, three connections, one message, two rounds of delivery, one more caller, one fault | AddressBookIsSound, AcceptedIsKept, StoredReachesTheConnected |
| `metadata` | a store and a bootstrap node, two changes, one move, one fault; or two callers | PublishedIsTrue, LookupsEnd |

What holds is worth a word, because none of it is protected by a transaction:

* The dispatch is safe although the queue enters a job in `runningJobs` only
  after a worker may have begun it: until that entry is made the queue itself is
  busy with the job. Only a cancel, which removes the entry under the worker,
  lets two workers have one job. A job can be executed twice in a row (a stale
  snapshot), and payments still follow an outcome the job really had.
* A transfer is right although chunks of a second, nameless transfer, of a
  resume from the wrong file, or of a truncated one may arrive: the hash is
  compared before anything is extracted, and the file of a job belongs to one
  live entry.
* A paid order makes at most one job although its copies take two ways, because
  the nonce of the payment is refused the second time. The caller may be told
  that the order failed all the same.
* A ratchet survives lost answers and exchanges accepted twice, because two
  ratchets that name each other's keys were derived from the same pairs.
* Puts overtake each other and the DHT may hold an old item for a while; the
  ticker makes it good.

**Findings.** Where the code disagrees with its own documents or comments the
property the text states is a definition of the module, and TLC violates it on
the instance `PROJECT.json` names:

| property | text | what happens |
|---|---|---|
| NeverSettledAndRefunded (`JobExecution`) | `docs/X402_PAYMENT_PROTOCOL.md`: settled and refunded are alternatives | the answer of a settlement is lost, the job runs again from an older snapshot and fails, the refund passes the check of the row |
| CompletedMeansTransferred (`JobExecution`) | `docs/workflow-creation-and-execution.md`: a COMPLETED job has transferred its outputs | a failed transfer is only logged |
| CompletedMeansAllJobs (`WorkflowManager`) | comment in checkWorkflowCompletion: all jobs are counted | the updater ticks before the first INSERT and counts zero of zero |
| EndedRowsStay with two handlers (`WorkflowManager`) | comment in UpdateWorkflowJobStatus: terminal states cannot be overwritten | SELECT and UPDATE of two handlers interleave |
| ReadyMeansDelivered (`DataTransfer`) | comment in checkInputsReady: prevents starting while data is being transferred | pending transfers are sought with a direction no row has, and the half-written file counts as input |
| AnswersAreOwn (`PeerRequests`) | comment on `pendingRequests`: the key has a timestamp | it has none; an answer goes to the caller that came last |

Three more (sequence numbers of the DHT, resumed uploads, repeated key
exchanges) are recorded there without a property.

**Bounds.** The properties are about one job, transfer, invoice, message,
session or conversation and the goroutines around it; one fault (a crash, a
lost or repeated message, a dead connection, an expired wait) at any point is
what it takes for a second attempt to meet the first, and the second worker,
handler, thread, caller or round is what it takes for a race. In
`WorkflowManager` three jobs separate one that completed, one that failed and
one still pending. Two sessions are a connection and its successor, two rows a
stored message and the copy a failed delivery stores, three connections two of
one peer and their successor. Two messages one way and one the other make the
ratchet step and skip. The proofs below remove the bounds for all safety
properties.
Deadlock is not checked: with every bounded event spent, a node has nothing left
to do.

**Fairness.** Throughout: goroutines that have started are scheduled, tickers
fire, and nothing is assumed of faults, users or answers.

* `JobExecution`: weak fairness of each start handler, of the queue processor,
  of the readiness checker and of each worker. A service is assumed to end.
  Nothing is assumed of messages, inputs, destinations, the facilitator or the
  status worker.
* `WorkflowManager`: the updater's ticker and the handlers that have begun.
* `Files`: the sender's loop, the resume, the receiver's handlers and its
  monitor; for an upload the event loops of both ends, and that the user does
  not leave it paused. Messages that are not lost (a fault) are handled.
* `Invoice`: the goroutines of calls; a notification that is not lost.
* `PeerTraffic`: the threads of the relay manager, QUIC's idle timeout, the
  noticing of a closed stream or failed keepalive, deliveries; the goroutines of
  requests; the peer and the relay that handle what arrives; the handler of a
  search.
* `LocalStore`: rounds of delivery, the ticker that starts them, connections and
  callers.
* `Metadata`: publisher, monitor, ticker, puts, validator; the goroutines of
  look-ups.

Every property of every run has a mutant of the code that breaks it.

## 4. Proofs

Every invariant, the action properties on rows that have ended and the
refinement of `FileDelivery` are theorems: they hold for every number of jobs,
peers, messages, goroutines, chunks, retries and faults.

| module | theorem | states | rests on |
|---|---|---|---|
| `JobExecution_proofs` | TypeCorrect | TypeOK | `TypeInv`: whoever is busy has a job or payment |
| | OnlyEligibleJobsRun | RunsOnlyWhenEligible | `EligibleInv`: every place on the way from READY to a worker (status, start handler, both snapshots, the dispatcher, the channel, the worker) holds eligible jobs only |
| | PaymentsAreDue, RowsNeverAhead | PaymentsFollowOutcomes, RowsLagLedger | `PayInv`: a terminal status has a cause, a call inside the escrow manager keeps the cause it was made for, a call about to write the row has moved the money |
| | OneWorkerPerJob | AtMostOneWorkerPerJob | `ExclusiveInv`: a job nobody has cancelled is in one place of the pool at most, and guarded there by `runningJobs` or by the dispatcher that is about to enter it |
| | TransferBeforePay | DockerPaidAfterTransfer | `TransferInv`: a completed Docker job has been through its transfer |
| `WorkflowManager_proofs` | TypeCorrect | TypeOK | `TypeInv` |
| | RowsAreTrue | RowsTellTheTruth | `TruthInv`: what is being handled was reported |
| | VerdictsAreRight | VerdictIsRight | `VerdictInv`: no row has ended before all rows exist, so an updater that has a verdict has seen all of them; reports are not taken back |
| | LocalRowsStay | the row of a job of this node never changes once it has ended | `KeepInv`: updates of such a job do not overlap, so what a handler has read of the row is still so when it writes |
| | SerialRowsStay | EndedRowsStay, with one handler | `KeepInv` |
| `Invoice_proofs` | TypeCorrect | TypeOK | `TypeInv` |
| | SettledIsPaid | a row that is settled, on either side, has a payment that the facilitator has executed | `PaidInv`: whoever is about to say so, goroutine or message, holds a paid invoice |
| | SerialPaymentsMatch | PaymentsMatchInvoices, with `Serial` | `OnceInv`: until a call has written its decision the row is pending; a row that was accepted keeps its payment, the only one that reaches the facilitator |
| `LocalStore_proofs` | TypeCorrect | TypeOK | `CountInv`: attempts pass their limit only by workers that read the row before it was reached, once each |
| | AddressesAreSound | AddressBookIsSound | `ConnInv`: an address stands for one peer for ever, an incoming one is used once, whoever is about to enter a connection knows its address |
| | MessagesAreKept | AcceptedIsKept | `StoreInv`, `KeepInv`: a message that was accepted was written or has a row that no worker is about to mark as delivered |
| `PeerTraffic_proofs` | TrafficTypeCorrect | TrafficTypeOK | the three invariants below |
| | OrdersSound | OrdersAreSound | `RequestInv`: jobs and copies still to come are at most three together, a payment has made one job at most; without an overlap all that is under way through the relay is of one request |
| | ConfirmedKept | ConfirmedIsKept | `RelayInv`: every message somebody will confirm is received, gone with its session, or has as many rows as deliveries may take away; `UsageInv`, `DoneInv` for the counts |
| | SearchSound | SearchIsSound | `SearchInv`: targets have names of their own, and what was sent came from a target that is done |
| `Chat_proofs` | TypeCorrect | TypeOK | all of the following |
| | KeysNotAhead | KeysAreNotAhead | `GroupInvariant`: nobody has a key before it was handed out, numbers on the wire, in queues and in tables are below the owner's |
| | KeysFit | RatchetKeysFit | `RatchetInvariant`: of what a peer has sent it knows the chain and the position; a key that is used up belongs to a chain the sender has left |
| | InStepHolds | InStepMeansSameChains | `ExchangeInvariant`: the answers under way and the ratchets all come from the one key pair the starter offers now |
| `Files_proofs` | TransfersOwned | TransfersAreOwned | `TransferInvariant`: at most one open transfer has the entry, and one handler finishes it |
| | Delivers | Delivery: `DataTransfer` implements `FileDelivery` | `TransferInvariant`: the archive in the job's directory is what the entry's transfer has received; every step maps to a step or a stutter |
| | UploadedWhole | UploadedIsWhole | `UploadInvariant`: undisturbed, one of browser, readers, either queue, server and packager holds the right to the next chunk, and the file has all chunks before it |
| | FilesTypeCorrect | FilesTypeOK | both |
| `Metadata_proofs` | TypeCorrect | TypeOK | `MutexHolds`: the mutex is held exactly while its put is under way; `QueryInvariant`: one caller runs the query while others wait |
| | PublishedUnderLock | the value put under the mutex is the metadata of now | `MutexHolds`, and that nobody is told of an address before the start is over |

**The argument.** Each property speaks of one end of a chain: a worker's job is
eligible because the channel's was, because the dispatcher's was, because the
snapshot's was, and so on back to the only writes of READY; an invoice is
settled because a message said so, because a goroutine had been told by the
facilitator. The inductive invariants name every link. The second kind of
strengthening is for snapshots: what a goroutine has read earlier is still true
in some weaker sense (`todo` of a delivery round, `handled` of an update, the
value of a put), and the invariant says in which. The third kind is counting:
usage, attempts and jobs are bounded by a sum in which every goroutine that is
still to change them has its share.

A step lemma has one step per action of `Next`; frame lemmas cover the actions
that leave the invariant alone. Where a part has many actions over few tables
(`Files`, `Chat`, `PeerTraffic`) there is a lemma per action and a lemma per
table.

**Assumptions.** Only the named ASSUMEs of the modules, which TLC evaluates in
every run: constants that stand for nothing are not among the things, numbers
are natural numbers, limits that count attempts are positive, sets of goroutines
and rows are finite, an outgoing address belongs to one peer
(`ConnectionsAssumption`). Two theorems have a hypothesis of their own:

* `SerialRowsStay` has one handler of updates. The code has no such limit, and
  with two TLC finds EndedRowsStay violated (section 3); `LocalRowsStay` is what
  remains true without it.
* `SerialPaymentsMatch` has `Serial`: the payer's user waits for a call to
  return before the next. The code does not enforce it: AcceptInvoice checks the
  row and writes it in two statements. `SettledIsPaid` is what remains true
  without it.

UploadedIsWhole is about the uploads that met none of the three disturbances
of section 2; what happens in those is a finding. OrdersAreSound says of the
answers that they are one's own only while requests have not overlapped at the
relay, and SearchIsSound excepts a connection whose peer was not known.

The inductive invariants were checked by TLC on the instances of the runs before
they were proved.

## 5. Only model-checked

* Liveness: StartedJobsFinish, EndedWorkflowsClose, EntriesLeave, FilesArrive,
  AcceptedInvoicesSettle, LossIsHandled, StoredIsDelivered, RequestsEnd,
  StoredReachesTheConnected, PublishedIsTrue, LookupsEnd. They need fairness and
  with it ENABLED, which the prover does not handle.
* The findings: a counterexample is TLC's to give.

## 6. Not modelled

* In the modelled components: `CancelWorkflow` (it looks at statuses that its
  cached job executions never have, and so changes nothing), status requests for
  local jobs, the legacy path sendJobToRemotePeer, graceful shutdown, failing
  SQLite statements and disks other than those named, traffic metering and the
  payment of relay sessions, read receipts, invitations to existing groups,
  deletion of conversations, the score that ranks relays.
* Hole punching: DirectConnect has no caller, and HandleHolePunchStream reads a
  message that its dispatcher has already consumed (`p2p/quic.go:723-727`).
* For good: cryptographic primitives, key files, wallet formats, Docker and git
  calls, HTTP presentation, DHT routing and the QUIC transport (libraries), the
  command line and the user interface. They are sequential input and output
  around libraries.

## 7. What is next

1. What holds of invoices when calls overlap, stated for each payment and not
   for each invoice.
2. The safety halves of the liveness properties: what a loop strictly decreases
   (attempts, chunks to come, nodes to ask), as action properties.
3. An abstract specification of the stores (a message is accepted, kept,
   delivered or given up) that both the relay's and the local one implement.
4. The payment of relay sessions over `Escrow`.
