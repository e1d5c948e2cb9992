# airlock-gateway-certctl in TLA+

TLA+ modules, TLC configurations and TLAPS proofs for `airlock-gateway-certctl`: a Go
library (`pkg/airlock`) that manages TLS certificates on an Airlock Gateway through its
REST API, and a command line (`cmd/airlock-certctl`) on top of it.

1. [The system](#1-the-system)
2. [Modules](#2-modules)
3. [Runs](#3-runs)
4. [Proofs](#4-proofs)
5. [Not modelled](#5-not-modelled)
6. [Plan](#6-plan)

## 1. The system

| Component | State | Operations | Interacts with |
|---|---|---|---|
| Certificate material (`certificate.go`, end of `managed_certificate.go`) | immutable values: `Certificate`, `Key` (PEM and passphrase), `CertificateBundle` with its checksum | parse and decrypt a key, build and validate a bundle, checksum, to and from JSON attributes | the values every managed call is about |
| Managed lifecycle (`managed_certificate.go`) | `managedMu`, shared by a `Client` and its session clients | `SyncCertificate`, `SyncLeafCertificate`, `SyncKey`, `CreateManagedCertificate`, `GetManagedCertificate`; inside a transaction the same as stages | opens one configuration transaction per call |
| Configuration transaction (`certificate_sync.go`) | `mu`, `changed`, `closed`, a context, a session client | start, stages, `Commit`, `CommitWithOptions`, `Abort`, `finish` | owns one REST session; may be used by several goroutines |
| Session and configuration API (`config.go`) | none in the client; a session and its working copy on the Gateway | version check, create, load active, load, validate, activate with a conflict policy, save, terminate | HTTP |
| Certificate CRUD, relationships (`certificates.go`) | none | create, patch, delete, connect, disconnect | the working copy of the session |
| Transport (`client.go`, `jsonapi.go`) and its settings (`client_config.go`) | a cookie jar per session client (the session), timeout, TLS options | `New` and its options, `doJSON`, `newSessionClient` | HTTP |
| Command line (`main.go`) | one process per command | version check, session, load, the command's requests, `finishConfig`, deferred termination; attribute files from PEM files; search by domain | the library |
| Gateway, Configuration Center (external) | active configuration, saved configurations, sessions, IDs | what the requests ask for; edits of other administrators | all clients |

What is hard here is not local: a change takes several HTTP requests, each of which can fail
before or after it took effect; the active configuration moves while a session works on a
copy; calls of one `Client` share a mutex, calls of different ones share nothing, and the
goroutines of one transaction share its mutex and its session; the session itself is only a
cookie, so that two callers with one cookie jar work in one session; a context can be
cancelled and a process killed at any point; a `PATCH` leaves out empty attributes, so that
what an earlier call wrote stays. `PROJECT.json` lists these hazards, each with its line and
the properties that would catch it going wrong.

What makes each component correct:

- *Material*: a checksum stands for exactly one certificate, key, chain and root; what is
  written can be read back and served.
- *Managed lifecycle*: a call installs its whole change or nothing; success means installed;
  calls of one client do not undo each other; a virtual host that is not the target keeps a
  certificate it can serve; none of them waits forever.
- *Transaction and session*: validated before active; at most one activation; no session is
  left behind; no foreign change is lost unless the policy says so; goroutines that share a
  transaction see it as if they called one after the other.
- *Client*: the session of a transaction is its own, whatever else goes through the `Client`.
- *Command line*: a command is active as a whole or not at all and its exit status and error
  say which;
  `find-domain` lists exactly the certificates that serve a domain.

## 2. Modules

    CertificateMaterial           values, bundles, checksum, attributes
      AttributeFiles              what the command line makes of PEM files
      GatewayConfiguration        configurations, edits, activation, targets, plans
        AtomicRotation            abstract: a managed call is one step
        ManagedLifecycle          transactions and managed calls, on several clients;
                                  mapping to the above
          MCManagedLifecycle      instances
        SequentialTransaction     abstract: a call on a transaction is one step
        SharedTransaction         goroutines on one transaction; mapping to the above
          MCSharedTransaction
        RepeatedSync              (and AttributeFiles) one resource, any sequence of calls
          MCRepeatedSync
    ClientSettings                what New makes of a Config
      SharedClient                goroutines on one Client: jars, sessions, timeouts
        MCSharedClient
    CommandSession                processes of the command line
    CertificateSearch             find-domain
      MCCommandSession            instances of both

The theorems about a module are in a module of their own (section 4).

**CertificateMaterial.** Certificates and keys are values; which key a certificate carries,
who is a CA and who signed whom are constants. A constructor that can return an error is a
set with no element or one. `BundleChecksum` keeps the parts and their order, and SHA-256 is
taken as injective. The key's encryption is *not* one of the parts, as in
`bundleChecksum`. A bundle that is given no type is a server certificate's. `Patched` is the `PATCH` with `omitempty`: an empty passphrase in the
request leaves the stored one. `Redacted` is the `GET`, which never shows a passphrase.

**GatewayConfiguration.** A configuration is a function from IDs to resources or `None`, and
from virtual hosts to IDs. `Plans(cfg, job)` is everything `syncCertificateLocked` decides
from what it reads (up to date, replaceable, built-in, needs a binding), the empty set being
an error; two virtual hosts of one name are an error, too. `Activated` is the Gateway's
answer to an activation for the request options of a policy; a merge is taken to work
resource by resource and binding by binding.

**ManagedLifecycle.** `call[s]` is the client side of a transaction (its step, job, plan,
context, `changed`, `closed`, error); `session[s]` the REST session with its working copy;
`mutex` is `managedMu`; `log` is every configuration that was active. The steps are the
requests in the order of the code:

    Call/Start, Acquire, VerifyGatewayVersion, CreateSession, LoadActiveConfiguration
    (Abandon on failure), Resolve, Write, Bind, Decode, ValidateConfiguration,
    ActivateConfigurationWithOptions, Finish

An action is one request with the local code up to the next one. Several `GET`s of one stage
are one action (`Resolve`): nobody else writes the session's working copy (SharedTransaction
and SharedClient show why), so a read before or after another sees the same. A transaction in
`Owned` is driven by its caller, who may stage, commit and abort in any order, also after an
error (`Stage`, `CommitWithOptions`, `Abort`); the others are managed calls. `Cancel` ends the
caller's context; `finish` then terminates under a context of its own, which is why
`TerminationFails` does not look at `cancelled`. A lost reply to an activation sets `late`:
`GatewayActivates` may carry it out as long as the session is open. A `get` changes nothing: a
managed one ends with its reads, and an owner's transaction stays open after it. `touched` and `cut` are
history variables for the properties.

**AtomicRotation** has no sessions, requests or mutexes: a call looks at the configuration
that is active (`Look`), changes the one that is active in one step (`Apply`), and returns
(`Return`), with success only if it has applied its change or has seen it there. A call that
rejects outdated working copies, the default, applies a plan made for exactly the
configuration it replaces. `ManagedLifecycle` maps the detailed state to it (`Rotation`):
`applied` are the transactions in the log, `seen` the revision a session has loaded.

**SharedTransaction** is one transaction that was started, and the goroutines that use it.
Here `t.mu`, `changed` and `closed` are variables, and requests of goroutines that are not
kept apart by the mutex would interleave. Other sessions are only there as an activation that
is refused. `settled` is a history variable: the transaction as the last goroutine that held
the mutex has left it. **SequentialTransaction** is its specification: no mutex and no
requests, each call one step. The mapping takes the abstract state from `settled`, that is, a
call takes effect when it unlocks the mutex.

**SharedClient** is one `Client` and the goroutines that use it, each of which runs one
session: transactions (`newSessionClient`, a jar of its own) and callers of the low-level
methods (the `Client`'s jar). A request reads the cookie when it is sent (`Send`) and acts on
the session that cookie names when it is answered; a reply to a create stores a cookie. A
configuration is reduced to the set of the workers whose edit it has. A request that is not
answered leaves its worker waiting until the connection breaks or the HTTP client's time is up.
**ClientSettings** is `New` with its options in their order, on the HTTP client it makes or
the caller's own.

**RepeatedSync** is what remains of the managed calls if they run one after the other and
nothing fails: it explores all sequences of calls on one resource with many more bundles,
mixed with updates from attribute files. **AttributeFiles** has `attrs-from-pem`, the reader
of what it writes, and the `PATCH` with omitted, null and empty attributes. The command line
does not check that a pair belongs together, so RepeatedSync also starts calls from resources
that cannot be served. A file with a null chain leaves the stored chain beside a new leaf:
`FilesLeaveServable` says for every update whether the result can be served, with that chain if
it stays.

**CommandSession.** `invocation[s]` is a process with its command, the requests it still has
to send (`todo`) and its error. `replace` learns its requests from its first answer
(`RequestsAfter`); `Finishing` is `finishConfig`. The result is printed after it
(`PrintResult`), and in most commands an error of printing becomes the command's, also when the
change is active. `Kill` may happen at any step. Commands that
only read open a session, too, and are there because they are killed, fail and terminate like
the others. A loaded saved configuration (`--config-id`) has `base = 0`: whether the Gateway
takes it for outdated is not known and both answers are possible.

**CertificateSearch.** A host name is a sequence of labels in the spellings people use, with
or without spaces around it and a dot at its end. `HostnameMatchesPattern` cuts the pattern's
first label off and compares suffixes, as the code does; `StandsFor` says which names a name
stands for without cutting anything. `FindsServing` says that the two agree on a PEM text
with any number of blocks.

## 3. Runs

| Run | Question | Properties |
|---|---|---|
| OneClient | two managed calls of one client, every kind among them, on four virtual hosts; two faults; fairness | `TypeOK`, `AllOrNothing`, `SuccessIsInstalled`, `DefiniteErrors`, `ValidatedBeforeActive`, `SerializedWrites`, `SessionsTerminated`, `NoDefaultEntityError`, `OthersKeepServing`, `AmbiguousNameChangesNothing`, `CallsReturn` |
| TwoClients | two clients and the Configuration Center on one Gateway, policies reject and merge | `NoLostUpdate`, `AllOrNothing`, `SuccessIsInstalled`, `NoMismatchedPair`, `RotatesAtomically` |
| Owned | a transaction driven by its caller, who also reads in it, beside a managed call | `NoLostUpdate`, `AtMostOneActivation`, `SessionsTerminated` |
| SharedTransaction | two goroutines that stage and one that commits, aborts or reads, on one transaction | `TypeOK`, `OneAtATime`, `BoundOnce`, `StagedIsActive`, `CallsAreSequential`, `CallsReturn` |
| SharedClient | two transactions and a low-level caller on one `Client`, made from three kinds of `Config` | `TypeOK`, `Isolation`, `NeverRefused`, `OwnEffects`, `CallsReturn` |
| RepeatedSync | all sequences of calls and file updates on one resource | `StoredIsSound`, `SyncIsIdempotent`, `ChecksumIdentifiesBundle`, `OtherHalfIsKept`, `FilesLeaveServable` |
| Commands | two processes, whose requests and output can fail, and the Configuration Center | `TypeOK`, `EveryChangeIsWhole`, `ExitStatusTellsActivation`, `SessionsTerminated` |

The modules state each property in words. `PROJECT.json` names a mutant for every one: a
plausible bug of one mapped definition (the operators marked *Mutant*) that makes the run fail.
Commands also evaluates the assumption `SearchOfThese` of `MCCommandSession`: what
CertificateSearch finds, on some hundred PEM texts and domains.

**Bounds.** Two transactions are enough for each pairwise hazard (an activation between
another's load and activation, a waiter on the mutex). `MaxFaults = 2` gives the two-step
failures (a lost activation *and* a failed termination; a cancellation *and* a failure after
it); TwoClients and SharedClient, whose subject is the interleaving, have one. `MaxRevisions`
only bounds the Configuration Center: it stops when the log has that length, so that with 3 it
activates twice before or between the calls' own activations; with 1, it never does.
`MaxStages = 2` is the smallest number for "a stage failed and a later one succeeded". Five
resource IDs are one built-in certificate, one bound resource and room for everything the
calls can create. OneClient has four virtual hosts so that the built-in certificate and the
own resource are both shared by two of them, and two of them share a name. SharedTransaction
has two staging goroutines, which can meet on one virtual host without a certificate, and one
that closes the transaction before, between or after them; three are also what starvation at
a mutex takes. SharedClient has one session for each worker, a `Config` without an HTTP client,
one with a client that has no jar, and one with a transport that takes no TLS options.
RepeatedSync has two leaves with one key each, chains of up to two certificates, three root
settings and three encodings of a key under two passphrases. Its steps depend on the stored
resource only, and TLC visits every reachable one.

**Fairness.** In ManagedLifecycle and SharedTransaction, weak fairness on each call's own step
and strong fairness on `Acquire` and `Enter`. A request ends, because the HTTP client has a
deadline (30 s, or the positive `WithTimeout`), and the local code has no loops. A mutex of Go
hands over to a waiter that has waited for 1 ms, so that no waiter starves. Nothing is assumed
of callers (whether they call or cancel), of other clients, or of the Configuration Center.
Where that deadline comes from is SharedClient's subject, which assumes less: a worker sends
its next request, the Gateway answers what it has received *or* falls silent, and a timeout
expires *if there is one*. Its `CallsReturn` therefore has a condition: the `Config` has a
positive timeout, or leaves the HTTP client to `New`. With a caller's own HTTP client without a
timeout nothing bounds a call, nor do the first two modules' liveness properties speak of it.
CommandSession has no liveness property: a process may be killed.

**Disagreements between the documentation and the code**, each a run that TLC refutes:

- *CommitError*. "Changes only become active when Commit succeeds" (`certificate_sync.go:13`):
  `Commit` also fails after a successful activation, when the session cannot be terminated or
  the activation's reply is lost. What does hold is `DefiniteErrors`.
- *PartialStage*. Certificate and relationship changes "become visible together at activation"
  (`API.md:188`): after a failed binding the owner can go on and commit the new certificate
  without it.
- *LateActivation*. Managed writes are serialized so that overlapping working copies are not
  activated (`API.md:194`): an activation whose reply was lost, in a session whose termination
  failed too, can come after the next call has loaded. What does hold is `SerializedWrites`,
  about calls that succeed.
- *KeyFormat*. "SyncKey replaces only the private key" (`managed_certificate.go:245`) and the
  caller's format is what the Gateway receives (`certificate.go:102`): the same key in another
  encoding has the same checksum, so nothing is written and the call succeeds.
- *SaveFlag*. "save the configuration with this comment after the change" (`main.go:497`): not
  if `--activate` is given too, without an error.

## 4. Proofs

For every value of the constants, and no bound on the calls, faults or revisions but the
named ones. The assumptions are the named `ASSUME`s of the modules: typing of the constants;
that the virtual hosts are finitely many and that the Gateway gives out IDs no resource has and no
virtual host refers to, for the theorems of ManagedRotationProofs; and for `SoundOnGateway` and RepeatedSync that what is on
the Gateway at the start, and what the Configuration Center writes, can be served or at least
opened; that None is no plan of a goroutine; and for `ChangesAreWhole` that at the start no
resource has an ID the Gateway is still to give out, and no target that can have one certificate
has two. TLC evaluates them on each instance.

| Module | Theorems | Inductive invariant, and why the property alone is not |
|---|---|---|
| GatewayConfigurationProofs | `PatchedSound` | none: lemmas about the operators. A `PATCH` with sound attributes leaves a sound resource whatever it replaces: the stored passphrase survives a request without one, but the key of that request is then plain and any passphrase opens it. |
| ManagedLifecycleProofs | `TypeCorrect` | `TypeOK` itself. Types alone are not inductive: a step reads parts of the state that only earlier steps make meaningful (the plan of a write, the revision a session is based on, the resource a `PATCH` addresses), so `TypeOK` has the conjunct `Consistent`. |
| ManagedCallsProofs | `CallsSerialized`, `ActivatesOnce`, `ErrorsTell`, `NoSessionLeft`, `ActiveWasValidated`, `UpdatesKept`, `NamesReplaceDefaults`, `AmbiguousRefused`, `SoundOnGateway` | `CallsInv`: for each transaction `Orderly` (its step, error, session, late activation, mutex and revisions go together), for each two of one client `Ordered` (one has activated before the other has loaded). That a call excludes the others says nothing about the past; `Ordered` carries it. `UpdatesInv`: a working copy differs from what it was loaded from at most in `touched` (`Kept`); what is written under a built-in ID was selected by it (`Chosen`); a call with an ambiguous name gets no further than the resolution of its target (`Refused`). `NoMismatchedPair` is inductive relative to `TypeOK`, by which every bundle that is about to be written is valid. |
| ManagedRotationProofs | `WholeChanges`, `SuccessInstalled`, `CallsRotateAtomically`, `OthersServed` | `InstallInv`: how far a working copy is from the revision it was loaded from, step by step of the call (`Staged`), that the target selects what it selected there unless somebody has bound it anew (`Stays`), what was activated (`Installs`) and reported (`Reports`), and that no resource has an ID still to be given out (`Fresh`). `RotateInv` adds which plan was carried out on the working copy, and that a success without a change has seen that there was nothing to do (`Rotated`). `CallsRotateAtomically` is the refinement of AtomicRotation, for instances where `Owned` is empty: an owner may stage half a change, which no step of the abstract call is. A load maps to `Look`, an activation, also one that comes after its call has failed, to `Apply`, the end of a call to `Return`, and every other step to a stutter. `OthersInv`, for `OthersServed`: a call edits what its target selects or what it has created (`EditsOwn`), and that is in no revision and no other working copy, bound or not, until the call activates it (`Private`); `NoLostUpdate` alone does not exclude that somebody else's virtual host refers to it. |
| SharedTransactionProofs | `SharedTypeCorrect`, `SharedExclusion`, `SharedImplementsSequential`, `SharedBoundOnce`, `SharedStagedIsActive` | `Inv`: the holder of the mutex is the only one between two requests (`Exclusion`), and what `settled` says is what the working copy is, but for the writes of the holder (`Settled`). Every step is one of SequentialTransaction, that of the unlock, or a stutter. `StageInv`, for the last two: the plan of a call binds at most one virtual host, and until it does so that host has no certificate of its own (`Planned`); what a succeeded stage wrote is still in the working copy, or another call's write to the same resource is (`Staged`); after a successful commit the transaction is closed and the active configuration is the working copy, if anything was staged (`Committed`). It holds because a plan is made and carried out under one holding of the mutex. |
| SharedClientProofs | `ClientTypeCorrect`, `ClientIsolates`, `ClientNeverRefused`, `ClientOwnEffects`, `SettingsTakeEffect` | `Inv`: no jar but its owner's has the cookie of a transaction's session (`Cookies`), the working copy of each session (`Works`), and which workers have no session yet (`Begun`). The last theorem is about `New`: a positive timeout is in effect also on a caller's client, TLS options are in effect or `New` fails. |
| RepeatedSyncProofs | `RepeatedSound`, `SyncIdempotent`, `ChecksumIdentifies`, `HalvesKept`, `FilesServed` | `Inv`: besides the types, the stored passphrase opens the stored key or the key needs none (`Openable`), also after an update from files; and `UpToDateInv`: after a complete synchronization the resource is up to date for its bundle. |
| CommandSessionProofs | `CommandTypeCorrect`, `ExitStatusTrue`, `CommandSessionsEnd`, `ChangesAreWhole`, `SearchExact` | `Inv`: the step of a process tells whether it has a session, has asked for an activation and with which error it can end (`Begun`, `Ends`, `Tells`); an error of printing, which comes last, says as much as success. `WholeInv`, for `ChangesAreWhole`: the working copy is what the requests already answered make of the loaded configuration (`Progress`). The order of a replacement's requests does not matter, so the invariant says which are still to be sent and nothing of how far the list has come; it needs that no configuration has a certificate under an ID still to be given out, or two for a target that can have one (`Regular`). `SearchExact`: `find-domain` lists the certificates that serve a domain and no others, for names of any number of labels. |

Each proof has a lemma per action, and lemmas about what an action does to one call, session or
goroutine and everything around it, so that the other ones need no case of their own.

Only model-checked: the liveness properties (TLAPS 1.4.5 has no `ENABLED`). Every other property
of a run that passes is a theorem.

## 5. Not modelled

- X.509, PEM and chain-file parsing, cryptography: relations and values instead. Which
  encryptions of a key the library can open is modelled, how it opens them is not. Attribute
  files are made from plain keys: `attrs-from-pem` has no flag for a passphrase.
- Flags, environment variables, `--help` and the text a command prints. That printing a result
  can fail is modelled, for the commands that return this error (`Printing`).
- A virtual host whose answer lists several certificates (`relationshipCertificateID`): a
  configuration binds a virtual host to one or none, and this answer is among the failed ones.
- The address of a `Config` (its default scheme and port, its base path): it is right or wrong.
- The JSON:API envelope: the answers that cannot be decoded are among the failed ones.
- What a connection does with its TLS settings, and HTTP redirects.
- CSR generation, file conversion and reading lists: they keep no state and write to no
  configuration.
- Two `Client`s on one HTTP client of the caller's. Each `New` changes that client in place, so
  the options of the second apply to both; the code documents no use of this kind.
- Reading the Gateway's version from its response; it is a supported release line or not.
- Build and release automation.

## 6. Plan

Done, in this order: material and configuration, the managed lifecycle with its runs and its
abstract specification, repeated synchronization, the command line; then one transaction and
one client shared by goroutines, the settings of a client, attribute files, the search by
domain; theorems about all of them.

Left: *addresses*, the default scheme, port and path of a `Config` and their order.
