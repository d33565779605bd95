# AntNS in TLA+

A specification of [AntNS](../src/README.md), a name system on the Autonomi
network: TLA+ modules translated from `src/src`, TLC configurations that check
them on small instances, and TLAPS proofs of what matters most for instances of
every size. Paths below are relative to the repository (`register/update.rs` is
`src/src/register/update.rs`).

## 1. The system

A domain is an append-only *register* on the network whose entries are addresses
of immutable *chunks*. The first chunk is the owner document, which names an
Ed25519 key; every later chunk that parses as a records document and carries a
signature of that key over its records is *valid*, and the last valid one is
what the domain says. The register's own signing key is the same for all domains
and published in the source, so anybody may append anything; what is not signed
by the owner is to be ignored. Users run the `antns` binary, one process per
command, on several machines; `antns server start` adds a DNS server and an
HTTP proxy that resolve names for a browser.

| component | state | operations | depends on |
|---|---|---|---|
| signed documents (`crypto/ed25519.rs`, `register/mod.rs`) | none | sign, verify, owner and records documents | – |
| register (`register/*.rs`) | network: register, chunks; in a process: loop variables, the document on its way | create, lookup (target, records, history), update (set, add, delete, replace), quick lookup | documents, chunk storage |
| chunk storage (`storage/chunks.rs`) | the chunks on the network | upload, download | – |
| names and records commands (`cli/names.rs`, `cli/records.rs`) | none beyond their locals | the order key file → network → key file | register, key files |
| key files (`crypto/keypair.rs`, `storage/local.rs`) | `domain-key-<domain>.txt` | save, load, list | – |
| vault (`vault.rs`, `cli/keys.rs`) | one backup per wallet on the network | backup, restore, status | key files |
| HTTP proxy (`server/http.rs`) | cache of targets, mutex | a request: cache, lookup, cache, upstream | register |
| DNS server (`server/dns.rs`) | none | 127.0.0.1 or NXDOMAIN | – |
| server lifecycle (`cli/server.rs`) | sockets of 127.0.0.1; a process's place in a command | start, setup, status, Ctrl-C | proxy, DNS, resolver set-up |
| resolver set-up (`server/resolver_setup.rs`) | files (macOS, Linux) or rules (Windows), what systemd-resolved has loaded | check, set up | – |
| wallet (`wallet.rs`) | environment, wallet files (read) | list, select, decrypt, load | – |
| constants, crate roots | none | – | – |

What is hard here, and therefore what the properties are about:

* **Read, edit, append.** `add`, `delete` and `update` scan the register, edit
  the list they found and append the result two network calls later, with no
  check in between. Each call is a step of its own in the model.
* **A log that grows under its reader.** The three lookup functions walk the
  history while others append; they are right only if their locals match a
  prefix after every round and the whole register at the end.
* **Partial failure.** Every call may fail, and a write may take effect although
  its answer is lost. A failed download is skipped, and a failed lookup is an
  empty list to `add`.
* **Keys in memory.** Between `register_create` and `save_keypair` the only copy
  of the owner's key is a local variable.
* **A shared cache** whose mutex is released for the lookup, with a clock that
  need not be monotonic.
* **File-by-file copies** of keys to and from the vaults of wallets that several
  devices share.
* **Two servers under one `select!`**, and several starts, set-ups and status
  checks at once: they race for sockets and, file by file, for the resolver's
  configuration, and users interrupt them anywhere.
* **Counting from one.** A list of wallets that counts from 1 over a vector that
  counts from 0, in an order the directory happens to have.

What makes each component correct:

* register: one owner for good; a domain says nothing its owner has not
  published, and says something else only when a holder of the key commits it;
  lookups are exact; edits are atomic and take effect; a key file names the
  owner; every command ends once the register rests.
* proxy: no mixed-up and no outlived targets; every request gets an answer.
* key files and vault: a key stays with its domain; a copy reported as done is
  complete; a backup never throws keys away.
* wallet: a command uses the wallet its user has pointed at.
* resolver set-up: a set-up that reports success has queries go to its port;
  set-ups for one port leave whole files in force, however they overlap.
* servers: both run or neither, and no socket is left behind; of two starts one
  wins; where a set-up said that names resolve, they lead to both servers.

## 2. The modules

| module | models | based on |
|---|---|---|
| `Documents` | documents, signatures, what a register says (no state) | – |
| `AbstractDomain` | what a domain is to its users | – |
| `DomainRegister` | all of `register/`, and the commands that call it | `Documents`; implements `AbstractDomain` |
| `MCDomainRegister` | its instances for TLC | `DomainRegister` |
| `HttpProxy`, `MCHttpProxy` | `server/http.rs` | – |
| `Wallet` | `wallet.rs`: which wallet a command gets (no state) | – |
| `KeyStore`, `MCKeyStore` | `vault.rs`, `cli/keys.rs`, key files of several domains | `Wallet` |
| `ResolverSetup` | `server/resolver_setup.rs` | – |
| `NameService` | what `server start` is to the machine | – |
| `ServerLifecycle`, `MCServerLifecycle` | `cli/server.rs`, `server/dns.rs`, the start of `server/http.rs` | `ResolverSetup`; implements `NameService` |
| `DocumentTheorems` | lemmas on what a register says | `Documents` |
| `DomainRegisterProofs` | theorems on the register's commands and lookups | `DomainRegister`, `DocumentTheorems` |
| `DomainOwnershipProofs` | theorems on who owns and who changes a domain; the refinement | `DomainRegisterProofs` |
| `DomainEditProofs` | theorems on what edits start from, and on when they are atomic, take effect and keep their keys; the refinement of edits | `DomainOwnershipProofs` |
| `HttpProxyProofs` | theorems on the proxy | `HttpProxy` |
| `KeyStoreProofs` | theorems on backup, restore and the choice of a vault | `KeyStore` |
| `ResolverSetupProofs` | theorems on checks and set-ups | `ResolverSetup` |
| `ServerLifecycleProofs` | theorems on the servers; the refinement | `ServerLifecycle`, `ResolverSetupProofs` |

Definitions keep the source's names where they can, and `PROJECT.json` maps each
one to its lines. Operators introduced by "Mutant of ..." are wrong variants of
the definition that follows; no specification uses them. For each property of
each passing run one of them, put in the place of the right definition, makes
TLC find the property violated, which shows that the property bites.

### DomainRegister

One domain, any number of devices, one command per device at a time.

| state | in the code |
|---|---|
| `register` | the history of the register at the domain's address; a sequence of documents, for an address is a hash of what it addresses |
| `chunks` | the chunks the network has |
| `keyfile[d]` | what `load_keypair` returns on device d, `None` if there is no whole key |
| `minted` | keys that exist anywhere; `SigningKey::generate` makes a new one |
| `pc[d]`, `job[d]` | the command's place and its arguments |
| `scan[d]` | the locals of the lookup loop: owner, position, records, target, statuses. `missed` is a history variable: the network has failed to deliver a chunk it has |
| `draft[d]` | the document to upload and commit |
| `answer[d]` | what the command printed |

`FetchOwner`, `ScanEntry` and the four ends (`DraftEdit`, `RejectIndex`,
`AnswerQuery`, `LookupError`) are the loop that `lookup_domain`,
`lookup_domain_records` and `get_domain_history` share: the code has it three
times, with one of `records`, `target` and `trail` kept in each. `Upload` is
`upload_document_as_chunk`; `CreateRegister`, `UpdateRegister`,
`CommitRefused` and `CommitReplyLost` are the outcomes of `register_create` and
`register_update`; `SaveKey` and `SaveFails` are `save_keypair`. An error
return and a killed process leave the same state behind: locals are lost, what
was done to the network stays. `ForeignWrite` is any other program.

Abstractions: the register is one copy that creates and appends atomically (the
network's own replication and forks are the library's business, outside this
repository); `chunk_get` delivers what `data_put_public` stored; a payment that
overflows `checked_add` after the write is a lost answer; a record is an element
of `Records`, the ones with type `ant` and name `.` are in `RootRecords`. The
code uses a name exactly as it is typed, so a name is what it is, and two
spellings are two domains. Bytes that do not parse are `Garbage`.

### HttpProxy

Each connection carries one request after the other: `Accept` (host checks,
`.antns.net` → `.ant`), `CacheHit`/`CacheMiss` under the mutex, `LookupAnswers`
or `LookupFails`, `Store` under the mutex again, `Respond`. `queue` is tokio's
FIFO mutex, its head the task that holds it. `Disconnect` drops a request's
future wherever it waits; a dropped lock future, or the guard of the task that
holds the mutex, leaves `queue` from wherever it stands (`LeaveQueue`). A lookup is one
step, its last history call. It answers with the target that is current then, as
`AnswersAreCurrent` of `DomainRegister` says of a lookup whose downloads all
succeed; one that has skipped entries it could not download (`lookup.rs:75`) also
succeeds, with any older target of the domain, or fails if it has missed them
all. The proxy treats all answers alike, stores them included. A target is the
domain and the number of its publication, which is all the properties tell
apart. `filled`, `job.floor` and `job.missed` are history variables. The clock
moves in both directions, `--ttl` is multiplied by 60 modulo 2^64 as in a
release build (`Minute` and `Word` are small in the run), and a timestamp ahead
of the clock is an infinite age, as `unwrap_or(Duration::MAX)` has it.

### Wallet and KeyStore

`Wallet` is operators only, for the program does not write wallets: of a machine
(its `SECRET_KEY`, its wallet files), of the order in which `read_dir` happens to
list the files, and of what the user types.
`load_wallet_with_private_key`, `load_wallet_with_key_from_disk`,
`select_wallet_from_list` and `load_private_key_from_file` return the set of
wallets that come out, empty for an error. `PointedAt` is what the user has in
mind: the file whose number the list showed. An encrypted file too short to hold
its salt makes the code panic, which is an error to everybody else.

`KeyStore`: key files of several domains, one vault for each wallet, one `keys`
command per device at a time, while `names register` and `names import` run
beside it. `Begin` loads the wallet, before anything else, as the commands do;
an error there has changed nothing and is no step. `StartBackup`,
`CollectFile`, `PutBackup`, `BackupFails` are `backup_keys`; `StartRestore`,
`FetchBackup`, `FetchFails`, `WriteFile`, `WriteFails`, `RestoreDone` are
`restore_keys`, for `keys restore` and `keys status` alike, since the latter
calls the same function (`cli/keys.rs:100`, although its message says "not
restored, just checked"). A directory is listed as it is read: a file that
appears meanwhile may or may not be found. `std::fs::write` truncates first, so
`Saved` may leave `CutShort`. A process that is killed in mid-write is a failing
write. A backup that reads a file just while another process writes it sees what
`Saved` may leave behind as well. `before`, `touched` and `meant` are history
variables. The metadata file is left out, nothing reads it. In this module
`Import` brings the key that was exported for the same domain; `DomainRegister`
has the other imports, where the wrong key replaces the right one.

### ResolverSetup

One machine, any number of `antns` processes, each in one call of
`check_resolver_config` or `setup_resolver_config` at a time.

| state | in the code |
|---|---|
| `os` | `std::env::consts::OS`; every system in one model, chosen at the start |
| `dir`, `config[s]` | `/etc/resolver` or the systemd directory, and what the file of suffix s says; on Windows the NRPT rules of s |
| `active`, `loaded` | Linux: whether systemd-resolved runs, and what it read when it started |
| `step[p]`, `suffix[p]`, `port[p]`, `found[p]` | where a call stands, the file it is at, its argument and `ant_ok` |
| `meddled[p]`, `agreed` | history: whether others have changed something since the call began; the one port all set-ups asked for |

Each external command is a step: `ServiceIsActive` (`systemctl is-active`),
`MakeDir`, `OpenFile` and `WriteFile` (`sudo tee`, which truncates and then
writes), `add_nrpt_rule`, `Restart`. `CommandRefused`, `WriteFails` and
`RestartFails` are their failures. Two `tee`s at once may leave the end of one
text behind the other: such a file, and a truncated one, is `Cut`. `Leave` is the
end of a process, in the middle of a call too, when a `tee` it has started may
still write. Checks are `check_resolver_file` and `ReadFails` on macOS,
`CheckExists` and `CheckService` on Linux, `CheckRules` on Windows.

Abstractions: administrators who edit these files or start the service by hand
are left out; a file that exists says a port or nothing.

### ServerLifecycle and NameService

`ServerLifecycle` extends `ResolverSetup` with the commands that call it: the
steps inside a call are `InCall`, and the command goes on with the outcome
(`ResolverReady`, `AskUser`, `AnswerYes`, `AnswerNo`, `CallFails`,
`SetupOnlyDone`). `pc` is the place in the command, `bound[s]` the process that
has socket s. `BindUdp` and `BindTcp` are `dns::run`, `BindHttp` is `http::run`.
Both are branches of one `select!`, polled in any order; the DNS server's two
binds do not yield, and the proxy comes to its bind only after
`Client::init` has been on the network, so the sockets are taken in this order,
with steps of other processes in between. `StartupFails`, `ServerFails` and
`Interrupt` end the process with everything it has: `StartupFails` is possible
at any bind, whether another `antns` has the socket, another program has it, or
the user may not have it. `StatusChecked` to `StatusEnds` are `status_command`,
which finds out whether a port is in use by binding it.

`Answer` is the DNS server's answer to a query. A browser's way, from the suffix
to the servers the system asks, from their answer to the proxy, is `ServersOf`.
Its URL carries the process's own `--proxy-port`: the portless
`http://mysite.ant` of the documentation is the case of the default, port 80, and
leads elsewhere when the option says another port.
`NameService` is what is left of all that from outside: pairs of servers, on
ports nobody shares, that come up and go down together; the processes that are
`up` implement it.

## 3. What the runs check

Passing runs (each with deadlock checking on, since no state of these systems
may be without a next step):

| run | instance | states | shows |
|---|---|---|---|
| `domain_race` (`DomainRace.cfg`) | 2 devices, 2 keys, 1 record, all fault kinds, noise and replays, ≤ 4 entries | 447 k | Two devices race to register, one edits and imports (right and wrong keys), the other reads the history, strangers append. `RegistrantOwnsDomain`: only one registrant can win, and it saves the key the register names. `EntriesStored`: no signed entry is unreadable. `LookupFollowsRegister`, `AnswersAreCurrent`: lookups are exact. `EditsFitThePast`: whatever fails, a list on its way is one edit away from a list the domain has had. `StrangersSayNothingNew`: the domain changes to the draft a holder of the key commits, or back to a list its owner has signed there before, and to nothing else. `KeyFileNamesOwner`: a failed registration leaves key files alone. `ImplementsDomain`: refinement of `AbstractDomain!Spec`. `CommandsEnd`: with every kind of failure, a command ends once the register rests. |
| `sole_editor` (`SoleEditor.cfg`) | 1 editor, 1 reader, 1 key, 2 records, indices 0 and 1, strangers with three kinds of list of their own, no faults, ≤ 4 entries | 87 k | `EditsFitThePast`, here for its bounds checks; `AnswersAreCurrent` for all three queries; `OnlyHolderChangesDomain`: where nobody repeats an old entry, only a commit with the owner's key changes the domain; `EditsAreAtomic`, `SuccessTakesEffect`, `ImplementsEdits` (refinement of `AbstractDomain!EditSpec`), and with fairness `DraftsArePublished`. |
| `shared_cache` (`SharedCache.cfg`) | 2 connections, 1 name under 2 suffixes, ttl off / 2 / wrapped to 0 ticks, clock ≤ 2, 2 and 1 publications | 337 k | `AnswersBelong`: targets are of their domain and published, and no older than the request that asked for them unless a download has failed. `HitsAreFresh`, `RequestsResolve`. `OnlyWaitersQueue`: the mutex is held or awaited by exactly the requests about to read or fill the cache, once each; a client that goes away takes its place along. |
| `shared_vault` (`SharedVault.cfg`) | 2 devices, 2 wallets, 2 domains, 2 keys, register, import, backup, restore and status, every fault | 467 k up to swapping domains and keys | `KeysStayWithTheirDomain`, `BackupIsComplete`, `RestoreIsComplete`, `BackupNeverEmpties`; `OnlyChosenVaultChanges`: whatever the files, their order and the numbers typed, a backup goes to the vault of the wallet its user has pointed at. |
| `servers` (`Servers.cfg`) | 2 processes, 2 ports, the default options and the same crossed, each operating system | 722 k up to swapping the processes | `BothServersOrNeither`: a process has the sockets of its stage, and none after its end. `RacesHaveWinners`: two starts never put each other down, unless their ports are crossed. `SetupTakesEffect`, `CheckStandsFor`, `AgreeingSetupsSettle`: what reports of set-ups and checks mean, with others at the same files. `NamesAreServed`: names lead to the servers that are up. `ImplementsService`: refinement of `NameService!Spec`. |

Runs that show a disagreement between the code and what it says (each checks one
property, which TLC violates):

| run | what happens |
|---|---|
| `sticky_target` | The root record is deleted; `lookup_domain` still resolves to it, because it overwrites its target only with another one (`register/lookup.rs:97`). `RFC-ANT-DNS.md:263`: "The last valid entry represents the current state of the domain." |
| `add_after_failed_lookup` | One failing history call, and `add` publishes a list with the new record alone (`register/update.rs:151`). The comment at `:138` says "Fetches current records, adds the new one". |
| `two_editors` | Two devices add at the same time, one record is lost, both report success (`register/update.rs:157`). |
| `registration_crash` | The process dies between `register_create` and `save_keypair` (`cli/names.rs:82`): a registered domain without a key. `README.md:69`: "Domain key saved locally". |
| `replayed_entry` | The owner publishes a list and then another; a program without the key appends the address of the first one again, and the domain says the first list (`register/lookup.rs:95` takes the last entry that verifies by its place in the register). `RFC-ANT-DNS.md:330`: "Replaying an old valid entry would add it to the history, but subsequent lookups would still return the most recent valid entry"; `README.md:41`: "Only you can update it". `StrangersSayNothingNew` is what the code does keep. |
| `resolver_check` | On Linux the check looks for the files alone (`server/resolver_setup.rs:135`): after a set-up for one port it says yes to a start on another one, and names go where nobody listens. The comment at `server/resolver_setup.rs:10` says "Check if resolver configuration is set up correctly". |
| `new_device` | A backup from a new device that has not restored first drops the last copy of the old keys (`vault.rs:95`). `ARCHITECTURE.md:468`: "Network vault backup survives device loss". |

### Bounds

* `MaxEntries = 4`: owner document and three more. An atomicity violation needs
  one concurrent append, a stale target two lists, a replay that matters two
  lists and the repetition of the first. `Room` counts the writes under way, so
  the bound never blocks a commit.
* Two keys and two devices: the winner and the loser of a race; a right and a
  wrong key; a stranger's key is `Outsider`. `domain_race` has a liveness
  property, so it explores the keys without symmetry. Its phone reads with
  `history` alone; the other queries are the same loop and run in `sole_editor`.
* Two records and two indices, one within a list of one and one at its end, give
  every outcome of the bounds checks.
* `MaxClock = 2` with a ttl of 2 ticks reaches an entry's last fresh and its
  first stale moment; setting the clock back reaches entries from the future.
* `MaxVersions`: two publications of `.ant`, so that scans can overlap with one;
  one of `.autonomi`, for mixing up the two.
* `KeyStore` is finite without bounds. Two domains are needed for a copy to be
  partial, two devices for copies to overlap. Neither domains nor keys are told
  apart by anything, so `shared_vault` explores states up to swapping them. The
  laptop has two wallet files, one under a password, so that there is a list to
  choose from in either order, with the numbers below, in and above it; the phone
  has `SECRET_KEY` and a file that must not count. `new_device` has one wallet,
  for its question is another one.
* `ServerLifecycle` is finite without bounds. Two processes make every race, two
  ports are those of one start; with the crossed options each process's DNS port
  may be the other's proxy port. Processes are interchangeable.

### Fairness

`DomainRegister!FairSpec`: weak fairness of `Advance(d)`, the next step of a
command that has begun. The code awaits one network call after the other and
every call of the client library returns, with an answer or an error. Starting
commands, killing processes and strangers' entries are not fair. A lookup reads
as long as there is a next entry (`register/lookup.rs:71`): whoever appends
without end, faster than it reads, keeps it going, and no fairness helps. So
`CommandsEnd` has `RegisterRests`, that nobody appends any more, as its
condition. In the run the condition is met by every behaviour, for its register
is bounded: what the run shows is that nothing else keeps a command, be it
failing calls, entries that cannot be downloaded or do not parse, or an append
that comes while the lookup is under way.

`HttpProxy!FairSpec`: weak fairness of `Resolve(c)`, the steps of a request up
to its target. tokio polls every task that is ready and hands its mutex out in
FIFO order. The upstream request has no timeout, so nothing is assumed of
`Respond`; that one request which hangs there cannot hold up another is what
`RequestsResolve` is about.

`KeyStore` has no liveness property: its commands are straight-line loops.
Neither has `ServerLifecycle`: a start waits for its user and for the network,
and runs until somebody ends it.

## 4. What is proved

By TLAPS, for any number of devices, keys, records, connections, domains, any
faults, any commands and any length of the register (the bounds appear as
parameters without a limit). The assumptions are those named in the modules:
`DocumentAssumption` (`None` and `Outsider` are no keys), `RegisterAssumption`
(strangers have none of the users' keys: what they append anew carries no
signature of one over its own list), `ProxyAssumption`, `WalletAssumption` (a text that is no key and the
absence of one are not among the wallets), `KeyStoreAssumption`,
`ResolverAssumption` (`None` and `Cut` are no ports), `ServerAssumption` (options
are pairs of ports).

| theorem | says |
|---|---|
| `DomainRegisterProofs!TypeCorrect`, `TypesKept` | `[](TypeOK /\ JobsFit)`, `[]TypeOK` |
| `DomainRegisterProofs!SignedEntriesAreStored` | `[]EntriesStored` |
| `DomainRegisterProofs!LookupIsFaithful` | `[]LookupFollowsRegister` |
| `DomainOwnershipProofs!OnlyOneRegistrant` | `[]RegistrantOwnsDomain` |
| `DomainOwnershipProofs!KeyFilesNameOwners` | `KeyFileNamesOwner` |
| `DomainOwnershipProofs!OnlyOwnersListsAreSaid` | `StrangersSayNothingNew` |
| `DomainOwnershipProofs!OnlyHoldersChangeDomains` | `OnlyHolderChangesDomain`, if `~Replays` |
| `DomainOwnershipProofs!RegisterIsDomain` | `ImplementsDomain`: every step is a `Claim`, a `Publish` or a stutter |
| `DomainRegisterProofs!AnswersAreExact` | `AnswersAreCurrent` |
| `DomainRegisterProofs!OnlyUnrootedListsStick` | `RootedResolve`: unless a download fails, a domain whose current list has a root record resolves to it, which delimits what `sticky_target` shows |
| `DomainEditProofs!EditsStartFromThePast` | `[]EditsFitThePast` |
| `DomainEditProofs!NewKeysArePrivate` | `[]Fresh`: a key under registration is in no key file and no other command |
| `DomainEditProofs!OneEditorEditsAtomically` | `EditsAreAtomic`, if `OneEditor` |
| `DomainEditProofs!OneEditorKeepsRecords` | `AddKeepsRecords`, if `OneEditor` |
| `DomainEditProofs!OneEditorRefinesEdits` | `ImplementsEdits`, if `OneEditor` |
| `DomainEditProofs!SuccessWithoutImports` | `SuccessTakesEffect`, if `NoImports` |
| `DomainEditProofs!OnlyCutShortRegistrationsLoseKeys` | `[]RegisteredKeyIsSaved`, if `KeysReachDisk` |
| `HttpProxyProofs!ProxyTypes` | `[]TypeOK` |
| `HttpProxyProofs!OnlyWaitersHaveTheMutex` | `[]OnlyWaitersQueue` |
| `HttpProxyProofs!TargetsBelong` | `[]AnswersBelong`: domain and publication for every target, its age for those whose lookup missed nothing |
| `HttpProxyProofs!HitsExpire` | `HitsAreFresh` |
| `KeyStoreProofs!TypeCorrect` | `[]TypeOK` |
| `KeyStoreProofs!KeysKeepTheirDomain` | `[]KeysStayWithTheirDomain` |
| `KeyStoreProofs!BackupsAreComplete` | `BackupIsComplete` |
| `KeyStoreProofs!RestoresAreComplete` | `RestoreIsComplete` |
| `KeyStoreProofs!VaultIsNeverEmptied` | `BackupNeverEmpties` |
| `KeyStoreProofs!OnlyChosenVaultsChange` | `OnlyChosenVaultChanges` |
| `KeyStoreProofs!OnlyLostFilesLoseKeys` | `BackupKeepsLastCopy`, if `FilesStay` |
| `ResolverSetupProofs!ResolverTypes` | `[]ResolverTypeOK` |
| `ResolverSetupProofs!SetupsTakeEffect` | `[]SetupTakesEffect` |
| `ResolverSetupProofs!ChecksStandFor` | `[]CheckStandsFor` |
| `ResolverSetupProofs!AgreeingSetups` | `[]AgreeingSetupsSettle` |
| `ServerLifecycleProofs!CommandsOnlySetUp` | `Spec => ResolverSpec`: the commands do nothing else to the resolver, so the four above hold for them (`CallsOfCommands`) |
| `ServerLifecycleProofs!ServerTypes` | `[]TypeOK` |
| `ServerLifecycleProofs!SocketsOfStages` | `[]BothServersOrNeither` |
| `ServerLifecycleProofs!RacesEnd` | `[]RacesHaveWinners` |
| `ServerLifecycleProofs!NamesLeadToServers` | `[]NamesAreServed` |
| `ServerLifecycleProofs!ServersAreServices` | `ImplementsService`: every step opens a service, closes one or is a stutter |

Some of them have a hypothesis, for the code does not keep the property without
it, as the runs of section 3 show. The hypotheses are about the constants, that
is, about who runs what and what fails:

* `~Replays`: other programs do not append old entries again. `replayed_entry`
  has one that does.
* `OneEditor`: one device at most runs `add`, `delete`, `update` or `set`, old
  entries are not appended again, and no lookup or download of a stored document
  fails. Uploads, commits and saves may fail, processes may be killed, keys may
  be imported, any device may register, and strangers may append what they like
  that is new. `two_editors` and `add_after_failed_lookup` lack one part each.
* `NoImports`: keys come from registrations only. With a key imported for the
  wrong domain an edit reports success and changes nothing.
* `KeysReachDisk`: `NoImports`, and no lost commit answers, failed saves or
  killed processes. `registration_crash` has killed processes.
* `FilesStay`: no disk is lost and no key file is left cut short. `new_device`
  has lost disks; with cut-short files alone TLC finds a counterexample as well.

The instance of `sole_editor` satisfies the first four.

How they go:

* *Register.* `TypeInv` is `TypeOK /\ JobsFit`: what a command holds at each of
  its stages, among it that the document to commit is signed with the command's
  key and already stored. That is what `EntriesStored` needs when a commit
  appends the document; a stranger's new entry signs nothing, and a replayed one
  is stored already. `LookupFollowsRegister` rests on three lemmas: the register
  only grows (`RegisterGrows`), what a prefix says does not depend on what
  follows (`PrefixIsStable`), and one more entry changes it as one round of the
  loop changes its variables (`NextEntry`, in `DocumentTheorems`).
* *Ownership.* `RegistrantOwnsDomain` is not inductive. `Ownership` adds that the
  keys of registrations under way have been generated and are pairwise distinct,
  so that a fresh key cannot collide, and that an accepted registration is the
  one the register names, which `OwnerKept` preserves. `RecordsChange` (from
  `RegisterGrows`, `NewEntry` and `NoneSignsNothing`) names the entry behind any
  change of what a domain says, and `WhoChanges` who has appended it: a holder
  of the key its own draft, or somebody a valid entry that is there already. The
  last three theorems follow from these.
* *Answers.* `LookupInv` joins what `LookupFollowsRegister` needs with
  `TrailsTrack`: the statuses noted so far are those of the entries read, which
  `ValidCount` turns into the numbers that `history` prints (a bijection between
  the valid statuses and the valid entries). At the end of the loop nothing is
  left to read (`ReadAll`), so the answer is that of the whole register.
* *Edits.* Without conditions: `PastInv` says that a lookup under way, downloads
  that fail left out, holds a list the domain has said (`SeenBefore`), and what
  is drafted from it is the user's edit of one (`FitsPast`); what the domain has
  said it will always have said (`PastStays`). With `OneEditor` the list is the
  *current* one until it is appended (`UpToDate`). That needs `Fresh`: the editor
  may have edited a domain that does not exist, and a registration that comes
  later must not make its draft the owner's. It also needs `Issued`, that nobody
  runs a command it does not run, for two commits to be of one device.
  `EditIsAbstract` gives the abstract edit behind each commit.
* *Held keys.* Without imports every key on a device or in a command is the
  owner's (`HeldKeys`), so what is signed with it is current as soon as it is
  appended; an answer is printed by the step that ends the command only
  (`Unanswered`).
* *Mutex.* `OnlyWaitersQueue` is inductive together with the types, once "holds
  or awaits" is said of positions: `Joined`, `Left` and `Served` are what
  `lock()`, a dropped future and a released guard make of a queue without
  repetitions.
* *Proxy.* `AnswersBelong` is not inductive: `Asked` adds that a request on its
  way to the network has not come later than its domain's present version, and
  `Stamped` that an entry's timestamp is the moment it was filled; the latter is
  what makes `HitsAreFresh` follow from the one step that serves a hit. Whether
  a lookup has missed an entry goes with its answer, into the cache and out of
  it, and takes that answer out of the bound on its age and of nothing else. The
  mutex plays no part in these two.
* *Vault.* `KeysStayWithTheirDomain` is inductive together with the types.
  `Copying` says how far a backup or a restore under way has got, on the files
  nobody else has touched, and completeness follows at the step that ends it.
  That a vault changes by its user's choice alone rests on `LoadedIsMeant`, on
  the operators of `Wallet`: the wallet that is loaded is the one pointed at, for
  any files in any order and any number typed. With `FilesStay`, `OnDisk` is
  invariant: every whole key in a vault or in a backup under way is still in a
  key file of some device, for a whole file is only ever written again with the
  key it has (`KeyFilesStay`, from `KeysStayWithTheirDomain`).
* *Resolver.* None of the three properties is inductive. `StepFits` says which
  steps there are on which system; `Undisturbed` what a call has written or seen
  so far, stage by stage, as long as nobody else has changed anything (a step of
  another process either leaves the configuration alone or sets `meddled`, by
  `DisturbsOthers`); `Agreement` that whatever set-ups for one port leave undone,
  a missing or a truncated file or a service that has not read them, some process
  is still on its way to do (`Before` and its like name it). When nobody is on
  the way any more, nothing is left undone.
* *Servers.* `BothServersOrNeither` is inductive given that a process at a stage
  with sockets has its ports (`PortsSet`): every step takes one free socket,
  gives one back, gives all up, or keeps them (`SocketsStep`). The races, the way
  of a name and the disjoint ports of the refinement are consequences of the
  invariant in one state: whoever has a socket is the only one.

Model-checked only: the liveness properties `CommandsEnd`, `DraftsArePublished`
and `RequestsResolve`, for the prover has neither fairness nor `ENABLED` here.
Every other property of a passing run is a theorem. No function of the model is
recursive, so nothing had to be left to induction over data; `TargetUpTo`,
`RecordsUpTo` and the counts of `history` are defined from sets of entries, and
the loop that computes them is the program's own, as an invariant. Of the
properties that a run violates, `ConfiguredMeansResolving` has no theorem that
delimits it: it holds as soon as only one port is asked about, which is
`AgreeingSetupsSettle` again.

## 5. Not modelled

* `constants.rs`, `lib.rs`, the `mod.rs` of `crypto`, `storage`, `cli`: no
  behaviour.
* Wording, logging, payments, JSON and hex, the cipher of wallet files, what the
  proxy does to paths, headers and bodies on their way to the upstream server.
* The library: how the network replicates registers and resolves forks, whether
  `chunk_get` finds what `data_put_public` has stored, what a vault costs.

## 6. Plan

Done: every component that has behaviour, its runs, and the theorems above. What
could be added:

1. A composition of `DomainRegister` and `HttpProxy` that replaces
   `LookupAnswers` by the register's own scan; together their state spaces are
   out of TLC's reach at the bounds above, so it would be a matter of proof.
   `AnswersAreExact` is the lemma it needs.
2. An abstract vault, to which `KeyStore` is a refinement where nothing is lost:
   `KeysStayWithTheirDomain`, `OnDisk` and the completeness of copies are the
   facts it would rest on.
3. How far two editors can set each other back: `EditsFitThePast` bounds one
   edit, not how many edits of others it undoes.
