# Gitway: a TLA+ model of its stateful parts

Gitway is an SSH transport for Git written in Rust, with its own key generator,
agent commands, known-hosts editor and a biometric passphrase vault.  The
cryptography, the SSH protocol and the agent daemon's loop live in the external
crate `anvil-ssh`; what is in this repository is the *control* around them: who
is asked for a passphrase and when, which key or agent is used, what is written
to which shared file or store, in which order, and which exit code comes out.
Gitway is a set of short-lived processes that share files, the platform
keystore, the fingerprint reader and an agent without any lock between them, so
the interesting behaviour is mostly in what two of them do to each other.

Paths below are relative to `src/`.

## 1. Inventory

| Part | Source | State it keeps or shares | Operations | Hard behaviour |
|---|---|---|---|---|
| Keystore back ends | `gitway-cli/src/biometric/{linux,macos,windows,unsupported}.rs` | one enrolled passphrase per key in the platform keystore; the claim on the fprintd device | `store`, `retrieve`, `delete`, `list`, `verify_fingerprint` | find, prompt, fetch are separate accesses; delete before add on macOS and Windows; the scan's timeout; the device must be released |
| Unlock policy and biometric commands | `gitway-cli/src/biometric/mod.rs`, `biometric_cmd.rs` | the parsed key, the released secret | auto unlock with self-healing, `enroll`, `forget [--all]`, `list`, `status` | the secret is compared with a copy of the key parsed before a prompt of many seconds; batches that fail half way |
| Transport | `gitway-cli/src/main.rs` (`run_exec`, `run_test`, authentication) | one session, one passphrase, one exit code | collect a passphrase, connect, authenticate, run, close | the agent changes meanwhile; inactivity timeout while prompting; classifying a refusal |
| Invocation | `gitway-cli/src/main.rs` (`run` to `connect_session`), `cli.rs` | the session's configuration | parse `user@host`, read ssh_config, apply flags, resolve proxies, dispatch | precedence of four sources over many options; two proxy directives from two sources and `none` |
| Agent lifecycle | `gitway-cli/src/agent.rs` (`start`, `stop`), `bin/gitway-agent.rs` | socket file, pid file, daemon process | foreground and background start, stop | two starts on a path; stale sockets; orphaned children; pids that outlive daemons |
| Agent clients | `gitway-cli/src/agent.rs` (`add`, `remove`, `list`, `lock`, `unlock`), `bin/gitway-add.rs` | the agent's identities with constraints | each command is several requests | lists that are stale when used; half-done batches; constraints replaced by a re-add |
| Signatures | `bin/gitway-keygen.rs` (`-Y sign`, `verify`, `check-novalidate`, `find-principals`), `sign.rs`, `keygen.rs` (`verify`) | none of its own: reads key pairs, the agent, allowed_signers | try the agent, else the key file; find principals, verify | a denial must not fall through to the file; the private key is found by name; allowed_signers is loaded twice |
| known_hosts commands | `gitway-cli/src/hosts.rs` | the known_hosts file | `add`, `revoke`, `list` | read and rename over a file others append to; several fingerprints per host; hash-mode detection before a question |
| Key generation and `change-passphrase` | `gitway-cli/src/keygen.rs` | key files | generate, fingerprint, extract public key, change passphrase | a pair is two files written in turn; `change-passphrase` rewrites the key and leaves its enrolment |
| Prompts | `main.rs` (`prompt_passphrase` to `try_askpass`) | none | vault, askpass program, terminal | when a prompt may be made at all, and whether anybody can answer it |
| config show | `config.rs` | none | print what ssh_config says of a host | must agree with what a session does, and has its own code |
| Sequential commands | list-algorithms, schema, describe, install, tracing, `gitway-lib` | none shared | print or write one result | none that a model checker would help with |

Interactions: every command that needs a decrypted key goes through
`prompt_passphrase` / auto unlock, so the transport, `agent add`,
`gitway-add`, `gitway sign` and `keygen change-passphrase` all meet in the
keystore and at the
fingerprint reader.  The transport, `agent add/remove/lock` and `-Y sign` meet
in the agent; agent starts and stops meet in the socket and pid files; `hosts
add` and `hosts revoke` meet in known_hosts; generators and signers meet in the
key pair.

What makes each part correct, in a sentence: the keystore holds only what once
opened the key, and self-healing forgets only what does not open it; exit code
0 means what Git takes it to mean; the route and the options come from the
right source; a printed socket was bound by the daemon whose pid is printed, and
a stop ends the daemon it found;
what an agent command reports is what the agent holds, and a confirmation
cannot be lost or bypassed; a revocation holds and no line of known_hosts is
lost; a signature is by the key that was named.

`PROJECT.json` lists every hazard with its line in the source and the
properties that watch it.

## 2. Modules

A module models one component, with one action per step that touches something
shared or waits for an answer.  `MC*` modules only add symmetry or a constant
for the model checker; `*Proofs` modules hold the theorems.  Definitions named
`...Mutant` are plausible wrong versions of the action after them, used to show
that each property can be broken; they are in no next-state relation.

**BiometricVault** (`biometric/*`, `biometric_cmd.rs`, `main.rs:1315-1360`,
`agent.rs` add, `keygen.rs` change-passphrase, `sign.rs`).  `disk` is the passphrase each
key file is encrypted under, `vault` the keystore, `reader` the fprintd claim.
A process runs one of seven commands: `load` and `loadEnroll` (`agent add`, with
and without `--biometric`; `gitway-add`), `enroll`, `forget`, `change`
(`change-passphrase`), `connect` (the transport looking for a passphrase) and
`sign` (`gitway sign`, which parses the key once for itself in `SignKey`, into
`copy`, lets `prompt_passphrase` parse it again, and decrypts its own copy).
`ReadKey`/`OpenKey`/`FindIdentity`/`ReadForUnlock` parse the file into `mem`.
The auto unlock is `Search` (find the item), `Claim` (the reader), `EndScan`
(match, mismatch, error or timeout; the device is released in each), `Fetch`
(the secret), `Verify` (does it open `mem`?) and `Heal` (delete the item).
`Ask` is the typed prompt, `Store`/`Add` the two halves of an enrolment,
`WriteKey` the rewrite of the key.  `Kill` ends a process anywhere.  The back
ends differ as in the code: Linux replaces the item in one call, Windows takes
the secret before the consent prompt, macOS and Windows delete and then add.
`ever` and `raced` are history: every passphrase a file has had, and the keys
another process has changed since this one read them.

**VaultPromise** is the abstract specification of the vault: per process, a
release goes from nothing through a scan and its approval to a passphrase that
the file has had; per key, an enrolment is set, replaced or forgotten and the
file re-encrypted.  `BiometricVault!PromiseSpec` says that the detailed module
implements it under the mapping `Stages` (program points to stages) and
`HandedOut` (the secret a process holds between `Fetch` and its use).

**Transport** (`main.rs` run_exec, run_test, authentication and prompts).  One
process, an agent (`AgentChanges`) that comes, goes and changes at any moment,
and a key file (`FilesChange`) that another process may decrypt, re-encrypt,
remove or restore at any moment; an open session may be dropped while it waits
for the user (`InactivityTimeout`).  `MaybeCollect` is `maybe_collect_passphrase`,
`AuthenticateBest` the first attempt, `FindEncrypted` the second search for the
key (which, if it is not found encrypted again, returns "no key found"),
`AuthenticateTyped` the attempt with a passphrase, `ReclassifyNoKeyFound` the
second look at files and agent, where a file that cannot be looked at counts as
missing; `Refused`, `Exec` and `Close` decide the exit
code.  A prompt has the stages of `prompt_passphrase`: `VaultAnswers`,
`TryAskpass` (whether to run a program, from `env`), `AskpassAnswers`,
`TerminalAnswers` or, without a controlling terminal, `NoTerminal`.  Before the
connect a failed prompt ends the process, on an open session it is the outcome
of the authentication, which `--test` reports.  `refused` is what was offered and
refused, `moved` what has changed or become unreadable since, `rekeyed` and
`vanished` whether the key file changed after the first look and was gone at the
second search.

**Invocation** (`main.rs` from `run` to `connect_session`).  The initial state is
every combination of flags, `user@`, ssh_config content and proxy directives;
`Show` is a `gitway config show` of the same host beforehand; `Resolve`, `ApplyConfig`, `ApplyFlags`, `ApplyAlgorithms`,
`ResolveProxyDirectives`, `Dispatch` and `ConnectSession` follow the functions
of those names in their order.  An option's value is the source it came from;
`-i` adds an identity file to those of ssh_config (`Over`), the other flags
replace; the repeatable `-J` gives one `none`, a chain, or a chain of several hops
one of which is called none (`mixed`), which is a chain like any other.

**AgentLifecycle** (`agent.rs` start and stop).  A start has a parent that looks
at the path, launches a daemon and polls for the socket, and a daemon that binds
(`Bind`), writes its pid file and installs its handlers (`Serve`), and on a signal
unlinks its socket and pid file, or crashes and leaves them; a signal before the
handlers are there kills it and leaves the socket.  A stop is two steps, `ResolvePid` (from `SSH_AGENT_PID` or a pid
file) and `SendTerm`; the pid of a daemon that has ended may by then be another
process's.  `Terminate` is a signal from elsewhere.

**AgentClient** (`agent.rs` add, remove, lock, unlock; `gitway-keygen.rs` -Y
sign).  `held` maps each identity the agent holds to its constraints.  Each
request is an action: `List`, `TakeKey`, `Unlock`, `SendAdd`, `Remove`,
`RemoveAll` (`agent remove --all`, which lists first), `Clear` (`gitway-add -D`,
which does not), `SetLock`, `SignWithAgent`, `SignWithFile`; `Expire` is a lifetime
that runs out, `Restart` the end of the agent and the start of another on its
socket: the clients' connections are `cut`.

**Signing** (`gitway-keygen.rs`, `keygen.rs`, `sign.rs`).  `priv` and `pub` are the
two files of a key path, `agent` what the agent would sign with, `allowed` the
entries of the allowed-signers file, of which a key may have several.  At the
start a pair may not match.  `Generate` writes the private file and `WritePublic`
the public one; `Extract` reads the private file first and writes the .pub next
to it or, with `--output`, that of another pair or a file of no pair.  `-Y sign` is `BeginSign`,
`LoadPublic`, `ListAgent`, `AgentSign` or `ResolvePath` and `LoadAndSign`, then
`WriteSig`; `gitway sign` starts at the load.  git then runs `FindPrincipals` and
`Verify` for one principal after the other until one verifies, or
`CheckNovalidate` if there was none.  A signature is its key
and its namespace.  `Abort` is any error or kill.

**KnownHosts** (`hosts.rs`).  The file is a set of pins (plain or hashed) and
revocation marks.  `Probe`, `DetectHashMode`, `Confirm`, `Open` and `Append` are
`hosts add`; `Classify`, `ReadFile` and `Rename` are `hosts revoke`.  A rename while
an add has the file open leaves it with an `orphan`: it writes, and reports
success, into a file nobody reads.

## 3. Runs

Passing runs:

| Run | What it checks | Bounds, and why they are enough |
|---|---|---|
| `vault` | `VaultOnceValid`, `HealSoundUnlessRaced`, `ReportsTrue`, `EnrolmentKept`, `UnlockedKeyOpens`, `PromiseSpec` | 2 processes, 1 key, 2 passphrases, all 3 back ends, all 7 commands. Every shared resource is indexed by key and a batch handles its keys in turn, so races are on one key; two passphrases distinguish right from wrong. The same properties are proved without bounds |
| `vault_live` | `ReaderReleased`, `AutoUnlockTerminates` | 2 processes, 1 key, 1 passphrase, Linux, no symmetry (which is unsound for liveness) |
| `transport` | `ExecZeroMeansSuccess`, `LatePromptOnlyIfVouched`, `TestZeroMeansNoRefusal`, `RefusedKeyNotMissing`, `Terminates` | all entry points, identities, accepted credentials, agent states and prompt environments, with any number of changes of agent and key file; remote codes 0, 1, 128 (success, failure, the code Git uses for a fatal error) |
| `lifecycle` | `AdvertisedSocketIsTheChilds`, `NoTakeover`, `NoForeignUnlink`, `Stoppable`, `StartEnds`, `StopStops` | 3 starts on one path with one pid file: two that race, and one that comes later; one shell that runs stops |
| `agent_client` | `AddReportTrue`, `ConfirmKept`, `DenialFinal`, `SignFailureExplained`, `RemoveAllNamesThem` | 2 clients, 1 key: each property relates one client to one identity, the other client is what races with it; batches of several keys are left to the proofs |
| `known_hosts` | `LinesKept`, `RevocationHolds` | 2 processes, 2 hosts, 2 fingerprints, one of them built in; the file starts with at most `MaxInitial` = 1 line and `MaxCommands` = 3 commands run: enough for a revoke that overlaps an add or a revoke after the file has gained a line |
| `invocation` | `Precedence`, `ShowPredictsSession`, `NoneOpensNothing`, `EndsRight` | the options `user` (also set by `user@host`), `identity` (added to, not replaced) and `algorithms` (merged apart from the rest); `port`, which stands for the options that are simply replaced, is left to the proofs; every value of both proxy directives in both sources |
| `signing` | `SignsWithNamedKey`, `PairMatches`, `FoundVerifies` | 2 processes on 1 key path, so that every two commands race for the pair; 2 keys, so that one can replace the other; 2 principals and 2 namespaces, so that a wrong one of each exists; `MaxEntries` = 2 entries in the allowed-signers file: two for one key, or one for each |

Every passing run also checks its module's `TypeOK`.  `CHECK_DEADLOCK FALSE` is
given where the modelled processes really end; the agent's clients and the
signers may always start another command, so `agent_client` and `signing` check
for deadlock.

Several invariants hold "unless raced": no lock is taken anywhere, so another
process may always come in between, and what the property then says is that
*only* this can make a report, a pid, a pair or a signature wrong.  The history
variables (`raced`, `contested`, `clean`, `torn`, `clobbered`) are set by the steps
of other processes alone, or by a process that is cut short, never by the step
the property is about; `clean` is also FALSE for a sign that starts from a pair
that does not match, and `torn` holds of a pair that does not match at the start
until it is written in full.  Where such a proviso names a race the code is
exposed to (a revoke over a changed file, a pair replaced between two reads, an
allowed-signers file edited between two calls, a heal of a key parsed earlier),
the property shows the exposure is no wider than that; it does not show the race
away.

Symmetry: processes (in the vault passphrases, in Signing keys and principals
as well) are interchangeable in the safety runs, never in the liveness runs.

Runs that show a disagreement between the code and what it says of itself, each
checking one property that TLC finds violated:

- `heal_race` (`HealDeletesOnlyStale`): a load parses the key; meanwhile another
  process changes the passphrase and enrols it; the load's fingerprint prompt
  then releases the new secret, which does not open the old copy, and the
  fresh, valid enrolment is deleted (`biometric/mod.rs:372`).
- `new_passphrase` (`NewPassphraseFromUser`): `change-passphrase` without a
  terminal on stderr collects the *new* passphrase with a function that asks
  the vault first, so the enrolled passphrase becomes the "new" one without any
  question (`keygen.rs:309`).
- `agent_pid` (`AdvertisedPidServes`): of two starts on one path, a background one
  prints its own child's pid for a socket the other's daemon bound
  (`agent.rs:525`).
- `broken_config` (`BrokenConfigIsUsageError`): an ssh_config that cannot be parsed
  is ignored with a warning (`main.rs:532-541`, "it shouldn't brick the connection
  either"), where `docs/exit-codes.md:16` lists it under code 2.  `config show` does
  fail on such a file.  `EndsRight` states what the code does.

Smaller divergences met while modelling, which no run is about:

- `resolve_proxy_directives` takes ProxyCommand and ProxyJump each by itself from
  the command line or ssh_config, and `connect_session` prefers the command
  (`main.rs:722-724` says so): ssh_config's ProxyCommand beats hosts given with
  `-J`, which `main.rs:676-677` ("CLI > ssh_config > none") would not suggest, and
  `--proxy-command none` leaves ssh_config's ProxyJump in force where its help says
  "force a direct connection" (`cli.rs:708-709`).
- `-i` is appended to ssh_config's identity files (`main.rs:577-579`), though the
  comment at `main.rs:522-525` says that flags take precedence.
- The vault is "additive and never blocks a Git operation" (`main.rs:1322`), but
  the calls to fprintd and the keyring other than the scan have no timeout, and
  `keyring.unlock` may raise a dialog and wait for the user (`linux.rs:237`).
- Where an encrypted key is gone at the second search (`main.rs:1265-1267`), an
  agent identity that was refused before is reported as a missing key.

- The comment of `maybe_collect_passphrase` says that no prompt is made while
  the session's timer runs; with keys in the agent that the server refuses, one
  is (`main.rs:1190-1198` and `main.rs:1270`).
- `gitway --test` ends with 0 when no key was found, where `docs/exit-codes.md`
  gives codes 0 and 3 their usual meaning (`main.rs:857-866`).
- `agent add -c` and `-t` are ignored for a key that is already loaded, and the
  JSON output does not tell which keys were skipped.
- `agent add --biometric` on a machine without a usable back end ends with 0,
  not 78.
- `gitway hosts revoke HOST` revokes the first of the host's fingerprints and
  reports success; the help at `cli.rs:583` says "one `@revoked` line per matching
  fingerprint" (`hosts.rs:227-229` calls the batch a later item).
- A background start that gives up leaves its child, which may still bind
  (`agent.rs:505-523`); the default pid file is one per directory; `agent stop
  --pid-file` yields to `$SSH_AGENT_PID`.
- A relative `SSH_ASKPASS` fails every prompt, also where the terminal would have
  been asked (`main.rs:1422-1428`).
- `-Y sign -f key.pub` with a private key next to it that is not its half signs
  with that private key when the agent does not hold the named one
  (`gitway-keygen.rs:725-732`).
- In `gitway-keygen` the first positional is always the message file, though a
  comment lets it stand in for `-f`; `--` drops the positionals after it; `-O
  verify-time` is accepted and ignored.
- `change-passphrase` with an empty answer stores an empty passphrase and reports
  `"encrypted": true`.
- A revocation written into a hashed known_hosts file is a plain line.  A revoke
  that overlaps an `add` loses the added line (the proviso of `LinesKept`).
- `change-passphrase` leaves the enrolment as it was; the next unlock heals it.

### Fairness

Fairness is assumed only of what the code schedules by itself.

- BiometricVault: weak fairness, on Linux, of what the code bounds: reading the
  key file, the scan (`VERIFY_TIMEOUT`) with the release of the device, and the
  comparison of the secret.  None for the requests to the keyring and to fprintd
  that have no timeout (`Requests`: search, claim, fetch and the delete of a heal),
  where `AutoUnlockTerminates` allows a process to wait for ever; none for the
  typed prompt, for the system dialogs of macOS and Windows, or for a user who
  starts commands.  That fprintd answers start, stop and release of a device it
  has granted is assumed.  A killed process's claim is dropped by the bus.
- Transport: weak fairness of the process's own steps; none of the user, whose
  answer may never come (`Terminates` allows waiting at a prompt somebody could
  answer), of the agent or of the timer.
- AgentLifecycle: weak fairness of the parent's poll loop, which has a deadline,
  and of a stop from the pid it has read to the signal, which waits for nothing;
  none of daemons, crashes or of a stop being run.
- Invocation: weak fairness of `Next`: a straight-line program.
- AgentClient, KnownHosts and Signing: none; they have no liveness property.

## 4. Proofs

`BiometricVaultProofs` proves for any sets of processes, keys
and passphrases, any subset of the commands and of the three back ends:

- `TypeCorrect`: types, and that an idle process holds no passphrase.
- `VaultSound`, `HealSound`, `ReportsSound`, `UnlockSound`: the safety invariants
  of the run `vault`; `EnrolmentSound`: its action property.

Assumptions: `NoneAssumption` (`None` is not a process, key or passphrase),
`CommandsAssumption` and `PlatformsAssumption`.

None of the invariants is inductive.  `AllInv` strengthens them by part:

- `TypeInv` adds that a process past `TakeKey` has a key in hand.
- `OnceInv` follows a passphrase backwards: what is stored (`HeldEver`) was
  compared with the parsed copy (`MemEver`), and that was once the file
  (`DiskEver`).
- `HealInv`: as long as nobody raced, the copy is what the file holds
  (`MemCurrent`) and the secret what the keystore holds (`HeldCurrent`), so a
  secret that does not open the copy does not open the file.  `HeldCurrent`
  needs to know at which step each back end takes the secret.
- `ReportInv`: handled keys are neither in hand nor still to come
  (`HandledApart`), and what an enrolment is about to store opens the key unless
  it was raced (`EnrollPath`, `EnrollRight`).

- `UnlockInv`: until somebody races, the copy `gitway sign` made is the file's
  (`CopyCurrent`), and the secret on its way to a use opens the file (`UsePath`).

Lemmas `StepType`, `StepOnce`, `StepHeal`, `StepReport` and `StepUnlock` go through
the actions of one process, `NextInv` puts them together, and `StepKept` derives
the action property from the invariant.

Two more theorems are the parts of the run `vault_live` that need no fairness:
`ReaderSound` (nobody has the fingerprint device but a process that is scanning)
and `UnlockNeverBack` (each step of an auto unlock leads to a later one, in the
order `Stage`, or out of it: at most seven steps and one scan).

`VaultPromiseProofs` proves `KeepsPromise`: the specification implements
VaultPromise.  A step of a process either leaves all mapped variables alone
(`QuietSteps`), moves that process's release and nothing else (`ReleaseSteps`), or
changes one key's item or file (`KeySteps`); `MapQuiet`, `MapMove` and `MapKey` turn
each kind into a stutter or a step of the abstract specification.  The invariant
`PromiseInv` supplies what the abstract guards ask: a secret that is handed out
is one the file has had, and on Linux only the process that holds the reader
scans.

`TransportProofs` proves, for any set of remote exit statuses that contains 0
(`RemoteCodesAssumption`) and any entry points (`ModesAssumption`), `TypeCorrect`,
`ExecZeroSound`, `LatePromptSound`, `TestZeroSound` and `NoKeySound`, the safety
properties of the run `transport`.  The invariant adds `Progress` (what each
program point knows of error, exit code and remote status), `Vouched` (a process
that went on without a passphrase and has an encrypted key saw keys in the
agent, or the file has changed since) and `Second` (what was refused is still
there to be seen at the second look, unless it is recorded as moved).
`RefusedKeyNotMissing` names both ways the code has of calling a refused key
missing: everything that was refused has changed or cannot be read at the second
look, or the encrypted key was gone at the second search.
`NeverBack` is the part of `Terminates` that needs no fairness: `StepsLeft`, a rank
of the program points that counts a prompt before the connect higher than one on
an open session, starts at 14, never rises, and falls whenever the process moves.

`SigningProofs` proves, for any processes, paths, keys, principals and
namespaces (`NoneAssumption`: `None` is none of them), all four properties of the
run `signing`: `TypeCorrect`, `SignsNamed`, `PairsMatch`, `FoundIsVerified`.  Beside
types (`InHand`: whoever generates or signs has a path) each needs an invariant of
its own:

- `SignInv`: what a clean signer has read, and what it will still read, is the
  key named at the start (`Faithful`).  `FaithfulFrame` says which steps of others
  cannot disturb it.
- `PairInv`: an untorn path has at most one writer, and that one holds the key of
  the private file.
- `FoundInv`: while a clean git tries one principal after the other, those left
  include every one whose entry covers git's namespace.

`KnownHostsProofs` proves, for any processes, hosts, fingerprints, embedded pins
and bounds, all three properties of the run `known_hosts`: `TypeCorrect`,
`RevocationSound`, `NoLineLost`.  `InputsAssumption` says that there is a host and a
fingerprint and that none is both: the code tells them apart by the prefix
`SHA256:`.  `AddHas` is what an add carries from step to step.  `RevokeInv` follows
a revoke: it aims at the pattern its input asks for (`Aimed`), the lines it read
are the file's until somebody writes (`Fresh`), and the mark of a revoke that is
over stays as long as no rename put back a changed file (`Standing`).
`StepKeepsLines` is the heart of both: a step adds lines or is such a rename.
`StepReports` is the other half of `LinesKept`: who reports success has written.

`InvocationProofs` proves, for any options and goals, the safety properties of the
run `invocation`: `TypeCorrect`, `PrecedenceSound`, `ShowSound`, `NoneSound`; and
`UsageSound`, the safety half of `EndsRight` (the verdict on a command line is the
right one).  The properties speak of the last step only; the invariant says what
has been decided at each: whether ssh_config was read (`ReadInv`), whose value an
option has so far (`LayerInv`), what was shown (`ShownInv`), what the two proxy
directives resolve to (`DirectiveInv`), and the route (`RouteInv`).

`AgentLifecycleProofs` proves, for any starts, stops, socket paths and pid files
(`NoneAssumption`), the safety properties of the run `lifecycle`: `TypeCorrect`,
`StoppableSound`, `AdvertisedSound`, `TakeoverSound`, `UnlinkSound`.  The
invariant says whose files are there and why: a socket or pid file is that of a
daemon which was given its path and has not cleaned up (`FilesInv`); a running
daemon loses its pid file only to another that was given the same one
(`PidKept`); a background start nobody overlapped has its path to itself until it
reports (`Alone`); a daemon that is up owns the socket at its path unless some
start came there without looking or at the same time as another (`Owner`,
`Disputed`).  There is one lemma per kind of step, and `SockChanges` says which
steps change a socket path, which three of the action properties use.

`AgentClientProofs` proves, for any clients, keys and commands (`NoneAssumption`,
`CommandsAssumption`), all six properties of the run `agent_client`: `TypeCorrect`,
`AddReportSound`, `DenialSound`, `SignFailureSound`, `RemoveAllSound`,
`ConfirmSound`.  What a client reports is right because of what it saw: `Seen`
relates its list to the agent, up to what it did itself and to what is on record
in `raced`; `Course` and `Fresh` say which command is where and that nothing is
reported early.  `Undisturbed` is what a step of anybody else, a lifetime or a
restart leaves of a client, and `FrameInv` that this is enough; `OwnInv` goes
through the client's own steps.

Every safety property of a passing run is thus a theorem.  Only model-checked is
liveness (`ReaderReleased`, `AutoUnlockTerminates`, `Terminates`, `StartEnds`,
`StopStops`, `EndsRight`), because reasoning about fairness and ENABLED is beyond the prover;
`ReaderSound`, `UnlockNeverBack`, `NeverBack` and `UsageSound` are its parts that
need no fairness, all but those of `StartEnds` and `StopStops`, where a start or a
stop has a single step to take.

## 5. What is not modelled

- The bytes of keys and signatures, fingerprints and the cryptography: a key is
  a model value, a signature its key and namespace.
- list-algorithms, schema, describe, install, tracing, clap grammar,
  `gitway-lib`: no state of their own.
- `anvil-ssh`: known only by how it is used here.
- I/O errors of an agent that is alive.
- The replacement of the transport's key file by another key: `FilesChange` changes
  how the one key is stored.
- On Windows a second `Add` is refused or replaces the first (`windows.rs:114` says
  that Add does not replace); a back end that keeps the old item and reports
  success is not considered.
- What a stop does to an unrelated process that was given a dead daemon's pid: the
  code signals the pid it reads, and promises nothing more.
- `append_known_host` and `prepend_revoked` are external.  The second goes by way of
  a temporary file and a rename (`CHANGELOG.md:252-253`); of the first it is assumed
  that it opens the file for appending and then writes one line.

## 6. Plan

Done: BiometricVault and its abstract specification; Transport with the prompts;
Signing; AgentLifecycle with stops and crashes; AgentClient with an agent that is
replaced; KnownHosts; Invocation with config show; the proofs of all their
safety properties and of the refinement.

Left: a composition of the transport with the agent and its clients, in place of
the free `AgentChanges`.
