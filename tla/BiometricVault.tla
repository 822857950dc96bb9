---- MODULE BiometricVault ----
(***************************************************************************)
(* The biometric passphrase vault of gitway: private-key files, the         *)
(* platform keystore that holds one enrolled passphrase per key, the        *)
(* fingerprint reader, and the processes (gitway agent add, gitway-add,     *)
(* gitway biometric enroll/forget, gitway keygen change-passphrase, gitway  *)
(* sign, and the transport before it connects) that share them without any  *)
(* lock.                                                                    *)
(*                                                                          *)
(* A step of a process is one access to a shared resource (a key file, the  *)
(* keystore, the reader) or one answer of the user, so every interleaving   *)
(* of two gitway processes between such accesses is a behaviour.            *)
(***************************************************************************)
EXTENDS Naturals, FiniteSets

CONSTANTS
    Procs,        \* gitway processes that may run at the same time
    Keys,         \* private keys, identified by public-key fingerprint
    Passphrases,  \* what a key can be encrypted under and a user can type
    Commands,     \* the commands processes run, a subset of AllCommands
    Platforms,    \* the keystore back ends to consider
    None          \* no passphrase, no item, nobody

AllCommands == {"load", "loadEnroll", "enroll", "forget", "change", "connect", "sign"}

ASSUME NoneAssumption == None \notin Passphrases \cup Procs \cup Keys
ASSUME CommandsAssumption == Commands \subseteq AllCommands
ASSUME PlatformsAssumption == Platforms \subseteq {"linux", "macos", "windows"}

VARIABLES
    platform,  \* the back end biometric::vault() returns in this build
    disk,      \* the passphrase each key file is encrypted under, or None
    vault,     \* the passphrase the keystore holds for each key, or None
    reader,    \* the process that has claimed the fprintd device, or None
    pc,        \* where each process is
    cmd,       \* the command it runs
    key,       \* the key it works on
    todo,      \* keys of its batch still to be handled
    handled,   \* keys of its batch it will report as done
    mem,       \* the passphrase its parsed in-memory copy is encrypted under
    held,      \* the passphrase it holds
    source,    \* who supplied held: the user or the vault
    use,       \* what the passphrase being collected is for
    old,       \* change-passphrase: the passphrase to decrypt with
    copy,      \* sign: what the copy it will sign with is encrypted under
    ever,      \* history: every passphrase a key file has ever had
    raced      \* history: keys whose file or item another process changed
               \*   since this process last read the key

files == <<disk, ever>>
local == <<cmd, key, todo, handled, mem, held, source, use, old,
           copy>>
vars  == <<platform, disk, vault, reader, pc, cmd, key, todo, handled, mem,
           held, source, use, old, copy, ever, raced>>

Secret == Passphrases \cup {None}

PcStates == {"idle", "next", "read", "search", "claim", "scan", "fetch",
             "verify", "heal", "ask", "store", "add", "new", "write", "decrypt"}

TypeOK ==
    /\ platform \in Platforms
    /\ disk \in [Keys -> Secret]
    /\ vault \in [Keys -> Secret]
    /\ reader \in Procs \cup {None}
    /\ pc \in [Procs -> PcStates]
    /\ cmd \in [Procs -> AllCommands]
    /\ key \in [Procs -> Keys \cup {None}]
    /\ todo \in [Procs -> SUBSET Keys]
    /\ handled \in [Procs -> SUBSET Keys]
    /\ mem \in [Procs -> Secret]
    /\ held \in [Procs -> Secret]
    /\ source \in [Procs -> {"user", "vault"}]
    /\ use \in [Procs -> {"key", "old", "new"}]
    /\ old \in [Procs -> Secret]
    /\ copy \in [Procs -> Secret]
    /\ ever \in [Keys -> SUBSET Secret]
    /\ raced \in [Procs -> SUBSET Keys]
    /\ \A p \in Procs : pc[p] = "idle" => held[p] = None /\ mem[p] = None

Init ==
    /\ platform \in Platforms
    /\ disk \in [Keys -> Secret]
    /\ vault = [k \in Keys |-> None]
    /\ reader = None
    /\ pc = [p \in Procs |-> "idle"]
    /\ cmd = [p \in Procs |-> "load"]
    /\ key = [p \in Procs |-> None]
    /\ todo = [p \in Procs |-> {}]
    /\ handled = [p \in Procs |-> {}]
    /\ mem = [p \in Procs |-> None]
    /\ held = [p \in Procs |-> None]
    /\ source = [p \in Procs |-> "user"]
    /\ use = [p \in Procs |-> "key"]
    /\ old = [p \in Procs |-> None]
    /\ copy = [p \in Procs |-> None]
    /\ ever = [k \in Keys |-> {disk[k]}]
    /\ raced = [p \in Procs |-> {}]

----------------------------------------------------------------------------
(* Helpers *)

Goto(p, s) == pc' = [pc EXCEPT ![p] = s]

\* p changed the file or the item of k: every other running process was raced.
RacedBy(p, k) ==
    raced' = [q \in Procs |-> IF q = p \/ pc[q] = "idle"
                              THEN raced[q] ELSE raced[q] \cup {k}]

\* p leaves its command: what it held is dropped.
Reset(p) ==
    /\ Goto(p, "idle")
    /\ cmd' = [cmd EXCEPT ![p] = "load"]
    /\ key' = [key EXCEPT ![p] = None]
    /\ todo' = [todo EXCEPT ![p] = {}]
    /\ handled' = [handled EXCEPT ![p] = {}]
    /\ mem' = [mem EXCEPT ![p] = None]
    /\ held' = [held EXCEPT ![p] = None]
    /\ source' = [source EXCEPT ![p] = "user"]
    /\ use' = [use EXCEPT ![p] = "key"]
    /\ old' = [old EXCEPT ![p] = None]
    /\ copy' = [copy EXCEPT ![p] = None]
    /\ raced' = [raced EXCEPT ![p] = {}]

\* p is done with its key and reports success for it.
Handled(p) ==
    /\ handled' = [handled EXCEPT ![p] = @ \cup {key[p]}]
    /\ Goto(p, "next")

----------------------------------------------------------------------------
(* Commands and their batches *)

\* A command starts over a batch of keys; forget --all lists the keystore to
\* find its batch.  Enroll runs only with a reachable back end.
Start(p, c, ks) ==
    /\ pc[p] = "idle"
    /\ ks # {}
    /\ c \in {"change", "connect", "sign"} => Cardinality(ks) = 1
    /\ cmd' = [cmd EXCEPT ![p] = c]
    /\ todo' = [todo EXCEPT ![p] = ks]
    /\ use' = [use EXCEPT ![p] = IF c = "change" THEN "old" ELSE "key"]
    /\ Goto(p, "next")
    /\ UNCHANGED <<platform, files, vault, reader, key, handled, mem, held,
                   source, old, copy, raced>>

\* As Finish, with the passphrase left behind.
FinishMutant(p) ==
    /\ pc[p] = "next"
    /\ todo[p] = {}
    /\ Goto(p, "idle")
    /\ UNCHANGED <<platform, files, vault, reader, local, raced>>

\* The batch is exhausted: the outcomes are printed and the process exits.
Finish(p) ==
    /\ pc[p] = "next"
    /\ todo[p] = {}
    /\ Reset(p)
    /\ UNCHANGED <<platform, files, vault, reader>>

\* The process ends in the middle of a command: an error propagated by `?`,
\* or a signal.  fprintd releases a device whose client is gone.
Kill(p) ==
    /\ pc[p] # "idle"
    /\ Reset(p)
    /\ reader' = IF reader = p THEN None ELSE reader
    /\ UNCHANGED <<platform, files, vault>>

----------------------------------------------------------------------------
(* Reading a key file *)

TakeKey(p, k) ==
    /\ pc[p] = "next"
    /\ k \in todo[p]
    /\ key' = [key EXCEPT ![p] = k]
    /\ todo' = [todo EXCEPT ![p] = @ \ {k}]

\* Load and enroll read and parse the file once.  An unencrypted key is
\* loaded as is by a load and refused by an enroll.
ReadKey(p, k) ==
    /\ cmd[p] \in {"load", "loadEnroll", "enroll"}
    /\ TakeKey(p, k)
    /\ mem' = [mem EXCEPT ![p] = disk[k]]
    /\ raced' = [raced EXCEPT ![p] = @ \ {k}]
    /\ IF disk[k] = None
       THEN /\ Goto(p, "next")
            /\ handled' = IF cmd[p] = "enroll"
                          THEN handled
                          ELSE [handled EXCEPT ![p] = @ \cup {k}]
       ELSE /\ \/ cmd[p] = "load" /\ Goto(p, "search")   \* UnlockMode::Auto
               \/ Goto(p, "ask")                         \* Disabled, Enroll
            /\ UNCHANGED handled
    /\ UNCHANGED <<platform, files, vault, reader, cmd, held, source, use, old, copy>>

\* change-passphrase parses the file to see whether an old passphrase is
\* needed; the flag supplies it, or prompt_passphrase does.
OpenKey(p, k) ==
    /\ cmd[p] = "change"
    /\ TakeKey(p, k)
    /\ IF disk[k] = None
       THEN Goto(p, "new") /\ UNCHANGED old
       ELSE \/ \E t \in Passphrases : old' = [old EXCEPT ![p] = t] /\ Goto(p, "new")
            \/ Goto(p, "read") /\ UNCHANGED old
    /\ source' = [source EXCEPT ![p] = "user"]
    /\ UNCHANGED <<platform, files, vault, reader, cmd, handled, mem, held,
                   use, copy, raced>>

\* The transport finds an identity file; an encrypted one needs a passphrase.
FindIdentity(p, k) ==
    /\ cmd[p] = "connect"
    /\ TakeKey(p, k)
    /\ Goto(p, IF disk[k] = None THEN "next" ELSE "read")
    /\ UNCHANGED <<platform, files, vault, reader, cmd, handled, mem, held,
                   source, use, old, copy, raced>>

\* sign parses the file into the copy it will sign with; an encrypted one needs
\* a passphrase.
SignKey(p, k) ==
    /\ cmd[p] = "sign"
    /\ TakeKey(p, k)
    /\ copy' = [copy EXCEPT ![p] = disk[k]]
    /\ raced' = [raced EXCEPT ![p] = @ \ {k}]
    /\ IF disk[k] = None
       THEN Goto(p, "next") /\ handled' = [handled EXCEPT ![p] = @ \cup {k}]
       ELSE Goto(p, "read") /\ UNCHANGED handled
    /\ UNCHANGED <<platform, files, vault, reader, cmd, mem, held, source, use, old>>

\* prompt_passphrase reads and parses the file again before it asks the vault;
\* sign keeps its own, earlier copy.
ReadForUnlock(p) ==
    /\ pc[p] = "read"
    /\ mem' = [mem EXCEPT ![p] = disk[key[p]]]
    /\ raced' = IF cmd[p] = "sign" THEN raced ELSE [raced EXCEPT ![p] = @ \ {key[p]}]
    /\ Goto(p, "search")
    /\ UNCHANGED <<platform, files, vault, reader, cmd, key, todo, handled,
                   held, source, use, old, copy>>

----------------------------------------------------------------------------
(* retrieve: enrolment check, fingerprint, release *)

\* No item, or no keyring: fall back without a fingerprint prompt.  Windows
\* takes the credential, with its secret, before the consent prompt.
Search(p) ==
    /\ pc[p] = "search"
    /\ \/ Goto(p, "ask") /\ UNCHANGED held
       \/ /\ vault[key[p]] # None
          /\ Goto(p, IF platform = "linux" THEN "claim" ELSE "scan")
          /\ held' = IF platform = "windows"
                     THEN [held EXCEPT ![p] = vault[key[p]]]
                     ELSE held
    /\ UNCHANGED <<platform, files, vault, reader, cmd, key, todo, handled,
                   mem, source, use, old, copy, raced>>

\* As Claim, with a missing device or finger taken for an approval.
ClaimMutant(p) ==
    /\ pc[p] = "claim"
    /\ \/ Goto(p, "fetch") /\ UNCHANGED reader
       \/ reader = None /\ reader' = p /\ Goto(p, "scan")
    /\ UNCHANGED <<platform, files, vault, local, raced>>

\* No device or no enrolled finger, or a device another client holds: fall
\* back; otherwise the device is claimed for the scan.
Claim(p) ==
    /\ pc[p] = "claim"
    /\ \/ Goto(p, "ask") /\ UNCHANGED reader
       \/ reader = None /\ reader' = p /\ Goto(p, "scan")
    /\ UNCHANGED <<platform, files, vault, local, raced>>

\* As EndScan with an early return in place of the unconditional release.
EndScanMutant(p) ==
    /\ pc[p] = "scan"
    /\ \/ Goto(p, "fetch") /\ reader' = IF reader = p THEN None ELSE reader
       \/ Goto(p, "ask") /\ UNCHANGED reader
    /\ UNCHANGED <<platform, files, vault, local, raced>>

\* The scan ends with a match, a mismatch, an error, or at VERIFY_TIMEOUT; the
\* device is stopped and released whatever the verdict.
EndScan(p) ==
    /\ pc[p] = "scan"
    /\ Goto(p, "fetch") \/ Goto(p, "ask")
    /\ reader' = IF reader = p THEN None ELSE reader
    /\ UNCHANGED <<platform, files, vault, local, raced>>

\* As Fetch, with an error of the keystore taken for a stale secret.
FetchMutant(p) ==
    /\ pc[p] = "fetch"
    /\ held' = [held EXCEPT ![p] = vault[key[p]]]
    /\ Goto(p, "verify") \/ Goto(p, "heal")
    /\ UNCHANGED <<platform, files, vault, reader, cmd, key, todo, handled,
                   mem, source, use, old, copy, raced>>

\* The secret is read only now, from the item found by the search: it may be
\* gone, and its content is the present one (Windows released it earlier).
Fetch(p) ==
    /\ pc[p] = "fetch"
    /\ \/ Goto(p, "ask") /\ UNCHANGED held
       \/ /\ platform # "windows" => vault[key[p]] # None
          /\ held' = IF platform = "windows"
                     THEN held
                     ELSE [held EXCEPT ![p] = vault[key[p]]]
          /\ Goto(p, "verify")
    /\ UNCHANGED <<platform, files, vault, reader, cmd, key, todo, handled,
                   mem, source, use, old, copy, raced>>

----------------------------------------------------------------------------
(* What becomes of a passphrase that prompt_passphrase collected *)

\* A load decrypts and adds the key, sign decrypts its own copy; change-
\* passphrase goes on to the new passphrase, or writes the file.
Collected(p, t, who) ==
    /\ held' = [held EXCEPT ![p] = t]
    /\ source' = [source EXCEPT ![p] = who]
    /\ old' = IF use[p] = "old" THEN [old EXCEPT ![p] = t] ELSE old
    /\ IF use[p] = "key" /\ cmd[p] # "sign"
       THEN Handled(p)
       ELSE /\ Goto(p, IF use[p] = "key" THEN "decrypt"
                       ELSE IF use[p] = "old" THEN "new" ELSE "write")
            /\ UNCHANGED handled

\* As Verify, without trying the released secret.
VerifyMutant(p) ==
    /\ pc[p] = "verify"
    /\ Collected(p, held[p], "vault")
    /\ UNCHANGED <<platform, files, vault, reader, cmd, key, todo, mem, use,
                   copy, raced>>

\* The released secret is tried on the in-memory copy.
Verify(p) ==
    /\ pc[p] = "verify"
    /\ IF held[p] = mem[p]
       THEN Collected(p, held[p], "vault")
       ELSE Goto(p, "heal") /\ UNCHANGED <<held, source, old, handled>>
    /\ UNCHANGED <<platform, files, vault, reader, cmd, key, todo, mem, use,
                   copy, raced>>

\* As Heal, starting over in place of falling back to the user.
HealMutant(p) ==
    /\ pc[p] = "heal"
    /\ \/ vault' = [vault EXCEPT ![key[p]] = None] /\ RacedBy(p, key[p])
       \/ UNCHANGED <<vault, raced>>
    /\ Goto(p, "search")
    /\ UNCHANGED <<platform, files, reader, local>>

\* The secret did not decrypt the copy: the item is deleted by key id (its
\* failure is ignored) and the user is asked.
Heal(p) ==
    /\ pc[p] = "heal"
    /\ \/ vault' = [vault EXCEPT ![key[p]] = None] /\ RacedBy(p, key[p])
       \/ UNCHANGED <<vault, raced>>
    /\ Goto(p, "ask")
    /\ UNCHANGED <<platform, files, reader, local>>

----------------------------------------------------------------------------
(* The typed prompt *)

\* As Ask, storing what was typed without decrypting the key with it first.
AskMutant(p, t) ==
    /\ pc[p] = "ask"
    /\ cmd[p] \in {"enroll", "loadEnroll"}
    /\ held' = [held EXCEPT ![p] = t]
    /\ source' = [source EXCEPT ![p] = "user"]
    /\ Goto(p, "store")
    /\ UNCHANGED <<platform, files, vault, reader, cmd, key, todo, handled,
                   mem, use, old, copy, raced>>

\* The user types t.  Enroll and load try it on the copy: a wrong one ends a
\* load (Kill) and is an outcome of the batch for an enroll.  The others try it
\* on the file later.
Ask(p, t) ==
    /\ pc[p] = "ask"
    /\ \/ cmd[p] \in {"change", "connect", "sign"} /\ Collected(p, t, "user")
       \/ cmd[p] = "load" /\ t = mem[p] /\ Collected(p, t, "user")
       \/ /\ cmd[p] \in {"enroll", "loadEnroll"}
          /\ \/ t = mem[p] /\ Goto(p, "store")
             \/ t # mem[p] /\ cmd[p] = "enroll" /\ Goto(p, "next")
          /\ held' = [held EXCEPT ![p] = t]
          /\ source' = [source EXCEPT ![p] = "user"]
          /\ UNCHANGED <<old, handled>>
    /\ UNCHANGED <<platform, files, vault, reader, cmd, key, todo, mem, use,
                   copy, raced>>

\* sign decrypts the copy it parsed first and signs with it; a passphrase that
\* does not open it ends the process (Kill).
Decrypt(p) ==
    /\ pc[p] = "decrypt"
    /\ held[p] = copy[p]
    /\ Handled(p)
    /\ UNCHANGED <<platform, files, vault, reader, cmd, key, todo, mem, held,
                   source, use, old, copy, raced>>

----------------------------------------------------------------------------
(* store *)

\* A store that failed: enroll reports it for the key, agent add --biometric
\* prints a warning and loads the key all the same.
StoreFailed(p) ==
    IF cmd[p] = "loadEnroll" THEN Handled(p) ELSE Goto(p, "next") /\ UNCHANGED handled

\* As Store, with a failed write reported as an enrolment.
StoreMutant(p) ==
    /\ pc[p] = "store"
    /\ Handled(p)
    /\ \/ vault' = [vault EXCEPT ![key[p]] = held[p]] /\ RacedBy(p, key[p])
       \/ UNCHANGED <<vault, raced>>
    /\ UNCHANGED <<platform, files, reader, cmd, key, todo, mem, held,
                   source, use, old, copy>>

\* As Store, with the entry removed before it is written on every platform.
StoreMutantClear(p) ==
    /\ pc[p] = "store"
    /\ vault' = [vault EXCEPT ![key[p]] = None]
    /\ RacedBy(p, key[p])
    /\ Goto(p, "add")
    /\ UNCHANGED <<platform, files, reader, local>>

\* Linux replaces the item in one call; macOS and Windows delete it first, and
\* go on if that fails.
Store(p) ==
    /\ pc[p] = "store"
    /\ \/ /\ platform = "linux"
          /\ vault' = [vault EXCEPT ![key[p]] = held[p]]
          /\ RacedBy(p, key[p])
          /\ Handled(p)
       \/ StoreFailed(p) /\ UNCHANGED <<vault, raced>>
       \/ /\ platform # "linux"
          /\ \/ vault' = [vault EXCEPT ![key[p]] = None] /\ RacedBy(p, key[p])
             \/ UNCHANGED <<vault, raced>>
          /\ Goto(p, "add")
          /\ UNCHANGED handled
    /\ UNCHANGED <<platform, files, reader, cmd, key, todo, mem, held,
                   source, use, old, copy>>

\* The second half of the macOS and Windows store.  An item that exists by now is
\* refused on macOS; on Windows, where "Add does not replace", it may be refused
\* (StoreFailed) or superseded.
Add(p) ==
    /\ pc[p] = "add"
    /\ \/ /\ platform = "macos" => vault[key[p]] = None
          /\ vault' = [vault EXCEPT ![key[p]] = held[p]]
          /\ RacedBy(p, key[p])
          /\ Handled(p)
       \/ StoreFailed(p) /\ UNCHANGED <<vault, raced>>
    /\ UNCHANGED <<platform, files, reader, cmd, key, todo, mem, held,
                   source, use, old, copy>>

----------------------------------------------------------------------------
(* forget and change-passphrase *)

\* forget deletes the item of each key; not enrolled and refused are outcomes.
Forget(p, k) ==
    /\ cmd[p] = "forget"
    /\ TakeKey(p, k)
    /\ \/ /\ vault[k] # None
          /\ vault' = [vault EXCEPT ![k] = None]
          /\ RacedBy(p, k)
          /\ handled' = [handled EXCEPT ![p] = @ \cup {k}]
       \/ UNCHANGED <<vault, raced, handled>>
    /\ UNCHANGED <<platform, files, reader, pc, cmd, mem, held, source, use, old, copy>>

\* The new passphrase: --no-passphrase, a flag or a typed one; without a
\* terminal on stderr it is collected by prompt_passphrase, vault first.
NewPassphrase(p) ==
    /\ pc[p] = "new"
    /\ use' = [use EXCEPT ![p] = "new"]
    /\ \/ /\ \E t \in Secret : held' = [held EXCEPT ![p] = t]
          /\ source' = [source EXCEPT ![p] = "user"]
          /\ Goto(p, "write")
       \/ Goto(p, "read") /\ UNCHANGED <<held, source>>
    /\ UNCHANGED <<platform, files, vault, reader, cmd, key, todo, handled,
                   mem, old, copy, raced>>

\* keygen::change_passphrase decrypts the file as it is now with the old
\* passphrase and writes it back encrypted under the new one.
WriteKey(p) ==
    /\ pc[p] = "write"
    /\ disk[key[p]] \in {None, old[p]}
    /\ disk' = [disk EXCEPT ![key[p]] = held[p]]
    /\ ever' = [ever EXCEPT ![key[p]] = @ \cup {held[p]}]
    /\ RacedBy(p, key[p])
    /\ Handled(p)
    /\ UNCHANGED <<platform, vault, reader, cmd, key, todo, mem, held,
                   source, use, old, copy>>

----------------------------------------------------------------------------

\* One step of the auto-unlock path, which needs no answer at a typed prompt.
AutoUnlockStep(p) ==
    \/ ReadForUnlock(p) \/ Search(p) \/ Claim(p) \/ EndScan(p)
    \/ Fetch(p) \/ Verify(p) \/ Heal(p)

Step(p) ==
    \/ \E c \in Commands, ks \in SUBSET Keys : Start(p, c, ks)
    \/ Finish(p) \/ Kill(p)
    \/ \E k \in Keys : \/ ReadKey(p, k) \/ OpenKey(p, k) \/ FindIdentity(p, k)
                       \/ SignKey(p, k) \/ Forget(p, k)
    \/ AutoUnlockStep(p)
    \/ \E t \in Passphrases : Ask(p, t)
    \/ Decrypt(p) \/ Store(p) \/ Add(p) \/ NewPassphrase(p) \/ WriteKey(p)

Next == \E p \in Procs : Step(p)

\* A process goes on by itself through what waits for nobody, reading the key file
\* and trying the secret, and through the scan, which Linux bounds by
\* VERIFY_TIMEOUT (the other platforms wait for the user in the system's own
\* dialog).  The requests to the keyring and for the device have no timeout, and
\* unlocking the keyring may wait for the user: nothing is assumed of them.
Fairness ==
    \A p \in Procs :
        WF_vars(platform = "linux" /\ (ReadForUnlock(p) \/ EndScan(p) \/ Verify(p)))

Spec == Init /\ [][Next]_vars /\ Fairness

----------------------------------------------------------------------------
(* Properties *)

\* Whatever the interleaving, the keystore only ever holds a passphrase the
\* key's file really had at some time: enroll_one and agent add --biometric
\* decrypt the key with what was typed before they store it.
VaultOnceValid == \A k \in Keys : vault[k] \in ever[k] \cup {None}

\* Self-healing is right unless it is raced: a process about to delete an
\* enrolment, with no other process having changed the file or the item since
\* it parsed the key, faces one that does not open the file
\* (auto_unlock_passphrase: "its passphrase was changed since enrollment").
HealSoundUnlessRaced ==
    \A p \in Procs :
        pc[p] = "heal" /\ key[p] \notin raced[p] => vault[key[p]] # disk[key[p]]

\* A passphrase the vault released opens what it is used on, unless another
\* process changed the file or the item meanwhile: the copy gitway sign parsed
\* before prompt_passphrase read the file again, and the file that the transport
\* and change-passphrase open afterwards.
UnlockedKeyOpens ==
    \A p \in Procs :
        source[p] = "vault" /\ key[p] \notin raced[p] =>
            /\ pc[p] = "decrypt" => held[p] = copy[p]
            /\ pc[p] = "new" => old[p] = disk[key[p]]
            /\ cmd[p] = "connect" /\ key[p] \in handled[p] => held[p] = disk[key[p]]

\* What a batch reports is true when it is printed, but for keys another
\* process has changed meanwhile: an enrolled key has an item that opens it,
\* a forgotten key has none.
ReportsTrue ==
    \A p \in Procs : \A k \in handled[p] \ raced[p] :
        /\ cmd[p] = "enroll" => vault[k] = disk[k] /\ vault[k] # None
        /\ cmd[p] = "forget" => vault[k] = None

\* The Linux back end loses an enrolment only to a forget or a self-heal: a
\* failed or interrupted re-enrolment leaves the earlier one in place, since
\* create_item replaces the item in one call.
EnrolmentKept ==
    [][\A k \in Keys :
        platform = "linux" /\ vault[k] # None /\ vault'[k] = None =>
            \E p \in Procs :
                \/ pc[p] = "heal" /\ key[p] = k
                \/ cmd[p] = "forget" /\ k \in todo[p]]_vars

\* The fingerprint device is never left claimed, whatever the scan's verdict
\* and even if the process is killed (verify_fingerprint: "so the device is
\* never left claimed").
ReaderReleased == \A p \in Procs : reader = p ~> reader # p

\* The states of an auto unlock, and those in which it waits for the keyring or
\* fprintd to answer a request.
AutoUnlockStates == {"read", "search", "claim", "scan", "fetch", "verify", "heal"}
Requests == {"search", "claim", "fetch", "heal"}

\* An auto unlock does not hang by itself: again and again the process is out of it,
\* with the released secret, at the typed prompt or gone, unless from some time on
\* one of its requests to the keyring or to fprintd is left unanswered.  No finger,
\* no answer of the sensor and no stale secret holds it up, and nothing starts over
\* ("never blocks a Git operation", prompt_passphrase).
AutoUnlockTerminates ==
    \A p \in Procs :
        platform = "linux" =>
            []<>(pc[p] \notin AutoUnlockStates) \/ <>[](pc[p] \in Requests)

\* The processes keep the vault's promise (VaultPromise): whatever they
\* interleave, a stored passphrase reaches a command only after a scan passed for
\* that command, on Linux while nobody else scans, and is one the file has had.
\* "releases it after a local biometric check" (biometric/mod.rs).
Stages == [p \in Procs |->
    IF pc[p] = "scan" THEN "scanning"
    ELSE IF pc[p] = "fetch" THEN "approved"
    ELSE IF pc[p] = "verify" THEN "released" ELSE "none"]

HandedOut == [p \in Procs |-> IF pc[p] = "verify" THEN held[p] ELSE None]

Promise == INSTANCE VaultPromise WITH stage <- Stages, secret <- HandedOut

PromiseSpec == Promise!Spec

\* What the comments claim without the proviso, and the code does not do: the
\* enrolment a self-heal deletes no longer opens the key on disk.
HealDeletesOnlyStale ==
    [][\A p \in Procs :
        pc[p] = "heal" /\ vault' # vault /\ vault'[key[p]] = None
            => vault[key[p]] # disk[key[p]]]_vars

\* What prompt_new_passphrase's comment and prompts promise, and the code does
\* not do: the new passphrase of a key is one the user supplied.
NewPassphraseFromUser ==
    \A p \in Procs : pc[p] = "write" => source[p] = "user"

====
