---- MODULE Transport ----
(***************************************************************************)
(* One gitway transport process, `gitway HOST COMMAND` (run_exec) or        *)
(* `gitway --test` (run_test): collect a passphrase if one is needed,       *)
(* connect, authenticate, run the remote command, close, exit.  The SSH     *)
(* agent is another process whose identities come and go at any moment, the *)
(* key files are encrypted, decrypted, removed and restored by others while *)
(* the process looks at them several times, and a session left idle is      *)
(* dropped after the inactivity timeout.                                    *)
(*                                                                         *)
(* A passphrase is asked for before connecting (the session is "closed"     *)
(* then) or on an open session, and each time in three stages: the          *)
(* biometric vault, the SSH_ASKPASS program, the terminal.                  *)
(***************************************************************************)
EXTENDS Naturals

CONSTANTS
    RemoteCodes,  \* exit statuses a remote command can return
    Modes         \* the entry points considered, a subset of AllModes

AllModes == {"exec", "testHuman", "testJson"}

ASSUME RemoteCodesAssumption == RemoteCodes \subseteq 0..255 /\ 0 \in RemoteCodes
ASSUME ModesAssumption == Modes \subseteq AllModes

VARIABLES
    mode,      \* which entry point runs, and its output mode
    identity,  \* what find_identity sees: a "plain" or "encrypted" key, "none"
    accepts,   \* the credentials the server accepts
    agent,     \* the SSH agent: "down", "empty" or holding "keys"
    env,       \* what the environment offers for asking the user
    pc,        \* where the process is
    typed,     \* the passphrase collected: "none", "right" or "wrong"
    conn,      \* the session: "closed", "open", "authed" or "lost"
    err,       \* the error authentication ended with
    remote,    \* the remote command's status once it has run, or NotRun
    exit,      \* the process's exit code, or Running
    vouched,   \* history: the agent held keys when maybe_collect_passphrase looked
    rekeyed,   \* history: the key files changed since find_identity first looked
    refused,   \* history: the identities offered to the server and refused
    moved,     \* history: what changed, or could not be read, since the offer
    vanished   \* history: a key found encrypted was not found so when looked for again

vars == <<mode, identity, accepts, agent, env, pc, typed, conn, err, remote, exit,
          vouched, rekeyed, refused, moved, vanished>>
world == <<mode, identity, accepts, agent, env>>
past  == <<vouched, rekeyed, refused, moved, vanished>>

NotRun  == 256
Running == 257

\* AnvilError::exit_code: an error of each kind ends the process with its code.
ExitOf == [nokey |-> 3, failed |-> 4, usage |-> 2, other |-> 1]
ErrKinds == DOMAIN ExitOf

\* Where the process waits for a passphrase.
Asking == {"vault", "askpass", "program", "terminal"}

PcStates == {"identity", "agent", "connect", "auth", "findAgain", "authTyped",
             "reclassify", "refusal", "exec", "close", "done"} \cup Asking

\* SSH_ASKPASS is unset, not absolute, names a world-writable file, or can be
\* run; SSH_ASKPASS_REQUIRE is force or prefer; there is a display and standard
\* error is not a terminal; the process has a controlling terminal.
Environments ==
    [askpass : {"unset", "relative", "exposed", "usable"},
     require : BOOLEAN, gui : BOOLEAN, console : BOOLEAN]

TypeOK ==
    /\ mode \in Modes
    /\ identity \in {"plain", "encrypted", "none"}
    /\ accepts \in SUBSET {"file", "agent"}
    /\ agent \in {"down", "empty", "keys"}
    /\ env \in Environments
    /\ pc \in PcStates
    /\ typed \in {"none", "right", "wrong"}
    /\ conn \in {"closed", "open", "authed", "lost"}
    /\ err \in ErrKinds \cup {"none"}
    /\ remote \in RemoteCodes \cup {NotRun}
    /\ exit \in RemoteCodes \cup {ExitOf[e] : e \in ErrKinds} \cup {0, Running}
    /\ vouched \in BOOLEAN /\ rekeyed \in BOOLEAN /\ vanished \in BOOLEAN
    /\ refused \subseteq {"file", "agent"} /\ moved \subseteq {"file", "agent"}

Init ==
    /\ mode \in Modes
    /\ identity \in {"plain", "encrypted", "none"}
    /\ accepts \in SUBSET {"file", "agent"}
    /\ agent \in {"down", "empty", "keys"}
    /\ env \in Environments
    /\ pc = "identity"
    /\ typed = "none" /\ conn = "closed" /\ err = "none"
    /\ remote = NotRun /\ exit = Running
    /\ vouched = FALSE /\ rekeyed = FALSE /\ vanished = FALSE
    /\ refused = {} /\ moved = {}

----------------------------------------------------------------------------
(* The rest of the world *)

\* The process has done with the agent and the key files: what they do no longer
\* matters.
Settled == pc \in {"refusal", "exec", "close", "done"}

\* Between the offer and the last look at what was offered.
Looking == conn # "closed" /\ pc \in {"findAgain", "authTyped", "reclassify"} \cup Asking

\* Another client adds, removes or locks identities, a lifetime expires, the
\* daemon stops or starts.
AgentChanges ==
    /\ ~Settled
    /\ agent' \in {"down", "empty", "keys"} \ {agent}
    /\ moved' = moved \cup IF Looking THEN {"agent"} ELSE {}
    /\ UNCHANGED <<mode, identity, accepts, env, pc, typed, conn, err, remote, exit,
                   vouched, rekeyed, refused, vanished>>

\* Another process changes the passphrase of the key file, decrypts, encrypts,
\* removes or restores it: the passphrase collected may open it no longer.
FilesChange ==
    /\ ~Settled
    /\ identity' \in {"plain", "encrypted", "none"}
    /\ typed' \in IF typed = "none" THEN {"none"} ELSE {"right", "wrong"}
    /\ <<identity', typed'>> # <<identity, typed>>
    /\ rekeyed' = (rekeyed \/ pc # "identity")
    /\ moved' = moved \cup IF Looking THEN {"file"} ELSE {}
    /\ UNCHANGED <<mode, accepts, agent, env, pc, conn, err, remote, exit, vouched,
                   refused, vanished>>

\* The session is idle while the user types: the 60 s timer drops it.
InactivityTimeout ==
    /\ pc \in Asking
    /\ conn = "open"
    /\ conn' = "lost"
    /\ UNCHANGED <<world, pc, typed, err, remote, exit, past>>

----------------------------------------------------------------------------
(* Steps of the process *)

\* The process returns from run with this code; dropping the session closes it.
Exit(code) ==
    /\ pc' = "done"
    /\ exit' = code
    /\ conn' = "closed"

\* An encrypted key may need a passphrase; a key file that cannot be read ends
\* the process.
FindIdentity ==
    /\ pc = "identity"
    /\ \/ /\ pc' = IF identity = "encrypted" THEN "agent" ELSE "connect"
          /\ UNCHANGED <<conn, exit>>
       \/ \E e \in {"usage", "other"} : Exit(ExitOf[e])
    /\ UNCHANGED <<world, typed, err, remote, past>>

\* As MaybeCollect, satisfied with an agent that answers but holds nothing.
MaybeCollectMutant ==
    /\ pc = "agent"
    /\ vouched' = (agent = "keys")
    /\ pc' = IF agent # "down" THEN "connect" ELSE "vault"
    /\ UNCHANGED <<world, typed, conn, err, remote, exit, rekeyed, refused, moved, vanished>>

\* With an encrypted key on disk the passphrase is collected now, unless the
\* agent is reachable and holds an identity.
MaybeCollect ==
    /\ pc = "agent"
    /\ vouched' = (agent = "keys")
    /\ pc' = IF agent = "keys" THEN "connect" ELSE "vault"
    /\ UNCHANGED <<world, typed, conn, err, remote, exit, rekeyed, refused, moved, vanished>>

Connect ==
    /\ pc = "connect"
    /\ \/ /\ conn' = "open"
          /\ pc' = IF typed = "none" THEN "auth" ELSE "authTyped"
          /\ UNCHANGED exit
       \/ \E e \in {"failed", "usage", "other"} : Exit(ExitOf[e])
    /\ UNCHANGED <<world, typed, err, remote, past>>

----------------------------------------------------------------------------
(* Authentication *)

\* Authentication succeeded: exec goes on to the command, --test to the close.
Authenticated ==
    /\ conn' = "authed"
    /\ pc' = IF mode = "exec" THEN "exec" ELSE "close"
    /\ UNCHANGED err

\* Authentication failed with e, which the entry point handles.
Refusal(e) ==
    /\ pc' = "refusal"
    /\ err' = e
    /\ UNCHANGED conn

\* AnvilSession::authenticate_best: a plain key on disk, then the agent's
\* identities.  A refusal is reported as "failed" or as "no key found"; an
\* encrypted key no agent identity stood in for is reported as encrypted.
Offered == (IF identity = "plain" THEN {"file"} ELSE {})
             \cup (IF agent = "keys" THEN {"agent"} ELSE {})

AuthenticateBest ==
    /\ pc = "auth"
    /\ moved' = {}
    /\ refused' = IF Offered \cap accepts = {} THEN Offered ELSE {}
    /\ IF Offered \cap accepts # {}
       THEN Authenticated
       ELSE \/ Refusal("other")
            \/ (Offered # {} /\ Refusal("failed"))
            \/ (pc' = "reclassify" /\ UNCHANGED <<conn, err>>)
            \/ (identity = "encrypted" /\ pc' = "findAgain" /\ UNCHANGED <<conn, err>>)
    /\ UNCHANGED <<world, typed, remote, exit, vouched, rekeyed, vanished>>

\* authenticate_with_prompt looks for the encrypted key again to ask for its
\* passphrase.  Reading it may fail this time, and a key that is gone or no
\* longer encrypted is reported as "no key found", which is not reclassified.
FindEncrypted ==
    /\ pc = "findAgain"
    /\ \/ /\ identity = "encrypted"
          /\ pc' = "vault" /\ UNCHANGED <<conn, err, vanished>>
       \/ /\ identity # "encrypted"
          /\ Refusal("nokey")
          /\ vanished' = TRUE
       \/ \E e \in {"usage", "other"} : Refusal(e) /\ UNCHANGED vanished
    /\ UNCHANGED <<world, typed, remote, exit, vouched, rekeyed, refused, moved>>

\* As ReclassifyNoKeyFound, looking at the key files alone.
ReclassifyMutant ==
    /\ pc = "reclassify"
    /\ Refusal(IF identity # "none" THEN "failed" ELSE "nokey")
    /\ UNCHANGED <<world, typed, remote, exit, past>>

\* "No key found" becomes "authentication failed" when a key is on disk or in
\* the agent, as found by looking again now; a key file that cannot be read any
\* longer counts as absent.
ReclassifyNoKeyFound ==
    /\ pc = "reclassify"
    /\ \E readable \in BOOLEAN :
         /\ Refusal(IF (readable /\ identity # "none") \/ agent = "keys"
                    THEN "failed" ELSE "nokey")
         /\ moved' = moved \cup IF readable THEN {} ELSE {"file"}
    /\ UNCHANGED <<world, typed, remote, exit, vouched, rekeyed, refused, vanished>>

\* The key file opens: it has been decrypted since, or the passphrase fits.
Opens == identity = "plain" \/ (identity = "encrypted" /\ typed = "right")

\* As AuthenticateTyped, authenticate_with_prompt asking again after a
\* passphrase that does not decrypt.
AuthenticateTypedMutant ==
    /\ pc = "authTyped"
    /\ IF conn = "open" /\ Opens /\ "file" \in accepts
       THEN Authenticated
       ELSE \/ vouched /\ pc' = "vault" /\ UNCHANGED <<conn, err>>
            \/ ~vouched /\ Refusal("other")
    /\ UNCHANGED <<world, typed, remote, exit, past>>

\* authenticate_with_passphrase on the collected passphrase, once.
AuthenticateTyped ==
    /\ pc = "authTyped"
    /\ IF conn = "open" /\ Opens
       THEN IF "file" \in accepts
            THEN Authenticated /\ UNCHANGED refused
            ELSE Refusal("failed") /\ refused' = refused \cup {"file"}
       ELSE Refusal("other") /\ UNCHANGED refused
    /\ UNCHANGED <<world, typed, remote, exit, vouched, rekeyed, moved, vanished>>

----------------------------------------------------------------------------
(* prompt_passphrase: asking for the passphrase of the encrypted key *)

\* The passphrase p is collected: before connecting it is kept for later.
Collected(p) ==
    /\ typed' = p
    /\ pc' = IF conn = "closed" THEN "connect" ELSE "authTyped"
    /\ UNCHANGED <<conn, err, exit>>

\* No passphrase is collected: before connecting the error e ends the process,
\* on an open session it is the outcome of the authentication.
AskFails(e) ==
    /\ \/ conn = "closed" /\ Exit(ExitOf[e]) /\ UNCHANGED err
       \/ conn # "closed" /\ Refusal(e) /\ UNCHANGED exit
    /\ UNCHANGED typed

\* The vault's passphrase has been tried on the key; without one the user is
\* asked.
VaultAnswers ==
    /\ pc = "vault"
    /\ \/ Collected("right")
       \/ pc' = "askpass" /\ UNCHANGED <<typed, conn, err, exit>>
    /\ UNCHANGED <<world, remote, past>>

\* An askpass program is run if it is required, or if there is a display and no
\* terminal on standard error.
UseAskpass ==
    /\ env.askpass # "unset"
    /\ env.require \/ env.gui

\* try_askpass up to the launch.  A relative path is an error even where the
\* program would not be used; a world-writable one only where it would.
TryAskpass ==
    /\ pc = "askpass"
    /\ IF env.askpass = "relative" \/ (UseAskpass /\ env.askpass = "exposed")
       THEN AskFails("usage")
       ELSE /\ pc' = IF UseAskpass THEN "program" ELSE "terminal"
            /\ UNCHANGED <<typed, conn, err, exit>>
    /\ UNCHANGED <<world, remote, past>>

\* The program prints a passphrase, or it cannot be launched, fails, or prints
\* something that is empty or not UTF-8: the terminal is not tried then.
AskpassAnswers ==
    /\ pc = "program"
    /\ Collected("right") \/ Collected("wrong") \/ AskFails("usage")
    /\ UNCHANGED <<world, remote, past>>

\* The user types at the terminal, an empty line included, or the read fails.
TerminalAnswers ==
    /\ pc = "terminal" /\ env.console
    /\ \/ Collected("right") \/ Collected("wrong")
       \/ AskFails("usage") \/ AskFails("other")
    /\ UNCHANGED <<world, remote, past>>

\* Without a controlling terminal the prompt fails at once.
NoTerminal ==
    /\ pc = "terminal" /\ ~env.console
    /\ AskFails("usage")
    /\ UNCHANGED <<world, remote, past>>

----------------------------------------------------------------------------
(* Ending *)

\* As Refused, the JSON path returning Ok after printing the envelope.
RefusedMutant ==
    /\ pc = "refusal"
    /\ LET told == mode = "testJson" \/ (mode # "exec" /\ err = "nokey")
       IN  \/ Exit(IF told THEN 0 ELSE ExitOf[err])
           \/ told /\ Exit(ExitOf["other"])
    /\ UNCHANGED <<world, typed, err, remote, past>>

\* A failed authentication.  exec returns the error.  --test reports it: a
\* missing key is only told to the user (human) or in the envelope (JSON),
\* which is printed only if the close succeeds.
Refused ==
    /\ pc = "refusal"
    /\ LET told == mode # "exec" /\ err = "nokey"
       IN  \/ Exit(IF told THEN 0 ELSE ExitOf[err])
           \/ (told \/ mode = "testJson") /\ Exit(ExitOf["other"])
    /\ UNCHANGED <<world, typed, err, remote, past>>

\* The remote command runs to an exit status, or the channel fails.
Exec ==
    /\ pc = "exec"
    /\ \/ remote' \in RemoteCodes /\ pc' = "close" /\ UNCHANGED <<conn, exit>>
       \/ Exit(ExitOf["other"]) /\ UNCHANGED remote
    /\ UNCHANGED <<world, typed, err, past>>

\* As Close, returning success in place of the remote status.
CloseMutant ==
    /\ pc = "close"
    /\ Exit(0) \/ Exit(ExitOf["other"])
    /\ UNCHANGED <<world, typed, err, remote, past>>

\* As Close, returning the remote status of a --test as well.
CloseMutantTest ==
    /\ pc = "close"
    /\ Exit(remote) \/ Exit(ExitOf["other"])
    /\ UNCHANGED <<world, typed, err, remote, past>>

\* The remote status is the exit code, but a failed close takes its place.
Close ==
    /\ pc = "close"
    /\ \/ Exit(IF mode = "exec" THEN remote ELSE 0)
       \/ Exit(ExitOf["other"])
    /\ UNCHANGED <<world, typed, err, remote, past>>

----------------------------------------------------------------------------

ProcessStep ==
    \/ FindIdentity \/ MaybeCollect \/ Connect
    \/ AuthenticateBest \/ FindEncrypted \/ ReclassifyNoKeyFound
    \/ AuthenticateTyped \/ TryAskpass \/ NoTerminal
    \/ Refused \/ Exec \/ Close

UserStep == VaultAnswers \/ AskpassAnswers \/ TerminalAnswers

Next == ProcessStep \/ UserStep \/ AgentChanges \/ FilesChange \/ InactivityTimeout

\* The process runs on by itself; the user need never answer.
Fairness == WF_vars(ProcessStep)

Spec == Init /\ [][Next]_vars /\ Fairness

----------------------------------------------------------------------------
(* Properties *)

\* Git trusts the exit code: run_exec ends with 0 only if the server accepted
\* an identity of this user, the remote command ran, and it returned 0.
ExecZeroMeansSuccess ==
    pc = "done" /\ mode = "exec" /\ exit = 0 =>
        /\ remote = 0
        /\ err = "none"
        /\ accepts # {}

\* A passphrase is asked for on an open session only when an agent holding an
\* identity had been found before connecting, or the key files have changed since
\* find_identity first looked: with an empty or absent agent
\* maybe_collect_passphrase asks first (the inactivity timer is not running).
LatePromptOnlyIfVouched == pc \in Asking /\ conn # "closed" => vouched \/ rekeyed

\* `gitway --test` ends with 0 after a refusal only if no key was found; a
\* rejected key, a wrong passphrase or a lost session keeps its error code in
\* both output modes.
TestZeroMeansNoRefusal ==
    pc = "done" /\ mode # "exec" /\ exit = 0 => err \in {"none", "nokey"}

\* A key the server refused is reported as "no key found" (exit 3) only if, at
\* the second look, it had gone: everything refused has changed or become
\* unreadable since the offer (reclassify_no_key_found).  The one other way is
\* authenticate_with_prompt finding that the encrypted key it goes back for is
\* gone or decrypted, an error it does not reclassify; then the file has changed.
RefusedKeyNotMissing ==
    err = "nokey" => refused \subseteq moved \/ (vanished /\ "file" \in moved)

\* Git is not left hanging: the process ends, unless the user leaves a prompt
\* unanswered that somebody could answer (the fingerprint reader, a running
\* askpass program, a terminal that exists).  Nothing asks again and again, and
\* without a terminal nothing waits for one.
Terminates ==
    <>(pc = "done") \/ <>[](pc \in {"vault", "program"} \/ (pc = "terminal" /\ env.console))

====
