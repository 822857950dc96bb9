---- MODULE AgentClient ----
(***************************************************************************)
(* The clients of an SSH agent: gitway agent add / remove / lock / unlock,  *)
(* their gitway-add counterparts, and gitway-keygen -Y sign, which signs    *)
(* through the agent when it can and with the key file otherwise.           *)
(*                                                                          *)
(* Each client makes its agent requests one after the other; between two of *)
(* them any other client may run, a lifetime may end, and the agent may be  *)
(* locked, unlocked, or replaced by a new one, which knows nothing and      *)
(* leaves the clients of the old one with a dead connection.                *)
(***************************************************************************)
EXTENDS Naturals

CONSTANTS
    Clients,   \* processes that talk to the agent
    Keys,      \* private keys, identified by public-key fingerprint
    Commands,  \* the commands considered, a subset of AllCommands
    None       \* not held

AllCommands == {"add", "remove", "removeAll", "clear", "lock", "unlock", "sign"}

ASSUME CommandsAssumption == Commands \subseteq AllCommands

\* What an identity was added with: -c (confirm) and -t (a lifetime).
Constraints == [confirm : BOOLEAN, timed : BOOLEAN]

ASSUME NoneAssumption == None \notin Constraints \cup Clients \cup Keys

VARIABLES
    held,     \* the agent's identities: the constraints of each key, or None
    locked,   \* whether the agent is locked
    cut,      \* whether each client's connection has died with its agent
    pc,       \* where each client is
    cmd,      \* its command
    want,     \* add: the constraints asked for
    enroll,   \* add: whether --biometric was given
    todo,     \* the keys it still has to handle
    key,      \* the key in hand
    loaded,   \* the identities its list request returned
    added,    \* the keys it will report as added
    skipped,  \* the keys it will report as already loaded
    result,   \* how it ended: "none", "ok" or "error"
    signer,   \* sign: what made the signature: "none", "agent" or "file"
    gone,     \* history: what its remove_all removed
    denied,   \* history: the user refused its signature request
    blind,    \* history: the agent showed it nothing when it listed
    raced     \* history: keys another process changed since it listed

agent == <<held, locked>>
vars == <<agent, cut, pc, cmd, want, enroll, todo, key, loaded, added, skipped,
          result, signer, gone, denied, blind, raced>>

PcStates == {"idle", "list", "next", "unlock", "send", "removeAll", "sign", "file"}

TypeOK ==
    /\ held \in [Keys -> Constraints \cup {None}]
    /\ locked \in BOOLEAN
    /\ cut \in [Clients -> BOOLEAN]
    /\ pc \in [Clients -> PcStates]
    /\ cmd \in [Clients -> AllCommands]
    /\ want \in [Clients -> Constraints]
    /\ enroll \in [Clients -> BOOLEAN]
    /\ todo \in [Clients -> SUBSET Keys]
    /\ key \in [Clients -> Keys \cup {None}]
    /\ loaded \in [Clients -> SUBSET Keys]
    /\ added \in [Clients -> SUBSET Keys]
    /\ skipped \in [Clients -> SUBSET Keys]
    /\ result \in [Clients -> {"none", "ok", "error"}]
    /\ signer \in [Clients -> {"none", "agent", "file"}]
    /\ gone \in [Clients -> SUBSET Keys]
    /\ denied \in [Clients -> BOOLEAN]
    /\ blind \in [Clients -> BOOLEAN]
    /\ raced \in [Clients -> SUBSET Keys]
    /\ \A c \in Clients : todo[c] \cap (added[c] \cup skipped[c]) = {}

Init ==
    /\ held = [k \in Keys |-> None]
    /\ locked = FALSE
    /\ cut = [c \in Clients |-> FALSE]
    /\ pc = [c \in Clients |-> "idle"]
    /\ cmd = [c \in Clients |-> "lock"]
    /\ want = [c \in Clients |-> [confirm |-> FALSE, timed |-> FALSE]]
    /\ enroll = [c \in Clients |-> FALSE]
    /\ todo = [c \in Clients |-> {}]
    /\ key = [c \in Clients |-> None]
    /\ loaded = [c \in Clients |-> {}]
    /\ added = [c \in Clients |-> {}]
    /\ skipped = [c \in Clients |-> {}]
    /\ result = [c \in Clients |-> "none"]
    /\ signer = [c \in Clients |-> "none"]
    /\ gone = [c \in Clients |-> {}]
    /\ denied = [c \in Clients |-> FALSE]
    /\ blind = [c \in Clients |-> FALSE]
    /\ raced = [c \in Clients |-> {}]

----------------------------------------------------------------------------
(* Helpers *)

Held == {k \in Keys : held[k] # None}

Goto(c, s) == pc' = [pc EXCEPT ![c] = s]

\* A locked agent answers no request about keys, a dead one none at all.
Refuses(c) == locked \/ cut[c]

\* The command of c ends, and its process with it.
End(c, r) ==
    /\ Goto(c, "idle")
    /\ result' = [result EXCEPT ![c] = r]

\* c (or time, for c = None) changed these keys under the other clients.
RacedBy(c, ks) == raced' = [d \in Clients |-> IF d = c THEN raced[d] ELSE raced[d] \cup ks]

\* The command's connection and arguments, its progress, what its list saw.
args   == <<cut, cmd, want, enroll>>
report == <<added, skipped, signer, gone, denied>>
seen   == <<loaded, blind>>

----------------------------------------------------------------------------
(* Starting, listing, ending *)

\* A new process takes the place of one that has ended.
Start(c, m, ks, con, en) ==
    /\ pc[c] = "idle"
    /\ cut' = [cut EXCEPT ![c] = FALSE]
    /\ cmd' = [cmd EXCEPT ![c] = m]
    /\ want' = [want EXCEPT ![c] = con]
    /\ enroll' = [enroll EXCEPT ![c] = en]
    /\ todo' = [todo EXCEPT ![c] = ks]
    /\ key' = [key EXCEPT ![c] = None]
    /\ loaded' = [loaded EXCEPT ![c] = {}]
    /\ added' = [added EXCEPT ![c] = {}]
    /\ skipped' = [skipped EXCEPT ![c] = {}]
    /\ result' = [result EXCEPT ![c] = "none"]
    /\ signer' = [signer EXCEPT ![c] = "none"]
    /\ gone' = [gone EXCEPT ![c] = {}]
    /\ denied' = [denied EXCEPT ![c] = FALSE]
    /\ blind' = [blind EXCEPT ![c] = FALSE]
    /\ raced' = [raced EXCEPT ![c] = {}]
    /\ Goto(c, IF m \in {"add", "removeAll", "sign"} THEN "list" ELSE "send")
    /\ UNCHANGED agent

\* The list request.  Without an answer, or with a locked agent's empty one, an
\* add goes on and a sign turns to the key file; remove --all fails, at once or
\* with its next request.
List(c) ==
    /\ pc[c] = "list"
    /\ loaded' = [loaded EXCEPT ![c] = IF Refuses(c) THEN {} ELSE Held]
    /\ blind' = [blind EXCEPT ![c] = Refuses(c)]
    /\ raced' = [raced EXCEPT ![c] = {}]
    /\ Goto(c, CASE cmd[c] = "add" -> "next"
                 [] cmd[c] = "removeAll" -> "removeAll"
                 [] cmd[c] = "sign" -> IF ~Refuses(c) /\ todo[c] \subseteq Held
                                       THEN "sign" ELSE "file")
    /\ UNCHANGED <<agent, args, todo, key, result, report>>

\* A file that does not parse, a wrong passphrase or an interrupt: `?` ends the
\* command, and what was already added stays in the agent.
Fail(c) ==
    /\ pc[c] \in {"next", "unlock", "file"}
    /\ pc[c] = "next" => todo[c] # {}
    /\ End(c, "error")
    /\ UNCHANGED <<agent, args, todo, key, seen, report, raced>>

----------------------------------------------------------------------------
(* add *)

\* As TakeKey, offering again what is already loaded.
TakeKeyMutant(c, k) ==
    /\ pc[c] = "next"
    /\ k \in todo[c]
    /\ todo' = [todo EXCEPT ![c] = @ \ {k}]
    /\ Goto(c, "unlock")
    /\ key' = [key EXCEPT ![c] = k]
    /\ UNCHANGED <<agent, args, seen, added, skipped, result, signer, gone, denied, raced>>

\* As TakeKey, with the skipped key left in the batch.
TakeKeyMutantBatch(c, k) ==
    /\ pc[c] = "next"
    /\ k \in todo[c]
    /\ IF k \in loaded[c] /\ ~enroll[c]
       THEN skipped' = [skipped EXCEPT ![c] = @ \cup {k}] /\ UNCHANGED <<pc, key>>
       ELSE Goto(c, "unlock") /\ key' = [key EXCEPT ![c] = k] /\ UNCHANGED skipped
    /\ UNCHANGED <<agent, args, todo, seen, added, result, signer, gone, denied, raced>>

\* The next file is read and parsed.  A key of the list is skipped, unless
\* --biometric must run to store its passphrase.
TakeKey(c, k) ==
    /\ pc[c] = "next"
    /\ k \in todo[c]
    /\ todo' = [todo EXCEPT ![c] = @ \ {k}]
    /\ IF k \in loaded[c] /\ ~enroll[c]
       THEN skipped' = [skipped EXCEPT ![c] = @ \cup {k}] /\ UNCHANGED <<pc, key>>
       ELSE Goto(c, "unlock") /\ key' = [key EXCEPT ![c] = k] /\ UNCHANGED skipped
    /\ UNCHANGED <<agent, args, seen, added, result, signer, gone, denied, raced>>

\* The key is decrypted, after however long the user takes to answer.
Unlock(c) ==
    /\ pc[c] = "unlock"
    /\ Goto(c, "send")
    /\ UNCHANGED <<agent, args, todo, key, seen, result, report, raced>>

\* As SendAdd, reporting the key before the agent has answered.
SendAddMutant(c) ==
    /\ pc[c] = "send" /\ cmd[c] = "add"
    /\ added' = [added EXCEPT ![c] = @ \cup {key[c]}]
    /\ IF Refuses(c)
       THEN End(c, "error") /\ UNCHANGED <<held, raced>>
       ELSE /\ held' = [held EXCEPT ![key[c]] = want[c]]
            /\ RacedBy(c, {key[c]})
            /\ Goto(c, "next")
            /\ UNCHANGED result
    /\ UNCHANGED <<locked, args, todo, key, seen, skipped, signer, gone, denied>>

\* The add request, with the constraints asked for; a locked or a dead
\* agent refuses it.
SendAdd(c) ==
    /\ pc[c] = "send" /\ cmd[c] = "add"
    /\ IF Refuses(c)
       THEN End(c, "error") /\ UNCHANGED <<held, added, raced>>
       ELSE /\ held' = [held EXCEPT ![key[c]] = want[c]]
            /\ added' = [added EXCEPT ![c] = @ \cup {key[c]}]
            /\ RacedBy(c, {key[c]})
            /\ Goto(c, "next")
            /\ UNCHANGED result
    /\ UNCHANGED <<locked, args, todo, key, seen, skipped, signer, gone, denied>>

\* Every file is handled: the report is printed.
FinishAdd(c) ==
    /\ pc[c] = "next"
    /\ todo[c] = {}
    /\ End(c, "ok")
    /\ UNCHANGED <<agent, args, todo, key, seen, report, raced>>

----------------------------------------------------------------------------
(* remove, remove --all, gitway-add -D, lock, unlock *)

\* A remove request for one key, which the agent must hold.
Remove(c) ==
    /\ pc[c] = "send" /\ cmd[c] = "remove"
    /\ IF ~Refuses(c) /\ todo[c] \subseteq Held
       THEN /\ held' = [k \in Keys |-> IF k \in todo[c] THEN None ELSE held[k]]
            /\ RacedBy(c, todo[c])
            /\ End(c, "ok")
       ELSE End(c, "error") /\ UNCHANGED <<held, raced>>
    /\ UNCHANGED <<locked, args, todo, key, seen, report>>

\* As RemoveAll, listing what is there after the request.
RemoveAllMutant(c) ==
    /\ pc[c] = "removeAll"
    /\ IF Refuses(c)
       THEN End(c, "error") /\ UNCHANGED <<held, gone, raced, loaded>>
       ELSE /\ gone' = [gone EXCEPT ![c] = Held]
            /\ held' = [k \in Keys |-> None]
            /\ loaded' = [loaded EXCEPT ![c] = {}]
            /\ RacedBy(c, Held)
            /\ End(c, "ok")
    /\ UNCHANGED <<locked, args, todo, key, blind, added, skipped, signer, denied>>

\* remove --all reports the list it made before this request, which empties
\* the agent whatever it holds by now.
RemoveAll(c) ==
    /\ pc[c] = "removeAll"
    /\ IF Refuses(c)
       THEN End(c, "error") /\ UNCHANGED <<held, gone, raced>>
       ELSE /\ gone' = [gone EXCEPT ![c] = Held]
            /\ held' = [k \in Keys |-> None]
            /\ RacedBy(c, Held)
            /\ End(c, "ok")
    /\ UNCHANGED <<locked, args, todo, key, seen, added, skipped, signer, denied>>

\* gitway-add -D empties the agent without a list, and names nothing.
Clear(c) ==
    /\ pc[c] = "send" /\ cmd[c] = "clear"
    /\ IF Refuses(c)
       THEN End(c, "error") /\ UNCHANGED <<held, raced>>
       ELSE /\ held' = [k \in Keys |-> None]
            /\ RacedBy(c, Held)
            /\ End(c, "ok")
    /\ UNCHANGED <<locked, args, todo, key, seen, report>>

\* Lock and unlock, refused by an agent already so or for a wrong passphrase.
SetLock(c) ==
    /\ pc[c] = "send" /\ cmd[c] \in {"lock", "unlock"}
    /\ \/ /\ ~cut[c] /\ locked = (cmd[c] = "unlock")
          /\ locked' = ~locked
          /\ RacedBy(c, Keys)
          /\ End(c, "ok")
       \/ End(c, "error") /\ UNCHANGED <<locked, raced>>
    /\ UNCHANGED <<held, args, todo, key, seen, report>>

----------------------------------------------------------------------------
(* gitway-keygen -Y sign *)

\* As SignWithAgent, falling back to the key file whatever the agent answers.
SignWithAgentMutant(c) ==
    /\ pc[c] = "sign"
    /\ LET usable == ~Refuses(c) /\ todo[c] \subseteq Held
           asks == usable /\ \E k \in todo[c] : held[k].confirm
       IN  \/ /\ usable
              /\ End(c, "ok")
              /\ signer' = [signer EXCEPT ![c] = "agent"]
              /\ UNCHANGED denied
           \/ /\ asks \/ ~usable
              /\ Goto(c, "file")
              /\ denied' = [denied EXCEPT ![c] = asks]
              /\ UNCHANGED <<signer, result>>
    /\ UNCHANGED <<agent, args, todo, key, seen, added, skipped, gone, raced>>

\* As SignWithAgent, ending with an error as soon as the agent is asked.
SignWithAgentMutantError(c) ==
    /\ pc[c] = "sign"
    /\ End(c, "error")
    /\ UNCHANGED <<agent, args, todo, key, seen, report, raced>>

\* Once the key was listed the client is committed to the agent: a denied
\* confirmation or a key that has gone since ends the command.
SignWithAgent(c) ==
    /\ pc[c] = "sign"
    /\ LET usable == ~Refuses(c) /\ todo[c] \subseteq Held
           asks == usable /\ \E k \in todo[c] : held[k].confirm
       IN  \/ /\ usable
              /\ End(c, "ok")
              /\ signer' = [signer EXCEPT ![c] = "agent"]
              /\ UNCHANGED denied
           \/ /\ asks \/ ~usable
              /\ End(c, "error")
              /\ denied' = [denied EXCEPT ![c] = asks]
              /\ UNCHANGED signer
    /\ UNCHANGED <<agent, args, todo, key, seen, added, skipped, gone, raced>>

\* The key file, found from the .pub path and decrypted, makes the signature.
SignWithFile(c) ==
    /\ pc[c] = "file"
    /\ End(c, "ok")
    /\ signer' = [signer EXCEPT ![c] = "file"]
    /\ UNCHANGED <<agent, args, todo, key, seen, added, skipped, gone, denied, raced>>

----------------------------------------------------------------------------
(* The agent's clock, and its end *)

\* A lifetime runs out: the agent drops the identity.
Expire(k) ==
    /\ held[k] # None /\ held[k].timed
    /\ held' = [held EXCEPT ![k] = None]
    /\ RacedBy(None, {k})
    /\ UNCHANGED <<locked, pc, args, todo, key, seen, result, report>>

\* The agent ends, killed or stopped, and another is started on its socket.
Restart ==
    /\ held' = [k \in Keys |-> None]
    /\ locked' = FALSE
    /\ cut' = [c \in Clients |-> pc[c] # "idle"]
    /\ RacedBy(None, Keys)
    /\ UNCHANGED <<pc, cmd, want, enroll, todo, key, seen, result, report>>

----------------------------------------------------------------------------

\* The batches of each command: add takes any files, remove and sign one key.
Batches(m) ==
    CASE m = "add" -> SUBSET Keys \ {{}}
      [] m \in {"remove", "sign"} -> {{k} : k \in Keys}
      [] OTHER -> {{}}

StartAny(c) ==
    \E m \in Commands : \E ks \in Batches(m) :
        IF m = "add"
        THEN \E con \in Constraints, en \in BOOLEAN : Start(c, m, ks, con, en)
        ELSE Start(c, m, ks, [confirm |-> FALSE, timed |-> FALSE], FALSE)

Step(c) ==
    \/ StartAny(c) \/ List(c) \/ Fail(c)
    \/ \E k \in Keys : TakeKey(c, k)
    \/ Unlock(c) \/ SendAdd(c) \/ FinishAdd(c)
    \/ Remove(c) \/ RemoveAll(c) \/ Clear(c) \/ SetLock(c)
    \/ SignWithAgent(c) \/ SignWithFile(c)

Next == (\E c \in Clients : Step(c)) \/ (\E k \in Keys : Expire(k)) \/ Restart

Spec == Init /\ [][Next]_vars

----------------------------------------------------------------------------
(* Properties *)

\* What an add reports is what the agent holds, even if the add fails half way:
\* an added key under the constraints asked for, an already loaded one under
\* some; only another client or a lifetime can have made it untrue.
AddReportTrue ==
    \A c \in Clients :
        /\ \A k \in added[c] \ raced[c] : held[k] = want[c]
        /\ \A k \in skipped[c] \ raced[c] : held[k] # None

\* An add never takes the confirmation off an identity that has it ("a key that
\* is already loaded in the agent is skipped"), except with --biometric, which
\* must run, or when it could not know: the agent showed it nothing when it
\* listed, or the identity has changed since.
ConfirmKept ==
    [][\A c \in Clients : \A k \in Keys :
        /\ cmd[c] = "add" /\ pc[c] = "send" /\ pc'[c] = "next" /\ key[c] = k
        /\ held[k] # None /\ held[k].confirm /\ ~want[c].confirm
        => enroll[c] \/ blind[c] \/ k \in raced[c]]_vars

\* A signature the user denied through the agent's confirmation is never made
\* with the key file instead (try_sign_via_agent: "genuine errors after we've
\* committed to the agent").
DenialFinal == \A c \in Clients : denied[c] => signer[c] = "none"

\* A sign whose key the agent listed fails only because the user denied it or
\* the agent was changed or replaced under it: it needs no file and no
\* passphrase.
SignFailureExplained ==
    \A c \in Clients :
        cmd[c] = "sign" /\ result[c] = "error" /\ loaded[c] # {} /\ todo[c] \subseteq loaded[c]
            => denied[c] \/ todo[c] \subseteq raced[c]

\* remove --all names what it removed: an identity that went unnamed, or was
\* named and not there to remove, was changed between its two requests.
RemoveAllNamesThem ==
    \A c \in Clients :
        cmd[c] = "removeAll" /\ result[c] = "ok" =>
            (gone[c] \ loaded[c]) \cup (loaded[c] \ gone[c]) \subseteq raced[c]

====
