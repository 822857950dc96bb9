---- MODULE Signing ----
(***************************************************************************)
(* Key pairs on disk and the commit signatures made with them: gitway       *)
(* keygen generate and extract-public, gitway-keygen -Y sign as git calls   *)
(* it (agent first, private-key file otherwise), gitway sign, and git's way *)
(* to check a signature: find-principals, then verify for what it found, or *)
(* check-novalidate.                                                        *)
(*                                                                          *)
(* Processes share the key files, the agent and the allowed-signers file    *)
(* without a lock; a step is one access to one of them.  Passphrases are    *)
(* left to BiometricVault: here a wrong one is one more way to end (Abort). *)
(***************************************************************************)
EXTENDS Naturals, FiniteSets

CONSTANTS
    Procs,       \* gitway and gitway-keygen processes
    Files,       \* private-key paths; the public key is at path.pub
    Keys,        \* key pairs
    Principals,  \* who an allowed-signers entry names
    Namespaces,  \* SSHSIG namespaces
    GitNs,       \* the one git signs and verifies in
    Scopes,      \* the namespaces an allowed-signers entry may be restricted to
    MaxEntries,  \* bound: entries of the allowed-signers file
    None

ASSUME GitNsAssumption == GitNs \in Namespaces
ASSUME ScopesAssumption == Scopes \subseteq Namespaces
ASSUME EntriesAssumption == MaxEntries \in Nat

VARIABLES
    priv,     \* the key in each private-key file, or None
    pub,      \* the key in each .pub file, or None
    agent,    \* the keys the agent would sign with
    allowed,  \* the entries of the allowed-signers file
    pc,       \* where each process is
    file,     \* the path of the pair it works on, or None
    form,     \* sign: whether -f names the .pub or the private file
    key,      \* the key it has read, generated or decided to sign with
    sig,      \* the signature it made or checks
    who,      \* the principals find-principals gave that are still to be tried
    verdict,  \* what git was told of the signature
    named,    \* history: the key -f named when the sign began
    clean,    \* history: nobody changed what the process relies on meanwhile
    torn      \* history: paths where the pair did not match to begin with, or a
              \* writer stopped half way, overlapped or was told to write
              \* another key's public half

files  == <<priv, pub, torn>>
local  == <<pc, file, form, key, sig, who, verdict, named, clean>>
shared == <<priv, pub, torn, agent, allowed>>
vars   == <<priv, pub, agent, allowed, pc, file, form, key, sig, who, verdict,
            named, clean, torn>>

Entry     == [key : Keys, who : Principals, ns : Scopes \cup {None}]
Signature == [key : Keys, ns : Namespaces]

ASSUME NoneAssumption ==
    None \notin Keys \cup Files \cup Principals \cup Namespaces \cup Signature

Writing == {"writePub", "writeExtracted"}
Signs   == {"loadPublic", "list", "agentSign", "resolve", "load", "output"}

TypeOK ==
    /\ priv \in [Files -> Keys \cup {None}]
    /\ pub \in [Files -> Keys \cup {None}]
    /\ agent \in SUBSET Keys
    /\ allowed \in SUBSET Entry
    /\ pc \in [Procs -> {"idle", "signed", "check", "done"} \cup Writing \cup Signs]
    /\ file \in [Procs -> Files \cup {None}]
    /\ form \in [Procs -> {"pub", "priv"}]
    /\ key \in [Procs -> Keys \cup {None}]
    /\ sig \in [Procs -> Signature \cup {None}]
    /\ who \in [Procs -> SUBSET Principals]
    /\ verdict \in [Procs -> {"none", "good", "untrusted", "bad"}]
    /\ named \in [Procs -> Keys \cup {None}]
    /\ clean \in [Procs -> BOOLEAN]
    /\ torn \in SUBSET Files
    /\ \A p \in Procs : pc[p] \in {"output", "signed", "check", "done"} => sig[p] # None

Init ==
    /\ priv \in [Files -> Keys \cup {None}]
    /\ pub \in [Files -> Keys \cup {None}]
    /\ agent = {}
    /\ allowed = {}
    /\ pc = [p \in Procs |-> "idle"]
    /\ file = [p \in Procs |-> None]
    /\ form = [p \in Procs |-> "priv"]
    /\ key = [p \in Procs |-> None]
    /\ sig = [p \in Procs |-> None]
    /\ who = [p \in Procs |-> {}]
    /\ verdict = [p \in Procs |-> "none"]
    /\ named = [p \in Procs |-> None]
    /\ clean = [p \in Procs |-> TRUE]
    /\ torn = {f \in Files : pub[f] # priv[f]}

----------------------------------------------------------------------------
(* Helpers *)

Goto(p, from, to) ==
    /\ pc[p] = from
    /\ pc' = [pc EXCEPT ![p] = to]

Reset(p) ==
    /\ pc' = [pc EXCEPT ![p] = "idle"]
    /\ file' = [file EXCEPT ![p] = None]
    /\ form' = [form EXCEPT ![p] = "priv"]
    /\ key' = [key EXCEPT ![p] = None]
    /\ sig' = [sig EXCEPT ![p] = None]
    /\ who' = [who EXCEPT ![p] = {}]
    /\ verdict' = [verdict EXCEPT ![p] = "none"]
    /\ named' = [named EXCEPT ![p] = None]
    /\ clean' = [clean EXCEPT ![p] = TRUE]

WritersOf(f) == {p \in Procs : file[p] = f /\ pc[p] \in Writing}

\* p begins to write the pair at f: a fresh start, unless another writer is
\* half way.
BeginWrite(p, f) ==
    /\ file' = [file EXCEPT ![p] = f]
    /\ torn' = IF WritersOf(f) = {} THEN torn \ {f} ELSE torn \cup {f}

\* p will write a public key to the .pub file at g, or to a file of no pair, with
\* no regard to the private key there.
BeginStray(p, g) ==
    /\ file' = [file EXCEPT ![p] = g]
    /\ torn' = torn \cup ({g} \cap Files)

\* p changed a file at f under the feet of whoever signs with it.
DirtiedBy(p, f) ==
    clean' = [q \in Procs |-> clean[q] /\ ~(q # p /\ file[q] = f /\ pc[q] \in Signs)]

\* The process ends: its work is done, an error is propagated by `?`, or it is
\* killed.  A writer leaves its pair half written.
Abort(p) ==
    /\ pc[p] # "idle"
    /\ torn' = IF pc[p] \in Writing THEN torn \cup ({file[p]} \cap Files) ELSE torn
    /\ Reset(p)
    /\ UNCHANGED <<priv, pub, agent, allowed>>

----------------------------------------------------------------------------
(* generate and extract-public *)

InUse == {priv[f] : f \in Files} \cup {pub[f] : f \in Files}
            \cup {key[p] : p \in Procs} \cup {named[p] : p \in Procs} \cup agent
            \cup {s.key : s \in {sig[p] : p \in Procs} \ {None}}

\* generate: a new key pair, of which write_keypair writes the private file
\* first.  Whether it replaces an existing file is the library's affair.
Generate(p, f, k) ==
    /\ Goto(p, "idle", "writePub")
    /\ k \notin InUse
    /\ priv' = [priv EXCEPT ![f] = k]
    /\ key' = [key EXCEPT ![p] = k]
    /\ BeginWrite(p, f)
    /\ DirtiedBy(p, f)
    /\ UNCHANGED <<pub, agent, allowed, form, sig, who, verdict, named>>

\* extract-public: the private file is read; the .pub next to it is written, or
\* with --output some other file.
Extract(p, f, g) ==
    /\ Goto(p, "idle", "writeExtracted")
    /\ priv[f] # None
    /\ key' = [key EXCEPT ![p] = priv[f]]
    /\ IF g = f THEN BeginWrite(p, f) ELSE BeginStray(p, g)
    /\ UNCHANGED <<priv, pub, agent, allowed, form, sig, who, verdict, named, clean>>

\* As WritePublic, with a .pub file that exists left alone.
WritePublicMutant(p) ==
    /\ pc[p] \in Writing
    /\ pub' = [f \in Files |-> IF f = file[p] /\ pub[f] = None THEN key[p] ELSE pub[f]]
    /\ pc' = [pc EXCEPT ![p] = "idle"]
    /\ file' = [file EXCEPT ![p] = None]
    /\ key' = [key EXCEPT ![p] = None]
    /\ DirtiedBy(p, file[p])
    /\ UNCHANGED <<priv, agent, allowed, form, sig, who, verdict, named, torn>>

\* The public key is written and the command reports.
WritePublic(p) ==
    /\ pc[p] \in Writing
    /\ pub' = [f \in Files |-> IF f = file[p] THEN key[p] ELSE pub[f]]
    /\ pc' = [pc EXCEPT ![p] = "idle"]
    /\ file' = [file EXCEPT ![p] = None]
    /\ key' = [key EXCEPT ![p] = None]
    /\ DirtiedBy(p, file[p])
    /\ UNCHANGED <<priv, agent, allowed, form, sig, who, verdict, named, torn>>

----------------------------------------------------------------------------
(* sign *)

\* What -f names: the .pub file's key, or the private file's.
KeyAt(f, fm) == IF fm = "pub" THEN pub[f] ELSE priv[f]

\* A sign of form fm begins at f; a pair that does not match is noted.
Begin(p, f, fm, to) ==
    /\ Goto(p, "idle", to)
    /\ file' = [file EXCEPT ![p] = f]
    /\ form' = [form EXCEPT ![p] = fm]
    /\ named' = [named EXCEPT ![p] = KeyAt(f, fm)]
    /\ clean' = [clean EXCEPT ![p] = fm = "priv" \/ priv[f] \in {None, pub[f]}]
    /\ UNCHANGED <<shared, key, sig, who, verdict>>

\* gitway-keygen -Y sign -n ns -f path, the message in hand: to the agent, or
\* without SSH_AUTH_SOCK straight to the private file.
BeginSign(p, f, fm) == Begin(p, f, fm, "loadPublic") \/ Begin(p, f, fm, "resolve")

\* gitway sign loads the private file, explicit or discovered, and never asks an
\* agent.
BeginGitwaySign(p, f) == Begin(p, f, "priv", "load")

\* load_public_key_for_signing: what cannot be read or parsed sends the sign to
\* the private file.
LoadPublic(p) ==
    LET k == KeyAt(file[p], form[p])
    IN  /\ Goto(p, "loadPublic", IF k = None THEN "resolve" ELSE "list")
        /\ key' = [key EXCEPT ![p] = k]
        /\ UNCHANGED <<shared, file, form, sig, who, verdict, named, clean>>

\* No agent to be reached, or one that does not list the key: the private file;
\* otherwise the agent it is.
ListAgent(p) ==
    /\ \/ Goto(p, "list", "resolve")
       \/ key[p] \in agent /\ Goto(p, "list", "agentSign")
    /\ UNCHANGED <<shared, file, form, key, sig, who, verdict, named, clean>>

\* As AgentSign, with whatever key the agent lists.
AgentSignMutant(p, ns) ==
    /\ Goto(p, "agentSign", "output")
    /\ \E k \in agent : sig' = [sig EXCEPT ![p] = [key |-> k, ns |-> ns]]
    /\ UNCHANGED <<shared, file, form, key, who, verdict, named, clean>>

\* The agent signs with the key, if it still holds it and the user does not
\* refuse; a refusal is final (Abort).
AgentSign(p, ns) ==
    /\ Goto(p, "agentSign", "output")
    /\ key[p] \in agent
    /\ sig' = [sig EXCEPT ![p] = [key |-> key[p], ns |-> ns]]
    /\ UNCHANGED <<shared, file, form, key, who, verdict, named, clean>>

\* As ResolvePath, with the load forgotten.
ResolvePathMutant(p) ==
    /\ Goto(p, "resolve", "output")
    /\ KeyAt(file[p], form[p]) # None
    /\ UNCHANGED <<shared, file, form, key, sig, who, verdict, named, clean>>

\* resolve_signing_key_path: a private file stands for itself, a .pub file for
\* the private file next to it; without either the sign fails (Abort).
ResolvePath(p) ==
    /\ Goto(p, "resolve", "load")
    /\ KeyAt(file[p], form[p]) # None
    /\ priv[file[p]] # None
    /\ UNCHANGED <<shared, file, form, key, sig, who, verdict, named, clean>>

\* load_and_decrypt, and the signature with the key the file holds now.
LoadAndSign(p, ns) ==
    /\ Goto(p, "load", "output")
    /\ priv[file[p]] # None
    /\ sig' = [sig EXCEPT ![p] = [key |-> priv[file[p]], ns |-> ns]]
    /\ UNCHANGED <<shared, file, form, key, who, verdict, named, clean>>

\* The signature is written to the .sig file or to stdout, and the process is
\* over; what follows is git with the signature.
WriteSig(p) ==
    /\ Goto(p, "output", "signed")
    /\ file' = [file EXCEPT ![p] = None]
    /\ form' = [form EXCEPT ![p] = "priv"]
    /\ key' = [key EXCEPT ![p] = None]
    /\ named' = [named EXCEPT ![p] = None]
    /\ clean' = [clean EXCEPT ![p] = TRUE]
    /\ UNCHANGED <<shared, sig, who, verdict>>

----------------------------------------------------------------------------
(* git checks the signature *)

Listed(k)     == {e \in allowed : e.key = k}
Covers(e, ns) == e.ns \in {None, ns}

\* As FindPrincipals, with every principal of the file for an answer.
FindPrincipalsMutant(p) ==
    /\ Goto(p, "signed", "check")
    /\ who' = [who EXCEPT ![p] = {e.who : e \in allowed}]
    /\ UNCHANGED <<shared, file, form, key, sig, verdict, named, clean>>

\* find-principals, as git calls it: no -n, so entries for any namespace count.
FindPrincipals(p) ==
    /\ Goto(p, "signed", "check")
    /\ who' = [who EXCEPT ![p] = {e.who : e \in Listed(sig[p].key)}]
    /\ UNCHANGED <<shared, file, form, key, sig, verdict, named, clean>>

\* verify -n git -I w: the allowed-signers file is loaded again, and must have an
\* entry of the key for this principal and namespace.
Vouches(p, w) ==
    /\ sig[p].ns = GitNs
    /\ \E e \in Listed(sig[p].key) : e.who = w /\ Covers(e, GitNs)

\* git tries the principals it was given until one verifies.
Verify(p) ==
    /\ pc[p] = "check"
    /\ \E w \in who[p] :
          \/ /\ Vouches(p, w)
             /\ verdict' = [verdict EXCEPT ![p] = "good"]
             /\ Goto(p, "check", "done")
             /\ UNCHANGED who
          \/ /\ ~Vouches(p, w)
             /\ who' = [who EXCEPT ![p] = @ \ {w}]
             /\ IF who[p] = {w}
                THEN verdict' = [verdict EXCEPT ![p] = "bad"] /\ Goto(p, "check", "done")
                ELSE UNCHANGED <<verdict, pc>>
    /\ UNCHANGED <<shared, file, form, key, sig, named, clean>>

\* No principal was found: check-novalidate looks at the signature alone.
CheckNovalidate(p) ==
    /\ Goto(p, "check", "done")
    /\ who[p] = {}
    /\ verdict' = [verdict EXCEPT ![p] = IF sig[p].ns = GitNs THEN "untrusted" ELSE "bad"]
    /\ UNCHANGED <<shared, file, form, key, sig, who, named, clean>>

----------------------------------------------------------------------------
(* Surroundings *)

\* The user adds an entry to the allowed-signers file or removes one.
EditAllowed(e) ==
    /\ allowed' = IF e \in allowed THEN allowed \ {e} ELSE allowed \cup {e}
    /\ Cardinality(allowed') <= MaxEntries
    /\ clean' = [p \in Procs |-> clean[p] /\ pc[p] \notin {"check", "done"}]
    /\ UNCHANGED <<files, agent, pc, file, form, key, sig, who, verdict, named>>

\* A key is added to the agent, removed, or expires.
ChangeAgent(k) ==
    /\ agent' = IF k \in agent THEN agent \ {k} ELSE agent \cup {k}
    /\ UNCHANGED <<files, allowed, local>>

Step(p) ==
    \/ Abort(p)
    \/ \E f \in Files, k \in Keys : Generate(p, f, k)
    \/ \E f \in Files, g \in Files \cup {None} : Extract(p, f, g)
    \/ WritePublic(p)
    \/ \E f \in Files, fm \in {"pub", "priv"} : BeginSign(p, f, fm)
    \/ \E f \in Files : BeginGitwaySign(p, f)
    \/ LoadPublic(p) \/ ListAgent(p) \/ ResolvePath(p) \/ WriteSig(p)
    \/ \E ns \in Namespaces : AgentSign(p, ns) \/ LoadAndSign(p, ns)
    \/ FindPrincipals(p) \/ Verify(p) \/ CheckNovalidate(p)

Next ==
    \/ \E p \in Procs : Step(p)
    \/ \E e \in Entry : EditAllowed(e)
    \/ \E k \in Keys : ChangeAgent(k)

Spec == Init /\ [][Next]_vars

----------------------------------------------------------------------------
(* Properties *)

\* A signature is by the key -f named, through the agent or from the file alike,
\* unless the pair did not match or another process replaced it meanwhile: git
\* names the .pub file, and the private file is found by its name alone.
SignsWithNamedKey ==
    \A p \in Procs :
        pc[p] = "output" /\ clean[p] => sig[p].key = named[p]

\* A .pub file holds the public half of the private key next to it once nobody is
\* writing, and a generate or an extract-public makes it so whatever was there:
\* unless one was cut short, overlapped another or was told with --output to write
\* elsewhere than next to its key.
PairMatches ==
    \A f \in Files \ torn : WritersOf(f) = {} => pub[f] = priv[f]

\* git calls a signature bad for nothing: unless the allowed-signers file was
\* edited after find-principals, a key it lists, under however many principals,
\* verifies for one of them, but for a signature of another namespace or entries
\* for others alone.
FoundVerifies ==
    \A p \in Procs :
        verdict[p] = "bad" /\ clean[p] =>
            \/ sig[p].ns # GitNs
            \/ /\ Listed(sig[p].key) # {}
               /\ \A e \in Listed(sig[p].key) : ~Covers(e, GitNs)

====
