---- MODULE AgentClientProofs ----
(***************************************************************************)
(* Proofs about AgentClient, for any number of clients and keys: its types, *)
(* and that what add, remove --all and sign report or do is right, but for  *)
(* a change of the agent by another client, a lifetime, a lock or a new     *)
(* agent, each of which is on record in `raced`.                            *)
(***************************************************************************)
EXTENDS AgentClient, TLAPS

\* Which command is at which step, and what it carries there: an add the key it
\* took from its batch, because it was not listed or must be enrolled.
Course(c) ==
    /\ pc[c] = "list" => cmd[c] \in {"add", "removeAll", "sign"}
    /\ pc[c] \in {"next", "unlock"} => cmd[c] = "add"
    /\ pc[c] = "send" => cmd[c] \in {"add", "remove", "clear", "lock", "unlock"}
    /\ pc[c] = "removeAll" => cmd[c] = "removeAll"
    /\ pc[c] \in {"sign", "file"} => cmd[c] = "sign"
    /\ pc[c] \in {"unlock", "send"} /\ cmd[c] = "add" =>
          /\ key[c] \in Keys \ (todo[c] \cup added[c])
          /\ enroll[c] \/ key[c] \notin loaded[c]
    /\ cmd[c] = "sign" => \E k \in Keys : todo[c] = {k}

\* Nothing is reported before it was done.
Fresh(c) ==
    /\ pc[c] # "idle" => result[c] = "none" /\ signer[c] = "none" /\ ~denied[c]
    /\ cmd[c] # "add" \/ pc[c] = "list" => added[c] = {} /\ skipped[c] = {}
    /\ cmd[c] \in {"remove", "clear", "lock", "unlock"} \/ pc[c] = "list" => loaded[c] = {}

\* What a list request showed is what the agent holds, but for what the client
\* itself has done since and for what is on record as changed.
Seen(c) ==
    /\ cmd[c] # "removeAll" \/ pc[c] = "removeAll" =>
          \A k \in loaded[c] \ raced[c] : held[k] # None
    /\ pc[c] \in {"next", "unlock", "send", "removeAll"} /\ cmd[c] \in {"add", "removeAll"} =>
          blind[c] \/ \A k \in Keys \ raced[c] : held[k] # None => k \in loaded[c] \cup added[c]
    /\ pc[c] = "removeAll" /\ blind[c] => Refuses(c) \/ raced[c] = Keys
    /\ pc[c] = "sign" => ~Refuses(c) \/ raced[c] = Keys
    /\ pc[c] = "sign" => todo[c] \subseteq loaded[c]
    /\ pc[c] = "file" => loaded[c] = {} \/ ~(todo[c] \subseteq loaded[c])

\* The properties, client by client.
Reported(c) ==
    /\ \A k \in added[c] \ raced[c] : held[k] = want[c]
    /\ \A k \in skipped[c] \ raced[c] : held[k] # None

Explained(c) ==
    cmd[c] = "sign" /\ result[c] = "error" /\ loaded[c] # {} /\ todo[c] \subseteq loaded[c]
        => denied[c] \/ todo[c] \subseteq raced[c]

Named(c) ==
    cmd[c] = "removeAll" /\ result[c] = "ok" =>
        (gone[c] \ loaded[c]) \cup (loaded[c] \ gone[c]) \subseteq raced[c]

Denied(c) == denied[c] => signer[c] = "none"

ClientInv(c) ==
    /\ Course(c) /\ Fresh(c) /\ Seen(c)
    /\ Reported(c) /\ Explained(c) /\ Named(c) /\ Denied(c)

Inv == TypeOK /\ \A c \in Clients : ClientInv(c)

----------------------------------------------------------------------------
(* Types *)

\* The invariant holds before any command.
LEMMA InitInv == Init => Inv
<1> SUFFICES ASSUME Init
             PROVE  Inv
  OBVIOUS
<1>1. [confirm |-> FALSE, timed |-> FALSE] \in Constraints
  BY DEF Constraints
<1>2. /\ locked \in BOOLEAN /\ cut \in [Clients -> BOOLEAN] /\ enroll \in [Clients -> BOOLEAN]
      /\ denied \in [Clients -> BOOLEAN] /\ blind \in [Clients -> BOOLEAN]
  BY DEF Init
<1>3. TypeOK
  BY <1>1, <1>2 DEF Init, TypeOK, PcStates, AllCommands
<1>4. ASSUME NEW c \in Clients
      PROVE  ClientInv(c)
  BY DEF Init, ClientInv, Course, Fresh, Seen, Reported, Explained, Named, Denied
<1> QED
  BY <1>3, <1>4 DEF Inv

\* The keys a command is given are keys, and a sign has one.
LEMMA BatchesType ==
    ASSUME NEW m \in Commands, NEW ks \in Batches(m)
    PROVE  ks \in SUBSET Keys /\ (m = "sign" => \E k \in Keys : ks = {k})
BY CommandsAssumption DEF Batches, AllCommands

\* A start is the start of some command with some keys and some arguments.
LEMMA StartForm ==
    ASSUME NEW c \in Clients, StartAny(c)
    PROVE  \E m \in AllCommands, ks \in SUBSET Keys, con \in Constraints, en \in BOOLEAN :
              Start(c, m, ks, con, en) /\ (m = "sign" => \E k \in Keys : ks = {k})
<1>1. PICK m \in Commands : \E ks \in Batches(m) :
        IF m = "add"
        THEN \E con \in Constraints, en \in BOOLEAN : Start(c, m, ks, con, en)
        ELSE Start(c, m, ks, [confirm |-> FALSE, timed |-> FALSE], FALSE)
  BY DEF StartAny
<1>2. PICK ks \in Batches(m) :
        IF m = "add"
        THEN \E con \in Constraints, en \in BOOLEAN : Start(c, m, ks, con, en)
        ELSE Start(c, m, ks, [confirm |-> FALSE, timed |-> FALSE], FALSE)
  BY <1>1
<1>3. ks \in SUBSET Keys /\ (m = "sign" => \E k \in Keys : ks = {k})
  BY BatchesType
<1>4. m \in AllCommands /\ [confirm |-> FALSE, timed |-> FALSE] \in Constraints
  BY CommandsAssumption DEF Constraints
<1>5. \E con \in Constraints, en \in BOOLEAN : Start(c, m, ks, con, en)
  BY <1>2, <1>4
<1> QED
  BY <1>3, <1>4, <1>5

\* Every step of a client keeps the types.
LEMMA StepType ==
    ASSUME Inv, NEW c \in Clients, Step(c)
    PROVE  TypeOK'
<1> USE DEF Inv, TypeOK, Goto, End, PcStates, agent, args, report, seen
<1>1. CASE StartAny(c)
  <2>1. PICK m \in AllCommands, ks \in SUBSET Keys, con \in Constraints, en \in BOOLEAN :
          Start(c, m, ks, con, en)
    BY <1>1, StartForm
  <2>2. /\ cut' \in [Clients -> BOOLEAN] /\ enroll' \in [Clients -> BOOLEAN]
        /\ denied' \in [Clients -> BOOLEAN] /\ blind' \in [Clients -> BOOLEAN]
    BY <2>1, Zenon DEF Start
  <2> QED
    BY <2>1, <2>2 DEF Start
<1>2. CASE List(c)
  <2>1. blind' \in [Clients -> BOOLEAN]
    BY <1>2 DEF List, Refuses
  <2>2. loaded' \in [Clients -> SUBSET Keys]
    BY <1>2 DEF List, Held
  <2>3. pc' \in [Clients -> PcStates]
    BY <1>2 DEF List, ClientInv, Course
  <2> QED
    BY <1>2, <2>1, <2>2, <2>3 DEF List
<1>3. CASE Fail(c)
  BY <1>3 DEF Fail
<1>4. ASSUME NEW k \in Keys, TakeKey(c, k)
      PROVE  TypeOK'
  BY <1>4 DEF TakeKey
<1>5. CASE Unlock(c)
  BY <1>5 DEF Unlock
<1>6. CASE SendAdd(c)
  <2>1. key[c] \in Keys \ todo[c]
    BY <1>6 DEF SendAdd, ClientInv, Course
  <2>2. CASE Refuses(c)
    BY <1>6, <2>2 DEF SendAdd
  <2>3. CASE ~Refuses(c)
    <3>1. /\ held' = [held EXCEPT ![key[c]] = want[c]]
          /\ added' = [added EXCEPT ![c] = @ \cup {key[c]}]
          /\ raced' = [d \in Clients |-> IF d = c THEN raced[d] ELSE raced[d] \cup {key[c]}]
          /\ pc' = [pc EXCEPT ![c] = "next"]
          /\ UNCHANGED <<locked, cut, cmd, want, enroll, todo, key, loaded, blind, skipped,
                         result, signer, gone, denied>>
      BY <1>6, <2>3 DEF SendAdd, RacedBy
    <3>2. held' \in [Keys -> Constraints \cup {None}] /\ raced' \in [Clients -> SUBSET Keys]
      BY <2>1, <3>1
    <3> QED
      BY <2>1, <3>1, <3>2
  <2> QED
    BY <2>2, <2>3
<1>7. CASE FinishAdd(c)
  BY <1>7 DEF FinishAdd
<1>8. CASE Remove(c)
  BY <1>8 DEF Remove, RacedBy, Held
<1>13. CASE Clear(c)
  <2>1. Held \subseteq Keys
    BY DEF Held
  <2>2. held' \in [Keys -> Constraints \cup {None}]
    BY <1>13 DEF Clear
  <2>3. raced' \in [Clients -> SUBSET Keys]
    BY <1>13, <2>1 DEF Clear, RacedBy
  <2> QED
    BY <1>13, <2>2, <2>3 DEF Clear
<1>9. CASE RemoveAll(c)
  BY <1>9 DEF RemoveAll, RacedBy, Held
<1>10. CASE SetLock(c)
  <2>1. locked' \in BOOLEAN
    BY <1>10, Zenon DEF SetLock
  <2>2. raced' \in [Clients -> SUBSET Keys]
    BY <1>10 DEF SetLock, RacedBy
  <2> QED
    BY <1>10, <2>1, <2>2 DEF SetLock
<1>11. CASE SignWithAgent(c)
  BY <1>11 DEF SignWithAgent
<1>12. CASE SignWithFile(c)
  BY <1>12 DEF SignWithFile
<1> QED
  BY <1>1, <1>2, <1>3, <1>4, <1>5, <1>6, <1>7, <1>8, <1>9, <1>10, <1>11, <1>12,
     <1>13 DEF Step

----------------------------------------------------------------------------
(* A step of somebody else *)

\* d has not moved, and whatever changed in the agent is on its record.
Undisturbed(d) ==
    /\ pc'[d] = pc[d] /\ cmd'[d] = cmd[d] /\ want'[d] = want[d] /\ enroll'[d] = enroll[d]
    /\ todo'[d] = todo[d] /\ key'[d] = key[d] /\ loaded'[d] = loaded[d]
    /\ added'[d] = added[d] /\ skipped'[d] = skipped[d] /\ result'[d] = result[d]
    /\ signer'[d] = signer[d] /\ gone'[d] = gone[d] /\ denied'[d] = denied[d]
    /\ blind'[d] = blind[d]
    /\ raced[d] \subseteq raced'[d]
    /\ \A k \in Keys \ raced'[d] : held'[k] = held[k]
    /\ raced'[d] = Keys \/ (locked' = locked /\ cut'[d] = cut[d])

\* What a client knows stays true under such a step.
LEMMA FrameInv ==
    ASSUME TypeOK, TypeOK', NEW d \in Clients, ClientInv(d), Undisturbed(d)
    PROVE  ClientInv(d)'
<1> USE DEF ClientInv, Undisturbed
<1>0. /\ raced'[d] \subseteq Keys /\ loaded[d] \subseteq Keys
      /\ added[d] \subseteq Keys /\ skipped[d] \subseteq Keys
  BY DEF TypeOK
<1>1. Course(d)' /\ Fresh(d)' /\ Denied(d)'
  BY DEF Course, Fresh, Denied
<1>2. Seen(d)'
  <2>1. \A k \in Keys \ raced'[d] : held'[k] = held[k] /\ k \notin raced[d]
    OBVIOUS
  <2>2. raced[d] = Keys => raced'[d] = Keys
    BY <1>0
  <2>3. raced'[d] = Keys \/ (Refuses(d)' <=> Refuses(d))
    BY Zenon DEF Refuses
  <2> QED
    BY <1>0, <2>1, <2>2, <2>3 DEF Seen
<1>3. Reported(d)'
  BY <1>0 DEF Reported
<1>4. Explained(d)' /\ Named(d)'
  BY DEF Explained, Named
<1> QED
  BY <1>1, <1>2, <1>3, <1>4

\* No step of a client disturbs another unrecorded.
LEMMA OthersUndisturbed ==
    ASSUME Inv, NEW c \in Clients, Step(c), NEW d \in Clients \ {c}
    PROVE  Undisturbed(d)
<1> USE DEF Inv, TypeOK, Undisturbed, Goto, End, agent, args, report, seen
<1>1. CASE StartAny(c)
  BY <1>1, StartForm DEF Start
<1>2. CASE List(c)
  BY <1>2 DEF List
<1>3. CASE Fail(c)
  BY <1>3 DEF Fail
<1>4. ASSUME NEW k \in Keys, TakeKey(c, k)
      PROVE  Undisturbed(d)
  BY <1>4 DEF TakeKey
<1>5. CASE Unlock(c)
  BY <1>5 DEF Unlock
<1>6. CASE SendAdd(c)
  BY <1>6 DEF SendAdd, RacedBy
<1>7. CASE FinishAdd(c)
  BY <1>7 DEF FinishAdd
<1>8. CASE Remove(c) \/ Clear(c)
  BY <1>8 DEF Remove, Clear, RacedBy, Held
<1>9. CASE RemoveAll(c)
  BY <1>9 DEF RemoveAll, RacedBy, Held
<1>10. CASE SetLock(c)
  <2>1. \/ raced' = raced /\ locked' = locked
        \/ raced' = [e \in Clients |-> IF e = c THEN raced[e] ELSE raced[e] \cup Keys]
    BY <1>10 DEF SetLock, RacedBy
  <2>2. raced[d] \subseteq raced'[d] /\ (raced'[d] = Keys \/ locked' = locked)
    <3>1. CASE raced' = raced /\ locked' = locked
      BY <3>1, Zenon
    <3>2. CASE raced' = [e \in Clients |-> IF e = c THEN raced[e] ELSE raced[e] \cup Keys]
      <4>1. raced'[d] = raced[d] \cup Keys
        BY <3>2
      <4> QED
        BY <4>1
    <3> QED
      BY <2>1, <3>1, <3>2
  <2> QED
    BY <1>10, <2>2 DEF SetLock
<1>11. CASE SignWithAgent(c)
  BY <1>11 DEF SignWithAgent
<1>12. CASE SignWithFile(c)
  BY <1>12 DEF SignWithFile
<1> QED
  BY <1>1, <1>2, <1>3, <1>4, <1>5, <1>6, <1>7, <1>8, <1>9, <1>10, <1>11, <1>12 DEF Step

----------------------------------------------------------------------------
(* A step of the client itself *)

\* Every step of a client keeps what is known of it.
LEMMA OwnInv ==
    ASSUME Inv, NEW c \in Clients, Step(c)
    PROVE  ClientInv(c)'
<1> USE DEF Inv, TypeOK, Goto, End, agent, args, report, seen, ClientInv
<1>1. CASE StartAny(c)
  <2>1. PICK m \in AllCommands, ks \in SUBSET Keys, con \in Constraints, en \in BOOLEAN :
          Start(c, m, ks, con, en) /\ (m = "sign" => \E k \in Keys : ks = {k})
    BY <1>1, StartForm
  <2>2. /\ cmd'[c] = m /\ todo'[c] = ks /\ loaded'[c] = {} /\ added'[c] = {}
        /\ skipped'[c] = {} /\ result'[c] = "none" /\ signer'[c] = "none" /\ ~denied'[c]
        /\ pc'[c] = IF m \in {"add", "removeAll", "sign"} THEN "list" ELSE "send"
    BY <2>1 DEF Start
  <2> QED
    BY <2>1, <2>2
       DEF AllCommands, Course, Fresh, Seen, Reported, Explained, Named, Denied
<1>2. CASE List(c)
  BY <1>2 DEF List, Held, Refuses, Course, Fresh, Seen, Reported, Explained, Named, Denied
<1>3. CASE Fail(c)
  BY <1>3 DEF Fail, Course, Fresh, Seen, Reported, Explained, Named, Denied, Refuses
<1>4. ASSUME NEW k \in Keys, TakeKey(c, k)
      PROVE  ClientInv(c)'
  BY <1>4 DEF TakeKey, Course, Fresh, Seen, Reported, Explained, Named, Denied, Refuses
<1>5. CASE Unlock(c)
  BY <1>5 DEF Unlock, Course, Fresh, Seen, Reported, Explained, Named, Denied, Refuses
<1>6. CASE SendAdd(c)
  BY <1>6, NoneAssumption
     DEF SendAdd, RacedBy, Course, Fresh, Seen, Reported, Explained, Named, Denied, Refuses
<1>7. CASE FinishAdd(c)
  BY <1>7 DEF FinishAdd, Course, Fresh, Seen, Reported, Explained, Named, Denied, Refuses
<1>8. CASE Remove(c) \/ Clear(c)
  BY <1>8 DEF Remove, Clear, RacedBy, Held, Course, Fresh, Seen, Reported, Explained, Named, Denied
<1>9. CASE RemoveAll(c)
  BY <1>9 DEF RemoveAll, RacedBy, Held, Refuses, Course, Fresh, Seen, Reported, Explained,
              Named, Denied
<1>10. CASE SetLock(c)
  BY <1>10 DEF SetLock, RacedBy, Course, Fresh, Seen, Reported, Explained, Named, Denied
<1>11. CASE SignWithAgent(c)
  <2> DEFINE usable == ~Refuses(c) /\ todo[c] \subseteq Held
             asks == usable /\ \E k \in todo[c] : held[k].confirm
  <2>1. /\ pc[c] = "sign" /\ pc'[c] = "idle"
        /\ UNCHANGED <<held, cmd, todo, loaded, added, skipped, raced, want>>
        /\ \/ result'[c] = "ok" /\ denied' = denied
           \/ result'[c] = "error" /\ signer' = signer /\ (denied'[c] \/ ~usable)
    BY <1>11 DEF SignWithAgent
  <2>2. cmd[c] = "sign" /\ signer[c] = "none" /\ ~denied[c]
    BY <2>1 DEF Course, Fresh
  <2>3. ~usable => todo[c] \subseteq raced[c]
    <3>1. ASSUME Refuses(c)
          PROVE  todo[c] \subseteq raced[c]
      BY <2>1, <3>1 DEF Seen
    <3>2. ASSUME ~(todo[c] \subseteq Held)
          PROVE  todo[c] \subseteq raced[c]
      <4>1. PICK k \in Keys : todo[c] = {k}
        BY <2>2 DEF Course
      <4>2. held[k] = None /\ k \in loaded[c]
        BY <2>1, <3>2, <4>1 DEF Seen, Held
      <4> QED
        BY <2>2, <4>1, <4>2 DEF Seen
    <3> QED
      BY <3>1, <3>2
  <2>4. Explained(c)' /\ Named(c)' /\ Denied(c)'
    BY <2>1, <2>2, <2>3 DEF Explained, Named, Denied
  <2>5. Course(c)' /\ Fresh(c)' /\ Seen(c)' /\ Reported(c)'
    BY <2>1, <2>2 DEF Course, Fresh, Seen, Reported
  <2> QED
    BY <2>4, <2>5
<1>12. CASE SignWithFile(c)
  BY <1>12 DEF SignWithFile, Course, Fresh, Seen, Reported, Explained, Named, Denied
<1> QED
  BY <1>1, <1>2, <1>3, <1>4, <1>5, <1>6, <1>7, <1>8, <1>9, <1>10, <1>11, <1>12 DEF Step

----------------------------------------------------------------------------
(* Invariance *)

\* A lifetime that ends and an agent that is replaced are on everybody's record.
LEMMA WorldInv ==
    ASSUME Inv, (\E k \in Keys : Expire(k)) \/ Restart
    PROVE  Inv'
<1> USE DEF seen, report, args
<1>1. TypeOK'
  <2>1. CASE Restart
    <3>1. cut' \in [Clients -> BOOLEAN] /\ locked' \in BOOLEAN
      BY <2>1, Zenon DEF Restart
    <3>2. held' \in [Keys -> Constraints \cup {None}] /\ raced' \in [Clients -> SUBSET Keys]
      BY <2>1 DEF Restart, RacedBy, Inv, TypeOK
    <3> QED
      BY <2>1, <3>1, <3>2 DEF Restart, Inv, TypeOK
  <2>2. ASSUME NEW k \in Keys, Expire(k)
        PROVE  TypeOK'
    BY <2>2 DEF Expire, RacedBy, Inv, TypeOK
  <2> QED
    BY <2>1, <2>2
<1>2. ASSUME NEW d \in Clients
      PROVE  Undisturbed(d)
  <2>0. d # None
    BY NoneAssumption
  <2>1. CASE Restart
    <3>1. raced'[d] = Keys
      BY <2>0, <2>1 DEF Restart, RacedBy, Inv, TypeOK
    <3> QED
      BY <2>1, <3>1 DEF Restart, Undisturbed, Inv, TypeOK
  <2>2. ASSUME NEW k \in Keys, Expire(k)
        PROVE  Undisturbed(d)
    BY <2>0, <2>2 DEF Expire, RacedBy, Undisturbed, Inv, TypeOK
  <2> QED
    BY <2>1, <2>2
<1> QED
  BY <1>1, <1>2, FrameInv DEF Inv

\* The invariant is inductive.
LEMMA NextInv == Inv /\ [Next]_vars => Inv'
<1> SUFFICES ASSUME Inv, [Next]_vars
             PROVE  Inv'
  OBVIOUS
<1>1. ASSUME NEW c \in Clients, Step(c)
      PROVE  Inv'
  <2>1. TypeOK'
    BY <1>1, StepType
  <2>2. ASSUME NEW d \in Clients
        PROVE  ClientInv(d)'
    BY <1>1, <2>1, OwnInv, OthersUndisturbed, FrameInv DEF Inv
  <2> QED
    BY <2>1, <2>2 DEF Inv
<1>2. CASE UNCHANGED vars
  BY <1>2 DEF vars, agent, Inv, TypeOK, ClientInv, Course, Fresh, Seen, Refuses, Reported,
              Explained, Named, Denied
<1> QED
  BY <1>1, <1>2, WorldInv DEF Next

\* Inv holds in every state.
LEMMA Invariance == Spec => []Inv
BY InitInv, NextInv, PTL DEF Spec

----------------------------------------------------------------------------
(* Theorems *)

\* Every variable of AgentClient keeps its type, and an add handles no key twice.
THEOREM TypeCorrect == Spec => []TypeOK
<1>1. Inv => TypeOK
  BY DEF Inv
<1> QED
  BY <1>1, Invariance, PTL

\* What an add reports of a key is true until somebody else changes that key, for
\* any number of clients and keys.
THEOREM AddReportSound == Spec => []AddReportTrue
<1>1. Inv => AddReportTrue
  BY DEF Inv, ClientInv, Reported, AddReportTrue
<1> QED
  BY <1>1, Invariance, PTL

\* A signature the user denied is never made with the key file instead.
THEOREM DenialSound == Spec => []DenialFinal
<1>1. Inv => DenialFinal
  BY DEF Inv, ClientInv, Denied, DenialFinal
<1> QED
  BY <1>1, Invariance, PTL

\* A sign whose key was listed fails only if the user denies it or the agent
\* changes.
THEOREM SignFailureSound == Spec => []SignFailureExplained
<1>1. Inv => SignFailureExplained
  BY DEF Inv, ClientInv, Explained, SignFailureExplained
<1> QED
  BY <1>1, Invariance, PTL

\* remove --all names exactly what it removes, but for what changed in between.
THEOREM RemoveAllSound == Spec => []RemoveAllNamesThem
<1>1. Inv => RemoveAllNamesThem
  BY DEF Inv, ClientInv, Named, RemoveAllNamesThem
<1> QED
  BY <1>1, Invariance, PTL

\* An add takes the confirmation off an identity only with --biometric, or if it
\* could not know of it.
THEOREM ConfirmSound == Spec => ConfirmKept
<1> DEFINE A == \A c \in Clients : \A k \in Keys :
                  /\ cmd[c] = "add" /\ pc[c] = "send" /\ pc'[c] = "next" /\ key[c] = k
                  /\ held[k] # None /\ held[k].confirm /\ ~want[c].confirm
                  => enroll[c] \/ blind[c] \/ k \in raced[c]
<1>1. Inv /\ [Next]_vars => [A]_vars
  <2> SUFFICES ASSUME Inv, NEW c \in Clients, cmd[c] = "add", pc[c] = "send",
                      held[key[c]] # None
               PROVE  enroll[c] \/ blind[c] \/ key[c] \in raced[c]
    OBVIOUS
  <2>1. key[c] \in Keys \ (todo[c] \cup added[c]) /\ (enroll[c] \/ key[c] \notin loaded[c])
    BY DEF Inv, ClientInv, Course
  <2> QED
    BY <2>1 DEF Inv, ClientInv, Seen
<1> QED
  BY <1>1, Invariance, PTL DEF Spec, ConfirmKept

====
