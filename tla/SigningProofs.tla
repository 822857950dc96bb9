---- MODULE SigningProofs ----
(***************************************************************************)
(* Proofs about Signing, for any number of processes, key paths, keys,      *)
(* principals and namespaces: type correctness, that a signature is by the  *)
(* key that was named, that the two files of a pair match, and that what    *)
(* find-principals found verifies, each unless another process was in       *)
(* between.                                                                 *)
(***************************************************************************)
EXTENDS Signing, TLAPS

----------------------------------------------------------------------------
(* Type correctness.  Whoever generates or signs has a path in hand, and a key *)
(* as soon as one was generated or read.                                       *)

InHand ==
    \A p \in Procs :
        /\ pc[p] \in {"writePub"} \cup Signs => file[p] \in Files
        /\ pc[p] \in Writing \cup {"list", "agentSign"} => key[p] \in Keys

TypeInv == TypeOK /\ InHand

\* Before any command the variables have their types.
LEMMA InitType == Init => TypeInv
BY NoneAssumption DEF Init, TypeInv, TypeOK, InHand, Writing, Signs

\* Every step of a process keeps the types.
LEMMA StepType ==
    ASSUME TypeInv, NEW p \in Procs, Step(p)
    PROVE  TypeInv'
<1> USE NoneAssumption
    DEF TypeInv, TypeOK, InHand, Goto, Writing, Signs, shared
<1>1. CASE Abort(p)
  BY <1>1, SMTT(60) DEF Abort, Reset
<1>2. ASSUME NEW f \in Files, NEW k \in Keys, Generate(p, f, k)
      PROVE  TypeInv'
  <2>1. /\ pc[p] = "idle" /\ pc' = [pc EXCEPT ![p] = "writePub"]
        /\ priv' = [priv EXCEPT ![f] = k]
        /\ key' = [key EXCEPT ![p] = k]
        /\ file' = [file EXCEPT ![p] = f]
        /\ UNCHANGED <<pub, agent, allowed, form, sig, who, verdict, named>>
    BY <1>2 DEF Generate, BeginWrite
  <2>2. clean' \in [Procs -> BOOLEAN]
    BY <1>2, Zenon DEF Generate, DirtiedBy
  <2>3. torn' \in SUBSET Files
    BY <1>2, Zenon DEF Generate, BeginWrite
  <2>4. TypeOK'
    <3>1. /\ priv' \in [Files -> Keys \cup {None}]
          /\ key' \in [Procs -> Keys \cup {None}]
          /\ file' \in [Procs -> Files \cup {None}]
          /\ pc' \in [Procs -> {"idle", "signed", "check", "done"} \cup Writing \cup Signs]
      BY <2>1
    <3>2. \A q \in Procs :
              pc'[q] \in {"output", "signed", "check", "done"} => sig'[q] # None
      BY <2>1
    <3> QED
      BY <2>1, <2>2, <2>3, <3>1, <3>2, Zenon
  <2>5. InHand'
    BY <2>1, SMTT(60)
  <2> QED
    BY <2>4, <2>5
<1>3. ASSUME NEW f \in Files, NEW g \in Files \cup {None}, Extract(p, f, g)
      PROVE  TypeInv'
  <2>1. torn' \in SUBSET Files /\ file' = [file EXCEPT ![p] = g]
    BY <1>3 DEF Extract, BeginWrite, BeginStray
  <2> QED
    BY <1>3, <2>1, SMTT(60) DEF Extract
<1>4. CASE WritePublic(p)
  BY <1>4, SMTT(60) DEF WritePublic, DirtiedBy
<1>5. ASSUME NEW f \in Files, NEW fm \in {"pub", "priv"}, BeginSign(p, f, fm)
      PROVE  TypeInv'
  <2>1. /\ pc[p] = "idle" /\ pc' \in {[pc EXCEPT ![p] = "loadPublic"], [pc EXCEPT ![p] = "resolve"]}
        /\ file' = [file EXCEPT ![p] = f]
        /\ form' = [form EXCEPT ![p] = fm]
        /\ named' = [named EXCEPT ![p] = KeyAt(f, fm)]
        /\ clean' = [clean EXCEPT ![p] = fm = "priv" \/ priv[f] \in {None, pub[f]}]
        /\ UNCHANGED <<shared, key, sig, who, verdict>>
    BY <1>5 DEF BeginSign, Begin
  <2>2. KeyAt(f, fm) \in Keys \cup {None}
    BY DEF KeyAt
  <2>3. TypeOK'
    BY <2>1, <2>2, SMTT(60)
  <2>4. InHand'
    BY <2>1, SMTT(60)
  <2> QED
    BY <2>3, <2>4
<1>6. ASSUME NEW f \in Files, BeginGitwaySign(p, f)
      PROVE  TypeInv'
  BY <1>6, SMTT(60) DEF BeginGitwaySign, Begin, KeyAt
<1>7. CASE LoadPublic(p)
  BY <1>7, SMTT(60) DEF LoadPublic, KeyAt
<1>8. CASE ListAgent(p)
  BY <1>8, SMTT(60) DEF ListAgent
<1>9. CASE ResolvePath(p)
  BY <1>9, SMTT(60) DEF ResolvePath
<1>10. CASE WriteSig(p)
  BY <1>10, SMTT(60) DEF WriteSig
<1>11. ASSUME NEW ns \in Namespaces, AgentSign(p, ns)
       PROVE  TypeInv'
  <2>1. [key |-> key[p], ns |-> ns] \in Signature
    BY <1>11 DEF AgentSign, Signature
  <2> QED
    BY <1>11, <2>1, SMTT(60) DEF AgentSign
<1>12. ASSUME NEW ns \in Namespaces, LoadAndSign(p, ns)
       PROVE  TypeInv'
  <2>1. [key |-> priv[file[p]], ns |-> ns] \in Signature
    BY <1>12 DEF LoadAndSign, Signature
  <2> QED
    BY <1>12, <2>1, SMTT(60) DEF LoadAndSign
<1>13. CASE FindPrincipals(p)
  <2>1. {e.who : e \in Listed(sig[p].key)} \subseteq Principals
    BY DEF Listed, Entry
  <2>2. who' \in [Procs -> SUBSET Principals]
    BY <1>13, <2>1 DEF FindPrincipals
  <2> QED
    BY <1>13, <2>2, SMTT(60) DEF FindPrincipals
<1>14. CASE Verify(p)
  BY <1>14, SMTT(60) DEF Verify
<1>15. CASE CheckNovalidate(p)
  BY <1>15, SMTT(60) DEF CheckNovalidate
<1> QED
  BY <1>1, <1>2, <1>3, <1>4, <1>5, <1>6, <1>7, <1>8, <1>9, <1>10, <1>11, <1>12,
     <1>13, <1>14, <1>15 DEF Step

\* So do the user and the agent.
LEMMA NextType == TypeInv /\ [Next]_vars => TypeInv'
<1> SUFFICES ASSUME TypeInv, [Next]_vars
             PROVE  TypeInv'
  OBVIOUS
<1>1. ASSUME NEW e \in Entry, EditAllowed(e)
      PROVE  TypeInv'
  BY <1>1 DEF TypeInv, TypeOK, InHand, EditAllowed, files
<1>2. ASSUME NEW k \in Keys, ChangeAgent(k)
      PROVE  TypeInv'
  BY <1>2 DEF TypeInv, TypeOK, InHand, ChangeAgent, files, local
<1>3. CASE UNCHANGED vars
  BY <1>3 DEF TypeInv, TypeOK, InHand, vars
<1> QED
  BY <1>1, <1>2, <1>3, StepType DEF Next

\* Every variable of Signing keeps its type, and a process that is past the
\* signing has a signature.
THEOREM TypeCorrect == Spec => []TypeOK
<1>1. TypeInv => TypeOK
  BY DEF TypeInv
<1> QED
  BY <1>1, InitType, NextType, PTL DEF Spec

----------------------------------------------------------------------------
(* A clean signer: what it has read so far, and what it will still read, is *)
(* the key that was named when it began.                                    *)

Faithful(p) ==
    /\ pc[p] \in Signs \ {"output"} =>
          /\ KeyAt(file[p], form[p]) = named[p]
          /\ form[p] = "pub" => priv[file[p]] \in {None, named[p]}
    /\ pc[p] \in {"list", "agentSign"} => key[p] = named[p]
    /\ pc[p] = "output" => sig[p].key = named[p]

SignInv == \A p \in Procs : clean[p] => Faithful(p)

\* A process stays faithful while its own state and the pair it signs with stay
\* as they are.
LEMMA FaithfulFrame ==
    ASSUME NEW q \in Procs, clean[q] => Faithful(q),
           clean'[q] => clean[q],
           pc'[q] = pc[q], file'[q] = file[q], form'[q] = form[q], key'[q] = key[q],
           sig'[q] = sig[q], named'[q] = named[q],
           clean'[q] /\ pc[q] \in Signs =>
               priv'[file[q]] = priv[file[q]] /\ pub'[file[q]] = pub[file[q]]
    PROVE  clean'[q] => Faithful(q)'
BY DEF Faithful, KeyAt, Signs

\* No step of p takes a clean signer from the key it named.
LEMMA StepSign ==
    ASSUME TypeInv, SignInv, NEW p \in Procs, Step(p)
    PROVE  SignInv'
<1> USE DEF SignInv
<1>a. TypeInv'
  BY StepType
<1>b. ASSUME NEW q \in Procs \ {p}
      PROVE  clean'[q] => Faithful(q)'
  <2>1. /\ pc'[q] = pc[q] /\ file'[q] = file[q] /\ form'[q] = form[q]
        /\ key'[q] = key[q] /\ sig'[q] = sig[q] /\ named'[q] = named[q]
    BY DEF Step, Abort, Reset, Generate, BeginWrite, BeginStray, Extract, WritePublic, BeginSign,
           BeginGitwaySign, Begin, LoadPublic, ListAgent, ResolvePath, WriteSig,
           AgentSign, LoadAndSign, FindPrincipals, Verify, CheckNovalidate, Goto,
           TypeInv, TypeOK
  <2>2. CASE \E f \in Files, k \in Keys : Generate(p, f, k)
    <3>1. PICK f \in Files, k \in Keys : Generate(p, f, k)
      BY <2>2
    <3>2. clean'[q] => clean[q] /\ ~(file[q] = f /\ pc[q] \in Signs)
      BY <3>1 DEF Generate, DirtiedBy
    <3>3. pub' = pub /\ priv' = [priv EXCEPT ![f] = k]
      BY <3>1 DEF Generate
    <3>4. clean'[q] /\ pc[q] \in Signs =>
               priv'[file[q]] = priv[file[q]] /\ pub'[file[q]] = pub[file[q]]
      BY <3>2, <3>3 DEF TypeInv, TypeOK, InHand
    <3> QED
      BY <2>1, <3>2, <3>4, FaithfulFrame
  <2>3. CASE WritePublic(p)
    <3>1. clean'[q] => clean[q] /\ ~(file[q] = file[p] /\ pc[q] \in Signs)
      BY <2>3 DEF WritePublic, DirtiedBy
    <3>2. priv' = priv /\ pub' = [f \in Files |-> IF f = file[p] THEN key[p] ELSE pub[f]]
      BY <2>3 DEF WritePublic
    <3>3. clean'[q] /\ pc[q] \in Signs =>
               priv'[file[q]] = priv[file[q]] /\ pub'[file[q]] = pub[file[q]]
      BY <3>1, <3>2 DEF TypeInv, TypeOK, InHand
    <3> QED
      BY <2>1, <3>1, <3>3, FaithfulFrame
  <2>4. CASE ~WritePublic(p) /\ ~\E f \in Files, k \in Keys : Generate(p, f, k)
    <3>1. priv' = priv /\ pub' = pub
      BY <2>4 DEF Step, Abort, Extract, BeginSign, BeginGitwaySign, Begin, LoadPublic,
           ListAgent, ResolvePath, WriteSig, AgentSign, LoadAndSign, FindPrincipals,
           Verify, CheckNovalidate, shared
    <3>2. clean'[q] = clean[q]
      BY <2>4 DEF Step, Abort, Reset, Extract, BeginSign, BeginGitwaySign, Begin,
           LoadPublic, ListAgent, ResolvePath, WriteSig, AgentSign, LoadAndSign,
           FindPrincipals, Verify, CheckNovalidate, TypeInv, TypeOK
    <3> QED
      BY <2>1, <3>1, <3>2, FaithfulFrame
  <2> QED
    BY <2>2, <2>3, <2>4
<1>c. clean'[p] => Faithful(p)'
  <2> USE DEF TypeInv, TypeOK, InHand, Goto
  <2>1. CASE pc'[p] \notin Signs
    BY <2>1 DEF Faithful, Signs
  <2>2. ASSUME NEW f \in Files, NEW fm \in {"pub", "priv"}, NEW to \in {"loadPublic", "resolve", "load"},
               Begin(p, f, fm, to)
        PROVE  clean'[p] => Faithful(p)'
    <3>1. /\ pc'[p] = to /\ file'[p] = f /\ form'[p] = fm /\ named'[p] = KeyAt(f, fm)
          /\ priv' = priv /\ pub' = pub
      BY <2>2 DEF Begin, shared
    <3>2. clean'[p] => fm = "priv" \/ priv[f] \in {None, pub[f]}
      BY <2>2 DEF Begin
    <3> QED
      BY <3>1, <3>2 DEF Faithful, KeyAt
  <2>3. CASE LoadPublic(p)
    <3>1. /\ pc[p] = "loadPublic" /\ pc'[p] \in {"resolve", "list"}
          /\ key'[p] = KeyAt(file[p], form[p])
          /\ UNCHANGED <<priv, pub, file, form, sig, named, clean>>
      BY <2>3 DEF LoadPublic, shared, KeyAt
    <3> QED
      BY <3>1 DEF Faithful, KeyAt, Signs
  <2>4. CASE ListAgent(p)
    <3>1. /\ pc[p] = "list" /\ pc'[p] \in {"resolve", "agentSign"}
          /\ UNCHANGED <<priv, pub, file, form, key, sig, named, clean>>
      BY <2>4 DEF ListAgent, shared
    <3> QED
      BY <3>1 DEF Faithful, KeyAt, Signs
  <2>5. CASE ResolvePath(p)
    <3>1. /\ pc[p] = "resolve" /\ pc'[p] = "load"
          /\ UNCHANGED <<priv, pub, file, form, key, sig, named, clean>>
      BY <2>5 DEF ResolvePath, shared
    <3> QED
      BY <3>1 DEF Faithful, KeyAt, Signs
  <2>6. ASSUME NEW ns \in Namespaces, AgentSign(p, ns)
        PROVE  clean'[p] => Faithful(p)'
    <3>1. /\ pc[p] = "agentSign" /\ pc'[p] = "output" /\ sig'[p] = [key |-> key[p], ns |-> ns]
          /\ UNCHANGED <<key, named, clean>>
      BY <2>6 DEF AgentSign
    <3> QED
      BY <3>1 DEF Faithful, Signs
  <2>7. ASSUME NEW ns \in Namespaces, LoadAndSign(p, ns)
        PROVE  clean'[p] => Faithful(p)'
    <3>1. /\ pc[p] = "load" /\ pc'[p] = "output" /\ priv[file[p]] # None
          /\ sig'[p] = [key |-> priv[file[p]], ns |-> ns]
          /\ UNCHANGED <<named, clean>>
      BY <2>7 DEF LoadAndSign
    <3>2. clean[p] => priv[file[p]] = named[p]
      BY <3>1 DEF Faithful, KeyAt, Signs
    <3> QED
      BY <3>1, <3>2 DEF Faithful, Signs
  <2>8. CASE \/ Abort(p) \/ WritePublic(p) \/ WriteSig(p) \/ FindPrincipals(p)
             \/ Verify(p) \/ CheckNovalidate(p)
             \/ \E f \in Files, g \in Files \cup {None} : Extract(p, f, g)
             \/ \E f \in Files, k \in Keys : Generate(p, f, k)
    <3>1. pc'[p] \in {"idle", "writePub", "writeExtracted", "signed", "check", "done"}
      BY <2>8 DEF Abort, Reset, WritePublic, WriteSig, FindPrincipals, Verify,
           CheckNovalidate, Extract, Generate
    <3> QED
      BY <2>1, <3>1 DEF Signs
  <2> QED
    BY <2>2, <2>3, <2>4, <2>5, <2>6, <2>7, <2>8 DEF Step, BeginSign, BeginGitwaySign
<1> QED
  BY <1>b, <1>c

\* A signature is by the key -f named, for any number of processes and files,
\* unless the pair did not match or was replaced meanwhile.
THEOREM SignsNamed == Spec => []SignsWithNamedKey
<1> DEFINE Inv == TypeInv /\ SignInv
<1>1. Init => Inv
  <2>1. Init => SignInv
    BY DEF Init, SignInv, Faithful, Signs
  <2> QED
    BY <2>1, InitType
<1>2. Inv /\ [Next]_vars => Inv'
  <2> SUFFICES ASSUME TypeInv, SignInv, [Next]_vars
               PROVE  SignInv'
    BY NextType
  <2>1. ASSUME NEW e \in Entry, EditAllowed(e)
        PROVE  SignInv'
    BY <2>1 DEF EditAllowed, files, SignInv, Faithful, KeyAt
  <2>2. ASSUME NEW k \in Keys, ChangeAgent(k)
        PROVE  SignInv'
    BY <2>2 DEF ChangeAgent, files, local, SignInv, Faithful, KeyAt
  <2>3. CASE UNCHANGED vars
    BY <2>3 DEF vars, SignInv, Faithful, KeyAt
  <2> QED
    BY <2>1, <2>2, <2>3, StepSign DEF Next
<1>3. Inv => SignsWithNamedKey
  BY DEF SignInv, Faithful, SignsWithNamedKey
<1> QED
  BY <1>1, <1>2, <1>3, PTL DEF Spec

----------------------------------------------------------------------------
(* The pair at an untorn path: at most one writer, which has the key of the  *)
(* private file in hand, and without a writer the two files match.           *)

Writes(p, f) == file[p] = f /\ pc[p] \in Writing

PairAt(f) ==
    /\ \A p \in Procs : Writes(p, f) => key[p] = priv[f]
    /\ \A p, q \in Procs : Writes(p, f) /\ Writes(q, f) => p = q
    /\ (\A p \in Procs : ~Writes(p, f)) => pub[f] = priv[f]

PairInv == \A f \in Files \ torn : PairAt(f)

\* A step that leaves f's files, and who writes them with which key, alone leaves
\* the pair as it was.
LEMMA PairFrame ==
    ASSUME NEW f \in Files, PairAt(f),
           priv'[f] = priv[f], pub'[f] = pub[f],
           \A q \in Procs : Writes(q, f)' <=> Writes(q, f),
           \A q \in Procs : Writes(q, f) => key'[q] = key[q]
    PROVE  PairAt(f)'
BY DEF PairAt

\* No step of p breaks the pair at an untorn path.
LEMMA StepPair ==
    ASSUME TypeInv, PairInv, NEW p \in Procs, Step(p)
    PROVE  PairInv'
<1> USE DEF TypeInv, TypeOK, InHand, Goto
<1>1. ASSUME NEW f \in Files, NEW to \in Writing, NEW k \in Keys,
             pc[p] = "idle", pc' = [pc EXCEPT ![p] = to],
             key' = [key EXCEPT ![p] = k], BeginWrite(p, f),
             priv' \in {priv, [priv EXCEPT ![f] = k]}, priv'[f] = k, pub' = pub
      PROVE  PairInv'
  <2>1. /\ file' = [file EXCEPT ![p] = f]
        /\ torn' = IF WritersOf(f) = {} THEN torn \ {f} ELSE torn \cup {f}
    BY <1>1 DEF BeginWrite
  <2>2. ASSUME NEW g \in Files \ torn', g # f
        PROVE  PairAt(g)'
    <3>1. PairAt(g)
      BY <2>1, <2>2 DEF PairInv
    <3>2. \A q \in Procs : Writes(q, g)' <=> Writes(q, g)
      BY <1>1, <2>1, <2>2 DEF Writes, Writing
    <3>3. \A q \in Procs : Writes(q, g) => key'[q] = key[q]
      BY <1>1 DEF Writes, Writing
    <3> QED
      BY <1>1, <2>2, <3>1, <3>2, <3>3, PairFrame
  <2>3. CASE f \notin torn'
    <3>1. \A q \in Procs : ~Writes(q, f)
      BY <2>1, <2>3 DEF WritersOf, Writes
    <3>2. \A q \in Procs : Writes(q, f)' <=> q = p
      BY <1>1, <2>1, <3>1 DEF Writes
    <3> QED
      BY <1>1, <2>2, <3>2 DEF PairInv, PairAt
  <2> QED
    BY <2>2, <2>3 DEF PairInv
<1>2. ASSUME NEW f \in Files, NEW k \in Keys, Generate(p, f, k)
      PROVE  PairInv'
  BY <1>1, <1>2 DEF Generate, Writing
<1>3. ASSUME NEW f \in Files, NEW g \in Files \cup {None}, Extract(p, f, g)
      PROVE  PairInv'
  <2>1. CASE g = f
    BY <1>1, <1>3, <2>1 DEF Extract, Writing
  <2>2. CASE g # f
    <3>1. /\ pc[p] = "idle" /\ pc' = [pc EXCEPT ![p] = "writeExtracted"]
          /\ file' = [file EXCEPT ![p] = g] /\ torn' = torn \cup ({g} \cap Files)
          /\ key' = [key EXCEPT ![p] = priv[f]] /\ priv' = priv /\ pub' = pub
      BY <1>3, <2>2 DEF Extract, BeginStray
    <3>2. ASSUME NEW h \in Files \ torn'
          PROVE  PairAt(h)'
      <4>1. PairAt(h) /\ h # g
        BY <3>1, <3>2 DEF PairInv
      <4>2. \A q \in Procs : Writes(q, h)' <=> Writes(q, h)
        BY <3>1, <4>1 DEF Writes, Writing
      <4>3. \A q \in Procs : Writes(q, h) => key'[q] = key[q]
        BY <3>1 DEF Writes, Writing
      <4> QED
        BY <3>1, <4>1, <4>2, <4>3, PairFrame
    <3> QED
      BY <3>2 DEF PairInv
  <2> QED
    BY <2>1, <2>2
<1>4. CASE WritePublic(p)
  <2>1. /\ pc[p] \in Writing
        /\ pc' = [pc EXCEPT ![p] = "idle"]
        /\ pub' = [f \in Files |-> IF f = file[p] THEN key[p] ELSE pub[f]]
        /\ file' = [file EXCEPT ![p] = None]
        /\ key' = [key EXCEPT ![p] = None]
        /\ priv' = priv /\ torn' = torn
    BY <1>4 DEF WritePublic
  <2>2. ASSUME NEW g \in Files \ torn
        PROVE  PairAt(g)'
    <3>1. PairAt(g)
      BY DEF PairInv
    <3>2. CASE g = file[p]
      <4>1. Writes(p, g) /\ key[p] = priv[g]
        BY <2>1, <3>1, <3>2 DEF PairAt, Writes
      <4>2. \A q \in Procs : ~Writes(q, g)'
        BY <2>1, <3>1, <4>1 DEF PairAt, Writes, Writing
      <4> QED
        BY <2>1, <3>2, <4>1, <4>2 DEF PairAt
    <3>3. CASE g # file[p]
      <4>1. \A q \in Procs : Writes(q, g)' <=> Writes(q, g)
        BY <2>1, <3>3 DEF Writes, Writing
      <4>2. \A q \in Procs : Writes(q, g) => key'[q] = key[q]
        BY <2>1, <3>3 DEF Writes
      <4> QED
        BY <2>1, <3>1, <3>3, <4>1, <4>2, PairFrame
    <3> QED
      BY <3>2, <3>3
  <2> QED
    BY <2>1, <2>2 DEF PairInv
<1>5. CASE Abort(p)
  <2>1. /\ pc' = [pc EXCEPT ![p] = "idle"] /\ file' = [file EXCEPT ![p] = None]
        /\ key' = [key EXCEPT ![p] = None] /\ priv' = priv /\ pub' = pub
        /\ torn' = IF pc[p] \in Writing THEN torn \cup ({file[p]} \cap Files) ELSE torn
    BY <1>5 DEF Abort, Reset
  <2>2. ASSUME NEW g \in Files \ torn'
        PROVE  PairAt(g)'
    <3>1. PairAt(g) /\ ~Writes(p, g)
      BY <2>1, <2>2 DEF PairInv, Writes
    <3>2. \A q \in Procs : Writes(q, g)' <=> Writes(q, g)
      BY <2>1, <3>1 DEF Writes, Writing
    <3>3. \A q \in Procs : Writes(q, g) => key'[q] = key[q]
      BY <2>1, <3>1 DEF Writes
    <3> QED
      BY <2>1, <3>1, <3>2, <3>3, PairFrame
  <2> QED
    BY <2>2 DEF PairInv
<1>6. CASE \/ \E f \in Files, fm \in {"pub", "priv"} : BeginSign(p, f, fm)
           \/ \E f \in Files : BeginGitwaySign(p, f)
           \/ LoadPublic(p) \/ ListAgent(p) \/ ResolvePath(p) \/ WriteSig(p)
           \/ \E ns \in Namespaces : AgentSign(p, ns) \/ LoadAndSign(p, ns)
           \/ FindPrincipals(p) \/ Verify(p) \/ CheckNovalidate(p)
  <2>1. /\ priv' = priv /\ pub' = pub /\ torn' = torn
        /\ pc[p] \notin Writing /\ pc'[p] \notin Writing
        /\ \A q \in Procs \ {p} : pc'[q] = pc[q] /\ file'[q] = file[q] /\ key'[q] = key[q]
    BY <1>6 DEF BeginSign, BeginGitwaySign, Begin, LoadPublic, ListAgent, ResolvePath,
         WriteSig, AgentSign, LoadAndSign, FindPrincipals, Verify, CheckNovalidate,
         shared, Writing
  <2>2. ASSUME NEW g \in Files \ torn
        PROVE  PairAt(g)'
    <3>1. \A q \in Procs : Writes(q, g)' <=> Writes(q, g)
      BY <2>1 DEF Writes
    <3>2. \A q \in Procs : Writes(q, g) => key'[q] = key[q]
      BY <2>1 DEF Writes
    <3> QED
      BY <2>1, <3>1, <3>2, PairFrame DEF PairInv
  <2> QED
    BY <2>1, <2>2 DEF PairInv
<1> QED
  BY <1>2, <1>3, <1>4, <1>5, <1>6 DEF Step

\* The two files of a key pair match once nobody writes them, for any number of
\* processes and paths, unless a writer was cut short or overlapped another.
THEOREM PairsMatch == Spec => []PairMatches
<1> DEFINE Inv == TypeInv /\ PairInv
<1>1. Init => Inv
  <2>1. Init => PairInv
    BY DEF Init, PairInv, PairAt, Writes, Writing
  <2> QED
    BY <2>1, InitType
<1>2. Inv /\ [Next]_vars => Inv'
  <2> SUFFICES ASSUME TypeInv, PairInv, [Next]_vars
               PROVE  PairInv'
    BY NextType
  <2>1. ASSUME NEW e \in Entry, EditAllowed(e)
        PROVE  PairInv'
    BY <2>1 DEF EditAllowed, files, PairInv, PairAt, Writes
  <2>2. ASSUME NEW k \in Keys, ChangeAgent(k)
        PROVE  PairInv'
    BY <2>2 DEF ChangeAgent, files, local, PairInv, PairAt, Writes
  <2>3. CASE UNCHANGED vars
    BY <2>3 DEF vars, PairInv, PairAt, Writes
  <2> QED
    BY <2>1, <2>2, <2>3, StepPair DEF Next
<1>3. Inv => PairMatches
  BY DEF PairInv, PairAt, Writes, PairMatches, WritersOf
<1> QED
  BY <1>1, <1>2, <1>3, PTL DEF Spec

----------------------------------------------------------------------------
(* Between find-principals and verify: a clean git still holds every principal *)
(* that the allowed-signers file names for the key in git's namespace.         *)

Found(p) ==
    /\ pc[p] # "done" => verdict[p] = "none"
    /\ clean[p] /\ pc[p] = "check" =>
          /\ Listed(sig[p].key) = {} => who[p] = {}
          /\ sig[p].ns = GitNs =>
                \A e \in Listed(sig[p].key) : Covers(e, GitNs) => e.who \in who[p]
    /\ clean[p] /\ verdict[p] = "bad" =>
          \/ sig[p].ns # GitNs
          \/ /\ Listed(sig[p].key) # {}
             /\ \A e \in Listed(sig[p].key) : ~Covers(e, GitNs)

FoundInv == \A p \in Procs : Found(p)

\* No step of p makes a found principal stale.
LEMMA StepFound ==
    ASSUME TypeInv, FoundInv, NEW p \in Procs, Step(p)
    PROVE  FoundInv'
<1> USE DEF TypeInv, TypeOK, Goto
<1>1. allowed' = allowed
  BY DEF Step, Abort, Generate, Extract, WritePublic, BeginSign, BeginGitwaySign, Begin,
         LoadPublic, ListAgent, ResolvePath, WriteSig, AgentSign, LoadAndSign,
         FindPrincipals, Verify, CheckNovalidate, shared
<1>2. ASSUME NEW q \in Procs \ {p}
      PROVE  Found(q)'
  <2>1. /\ pc'[q] = pc[q] /\ sig'[q] = sig[q] /\ who'[q] = who[q]
        /\ verdict'[q] = verdict[q] /\ (clean'[q] => clean[q])
    BY DEF Step, Abort, Reset, Generate, DirtiedBy, Extract, WritePublic, BeginSign,
           BeginGitwaySign, Begin, LoadPublic, ListAgent, ResolvePath, WriteSig,
           AgentSign, LoadAndSign, FindPrincipals, Verify, CheckNovalidate
  <2>2. Found(q)
    BY DEF FoundInv
  <2> QED
    BY <1>1, <2>1, <2>2 DEF Found, Listed
<1>3. Found(p)'
  <2>0. Found(p)
    BY DEF FoundInv
  <2>1. CASE FindPrincipals(p)
    <3>1. /\ pc[p] = "signed" /\ pc'[p] = "check" /\ sig' = sig /\ verdict' = verdict
          /\ who'[p] = {e.who : e \in Listed(sig[p].key)}
      BY <2>1 DEF FindPrincipals
    <3> QED
      BY <1>1, <2>0, <3>1 DEF Found, Listed
  <2>2. CASE Verify(p)
    <3>1. PICK w \in who[p] :
             /\ pc[p] = "check" /\ UNCHANGED <<sig, clean>>
             /\ \/ /\ verdict'[p] = "good" /\ pc'[p] = "done"
                \/ /\ ~Vouches(p, w) /\ who[p] = {w}
                   /\ verdict'[p] = "bad" /\ pc'[p] = "done"
                \/ /\ ~Vouches(p, w) /\ who'[p] = who[p] \ {w}
                   /\ UNCHANGED <<verdict, pc>>
      BY <2>2 DEF Verify
    <3>2. Listed(sig[p].key)' = Listed(sig[p].key)
      BY <1>1, <3>1 DEF Listed
    <3>3. CASE verdict'[p] = "good" /\ pc'[p] = "done"
      BY <3>3 DEF Found
    <3>4. CASE ~Vouches(p, w) /\ who[p] = {w} /\ verdict'[p] = "bad" /\ pc'[p] = "done"
      <4>1. ASSUME clean[p], sig[p].ns = GitNs
            PROVE  /\ Listed(sig[p].key) # {}
                   /\ \A e \in Listed(sig[p].key) : ~Covers(e, GitNs)
        BY <2>0, <3>1, <3>4, <4>1 DEF Found, Vouches
      <4> QED
        BY <3>1, <3>2, <3>4, <4>1 DEF Found
    <3>5. CASE ~Vouches(p, w) /\ who'[p] = who[p] \ {w} /\ UNCHANGED <<verdict, pc>>
      <4>1. ASSUME clean[p]
            PROVE  /\ Listed(sig[p].key) = {} => who'[p] = {}
                   /\ sig[p].ns = GitNs =>
                        \A e \in Listed(sig[p].key) : Covers(e, GitNs) => e.who \in who'[p]
        BY <2>0, <3>1, <3>5, <4>1 DEF Found, Vouches
      <4> QED
        BY <2>0, <3>1, <3>2, <3>5, <4>1 DEF Found
    <3> QED
      BY <3>1, <3>3, <3>4, <3>5
  <2>3. CASE CheckNovalidate(p)
    <3>1. /\ pc'[p] = "done" /\ UNCHANGED sig
          /\ verdict'[p] = "bad" => sig[p].ns # GitNs
      BY <2>3 DEF CheckNovalidate
    <3> QED
      BY <3>1 DEF Found
  <2>4. CASE ~FindPrincipals(p) /\ ~Verify(p) /\ ~CheckNovalidate(p)
    <3>1. /\ pc'[p] \notin {"check", "done"}
          /\ verdict'[p] = "none"
      BY <2>0, <2>4 DEF Step, Abort, Reset, Generate, Extract, WritePublic, BeginSign,
           BeginGitwaySign, Begin, LoadPublic, ListAgent, ResolvePath, WriteSig,
           AgentSign, LoadAndSign, Found, Writing
    <3> QED
      BY <3>1 DEF Found
  <2> QED
    BY <2>1, <2>2, <2>3, <2>4
<1> QED
  BY <1>2, <1>3 DEF FoundInv

\* What find-principals found verifies, for any number of processes and entries,
\* but for another namespace or an edit of the allowed-signers file in between.
THEOREM FoundIsVerified == Spec => []FoundVerifies
<1> DEFINE Inv == TypeInv /\ FoundInv
<1>1. Init => Inv
  <2>1. Init => FoundInv
    BY DEF Init, FoundInv, Found
  <2> QED
    BY <2>1, InitType
<1>2. Inv /\ [Next]_vars => Inv'
  <2> SUFFICES ASSUME TypeInv, FoundInv, [Next]_vars
               PROVE  FoundInv'
    BY NextType
  <2>1. ASSUME NEW e \in Entry, EditAllowed(e)
        PROVE  FoundInv'
    <3>1. /\ UNCHANGED <<pc, sig, who, verdict>>
          /\ \A q \in Procs : clean'[q] => clean[q] /\ pc[q] \notin {"check", "done"}
      BY <2>1 DEF EditAllowed
    <3> QED
      BY <3>1 DEF FoundInv, Found
  <2>2. ASSUME NEW k \in Keys, ChangeAgent(k)
        PROVE  FoundInv'
    BY <2>2 DEF ChangeAgent, local, FoundInv, Found, Listed
  <2>3. CASE UNCHANGED vars
    BY <2>3 DEF vars, FoundInv, Found, Listed
  <2> QED
    BY <2>1, <2>2, <2>3, StepFound DEF Next
<1>3. Inv => FoundVerifies
  BY DEF FoundInv, Found, FoundVerifies
<1> QED
  BY <1>1, <1>2, <1>3, PTL DEF Spec

====
