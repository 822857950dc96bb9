---- MODULE KnownHostsProofs ----
(***************************************************************************)
(* Proofs about KnownHosts, for any number of processes, hosts,             *)
(* fingerprints, initial lines and commands: its types, that a revocation   *)
(* holds once it was reported, and that no line is lost, both but for a     *)
(* rename that puts back a file which had changed.                          *)
(***************************************************************************)
EXTENDS KnownHosts, TLAPS

\* What an add carries from step to step: a host name, then a host to pin and a
\* decided format.
AddHas(p) ==
    /\ pc[p] = "probe" => input[p] \in Hosts
    /\ pc[p] \in {"detect", "confirm", "append", "write"} => host[p] \in Hosts
    /\ pc[p] \in {"confirm", "append", "write"} => format[p] \in {"hashed", "plain"}

TypeInv == TypeOK /\ \A p \in Procs : AddHas(p)

\* A revoke that is past the look-up, or over, has the pattern its input asks
\* for.
Aimed(p) ==
    /\ pc[p] \in {"classify", "read", "rename"} => format[p] = "auto"
    /\ pc[p] \in {"read", "rename"} \/ (exit[p] = 0 /\ format[p] = "auto") =>
        host[p] = IF input[p] \in Prints THEN AnyHost ELSE input[p]

\* The lines a revoke read are the file's until somebody writes.
Fresh(p) == pc[p] = "rename" /\ ~raced[p] => copy[p] = file

\* Only a process that is over has an exit code of 0.
Over(p) == exit[p] = 0 => pc[p] = "done"

\* The line a revoke wrote stays, as long as nothing is clobbered.
Standing(p) ==
    exit[p] = 0 /\ format[p] = "auto" /\ ~clobbered => Mark(p) \in file

RevokeInv == \A p \in Procs : Aimed(p) /\ Fresh(p) /\ Over(p) /\ Standing(p)

----------------------------------------------------------------------------
(* Types *)

\* The placeholders are a host and a fingerprint.
LEMMA Placeholders == NoHost \in Hosts /\ NoPrint \in Prints
BY InputsAssumption DEF NoHost, NoPrint

\* Pins and revocation marks are lines.
LEMMA LinesType ==
    /\ \A h \in Hosts, f \in Prints, b \in BOOLEAN :
          [kind |-> "pin", host |-> h, print |-> f, hashed |-> b] \in Lines
    /\ \A h \in Hosts \cup {AnyHost}, f \in Prints :
          [kind |-> "revoked", host |-> h, print |-> f] \in Lines
BY DEF Lines, Pins, Marks

\* The fingerprints a look-up finds are fingerprints.
LEMMA FingerprintsType ==
    ASSUME NEW h \in Hosts, NEW lines \in SUBSET Lines
    PROVE  Fingerprints(h, lines) \subseteq Prints
BY DEF Fingerprints, Lines, Pins, Marks

\* Before any command the variables have their types.
LEMMA InitType == Init => TypeInv
<1> SUFFICES ASSUME Init
             PROVE  TypeInv
  OBVIOUS
<1>1. file \in SUBSET Lines
  BY DEF Init, Lines
<1>2. /\ input \in [Procs -> Hosts \cup Prints]
      /\ host \in [Procs -> Hosts \cup {AnyHost}]
      /\ print \in [Procs -> Prints]
  BY Placeholders DEF Init
<1>3. started \in 0..MaxCommands
  BY BoundsAssumption DEF Init
<1>4. raced \in [Procs -> BOOLEAN] /\ clobbered \in BOOLEAN
  BY DEF Init
<1> QED
  BY <1>1, <1>2, <1>3, <1>4 DEF Init, TypeInv, TypeOK, AddHas, PcStates

\* Every step of a process keeps the types.
LEMMA StepType ==
    ASSUME TypeInv, NEW p \in Procs, Step(p)
    PROVE  TypeInv'
<1> USE BoundsAssumption DEF TypeInv, TypeOK, AddHas, PcStates, Goto, End
<1>1. CASE StartAdd(p)
  BY <1>1 DEF StartAdd, Start
<1>2. CASE Probe(p)
  BY <1>2 DEF Probe
<1>3. CASE DetectHashMode(p)
  BY <1>3 DEF DetectHashMode
<1>4. CASE Confirm(p) \/ Open(p)
  BY <1>4 DEF Confirm, Open
<1>5. CASE Append(p)
  <2>1. Pin(p) \in Lines
    BY <1>5, LinesType DEF Append, Pin
  <2>2. \/ file' = file /\ raced' = raced
        \/ /\ file' = file \cup {Pin(p)}
           /\ raced' = [q \in Procs |-> raced[q] \/ (q # p /\ file' # file)]
    BY <1>5 DEF Append, Write
  <2>3. file' \in SUBSET Lines
    BY <2>1, <2>2
  <2>4. raced' \in [Procs -> BOOLEAN]
    BY <2>2, Zenon
  <2> QED
    BY <1>5, <2>3, <2>4 DEF Append
<1>6. CASE StartRevoke(p)
  BY <1>6 DEF StartRevoke, Start
<1>7. CASE Classify(p)
  <2>1. ASSUME input[p] \in Hosts
        PROVE  Fingerprints(input[p], file) \subseteq Prints
    BY <2>1, FingerprintsType
  <2> QED
    BY <1>7, <2>1 DEF Classify
<1>8. CASE ReadFile(p)
  BY <1>8 DEF ReadFile
<1>9. CASE Rename(p)
  <2>1. Mark(p) \in Lines
    BY LinesType DEF Mark
  <2> QED
    BY <1>9, <2>1 DEF Rename, Write
<1>10. CASE Kill(p)
  BY <1>10 DEF Kill
<1> QED
  BY <1>1, <1>2, <1>3, <1>4, <1>5, <1>6, <1>7, <1>8, <1>9, <1>10 DEF Step

\* The types are an invariant.
LEMMA NextType == TypeInv /\ [Next]_vars => TypeInv'
<1>1. ASSUME TypeInv, UNCHANGED vars
      PROVE  TypeInv'
  BY <1>1 DEF TypeInv, TypeOK, AddHas, vars
<1> QED
  BY <1>1, StepType DEF Next

\* Every variable of KnownHosts keeps its type, and an add that is about to write
\* has decided on a format.
THEOREM TypeCorrect == Spec => []TypeOK
<1>1. TypeInv => TypeOK
  BY DEF TypeInv
<1> QED
  BY <1>1, InitType, NextType, PTL DEF Spec

----------------------------------------------------------------------------
(* Revocations *)

\* What a step of one process leaves of another: its own state, and unless the
\* file stays as it is, its reading of it is marked out of date.
LEMMA OthersKept ==
    ASSUME TypeInv, NEW p \in Procs, NEW q \in Procs \ {p}, Step(p)
    PROVE  /\ pc'[q] = pc[q] /\ input'[q] = input[q] /\ host'[q] = host[q]
           /\ print'[q] = print[q] /\ format'[q] = format[q] /\ copy'[q] = copy[q]
           /\ exit'[q] = exit[q]
           /\ file' = file \/ raced'[q]
           /\ raced[q] => raced'[q]
<1> USE DEF TypeInv, TypeOK, Goto, End
<1>1. CASE Append(p)
  <2>1. \/ file' = file /\ raced' = raced
        \/ raced' = [r \in Procs |-> raced[r] \/ (r # p /\ file' # file)]
    BY <1>1 DEF Append, Write
  <2>2. (file' = file \/ raced'[q]) /\ (raced[q] => raced'[q])
    BY <2>1
  <2> QED
    BY <1>1, <2>2 DEF Append
<1>3. CASE Rename(p)
  BY <1>3 DEF Rename, Write
<1>2. CASE \/ StartAdd(p) \/ Probe(p) \/ DetectHashMode(p) \/ Confirm(p) \/ Open(p)
           \/ StartRevoke(p) \/ Classify(p) \/ ReadFile(p) \/ Kill(p)
  BY <1>2 DEF StartAdd, Start, Probe, DetectHashMode, Confirm, Open, StartRevoke, Classify,
              ReadFile, Kill
<1> QED
  BY <1>1, <1>2, <1>3 DEF Step

\* A step takes lines from the file only if it is a rename of what is out of date,
\* and then it is noted.
LEMMA StepKeepsLines ==
    ASSUME TypeInv, RevokeInv, NEW p \in Procs, Step(p)
    PROVE  /\ clobbered => clobbered'
           /\ \/ file \subseteq file'
              \/ pc[p] = "rename" /\ raced[p] /\ clobbered'
<1>1. CASE Rename(p)
  <2>1. CASE raced[p] /\ file' # file
    BY <1>1, <2>1, Zenon DEF Rename
  <2>2. CASE ~raced[p] \/ file' = file
    <3>1. file = file' \/ copy[p] = file
      BY <1>1, <2>2 DEF Rename, RevokeInv, Fresh
    <3>2. file' = file \/ copy[p] \subseteq file'
      BY <1>1 DEF Rename, Write
    <3>3. clobbered => clobbered'
      BY <1>1, Zenon DEF Rename
    <3> QED
      BY <3>1, <3>2, <3>3
  <2> QED
    BY <2>1, <2>2
<1>2. CASE Append(p)
  BY <1>2 DEF Append, Write
<1>3. CASE \/ StartAdd(p) \/ Probe(p) \/ DetectHashMode(p) \/ Confirm(p) \/ Open(p)
           \/ StartRevoke(p) \/ Classify(p) \/ ReadFile(p) \/ Kill(p)
  BY <1>3 DEF StartAdd, Start, Probe, DetectHashMode, Confirm, Open, StartRevoke, Classify,
              ReadFile, Kill
<1> QED
  BY <1>1, <1>2, <1>3 DEF Step

\* Every step of a process keeps the invariant about revocations.
LEMMA StepRevoke ==
    ASSUME TypeInv, RevokeInv, NEW p \in Procs, Step(p)
    PROVE  RevokeInv'
<1>1. ASSUME NEW q \in Procs \ {p}
      PROVE  (Aimed(q) /\ Fresh(q) /\ Over(q) /\ Standing(q))'
  BY OthersKept, StepKeepsLines DEF RevokeInv, Aimed, Fresh, Over, Standing, Mark
<1>2. (Aimed(p) /\ Fresh(p) /\ Over(p) /\ Standing(p))'
  <2> USE DEF TypeInv, TypeOK, AddHas, Goto, End, RevokeInv, Aimed, Fresh, Over, Standing
  <2>1. CASE StartAdd(p) \/ StartRevoke(p)
    BY <2>1 DEF StartAdd, StartRevoke, Start, Running
  <2>2. CASE Probe(p)
    BY <2>2 DEF Probe
  <2>3. CASE DetectHashMode(p)
    BY <2>3 DEF DetectHashMode
  <2>4. CASE Confirm(p) \/ Open(p)
    BY <2>4 DEF Confirm, Open
  <2>5. CASE Append(p)
    BY <2>5 DEF Append, Write
  <2>6. CASE Classify(p)
    BY <2>6, InputsAssumption DEF Classify
  <2>7. CASE ReadFile(p)
    BY <2>7 DEF ReadFile
  <2>8. CASE Rename(p)
    BY <2>8 DEF Rename, Write, Mark
  <2>9. CASE Kill(p)
    BY <2>9 DEF Kill
  <2> QED
    BY <2>1, <2>2, <2>3, <2>4, <2>5, <2>6, <2>7, <2>8, <2>9 DEF Step
<1> QED
  BY <1>1, <1>2 DEF RevokeInv

Inv == TypeInv /\ RevokeInv

\* Nobody has revoked anything at the start.
LEMMA InitInv == Init => Inv
BY InitType DEF Init, Inv, RevokeInv, Aimed, Fresh, Over, Standing, Running

\* The invariant is inductive.
LEMMA NextInv == Inv /\ [Next]_vars => Inv'
<1>1. ASSUME RevokeInv, UNCHANGED vars
      PROVE  RevokeInv'
  BY <1>1 DEF RevokeInv, Aimed, Fresh, Over, Standing, Mark, vars
<1> QED
  BY <1>1, NextType, StepRevoke DEF Inv, Next

\* A fingerprint whose revocation was reported is trusted no more, whatever is
\* added later and by however many processes, unless a rename has put back a file
\* that had changed.
THEOREM RevocationSound == Spec => []RevocationHolds
<1>1. Inv => RevocationHolds
  <2> SUFFICES ASSUME Inv, NEW p \in Procs,
                      exit[p] = 0, format[p] = "auto", ~clobbered,
                      NEW h \in IF input[p] \in Prints THEN Hosts ELSE {input[p]}
               PROVE  ~Trusted(h, print[p])
    BY DEF RevocationHolds
  <2>1. Mark(p) \in file
    BY DEF Inv, RevokeInv, Standing
  <2>2. host[p] \in {h, AnyHost}
    BY DEF Inv, RevokeInv, Aimed
  <2> QED
    BY <2>1, <2>2 DEF Trusted, Mark
<1> QED
  BY <1>1, InitInv, NextInv, PTL DEF Spec

\* A step that reports success has written the line it reports.
LEMMA StepReports ==
    ASSUME TypeInv, RevokeInv, NEW p \in Procs, Step(p), NEW q \in Procs,
           exit[q] # 0, exit'[q] = 0, ~(pc[q] = "write" /\ orphan[q])
    PROVE  Line(q) \in file'
<1>1. q = p
  BY OthersKept
<1> USE DEF TypeInv, TypeOK, AddHas, Goto, End
<1>2. CASE Append(p)
  <2>1. file' = file \cup {Pin(p)}
    BY <1>1, <1>2 DEF Append, Write
  <2>2. Line(p) = Pin(p)
    BY <1>2 DEF Append, Line
  <2> QED
    BY <1>1, <2>1, <2>2
<1>3. CASE Rename(p)
  <2>1. file' = copy[p] \cup {Mark(p)}
    BY <1>1, <1>3 DEF Rename, Write
  <2>2. Line(p) = Mark(p)
    BY <1>3 DEF Rename, Line, RevokeInv, Aimed
  <2> QED
    BY <1>1, <2>1, <2>2
<1>4. CASE \/ StartAdd(p) \/ Probe(p) \/ DetectHashMode(p) \/ Confirm(p) \/ Open(p)
           \/ StartRevoke(p) \/ Classify(p) \/ ReadFile(p) \/ Kill(p)
  <2>1. exit'[p] \in {1, 2, 73, 78, Running, exit[p]}
    BY <1>4 DEF StartAdd, Start, Probe, DetectHashMode, Confirm, Open, StartRevoke, Classify,
                ReadFile, Kill
  <2> QED
    BY <1>1, <2>1 DEF Running
<1> QED
  BY <1>2, <1>3, <1>4 DEF Step

\* No process ever takes a line from the file, but for a rename of a file that
\* had changed since it was read, and one that reports success has put its line
\* there, but for an add whose open file was replaced.
THEOREM NoLineLost == Spec => LinesKept
<1>1. ASSUME Inv, NEW p \in Procs, Step(p)
      PROVE  \/ file \subseteq file'
             \/ \E q \in Procs : pc[q] = "rename" /\ pc'[q] = "done" /\ raced[q]
  <2>1. CASE Rename(p)
    <3>1. pc'[p] = "done"
      BY <1>1, <2>1 DEF Rename, End, Goto, Inv, TypeInv, TypeOK
    <3> QED
      BY <1>1, <3>1, StepKeepsLines DEF Inv
  <2>2. CASE ~Rename(p)
    <3>1. pc[p] = "rename" => file' = file
      BY <1>1, <2>2 DEF Step, StartAdd, Start, Probe, DetectHashMode, Confirm, Open, Append,
                        StartRevoke, Classify, ReadFile, Kill
    <3> QED
      BY <1>1, <3>1, StepKeepsLines DEF Inv
  <2> QED
    BY <2>1, <2>2
<1>2. Inv /\ [Next]_vars =>
        [/\ \/ file \subseteq file'
            \/ \E p \in Procs : pc[p] = "rename" /\ pc'[p] = "done" /\ raced[p]
         /\ \A p \in Procs :
               exit[p] # 0 /\ exit'[p] = 0 /\ ~(pc[p] = "write" /\ orphan[p]) =>
                  Line(p) \in file']_vars
  BY <1>1, StepReports DEF Inv, Next
<1> QED
  BY <1>2, InitInv, NextInv, PTL DEF Spec, LinesKept

====
