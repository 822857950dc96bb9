---- MODULE TransportProofs ----
(***************************************************************************)
(* Proofs about Transport, for every set of remote exit statuses and every  *)
(* choice of entry points: its types, what an exit code of 0 means, when a  *)
(* passphrase is asked for on an open session, what "no key found" means,   *)
(* and that the process never goes back to an earlier step.  One inductive  *)
(* invariant carries them all.                                              *)
(***************************************************************************)
EXTENDS Transport, TLAPS

\* Where the process is says what it knows: no error before a refusal, one at a
\* refusal, an exit code only at the end, no session before the connect, and a
\* command status only after exec.
Progress ==
    /\ pc \notin {"refusal", "done"} => err = "none"
    /\ pc = "refusal" => err \in ErrKinds
    /\ pc # "done" => exit = Running
    /\ pc \in {"identity", "agent", "connect"} => conn = "closed"
    /\ pc = "exec" => mode = "exec"
    /\ pc = "close" /\ mode = "exec" => remote \in RemoteCodes
    /\ pc \in {"exec", "close"} => accepts # {}

\* A process that has gone on to a session has not closed it before it ends.
SessionKept ==
    pc \in {"auth", "findAgain", "authTyped", "exec", "reclassify", "close"} => conn # "closed"

\* Who goes on without a passphrase and has an encrypted key was vouched for,
\* unless the key has been encrypted since.
Vouched ==
    /\ pc = "auth" => typed = "none"
    /\ pc \in {"connect", "auth"} /\ typed = "none" /\ identity = "encrypted"
         => vouched \/ rekeyed
    /\ pc = "findAgain" => vouched \/ rekeyed

\* When the second look comes a refused identity is still there to be seen, and
\* the encrypted key to be found again, unless they have changed.
Second ==
    /\ pc = "reclassify" =>
         /\ "file" \in refused \ moved => identity = "plain"
         /\ "agent" \in refused \ moved => agent = "keys"
    /\ pc = "findAgain" => identity = "encrypted" \/ "file" \in moved

Inv ==
    /\ TypeOK /\ Progress /\ SessionKept /\ Vouched /\ Second
    /\ ExecZeroMeansSuccess /\ LatePromptOnlyIfVouched
    /\ TestZeroMeansNoRefusal /\ RefusedKeyNotMissing

\* No error ends the process with 0, and no code stands for "still running".
LEMMA ErrorCodes ==
    /\ ErrKinds = {"nokey", "failed", "usage", "other"}
    /\ \A e \in ErrKinds : ExitOf[e] # 0 /\ ExitOf[e] # Running
BY DEF Running, ErrKinds, ExitOf

\* The invariant holds before the identity is looked for.
LEMMA InitInv == Init => Inv
BY ErrorCodes, RemoteCodesAssumption
   DEF Init, Inv, TypeOK, Progress, SessionKept, Vouched, Second, ExecZeroMeansSuccess,
       LatePromptOnlyIfVouched, TestZeroMeansNoRefusal, RefusedKeyNotMissing,
       PcStates, Asking, NotRun, Running

\* Every step of the process, of the user and of the agent keeps the invariant.
LEMMA NextInv == Inv /\ [Next]_vars => Inv'
<1> SUFFICES ASSUME Inv, [Next]_vars
             PROVE  Inv'
  OBVIOUS
<1> USE ErrorCodes, RemoteCodesAssumption
        DEF Inv, TypeOK, Progress, SessionKept, Vouched, Second, ExecZeroMeansSuccess,
            LatePromptOnlyIfVouched, TestZeroMeansNoRefusal, RefusedKeyNotMissing,
            PcStates, Asking, Looking, Settled, world, past
<1>1. CASE FindIdentity
  BY <1>1, SMTT(30) DEF FindIdentity, Exit
<1>2. CASE MaybeCollect
  <2>1. vouched' \in BOOLEAN /\ (agent = "keys" => vouched')
    BY <1>2, Zenon DEF MaybeCollect
  <2> QED
    BY <1>2, <2>1, SMTT(30) DEF MaybeCollect
<1>3. CASE UserStep \/ TryAskpass \/ NoTerminal
  <2>1. pc \in Asking /\ UNCHANGED <<world, remote, past>>
    BY <1>3 DEF UserStep, VaultAnswers, TryAskpass, AskpassAnswers, TerminalAnswers, NoTerminal
  <2>2. \/ \E p \in {"right", "wrong"} : Collected(p)
        \/ \E e \in {"usage", "other"} : AskFails(e)
        \/ pc' \in Asking /\ UNCHANGED <<typed, conn, err, exit>>
    BY <1>3 DEF UserStep, VaultAnswers, TryAskpass, AskpassAnswers, TerminalAnswers, NoTerminal
  <2>3. CASE \E p \in {"right", "wrong"} : Collected(p)
    BY <2>1, <2>3, SMTT(60) DEF Collected
  <2>4. CASE \E e \in {"usage", "other"} : AskFails(e)
    BY <2>1, <2>4, SMTT(60) DEF AskFails, Exit, Refusal
  <2>5. CASE pc' \in Asking /\ UNCHANGED <<typed, conn, err, exit>>
    BY <2>1, <2>5, SMTT(60)
  <2> QED
    BY <2>2, <2>3, <2>4, <2>5
<1>4. CASE Connect
  BY <1>4 DEF Connect, Exit
<1>5. CASE AuthenticateBest
  <2>1. /\ Offered \subseteq {"file", "agent"}
        /\ "file" \in Offered => identity = "plain"
        /\ "agent" \in Offered => agent = "keys"
    BY DEF Offered
  <2>2. Offered \cap accepts # {} => accepts # {}
    OBVIOUS
  <2>3. refused' \subseteq Offered /\ moved' = {}
    BY <1>5, Zenon DEF AuthenticateBest
  <2>4. /\ UNCHANGED <<world, typed, remote, exit, vouched, rekeyed, vanished>>
        /\ \/ Authenticated /\ accepts # {}
           \/ Refusal("other") \/ Refusal("failed")
           \/ pc' = "reclassify" /\ UNCHANGED <<conn, err>>
           \/ identity = "encrypted" /\ pc' = "findAgain" /\ UNCHANGED <<conn, err>>
    BY <1>5, <2>2 DEF AuthenticateBest
  <2>5. pc = "auth"
    BY <1>5 DEF AuthenticateBest
  <2>6. TypeOK'
    BY <2>1, <2>3, <2>4, <2>5, SMTT(30) DEF Authenticated, Refusal
  <2>7. Progress' /\ SessionKept' /\ Vouched'
    BY <2>4, <2>5, SMTT(30) DEF Authenticated, Refusal
  <2>8. Second'
    BY <2>1, <2>3, <2>4, <2>5, SMTT(30) DEF Authenticated, Refusal
  <2> QED
    BY <2>3, <2>4, <2>5, <2>6, <2>7, <2>8, SMTT(30) DEF Authenticated, Refusal
<1>6. CASE ReclassifyNoKeyFound
  <2>1. PICK readable \in BOOLEAN :
          /\ Refusal(IF (readable /\ identity # "none") \/ agent = "keys"
                     THEN "failed" ELSE "nokey")
          /\ moved' = moved \cup IF readable THEN {} ELSE {"file"}
    BY <1>6 DEF ReclassifyNoKeyFound
  <2>2. /\ UNCHANGED <<world, typed, remote, exit, vouched, rekeyed, refused, vanished>>
        /\ pc = "reclassify"
    BY <1>6 DEF ReclassifyNoKeyFound
  <2>3. RefusedKeyNotMissing'
    BY <2>1, <2>2, SMTT(30) DEF Refusal
  <2> QED
    BY <2>1, <2>2, <2>3, SMTT(30) DEF Refusal
<1>7. CASE AuthenticateTyped
  <2>1. /\ UNCHANGED <<world, typed, remote, exit, vouched, rekeyed, moved, vanished>>
        /\ pc = "authTyped"
        /\ refused' \subseteq refused \cup {"file"}
        /\ (Authenticated /\ accepts # {}) \/ Refusal("failed") \/ Refusal("other")
    BY <1>7 DEF AuthenticateTyped
  <2>2. TypeOK'
    BY <2>1, SMTT(30) DEF Authenticated, Refusal
  <2>3. err' # "nokey" /\ pc' \notin Asking \cup {"reclassify", "findAgain", "connect", "auth", "done"}
    BY <2>1, SMTT(30) DEF Authenticated, Refusal
  <2>4. Progress' /\ SessionKept' /\ Vouched' /\ Second'
    BY <2>1, <2>3, SMTT(30) DEF Authenticated, Refusal
  <2> QED
    BY <2>2, <2>3, <2>4, SMTT(30)
<1>8. CASE Refused
  BY <1>8, SMTT(60) DEF Refused, Exit
<1>9. CASE Exec
  BY <1>9 DEF Exec, Exit
<1>10. CASE Close
  BY <1>10, SMTT(60) DEF Close, Exit
<1>11. CASE AgentChanges \/ FilesChange
  <2>1. UNCHANGED <<mode, accepts, env, pc, conn, err, remote, exit, vouched, refused, vanished>>
    BY <1>11 DEF AgentChanges, FilesChange
  <2>2. TypeOK' /\ moved \subseteq moved' /\ (rekeyed => rekeyed')
    <3>1. CASE AgentChanges
      BY <2>1, <3>1, SMTT(30) DEF AgentChanges
    <3>2. CASE FilesChange
      <4>1. rekeyed' \in BOOLEAN /\ (rekeyed => rekeyed')
        BY <3>2, Zenon DEF FilesChange
      <4>2. typed' \in {"none", "right", "wrong"} /\ identity' \in {"plain", "encrypted", "none"}
        BY <3>2 DEF FilesChange
      <4>3. moved \subseteq moved' /\ moved' \subseteq {"file", "agent"} /\ agent' = agent
        BY <3>2 DEF FilesChange
      <4> QED
        BY <2>1, <4>1, <4>2, <4>3
    <3> QED
      BY <1>11, <3>1, <3>2
  <2>3. Vouched'
    <3>1. CASE AgentChanges
      BY <2>1, <3>1 DEF AgentChanges
    <3>2. CASE FilesChange
      <4>1. pc # "identity" => rekeyed'
        BY <3>2, Zenon DEF FilesChange
      <4>2. typed = "none" => typed' = "none"
        BY <3>2 DEF FilesChange
      <4> QED
        BY <2>1, <4>1, <4>2
    <3> QED
      BY <1>11, <3>1, <3>2
  <2>4. Second'
    BY <1>11, <2>1, SMTT(30) DEF AgentChanges, FilesChange
  <2> QED
    BY <2>1, <2>2, <2>3, <2>4, SMTT(30)
<1>12. CASE InactivityTimeout
  BY <1>12 DEF InactivityTimeout
<1>13. CASE FindEncrypted
  <2>1. /\ UNCHANGED <<world, typed, remote, exit, vouched, rekeyed, refused, moved>>
        /\ pc = "findAgain"
        /\ \/ pc' = "vault" /\ UNCHANGED <<conn, err, vanished>>
           \/ Refusal("nokey") /\ vanished' = TRUE /\ "file" \in moved
           \/ (Refusal("usage") \/ Refusal("other")) /\ UNCHANGED vanished
    BY <1>13 DEF FindEncrypted
  <2>2. TypeOK'
    <3>1. vanished' \in BOOLEAN
      BY <2>1, Zenon
    <3> QED
      BY <2>1, <3>1, SMTT(30) DEF Refusal
  <2>3. RefusedKeyNotMissing'
    BY <2>1, SMTT(30) DEF Refusal
  <2> QED
    BY <2>1, <2>2, <2>3, SMTT(30) DEF Refusal
<1>14. CASE UNCHANGED vars
  BY <1>14 DEF vars
<1> QED
  BY <1>1, <1>2, <1>3, <1>4, <1>5, <1>6, <1>7, <1>8, <1>9, <1>10, <1>11, <1>12,
     <1>13, <1>14 DEF Next, ProcessStep

\* The invariant holds throughout.
LEMMA Invariance == Spec => []Inv
BY InitInv, NextInv, PTL DEF Spec

\* Every variable of a transport process keeps its type.
THEOREM TypeCorrect == Spec => []TypeOK
<1>1. Inv => TypeOK
  BY DEF Inv
<1> QED
  BY <1>1, Invariance, PTL

\* Git can trust exit code 0 of run_exec: the server accepted an identity and
\* the remote command ran and returned 0.
THEOREM ExecZeroSound == Spec => []ExecZeroMeansSuccess
<1>1. Inv => ExecZeroMeansSuccess
  BY DEF Inv
<1> QED
  BY <1>1, Invariance, PTL

\* authenticate_with_prompt asks on an open session only after
\* maybe_collect_passphrase found an agent that held an identity.
THEOREM LatePromptSound == Spec => []LatePromptOnlyIfVouched
<1>1. Inv => LatePromptOnlyIfVouched
  BY DEF Inv
<1> QED
  BY <1>1, Invariance, PTL

\* run_test turns no refusal but "no key found" into exit code 0.
THEOREM TestZeroSound == Spec => []TestZeroMeansNoRefusal
<1>1. Inv => TestZeroMeansNoRefusal
  BY DEF Inv
<1> QED
  BY <1>1, Invariance, PTL

\* "No key found" stands for a refused key only if everything refused changed, or
\* could not be read, between the offer and the second look, or if the encrypted
\* key was no longer one when authenticate_with_prompt went back for it.
THEOREM NoKeySound == Spec => []RefusedKeyNotMissing
<1>1. Inv => RefusedKeyNotMissing
  BY DEF Inv
<1> QED
  BY <1>1, Invariance, PTL

----------------------------------------------------------------------------
(* What ending rests on: no step goes back *)

\* How many steps the process can still take: asking before the connect comes
\* earlier than asking on an open session.
StepsLeft ==
    LET early == conn = "closed" /\ pc \in Asking
        rank  == [identity |-> 14, agent |-> 13, vault |-> 6, askpass |-> 5, program |-> 4,
                  terminal |-> 4, connect |-> 9, auth |-> 8, findAgain |-> 7, authTyped |-> 3,
                  exec |-> 2, reclassify |-> 2, refusal |-> 1, close |-> 1, done |-> 0]
    IN  rank[pc] + IF early THEN 6 ELSE 0

\* Nothing asks again and again: whatever the agent, the user and the idle timer
\* do, a step of the process that goes anywhere uses up one of the 14 it has, and
\* nobody gives one back.
NoGoingBack ==
    [][StepsLeft' <= StepsLeft /\ (pc' # pc => StepsLeft' < StepsLeft)]_vars

\* run_exec and run_test come to an end in at most 14 steps of their own, the
\* part of Terminates that needs no fairness.
THEOREM NeverBack == Spec => NoGoingBack /\ [](StepsLeft \in 0..14)
<1> DEFINE A == StepsLeft' <= StepsLeft /\ (pc' # pc => StepsLeft' < StepsLeft)
<1>1. Inv /\ [Next]_vars => [A]_vars
  <2> SUFFICES ASSUME Inv, Next
               PROVE  A
    OBVIOUS
  <2> USE DEF Inv, TypeOK, Progress, SessionKept, PcStates, Asking, world, past, StepsLeft
  <2>1. CASE FindIdentity \/ MaybeCollect \/ Connect
    BY <2>1 DEF FindIdentity, MaybeCollect, Connect, Exit
  <2>2. CASE AuthenticateBest
    BY <2>2 DEF AuthenticateBest, Authenticated, Refusal
  <2>3. CASE FindEncrypted \/ ReclassifyNoKeyFound \/ AuthenticateTyped
    BY <2>3 DEF FindEncrypted, ReclassifyNoKeyFound, AuthenticateTyped, Authenticated, Refusal
  <2>4. CASE UserStep \/ TryAskpass \/ NoTerminal
    BY <2>4 DEF UserStep, VaultAnswers, TryAskpass, AskpassAnswers, TerminalAnswers,
                NoTerminal, Collected, AskFails, Exit, Refusal
  <2>5. CASE Refused \/ Exec \/ Close
    BY <2>5 DEF Refused, Exec, Close, Exit
  <2>6. CASE AgentChanges \/ FilesChange \/ InactivityTimeout
    BY <2>6 DEF AgentChanges, FilesChange, InactivityTimeout
  <2> QED
    BY <2>1, <2>2, <2>3, <2>4, <2>5, <2>6 DEF Next, ProcessStep
<1>2. Inv => StepsLeft \in 0..14
  BY DEF Inv, TypeOK, PcStates, Asking, StepsLeft
<1> QED
  BY <1>1, <1>2, Invariance, PTL DEF Spec, NoGoingBack

====
