---- MODULE VaultPromiseProofs ----
(***************************************************************************)
(* BiometricVault implements VaultPromise, for any number of processes, keys *)
(* and passphrases: initial states map to initial states, and every step of  *)
(* every process maps to a step of the promise or to nothing.                *)
(*                                                                           *)
(* Two facts beyond the invariant of BiometricVaultProofs are needed: on     *)
(* Linux whoever scans has the device, and what Windows took at the search   *)
(* is a passphrase the key has had.                                          *)
(***************************************************************************)
EXTENDS BiometricVaultProofs

ScansWithDevice == \A p \in Procs :
    /\ platform = "linux" /\ pc[p] = "scan" => reader = p

TakenEver == \A p \in Procs :
    \/ platform = "windows" /\ pc[p] \in {"scan", "fetch"}
    \/ pc[p] = "verify"
    => held[p] \in ever[key[p]] \ {None}

PromiseInv == ScansWithDevice /\ TakenEver

\* A step of any process keeps the scanner in possession of the device and what
\* was taken from the keystore among the passphrases the key has had.
LEMMA StepPromiseInv ==
    ASSUME AllInv, PromiseInv, NEW p \in Procs, Step(p)
    PROVE  PromiseInv'
<1> USE DEF AllInv, PromiseInv, ScansWithDevice, TakenEver, OnceInv, VaultOnceValid,
           HealInv, NoClaimOnWindows, TypeInv, TypeOK, KeyInHand
<1>1. CASE \E c \in Commands, ks \in SUBSET Keys : Start(p, c, ks)
  BY <1>1, SMTT(60) DEF Start, Goto, files
<1>2. CASE Finish(p)
  BY <1>2, SMTT(60) DEF Finish, Reset, Goto, files
<1>3. CASE Kill(p)
  BY <1>3, SMTT(60) DEF Kill, Reset, Goto, files
<1>4. CASE \E k \in Keys : ReadKey(p, k)
  BY <1>4, SMTT(60) DEF ReadKey, TakeKey, Goto, files
<1>5. CASE \E k \in Keys : OpenKey(p, k)
  BY <1>5, SMTT(60) DEF OpenKey, TakeKey, Goto, files
<1>6. CASE \E k \in Keys : FindIdentity(p, k)
  BY <1>6, SMTT(60) DEF FindIdentity, TakeKey, Goto, files
<1>7. CASE \E k \in Keys : Forget(p, k)
  BY <1>7, SMTT(60) DEF Forget, TakeKey, RacedBy, files
<1>8. CASE ReadForUnlock(p)
  BY <1>8, SMTT(60) DEF ReadForUnlock, Goto, files
<1>9. CASE Search(p)
  BY <1>9, SMTT(60) DEF Search, Goto, files
<1>10. CASE Claim(p)
  BY <1>10, NoneAssumption, SMTT(60) DEF Claim, Goto, files, local
<1>11. CASE EndScan(p)
  BY <1>11, SMTT(60) DEF EndScan, Goto, files, local
<1>12. CASE Fetch(p)
  BY <1>12, SMTT(60) DEF Fetch, Goto, files
<1>13. CASE Verify(p)
  BY <1>13, SMTT(60) DEF Verify, Collected, Handled, Goto, files
<1>14. CASE Heal(p)
  BY <1>14, SMTT(60) DEF Heal, RacedBy, Goto, files, local
<1>15. CASE \E t \in Passphrases : Ask(p, t)
  BY <1>15, SMTT(60) DEF Ask, Collected, Handled, Goto, files
<1>16. CASE Store(p)
  BY <1>16, SMTT(60) DEF Store, StoreFailed, Handled, RacedBy, Goto, files
<1>17. CASE Add(p)
  BY <1>17, SMTT(60) DEF Add, StoreFailed, Handled, RacedBy, Goto, files
<1>18. CASE NewPassphrase(p)
  BY <1>18, SMTT(60) DEF NewPassphrase, Goto, files
<1>19. CASE WriteKey(p)
  BY <1>19, SMTT(60) DEF WriteKey, Handled, RacedBy, Goto, files
<1>20. CASE \E k \in Keys : SignKey(p, k)
  BY <1>20, SMTT(60) DEF SignKey, TakeKey, Goto, files
<1>21. CASE Decrypt(p)
  BY <1>21, SMTT(60) DEF Decrypt, Handled, Goto, files
<1> QED
  BY <1>1, <1>2, <1>3, <1>4, <1>5, <1>6, <1>7, <1>8, <1>9, <1>10, <1>11, <1>12, <1>13,
     <1>14, <1>15, <1>16, <1>17, <1>18, <1>19, <1>20, <1>21 DEF Step, AutoUnlockStep

----------------------------------------------------------------------------
(* The mapped state.  What a step of p does to it follows from where p is       *)
(* before and after, as long as the other processes stay where they are.        *)

OthersStay(p) == \A q \in Procs \ {p} : pc'[q] = pc[q] /\ held'[q] = held[q]

\* If p stays at its stage and no file or item changes, nothing happens.
LEMMA MapQuiet ==
    ASSUME NEW p \in Procs, OthersStay(p), UNCHANGED <<platform, files, vault>>,
           Stages'[p] = Stages[p], HandedOut'[p] = HandedOut[p]
    PROVE  UNCHANGED Promise!pvars
BY DEF OthersStay, Stages, HandedOut, files, Promise!pvars

\* If p moves and no file or item changes, the promise sees p move.
LEMMA MapMove ==
    ASSUME NEW p \in Procs, OthersStay(p), UNCHANGED <<platform, files, vault>>
    PROVE  Promise!MoveTo(p, Stages[p], Stages'[p], HandedOut'[p])
BY DEF OthersStay, Stages, HandedOut, files, Promise!MoveTo

\* If nobody moves to, from or within a release, the promise's stages stay.
LEMMA MapKey ==
    ASSUME NEW p \in Procs, OthersStay(p),
           Stages'[p] = Stages[p], HandedOut'[p] = HandedOut[p]
    PROVE  /\ UNCHANGED Stages
           /\ UNCHANGED HandedOut
BY DEF OthersStay, Stages, HandedOut

----------------------------------------------------------------------------
(* Each step is a step of the promise, or nothing.                             *)

\* A step that neither touches files and items nor enters, leaves or moves
\* within a release is nothing to the promise.
LEMMA QuietSteps ==
    ASSUME AllInv, NEW p \in Procs,
           \/ \E c \in Commands, ks \in SUBSET Keys : Start(p, c, ks)
           \/ Finish(p)
           \/ \E k \in Keys : \/ ReadKey(p, k) \/ OpenKey(p, k)
                              \/ FindIdentity(p, k) \/ SignKey(p, k)
           \/ ReadForUnlock(p) \/ NewPassphrase(p) \/ Decrypt(p)
           \/ \E t \in Passphrases : Ask(p, t)
    PROVE  UNCHANGED Promise!pvars
<1> USE DEF OthersStay, Stages, HandedOut, AllInv, TypeInv, TypeOK, files
<1> SUFFICES /\ OthersStay(p) /\ UNCHANGED <<platform, files, vault>>
             /\ Stages'[p] = Stages[p] /\ HandedOut'[p] = HandedOut[p]
  BY MapQuiet
<1>1. CASE \E c \in Commands, ks \in SUBSET Keys : Start(p, c, ks)
  BY <1>1 DEF Start, Goto
<1>2. CASE Finish(p)
  BY <1>2 DEF Finish, Reset, Goto
<1>3. CASE \E k \in Keys : ReadKey(p, k)
  BY <1>3 DEF ReadKey, TakeKey, Goto
<1>4. CASE \E k \in Keys : OpenKey(p, k)
  BY <1>4 DEF OpenKey, TakeKey, Goto
<1>5. CASE \E k \in Keys : FindIdentity(p, k)
  BY <1>5 DEF FindIdentity, TakeKey, Goto
<1>6. CASE \E k \in Keys : SignKey(p, k)
  BY <1>6 DEF SignKey, TakeKey, Goto
<1>7. CASE ReadForUnlock(p)
  BY <1>7 DEF ReadForUnlock, Goto
<1>8. CASE NewPassphrase(p)
  BY <1>8 DEF NewPassphrase, Goto
<1>9. CASE Decrypt(p)
  BY <1>9 DEF Decrypt, Handled, Goto
<1>10. CASE \E t \in Passphrases : Ask(p, t)
  BY <1>10 DEF Ask, Collected, Handled, Goto
<1> QED
  BY <1>1, <1>2, <1>3, <1>4, <1>5, <1>6, <1>7, <1>8, <1>9, <1>10

\* A step of a release that does not stay where it is: the promise's four moves.
LEMMA ReleaseSteps ==
    ASSUME AllInv, PromiseInv, NEW p \in Procs,
           Kill(p) \/ Search(p) \/ Claim(p) \/ EndScan(p) \/ Fetch(p) \/ Verify(p)
    PROVE  Promise!Next \/ UNCHANGED Promise!pvars
<1> USE DEF AllInv, TypeInv, TypeOK, KeyInHand, files
<1>1. /\ OthersStay(p) /\ UNCHANGED <<platform, files, vault>>
  <2> USE DEF OthersStay
  <2>1. CASE Kill(p)
    BY <2>1 DEF Kill, Reset, Goto
  <2>2. CASE Search(p)
    BY <2>2 DEF Search, Goto
  <2>3. CASE Claim(p)
    BY <2>3 DEF Claim, Goto, local
  <2>4. CASE EndScan(p)
    BY <2>4 DEF EndScan, Goto, local
  <2>5. CASE Fetch(p)
    BY <2>5 DEF Fetch, Goto
  <2>6. CASE Verify(p)
    BY <2>6 DEF Verify, Collected, Handled, Goto
  <2> QED
    BY <2>1, <2>2, <2>3, <2>4, <2>5, <2>6
<1>2. Promise!MoveTo(p, Stages[p], Stages'[p], HandedOut'[p])
  BY <1>1, MapMove
<1>3. CASE Stages'[p] = Stages[p]
  <2>1. HandedOut'[p] = HandedOut[p]
    BY <1>3 DEF Kill, Reset, Search, Claim, EndScan, Fetch, Verify, Collected, Handled,
                Goto, Stages, HandedOut, local
  <2> QED
    BY <1>1, <1>3, <2>1, MapQuiet
<1>4. CASE Stages'[p] # Stages[p]
  <2>1. Stages' # Stages
    BY <1>4
  <2>2. SUFFICES Promise!BeginScan(p) \/ Promise!Approve(p) \/ Promise!End(p)
                 \/ \E k \in Keys : Promise!Release(p, k)
    BY <2>1 DEF Promise!Next, Promise!ReleaseStep
  <2>3. CASE Stages'[p] = "none"
    <3>1. Stages[p] \in {"scanning", "approved", "released"} /\ HandedOut'[p] = None
      BY <1>4, <2>3 DEF Stages, HandedOut
    <3> QED
      BY <1>2, <2>3, <3>1 DEF Promise!End
  <2>4. CASE Stages'[p] = "scanning"
    <3>1. Stages[p] = "none" /\ HandedOut'[p] = None
      BY <1>4, <2>4 DEF Kill, Reset, Search, Claim, EndScan, Fetch, Verify, Collected,
                        Handled, Goto, Stages, HandedOut, local
    <3>2. ASSUME platform = "linux", NEW q \in Procs
          PROVE  Stages[q] # "scanning"
      <4>1. Claim(p) /\ reader = None
        BY <1>4, <2>4, <3>2 DEF Kill, Reset, Search, Claim, EndScan, Fetch, Verify,
                     Collected, Handled, Goto, Stages, local
      <4> QED
        BY <3>2, <4>1, NoneAssumption DEF PromiseInv, ScansWithDevice, Stages
    <3>3. Promise!MoveTo(p, "none", "scanning", None)
      BY <1>2, <2>4, <3>1
    <3> QED
      BY <3>2, <3>3 DEF Promise!BeginScan
  <2>5. CASE Stages'[p] = "approved"
    <3>1. Stages[p] = "scanning" /\ HandedOut'[p] = None
      BY <1>4, <2>5 DEF Kill, Reset, Search, Claim, EndScan, Fetch, Verify, Collected,
                        Handled, Goto, Stages, HandedOut, local
    <3> QED
      BY <1>2, <2>5, <3>1 DEF Promise!Approve
  <2>6. CASE Stages'[p] = "released"
    <3>1. Fetch(p) /\ Stages[p] = "approved"
      BY <1>4, <2>6 DEF Kill, Reset, Search, Claim, EndScan, Fetch, Verify, Collected,
                        Handled, Goto, Stages, local
    <3>2. HandedOut'[p] \in ever[key[p]] \ {None} /\ key[p] \in Keys
      BY <2>6, <3>1 DEF Fetch, Goto, Stages, HandedOut, PromiseInv, TakenEver, OnceInv,
                        VaultOnceValid
    <3>3. Promise!Release(p, key[p])
      BY <1>2, <2>6, <3>1, <3>2 DEF Promise!Release
    <3> QED
      BY <3>2, <3>3
  <2> QED
    BY <2>3, <2>4, <2>5, <2>6 DEF Stages
<1> QED
  BY <1>3, <1>4

\* A step that changes a file or an item: an enrolment, a forget or a
\* re-encryption of one key.
LEMMA KeySteps ==
    ASSUME AllInv, NEW p \in Procs,
           \/ Heal(p) \/ Store(p) \/ Add(p) \/ WriteKey(p)
           \/ \E k \in Keys : Forget(p, k)
    PROVE  Promise!Next \/ UNCHANGED Promise!pvars
<1> USE DEF AllInv, TypeInv, TypeOK, KeyInHand, files
<1>1. OthersStay(p) /\ Stages'[p] = Stages[p] /\ HandedOut'[p] = HandedOut[p]
  BY DEF OthersStay, Stages, HandedOut, Heal, Store, StoreFailed, Add, WriteKey, Forget,
         TakeKey, Handled, Goto, local
<1>2. /\ UNCHANGED Stages
      /\ UNCHANGED HandedOut
  BY <1>1, MapKey
<1>3. UNCHANGED platform
  BY DEF Heal, Store, Add, WriteKey, Forget
<1>4. \/ UNCHANGED <<vault, disk, ever>>
      \/ \E k \in Keys :
            \/ vault' = [vault EXCEPT ![k] = None] /\ UNCHANGED <<disk, ever>>
            \/ /\ \E t \in ever[k] \ {None} : vault' = [vault EXCEPT ![k] = t]
               /\ UNCHANGED <<disk, ever>>
            \/ \E t \in Secret : /\ disk' = [disk EXCEPT ![k] = t]
                                 /\ ever' = [ever EXCEPT ![k] = @ \cup {t}]
                                 /\ UNCHANGED vault
  <2>1. CASE Heal(p)
    BY <2>1 DEF Heal
  <2>2. CASE Store(p)
    BY <2>2 DEF Store, StoreFailed, OnceInv, HeldEver, ReportInv, EnrollRight
  <2>3. CASE Add(p)
    BY <2>3 DEF Add, StoreFailed, OnceInv, HeldEver, ReportInv, EnrollRight
  <2>4. CASE WriteKey(p)
    BY <2>4 DEF WriteKey
  <2>5. CASE \E k \in Keys : Forget(p, k)
    BY <2>5 DEF Forget
  <2> QED
    BY <2>1, <2>2, <2>3, <2>4, <2>5
<1> QED
  BY <1>2, <1>3, <1>4 DEF Promise!Next, Promise!KeyStep, Promise!Enrol, Promise!Forget,
        Promise!Reencrypt, Promise!pvars, Secret

----------------------------------------------------------------------------

\* Every step of every process maps to a step of the promise or to nothing.
LEMMA StepRefines ==
    ASSUME AllInv, PromiseInv, [Next]_vars
    PROVE  Promise!Next \/ UNCHANGED Promise!pvars
<1>1. CASE Next
  BY <1>1, QuietSteps, ReleaseSteps, KeySteps DEF Next, Step, AutoUnlockStep
<1>2. CASE UNCHANGED vars
  BY <1>2 DEF vars, Promise!pvars, Stages, HandedOut
<1> QED
  BY <1>1, <1>2

\* An initial state of the processes is an initial state of the promise.
LEMMA InitRefines == Init => Promise!Init /\ PromiseInv
BY PlatformsAssumption DEF Init, Promise!Init, Stages, HandedOut, Secret, PromiseInv, ScansWithDevice,
       TakenEver

\* The two extra facts hold throughout.
LEMMA PromiseInvariance == Spec => []PromiseInv
<1>1. AllInv /\ PromiseInv /\ [Next]_vars => PromiseInv'
  <2>1. CASE Next
    BY <2>1, StepPromiseInv DEF Next
  <2>2. CASE UNCHANGED vars
    BY <2>2 DEF PromiseInv, ScansWithDevice, TakenEver, vars
  <2> QED
    BY <2>1, <2>2
<1> QED
  BY <1>1, InitRefines, Invariance, PTL DEF Spec

\* The commands keep the vault's promise: a stored passphrase reaches a command
\* only through a scan passed for it, on Linux with nobody else scanning, and
\* whatever is stored or handed out once opened the key file.
THEOREM KeepsPromise == Spec => PromiseSpec
<1>1. AllInv /\ PromiseInv /\ [Next]_vars => [Promise!Next]_(Promise!pvars)
  BY StepRefines
<1> QED
  BY <1>1, InitRefines, Invariance, PromiseInvariance, PTL DEF Spec, PromiseSpec, Promise!Spec

====
