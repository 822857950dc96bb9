---- MODULE BiometricVaultProofs ----
(***************************************************************************)
(* Proofs about BiometricVault, for any number of processes, keys and       *)
(* passphrases and for every back end: type correctness, that the keystore  *)
(* only ever holds passphrases that were once right, that a self-heal and a *)
(* report are right unless raced, that Linux keeps an enrolment, and that   *)
(* an auto unlock scans once and leaves the reader released.                *)
(*                                                                          *)
(* All but the first rest on AllInv, the conjunction of the inductive       *)
(* invariants of the parts; StepType, StepOnce, StepHeal and StepReport     *)
(* show that a step of any one process keeps its part.                      *)
(***************************************************************************)
EXTENDS BiometricVault, TLAPS

----------------------------------------------------------------------------
(* Type correctness.  That key[p] is a key, which disk[key[p]] needs to have a *)
(* value, follows from where p is: a key is in hand from TakeKey on.           *)

KeyInHand == \A p \in Procs : pc[p] \notin {"idle", "next"} => key[p] \in Keys

TypeInv == TypeOK /\ KeyInHand

\* The variables have their types when no process has started a command.
LEMMA InitType == Init => TypeInv
BY NoneAssumption DEF Init, TypeInv, TypeOK, KeyInHand, Secret, AllCommands, PcStates

\* What Reset leaves behind has the right type, and no other process moves.
LEMMA ResetType ==
    ASSUME TypeOK, NEW p \in Procs, Reset(p)
    PROVE  /\ pc' \in [Procs -> PcStates]
           /\ cmd' \in [Procs -> AllCommands]
           /\ key' \in [Procs -> Keys \cup {None}]
           /\ todo' \in [Procs -> SUBSET Keys]
           /\ handled' \in [Procs -> SUBSET Keys]
           /\ mem' \in [Procs -> Secret]
           /\ held' \in [Procs -> Secret]
           /\ source' \in [Procs -> {"user", "vault"}]
           /\ use' \in [Procs -> {"key", "old", "new"}]
           /\ old' \in [Procs -> Secret]
           /\ copy' \in [Procs -> Secret]
           /\ raced' \in [Procs -> SUBSET Keys]
           /\ \A q \in Procs : pc'[q] = "idle" => held'[q] = None /\ mem'[q] = None
           /\ pc'[p] = "idle" /\ \A q \in Procs \ {p} : pc'[q] = pc[q] /\ key'[q] = key[q]
BY DEF TypeOK, Reset, Goto, Secret, AllCommands, PcStates

\* A step of any process keeps the types, and a key in the hand of whoever is
\* past TakeKey.
LEMMA StepType ==
    ASSUME TypeInv, NEW p \in Procs, Step(p)
    PROVE  TypeInv'
<1>1. ASSUME NEW c \in Commands, NEW ks \in SUBSET Keys, Start(p, c, ks)
      PROVE  TypeInv'
  BY <1>1, CommandsAssumption DEF TypeInv, TypeOK, KeyInHand, Start, Goto, files, PcStates
<1>2. CASE Finish(p)
  BY <1>2, ResetType DEF TypeInv, TypeOK, KeyInHand, Finish, files
<1>3. CASE Kill(p)
  BY <1>3, ResetType DEF TypeInv, TypeOK, KeyInHand, Kill, files
<1>4. ASSUME NEW k \in Keys, ReadKey(p, k)
      PROVE  TypeInv'
  BY <1>4, SMTT(60) DEF TypeInv, TypeOK, KeyInHand, ReadKey, TakeKey, Goto, files, PcStates
<1>5. ASSUME NEW k \in Keys, OpenKey(p, k)
      PROVE  TypeInv'
  BY <1>5, SMTT(60) DEF TypeInv, TypeOK, KeyInHand, OpenKey, TakeKey, Goto, files, PcStates, Secret
<1>6. ASSUME NEW k \in Keys, FindIdentity(p, k)
       PROVE  TypeInv'
  BY <1>6, SMTT(60) DEF TypeInv, TypeOK, KeyInHand, FindIdentity, TakeKey, Goto, files, PcStates
<1>7. ASSUME NEW k \in Keys, Forget(p, k)
      PROVE  TypeInv'
  BY <1>7, SMTT(60) DEF TypeInv, TypeOK, KeyInHand, Forget, TakeKey, RacedBy, files, Secret
<1>8. CASE ReadForUnlock(p)
  BY <1>8, SMTT(60) DEF TypeInv, TypeOK, KeyInHand, ReadForUnlock, Goto, files, PcStates
<1>9. CASE Search(p)
  BY <1>9, SMTT(60) DEF TypeInv, TypeOK, KeyInHand, Search, Goto, files, PcStates
<1>10. CASE Claim(p)
  BY <1>10, SMTT(60) DEF TypeInv, TypeOK, KeyInHand, Claim, Goto, files, local, PcStates
<1>11. CASE EndScan(p)
  BY <1>11, SMTT(60) DEF TypeInv, TypeOK, KeyInHand, EndScan, Goto, files, local, PcStates
<1>12. CASE Fetch(p)
  BY <1>12, SMTT(60) DEF TypeInv, TypeOK, KeyInHand, Fetch, Goto, files, PcStates
<1>13. CASE Verify(p)
  BY <1>13, SMTT(60) DEF TypeInv, TypeOK, KeyInHand, Verify, Collected, Handled, Goto, files, PcStates
<1>14. CASE Heal(p)
  BY <1>14, SMTT(60) DEF TypeInv, TypeOK, KeyInHand, Heal, RacedBy, Goto, files, local, PcStates, Secret
<1>15. ASSUME NEW t \in Passphrases, Ask(p, t)
       PROVE  TypeInv'
  BY <1>15, SMTT(60) DEF TypeInv, TypeOK, KeyInHand, Ask, Collected, Handled, Goto, files, PcStates, Secret
<1>16. CASE Store(p)
  BY <1>16, SMTT(60) DEF TypeInv, TypeOK, KeyInHand, Store, StoreFailed, Handled, RacedBy, Goto, files, PcStates, Secret
<1>17. CASE Add(p)
  BY <1>17, SMTT(60) DEF TypeInv, TypeOK, KeyInHand, Add, StoreFailed, Handled, RacedBy, Goto, files, PcStates, Secret
<1>18. CASE NewPassphrase(p)
  BY <1>18, SMTT(60) DEF TypeInv, TypeOK, KeyInHand, NewPassphrase, Goto, files, PcStates
<1>19. CASE WriteKey(p)
  BY <1>19, SMTT(60) DEF TypeInv, TypeOK, KeyInHand, WriteKey, Handled, RacedBy, Goto, files, PcStates, Secret
<1>20. ASSUME NEW k \in Keys, SignKey(p, k)
       PROVE  TypeInv'
  BY <1>20, SMTT(60) DEF TypeInv, TypeOK, KeyInHand, SignKey, TakeKey, Goto, files, PcStates
<1>21. CASE Decrypt(p)
  BY <1>21, SMTT(60) DEF TypeInv, TypeOK, KeyInHand, Decrypt, Handled, Goto, files, PcStates
<1> QED
  BY <1>1, <1>2, <1>3, <1>4, <1>5, <1>6, <1>7, <1>8, <1>9, <1>10, <1>11, <1>12, <1>13,
     <1>14, <1>15, <1>16, <1>17, <1>18, <1>19, <1>20, <1>21 DEF Step, AutoUnlockStep


----------------------------------------------------------------------------
(* Why the keystore only holds what was once right.  A passphrase reaches the *)
(* keystore from held, held from the user's answer, which Ask compared with   *)
(* mem, and mem from the key file.                                            *)

\* The states in which a process has parsed its key and looks for a passphrase.
Unlocking == {"search", "claim", "scan", "fetch", "verify", "heal", "ask"}

DiskEver == \A k \in Keys : disk[k] \in ever[k]
MemEver  == \A p \in Procs : pc[p] \in Unlocking => mem[p] \in ever[key[p]]
HeldEver == \A p \in Procs : pc[p] \in {"store", "add"} => held[p] \in ever[key[p]]

OnceInv == VaultOnceValid /\ DiskEver /\ MemEver /\ HeldEver

(* Why a self-heal that is not raced is right.  As long as nobody else touched *)
(* the key, mem is what the file holds and held what the keystore holds.       *)

Unraced(p) == key[p] \notin raced[p]

MemCurrent == \A p \in Procs :
    pc[p] \in Unlocking /\ Unraced(p) => mem[p] = disk[key[p]]

\* Windows has the secret from the search on, the others from the fetch on.
HeldCurrent == \A p \in Procs :
    /\ Unraced(p)
    /\ \/ pc[p] \in {"verify", "heal"}
       \/ platform = "windows" /\ pc[p] \in {"scan", "fetch"}
    => held[p] = vault[key[p]]

HealRejected == \A p \in Procs : pc[p] = "heal" => held[p] # mem[p]

NoClaimOnWindows == \A p \in Procs : pc[p] = "claim" => platform # "windows"

HealInv == MemCurrent /\ HeldCurrent /\ HealRejected /\ NoClaimOnWindows

(* Why a report is true.  Keys already handled are not in hand nor to come, an *)
(* enroll and a forget only pass through some states, and what an enroll is    *)
(* about to store opens the key unless it was raced.                           *)

HandledApart == \A p \in Procs :
    /\ handled[p] \cap todo[p] = {}
    /\ pc[p] = "idle" => handled[p] = {}
    /\ pc[p] \notin {"idle", "next"} => key[p] \notin handled[p] \cup todo[p]

EnrollPath == \A p \in Procs :
    /\ cmd[p] = "enroll" => pc[p] \in {"idle", "next", "ask", "store", "add"}
    /\ cmd[p] = "forget" => pc[p] \in {"idle", "next"}

EnrollRight == \A p \in Procs :
    /\ cmd[p] = "enroll" /\ pc[p] = "ask" => mem[p] # None
    /\ pc[p] \in {"store", "add"} => held[p] # None
    /\ cmd[p] = "enroll" /\ pc[p] \in {"store", "add"} /\ Unraced(p) =>
          held[p] = disk[key[p]]

ReportInv == ReportsTrue /\ HandledApart /\ EnrollPath /\ EnrollRight

(* Why a released passphrase opens what it is used on.  As long as nobody else *)
(* touched the key, the copy a sign parsed first is encrypted like the one     *)
(* prompt_passphrase parsed and tried the secret on.                           *)

CopyCurrent == \A p \in Procs :
    cmd[p] = "sign" /\ pc[p] \in Unlocking \cup {"read", "decrypt"} /\ Unraced(p) =>
        copy[p] = disk[key[p]]

UsePath == \A p \in Procs :
    /\ cmd[p] \in {"connect", "sign"} =>
          pc[p] \notin {"store", "add", "new", "write"} /\ use[p] = "key"
    /\ pc[p] = "decrypt" => cmd[p] = "sign"

UnlockInv == UnlockedKeyOpens /\ CopyCurrent /\ UsePath

----------------------------------------------------------------------------

\* A step of any process keeps what is stored, in memory or about to be stored
\* among the passphrases the key file has had.
LEMMA StepOnce ==
    ASSUME TypeInv, OnceInv, NEW p \in Procs, Step(p)
    PROVE  OnceInv'
<1> USE DEF OnceInv, VaultOnceValid, DiskEver, MemEver, HeldEver, Unlocking,
           TypeInv, TypeOK, KeyInHand
<1>1. CASE \E c \in Commands, ks \in SUBSET Keys : Start(p, c, ks)
  BY <1>1, SMTT(60) DEF Start, Goto, files
<1>2. CASE Finish(p)
  BY <1>2, SMTT(60) DEF Finish, Reset, Goto, files
<1>3. CASE Kill(p)
  BY <1>3, SMTT(60) DEF Kill, Reset, Goto, files
<1>4. CASE \E k \in Keys : ReadKey(p, k)
  BY <1>4, SMTT(60) DEF ReadKey, TakeKey, Goto, files
<1>5. CASE \E k \in Keys : OpenKey(p, k)
  BY <1>5, SMTT(60) DEF OpenKey, TakeKey, Goto, files
<1>6. CASE \E k \in Keys : FindIdentity(p, k)
  BY <1>6, SMTT(60) DEF FindIdentity, TakeKey, Goto, files
<1>7. CASE \E k \in Keys : Forget(p, k)
  BY <1>7, SMTT(60) DEF Forget, TakeKey, RacedBy, files
<1>8. CASE ReadForUnlock(p)
  BY <1>8, SMTT(60) DEF ReadForUnlock, Goto, files
<1>9. CASE Search(p)
  BY <1>9, SMTT(60) DEF Search, Goto, files
<1>10. CASE Claim(p)
  BY <1>10, SMTT(60) DEF Claim, Goto, files, local
<1>11. CASE EndScan(p)
  BY <1>11, SMTT(60) DEF EndScan, Goto, files, local
<1>12. CASE Fetch(p)
  BY <1>12, SMTT(60) DEF Fetch, Goto, files
<1>13. CASE Verify(p)
  BY <1>13, SMTT(60) DEF Verify, Collected, Handled, Goto, files
<1>14. CASE Heal(p)
  BY <1>14, SMTT(60) DEF Heal, RacedBy, Goto, files, local
<1>15. CASE \E t \in Passphrases : Ask(p, t)
  BY <1>15, SMTT(60) DEF Ask, Collected, Handled, Goto, files
<1>16. CASE Store(p)
  BY <1>16, SMTT(60) DEF Store, StoreFailed, Handled, RacedBy, Goto, files
<1>17. CASE Add(p)
  BY <1>17, SMTT(60) DEF Add, StoreFailed, Handled, RacedBy, Goto, files
<1>18. CASE NewPassphrase(p)
  BY <1>18, SMTT(60) DEF NewPassphrase, Goto, files
<1>19. CASE WriteKey(p)
  BY <1>19, SMTT(60) DEF WriteKey, Handled, RacedBy, Goto, files
<1>20. CASE \E k \in Keys : SignKey(p, k)
  BY <1>20, SMTT(60) DEF SignKey, TakeKey, Goto, files
<1>21. CASE Decrypt(p)
  BY <1>21, SMTT(60) DEF Decrypt, Handled, Goto, files
<1> QED
  BY <1>1, <1>2, <1>3, <1>4, <1>5, <1>6, <1>7, <1>8, <1>9, <1>10, <1>11, <1>12, <1>13,
     <1>14, <1>15, <1>16, <1>17, <1>18, <1>19, <1>20, <1>21 DEF Step, AutoUnlockStep

\* A step of any process keeps an unraced copy equal to the file, an unraced
\* secret equal to the item, and the two different at a self-heal.
LEMMA StepHeal ==
    ASSUME TypeInv, HealInv, NEW p \in Procs, Step(p)
    PROVE  HealInv'
<1> USE DEF HealInv, MemCurrent, HeldCurrent, HealRejected, NoClaimOnWindows,
           Unraced, Unlocking, TypeInv, TypeOK, KeyInHand
<1>1. CASE \E c \in Commands, ks \in SUBSET Keys : Start(p, c, ks)
  BY <1>1, SMTT(60) DEF Start, Goto, files
<1>2. CASE Finish(p)
  BY <1>2, SMTT(60) DEF Finish, Reset, Goto, files
<1>3. CASE Kill(p)
  BY <1>3, SMTT(60) DEF Kill, Reset, Goto, files
<1>4. CASE \E k \in Keys : ReadKey(p, k)
  BY <1>4, SMTT(60) DEF ReadKey, TakeKey, Goto, files
<1>5. CASE \E k \in Keys : OpenKey(p, k)
  BY <1>5, SMTT(60) DEF OpenKey, TakeKey, Goto, files
<1>6. CASE \E k \in Keys : FindIdentity(p, k)
  BY <1>6, SMTT(60) DEF FindIdentity, TakeKey, Goto, files
<1>7. CASE \E k \in Keys : Forget(p, k)
  BY <1>7, SMTT(60) DEF Forget, TakeKey, RacedBy, files
<1>8. CASE ReadForUnlock(p)
  BY <1>8, SMTT(60) DEF ReadForUnlock, Goto, files
<1>9. CASE Search(p)
  BY <1>9, SMTT(60) DEF Search, Goto, files
<1>10. CASE Claim(p)
  BY <1>10, SMTT(60) DEF Claim, Goto, files, local
<1>11. CASE EndScan(p)
  BY <1>11, SMTT(60) DEF EndScan, Goto, files, local
<1>12. CASE Fetch(p)
  BY <1>12, SMTT(60) DEF Fetch, Goto, files
<1>13. CASE Verify(p)
  BY <1>13, SMTT(60) DEF Verify, Collected, Handled, Goto, files
<1>14. CASE Heal(p)
  BY <1>14, SMTT(60) DEF Heal, RacedBy, Goto, files, local
<1>15. CASE \E t \in Passphrases : Ask(p, t)
  BY <1>15, SMTT(60) DEF Ask, Collected, Handled, Goto, files
<1>16. CASE Store(p)
  BY <1>16, SMTT(60) DEF Store, StoreFailed, Handled, RacedBy, Goto, files
<1>17. CASE Add(p)
  BY <1>17, SMTT(60) DEF Add, StoreFailed, Handled, RacedBy, Goto, files
<1>18. CASE NewPassphrase(p)
  BY <1>18, SMTT(60) DEF NewPassphrase, Goto, files
<1>19. CASE WriteKey(p)
  BY <1>19, SMTT(60) DEF WriteKey, Handled, RacedBy, Goto, files
<1>20. CASE \E k \in Keys : SignKey(p, k)
  BY <1>20, SMTT(60) DEF SignKey, TakeKey, Goto, files
<1>21. CASE Decrypt(p)
  BY <1>21, SMTT(60) DEF Decrypt, Handled, Goto, files
<1> QED
  BY <1>1, <1>2, <1>3, <1>4, <1>5, <1>6, <1>7, <1>8, <1>9, <1>10, <1>11, <1>12, <1>13,
     <1>14, <1>15, <1>16, <1>17, <1>18, <1>19, <1>20, <1>21 DEF Step, AutoUnlockStep

\* A step of any process keeps the reports of enroll and forget true, unraced.
LEMMA StepReport ==
    ASSUME TypeInv, HealInv, ReportInv, NEW p \in Procs, Step(p)
    PROVE  ReportInv'
<1> USE DEF ReportInv, ReportsTrue, HandledApart, EnrollPath, EnrollRight, MemCurrent, HealInv,
           Unraced, Unlocking, TypeInv, TypeOK, KeyInHand
<1>1. CASE \E c \in Commands, ks \in SUBSET Keys : Start(p, c, ks)
  BY <1>1, SMTT(60) DEF Start, Goto, files
<1>2. CASE Finish(p)
  BY <1>2, SMTT(60) DEF Finish, Reset, Goto, files
<1>3. CASE Kill(p)
  BY <1>3, SMTT(60) DEF Kill, Reset, Goto, files
<1>4. CASE \E k \in Keys : ReadKey(p, k)
  BY <1>4, SMTT(60) DEF ReadKey, TakeKey, Goto, files
<1>5. CASE \E k \in Keys : OpenKey(p, k)
  BY <1>5, SMTT(60) DEF OpenKey, TakeKey, Goto, files
<1>6. CASE \E k \in Keys : FindIdentity(p, k)
  BY <1>6, SMTT(60) DEF FindIdentity, TakeKey, Goto, files
<1>7. CASE \E k \in Keys : Forget(p, k)
  BY <1>7, SMTT(60) DEF Forget, TakeKey, RacedBy, files
<1>8. CASE ReadForUnlock(p)
  BY <1>8, SMTT(60) DEF ReadForUnlock, Goto, files
<1>9. CASE Search(p)
  BY <1>9, SMTT(60) DEF Search, Goto, files
<1>10. CASE Claim(p)
  BY <1>10, SMTT(60) DEF Claim, Goto, files, local
<1>11. CASE EndScan(p)
  BY <1>11, SMTT(60) DEF EndScan, Goto, files, local
<1>12. CASE Fetch(p)
  BY <1>12, SMTT(60) DEF Fetch, Goto, files
<1>13. CASE Verify(p)
  BY <1>13, SMTT(60) DEF Verify, Collected, Handled, Goto, files
<1>14. CASE Heal(p)
  BY <1>14, SMTT(60) DEF Heal, RacedBy, Goto, files, local
<1>15. CASE \E t \in Passphrases : Ask(p, t)
  BY <1>15, NoneAssumption, SMTT(60) DEF Ask, Collected, Handled, Goto, files
<1>16. CASE Store(p)
  BY <1>16, SMTT(60) DEF Store, StoreFailed, Handled, RacedBy, Goto, files
<1>17. CASE Add(p)
  BY <1>17, SMTT(60) DEF Add, StoreFailed, Handled, RacedBy, Goto, files
<1>18. CASE NewPassphrase(p)
  BY <1>18, SMTT(60) DEF NewPassphrase, Goto, files
<1>19. CASE WriteKey(p)
  BY <1>19, SMTT(60) DEF WriteKey, Handled, RacedBy, Goto, files
<1>20. CASE \E k \in Keys : SignKey(p, k)
  BY <1>20, SMTT(60) DEF SignKey, TakeKey, Goto, files
<1>21. CASE Decrypt(p)
  BY <1>21, SMTT(60) DEF Decrypt, Handled, Goto, files
<1> QED
  BY <1>1, <1>2, <1>3, <1>4, <1>5, <1>6, <1>7, <1>8, <1>9, <1>10, <1>11, <1>12, <1>13,
     <1>14, <1>15, <1>16, <1>17, <1>18, <1>19, <1>20, <1>21 DEF Step, AutoUnlockStep

\* A step of any process keeps what was released able to open what it is for.
LEMMA StepUnlock ==
    ASSUME TypeInv, HealInv, HandledApart, UnlockInv, NEW p \in Procs, Step(p)
    PROVE  UnlockInv'
<1> USE DEF UnlockInv, UnlockedKeyOpens, CopyCurrent, UsePath, HandledApart, MemCurrent,
           HealInv, Unraced, Unlocking, TypeInv, TypeOK, KeyInHand
<1>1. CASE \E c \in Commands, ks \in SUBSET Keys : Start(p, c, ks)
  BY <1>1, SMTT(60) DEF Start, Goto, files
<1>2. CASE Finish(p)
  BY <1>2, SMTT(60) DEF Finish, Reset, Goto, files
<1>3. CASE Kill(p)
  BY <1>3, SMTT(60) DEF Kill, Reset, Goto, files
<1>4. CASE \E k \in Keys : ReadKey(p, k)
  BY <1>4, SMTT(60) DEF ReadKey, TakeKey, Goto, files
<1>5. CASE \E k \in Keys : OpenKey(p, k)
  BY <1>5, SMTT(60) DEF OpenKey, TakeKey, Goto, files
<1>6. CASE \E k \in Keys : FindIdentity(p, k)
  BY <1>6, SMTT(60) DEF FindIdentity, TakeKey, Goto, files
<1>7. CASE \E k \in Keys : Forget(p, k)
  BY <1>7, SMTT(60) DEF Forget, TakeKey, RacedBy, files
<1>8. CASE ReadForUnlock(p)
  BY <1>8, SMTT(60) DEF ReadForUnlock, Goto, files
<1>9. CASE Search(p)
  BY <1>9, SMTT(60) DEF Search, Goto, files
<1>10. CASE Claim(p)
  BY <1>10, SMTT(60) DEF Claim, Goto, files, local
<1>11. CASE EndScan(p)
  BY <1>11, SMTT(60) DEF EndScan, Goto, files, local
<1>12. CASE Fetch(p)
  BY <1>12, SMTT(60) DEF Fetch, Goto, files
<1>13. CASE Verify(p)
  BY <1>13, SMTT(60) DEF Verify, Collected, Handled, Goto, files
<1>14. CASE Heal(p)
  BY <1>14, SMTT(60) DEF Heal, RacedBy, Goto, files, local
<1>15. CASE \E t \in Passphrases : Ask(p, t)
  BY <1>15, SMTT(60) DEF Ask, Collected, Handled, Goto, files
<1>16. CASE Store(p)
  BY <1>16, SMTT(60) DEF Store, StoreFailed, Handled, RacedBy, Goto, files
<1>17. CASE Add(p)
  BY <1>17, SMTT(60) DEF Add, StoreFailed, Handled, RacedBy, Goto, files
<1>18. CASE NewPassphrase(p)
  BY <1>18, SMTT(60) DEF NewPassphrase, Goto, files
<1>19. CASE WriteKey(p)
  BY <1>19, SMTT(60) DEF WriteKey, Handled, RacedBy, Goto, files
<1>20. CASE \E k \in Keys : SignKey(p, k)
  BY <1>20, SMTT(60) DEF SignKey, TakeKey, Goto, files
<1>21. CASE Decrypt(p)
  BY <1>21, SMTT(60) DEF Decrypt, Handled, Goto, files
<1> QED
  BY <1>1, <1>2, <1>3, <1>4, <1>5, <1>6, <1>7, <1>8, <1>9, <1>10, <1>11, <1>12, <1>13,
     <1>14, <1>15, <1>16, <1>17, <1>18, <1>19, <1>20, <1>21 DEF Step, AutoUnlockStep

----------------------------------------------------------------------------
(* The theorems *)

AllInv == TypeInv /\ OnceInv /\ HealInv /\ ReportInv /\ UnlockInv

\* All of it holds before any command.
LEMMA InitInv == Init => AllInv
<1> SUFFICES ASSUME Init
             PROVE  AllInv
  OBVIOUS
<1>1. TypeInv
  BY InitType
<1>2. OnceInv
  BY DEF Init, OnceInv, VaultOnceValid, DiskEver, MemEver, HeldEver, Unlocking
<1>3. HealInv
  BY DEF Init, HealInv, MemCurrent, HeldCurrent, HealRejected, NoClaimOnWindows,
         Unlocking
<1>4. ReportInv
  BY DEF Init, ReportInv, ReportsTrue, HandledApart, EnrollPath, EnrollRight
<1>5. UnlockInv
  BY DEF Init, UnlockInv, UnlockedKeyOpens, CopyCurrent, UsePath, Unlocking
<1> QED
  BY <1>1, <1>2, <1>3, <1>4, <1>5 DEF AllInv

\* All of it is kept by every step and by stuttering.
LEMMA NextInv == AllInv /\ [Next]_vars => AllInv'
<1> SUFFICES ASSUME AllInv, [Next]_vars
             PROVE  AllInv'
  OBVIOUS
<1>1. CASE Next
  BY <1>1, StepType, StepOnce, StepHeal, StepReport, StepUnlock DEF AllInv, ReportInv, Next
<1>2. CASE UNCHANGED vars
  <2>1. TypeInv'
    BY <1>2 DEF AllInv, TypeInv, TypeOK, KeyInHand, vars, files
  <2>2. OnceInv'
    BY <1>2 DEF AllInv, OnceInv, VaultOnceValid, DiskEver, MemEver, HeldEver, vars, files
  <2>3. HealInv'
    BY <1>2 DEF AllInv, HealInv, MemCurrent, HeldCurrent, HealRejected,
                NoClaimOnWindows, Unraced, vars, files
  <2>4. ReportInv'
    BY <1>2 DEF AllInv, ReportInv, ReportsTrue, HandledApart, EnrollPath,
                EnrollRight, Unraced, vars, files
  <2>5. UnlockInv'
    BY <1>2 DEF AllInv, UnlockInv, UnlockedKeyOpens, CopyCurrent, UsePath,
                Unraced, vars, files
  <2> QED
    BY <2>1, <2>2, <2>3, <2>4, <2>5 DEF AllInv
<1> QED
  BY <1>1, <1>2

\* All of it holds throughout: the invariant the theorems below draw on.
LEMMA Invariance == Spec => []AllInv
BY InitInv, NextInv, PTL DEF Spec

\* The type invariant of BiometricVault: every variable keeps its type and a
\* process that has ended its command holds no passphrase (Zeroizing).
THEOREM TypeCorrect == Spec => []TypeOK
<1>1. AllInv => TypeOK
  BY DEF AllInv, TypeInv
<1> QED
  BY <1>1, Invariance, PTL

\* For any number of processes racing on any keys, enroll_one and agent add
\* --biometric store nothing that never opened the key.
THEOREM VaultSound == Spec => []VaultOnceValid
<1>1. AllInv => VaultOnceValid
  BY DEF AllInv, OnceInv
<1> QED
  BY <1>1, Invariance, PTL

\* auto_unlock_passphrase forgets only enrolments that do not open the key file,
\* unless another process changed the file or the item since it was parsed.
THEOREM HealSound == Spec => []HealSoundUnlessRaced
<1>1. AllInv => HealSoundUnlessRaced
  BY DEF AllInv, HealInv, MemCurrent, HeldCurrent, HealRejected,
         HealSoundUnlessRaced, Unlocking, Unraced
<1> QED
  BY <1>1, Invariance, PTL

\* A passphrase released by the vault opens what gitway sign, change-passphrase
\* and the transport use it on, unless another process changed the key meanwhile.
THEOREM UnlockSound == Spec => []UnlockedKeyOpens
<1>1. AllInv => UnlockedKeyOpens
  BY DEF AllInv, UnlockInv
<1> QED
  BY <1>1, Invariance, PTL

\* What biometric enroll and biometric forget print about a key is true, unless
\* another process changed it meanwhile.
THEOREM ReportsSound == Spec => []ReportsTrue
<1>1. AllInv => ReportsTrue
  BY DEF AllInv, ReportInv
<1> QED
  BY <1>1, Invariance, PTL

\* The step of EnrolmentKept, named so that it can be reasoned about.
KeptStep ==
    \A k \in Keys :
        platform = "linux" /\ vault[k] # None /\ vault'[k] = None =>
            \E p \in Procs :
                \/ pc[p] = "heal" /\ key[p] = k
                \/ cmd[p] = "forget" /\ k \in todo[p]

\* In a state of AllInv no step loses an enrolment on Linux, but forget and heal.
LEMMA StepKept == AllInv /\ [Next]_vars => KeptStep
<1> SUFFICES ASSUME AllInv, [Next]_vars,
                    NEW k \in Keys, platform = "linux",
                    vault[k] # None, vault'[k] = None
             PROVE  \E p \in Procs : \/ pc[p] = "heal" /\ key[p] = k
                                     \/ cmd[p] = "forget" /\ k \in todo[p]
  BY DEF KeptStep
<1>1. vault' # vault
  OBVIOUS
<1>2. PICK p \in Procs : Step(p)
  BY <1>1 DEF Next, vars
<1>3. vault \in [Keys -> Secret] /\ (pc[p] \in {"store", "add"} => held[p] # None)
  BY DEF AllInv, TypeInv, TypeOK, ReportInv, EnrollRight
<1>4. Heal(p) \/ Store(p) \/ Add(p) \/ \E j \in Keys : Forget(p, j)
  BY <1>1, <1>2 DEF Step, AutoUnlockStep, Start, Finish, Kill, ReadKey, OpenKey,
        FindIdentity, SignKey, ReadForUnlock, Search, Claim, EndScan, Fetch, Verify,
        Ask, Decrypt, NewPassphrase, WriteKey
<1>5. CASE Heal(p)
  BY <1>3, <1>5 DEF Heal
<1>6. CASE Store(p)
  BY <1>3, <1>6 DEF Store
<1>7. CASE Add(p)
  BY <1>3, <1>7 DEF Add
<1>8. CASE \E j \in Keys : Forget(p, j)
  BY <1>3, <1>8 DEF Forget, TakeKey
<1> QED
  BY <1>4, <1>5, <1>6, <1>7, <1>8

\* On Linux a stored passphrase disappears only through a forget or a self-heal:
\* create_item replaces it in one call.
THEOREM EnrolmentSound == Spec => EnrolmentKept
<1>1. AllInv /\ [Next]_vars => [KeptStep]_vars
  BY StepKept
<1>2. Spec => [][KeptStep]_vars
  BY <1>1, Invariance, PTL DEF Spec
<1> QED
  BY <1>2 DEF EnrolmentKept, KeptStep

----------------------------------------------------------------------------
(* What ReaderReleased and AutoUnlockTerminates rest on: the device is held   *)
(* only while its holder scans, and a retrieve never goes back.                *)

\* The fingerprint device is claimed by nobody but a process that is scanning:
\* every way out of verify_fingerprint, the end of the process included, leaves
\* it released.
ReaderHeldWhileScanning == \A p \in Procs : reader = p => pc[p] = "scan"

\* The order of an auto unlock.
Stage == [read |-> 1, search |-> 2, claim |-> 3, scan |-> 4, fetch |-> 5, verify |-> 6,
          heal |-> 7]

\* From each step of an auto unlock, prompt_passphrase goes on to a later one or
\* is through with it; no step of any process sends it back for another scan.
UnlockStep == \A p \in Procs :
    pc[p] \in AutoUnlockStates /\ pc'[p] # pc[p] /\ pc'[p] \in AutoUnlockStates =>
        Stage[pc'[p]] > Stage[pc[p]]

UnlockForward == [][UnlockStep]_vars

\* Both hold of a step of any one process.
LEMMA StepReader ==
    ASSUME TypeInv, ReaderHeldWhileScanning, NEW p \in Procs, Step(p)
    PROVE  ReaderHeldWhileScanning' /\ UnlockStep
<1> USE DEF TypeInv, TypeOK, ReaderHeldWhileScanning, UnlockStep, AutoUnlockStates, Stage,
            PcStates, Goto
<1>1. CASE \/ \E c \in Commands, ks \in SUBSET Keys : Start(p, c, ks)
           \/ \E k \in Keys : ReadKey(p, k) \/ OpenKey(p, k) \/ FindIdentity(p, k)
                              \/ SignKey(p, k) \/ Forget(p, k)
  <2>1. pc[p] \in {"idle", "next"} /\ UNCHANGED reader
    BY <1>1 DEF Start, ReadKey, OpenKey, FindIdentity, SignKey, Forget, TakeKey
  <2>2. \A q \in Procs \ {p} : pc'[q] = pc[q]
    BY <1>1 DEF Start, ReadKey, OpenKey, FindIdentity, SignKey, Forget
  <2> QED
    BY <2>1, <2>2
<1>2. CASE Finish(p) \/ Kill(p)
  BY <1>2, NoneAssumption DEF Finish, Kill, Reset
<1>3. CASE AutoUnlockStep(p)
  <2>1. CASE ReadForUnlock(p) \/ Search(p) \/ Fetch(p)
    BY <1>3, <2>1 DEF ReadForUnlock, Search, Fetch
  <2>2. CASE Claim(p) \/ EndScan(p)
    BY <1>3, <2>2, NoneAssumption DEF Claim, EndScan
  <2>3. CASE Verify(p) \/ Heal(p)
    BY <1>3, <2>3 DEF Verify, Collected, Handled, Heal
  <2> QED
    BY <1>3, <2>1, <2>2, <2>3 DEF AutoUnlockStep
<1>4. CASE \/ \E t \in Passphrases : Ask(p, t)
           \/ Decrypt(p) \/ Store(p) \/ Add(p) \/ NewPassphrase(p) \/ WriteKey(p)
  <2>1. pc[p] \in {"ask", "decrypt", "store", "add", "new", "write"} /\ UNCHANGED reader
    BY <1>4 DEF Ask, Decrypt, Store, Add, NewPassphrase, WriteKey
  <2>2. \A q \in Procs \ {p} : pc'[q] = pc[q]
    BY <1>4 DEF Ask, Collected, Decrypt, Store, StoreFailed, Add, NewPassphrase, WriteKey,
                Handled
  <2> QED
    BY <2>1, <2>2
<1> QED
  BY <1>1, <1>2, <1>3, <1>4 DEF Step

\* verify_fingerprint never leaves the device claimed: whoever has it is still
\* scanning.  The safety half of ReaderReleased.
THEOREM ReaderSound == Spec => []ReaderHeldWhileScanning
<1>1. Init => ReaderHeldWhileScanning
  BY NoneAssumption DEF Init, ReaderHeldWhileScanning
<1>2. AllInv /\ ReaderHeldWhileScanning /\ [Next]_vars => ReaderHeldWhileScanning'
  BY StepReader DEF AllInv, Next, ReaderHeldWhileScanning, vars
<1> QED
  BY <1>1, <1>2, Invariance, PTL DEF Spec

\* An auto unlock takes at most seven steps, whatever the other processes do, and
\* one scan at most: prompt_passphrase goes from a stale secret or a failed scan
\* to the typed prompt and not back to the reader.  The part of
\* AutoUnlockTerminates that needs no fairness.
THEOREM UnlockNeverBack == Spec => UnlockForward
<1>1. AllInv /\ ReaderHeldWhileScanning /\ [Next]_vars => [UnlockStep]_vars
  BY StepReader DEF AllInv, Next
<1> QED
  BY <1>1, Invariance, ReaderSound, PTL DEF Spec, UnlockForward

====
