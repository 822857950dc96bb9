---- MODULE VaultPromise ----
(***************************************************************************)
(* What the biometric vault promises, with no process steps in sight: a      *)
(* stored passphrase is handed to a command only through a scan that the     *)
(* user passed for that command, on Linux one scan at a time; what is        *)
(* enrolled and what is handed out is a passphrase the key file has had; and *)
(* only a re-encryption changes a key file.  BiometricVault implements it    *)
(* (BiometricVault!PromiseSpec).                                             *)
(***************************************************************************)

CONSTANTS Procs, Keys, Passphrases, None

VARIABLES
    platform,  \* the back end
    disk,      \* the passphrase each key file is encrypted under, or None
    ever,      \* the passphrases each key file has had
    vault,     \* the passphrase enrolled for each key, or None
    stage,     \* how far the release to each process has come
    secret     \* the passphrase a process was just handed, or None

pvars == <<platform, disk, ever, vault, stage, secret>>

Init ==
    /\ platform \in {"linux", "macos", "windows"}
    /\ disk \in [Keys -> Passphrases \cup {None}]
    /\ ever = [k \in Keys |-> {disk[k]}]
    /\ vault = [k \in Keys |-> None]
    /\ stage = [p \in Procs |-> "none"]
    /\ secret = [p \in Procs |-> None]

MoveTo(p, from, to, s) ==
    /\ stage[p] = from
    /\ stage' = [stage EXCEPT ![p] = to]
    /\ secret' = [secret EXCEPT ![p] = s]
    /\ UNCHANGED <<platform, disk, ever, vault>>

\* A scan begins; fprintd serves one client at a time.
BeginScan(p) ==
    /\ platform = "linux" => \A q \in Procs : stage[q] # "scanning"
    /\ MoveTo(p, "none", "scanning", None)

\* The finger matched, or the system's dialog was confirmed.
Approve(p) == MoveTo(p, "scanning", "approved", None)

\* The passphrase of a key is handed out.
Release(p, k) == \E s \in ever[k] \ {None} : MoveTo(p, "approved", "released", s)

\* The release is over: used, refused, failed, or its process gone.
End(p) == \E from \in {"scanning", "approved", "released"} : MoveTo(p, from, "none", None)

Enrol(k) ==
    /\ \E s \in ever[k] \ {None} : vault' = [vault EXCEPT ![k] = s]
    /\ UNCHANGED <<platform, disk, ever, stage, secret>>

Forget(k) ==
    /\ vault' = [vault EXCEPT ![k] = None]
    /\ UNCHANGED <<platform, disk, ever, stage, secret>>

Reencrypt(k) ==
    /\ \E s \in Passphrases \cup {None} :
          /\ disk' = [disk EXCEPT ![k] = s]
          /\ ever' = [ever EXCEPT ![k] = @ \cup {s}]
    /\ UNCHANGED <<platform, vault, stage, secret>>

\* A step of one process's release, or of one key.
ReleaseStep == \E p \in Procs :
    BeginScan(p) \/ Approve(p) \/ End(p) \/ \E k \in Keys : Release(p, k)

KeyStep == \E k \in Keys : Enrol(k) \/ Forget(k) \/ Reencrypt(k)

Next ==
    \/ stage' # stage /\ ReleaseStep
    \/ stage' = stage /\ KeyStep

Spec == Init /\ [][Next]_pvars

====
