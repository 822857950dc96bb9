---- MODULE KnownHosts ----
(***************************************************************************)
(* gitway hosts add and gitway hosts revoke, run by processes that share    *)
(* one known_hosts file and take no lock on it.                             *)
(*                                                                          *)
(* The file is the set of its lines: which line comes first matters only to *)
(* host_key_trust's first fingerprint, taken here to be any of them.        *)
(***************************************************************************)
EXTENDS Naturals, FiniteSets

CONSTANTS
    Procs,        \* gitway processes
    Hosts,        \* host names, none of which is AnyHost
    Prints,       \* host-key fingerprints, told from host names by their prefix
    AnyHost,      \* the host pattern "*"
    Embedded,     \* the <<host, fingerprint>> pairs built into the program
    MaxInitial,   \* bound: lines of the file at the start
    MaxCommands   \* bound: commands run in a behaviour

ASSUME AnyAssumption == AnyHost \notin Hosts
ASSUME InputsAssumption == Hosts # {} /\ Prints # {} /\ Hosts \cap Prints = {}
ASSUME EmbeddedAssumption == Embedded \subseteq Hosts \X Prints
ASSUME BoundsAssumption == MaxInitial \in Nat /\ MaxCommands \in Nat

VARIABLES
    file,     \* the lines of the known_hosts file
    pc,       \* where each process is
    input,    \* what it was given: a host, or a fingerprint (revoke only)
    host,     \* the host pattern it will write
    print,    \* the fingerprint it will write
    format,   \* add: "hash", "noHash" or "auto", then what was decided
    copy,     \* revoke: the lines it read, to be written back
    exit,     \* its exit code, or Running
    raced,    \* history: whether the file changed since the process read it
    orphan,   \* add: whether the file it has open was replaced by a rename
    clobbered, \* history: whether a rename has put back a file that had changed
    started   \* number of commands started

vars == <<file, pc, input, host, print, format, copy, exit, raced,
          orphan, clobbered, started>>

Pins  == [kind : {"pin"}, host : Hosts, print : Prints, hashed : BOOLEAN]
Marks == [kind : {"revoked"}, host : Hosts \cup {AnyHost}, print : Prints]
Lines == Pins \cup Marks

Running == 256

\* No line of the code: a placeholder for what a process does not have.
NoHost  == CHOOSE h \in Hosts : TRUE
NoPrint == CHOOSE f \in Prints : TRUE

PcStates == {"idle", "probe", "detect", "confirm", "append", "write",
             "classify", "read", "rename", "done"}

TypeOK ==
    /\ file \in SUBSET Lines
    /\ pc \in [Procs -> PcStates]
    /\ input \in [Procs -> Hosts \cup Prints]
    /\ host \in [Procs -> Hosts \cup {AnyHost}]
    /\ print \in [Procs -> Prints]
    /\ format \in [Procs -> {"auto", "hash", "noHash", "hashed", "plain"}]
    /\ copy \in [Procs -> SUBSET Lines]
    /\ exit \in [Procs -> {0, 1, 2, 73, 78, Running}]
    /\ raced \in [Procs -> BOOLEAN]
    /\ orphan \in [Procs -> BOOLEAN]
    /\ clobbered \in BOOLEAN
    /\ started \in 0..MaxCommands
    /\ \A p \in Procs : pc[p] \in {"append", "write"} => format[p] \in {"hashed", "plain"}

Init ==
    /\ file \in {s \in SUBSET Pins : Cardinality(s) <= MaxInitial}
    /\ pc = [p \in Procs |-> "idle"]
    /\ input = [p \in Procs |-> NoHost]
    /\ host = [p \in Procs |-> NoHost]
    /\ print = [p \in Procs |-> NoPrint]
    /\ format = [p \in Procs |-> "auto"]
    /\ copy = [p \in Procs |-> {}]
    /\ exit = [p \in Procs |-> Running]
    /\ raced = [p \in Procs |-> FALSE]
    /\ orphan = [p \in Procs |-> FALSE]
    /\ clobbered = FALSE
    /\ started = 0

----------------------------------------------------------------------------
(* What the file means to a connection *)

\* host_key_trust: the fingerprints pinned for a host, built in or in the file.
Fingerprints(h, lines) ==
    {l.print : l \in {x \in lines : x.kind = "pin" /\ x.host = h}}
        \cup {f \in Prints : <<h, f>> \in Embedded}

\* A host key is trusted when it is pinned and no @revoked line covers it.
Trusted(h, f) ==
    /\ f \in Fingerprints(h, file)
    /\ ~\E l \in file : l.kind = "revoked" /\ l.print = f /\ l.host \in {h, AnyHost}

----------------------------------------------------------------------------
(* Helpers *)

Goto(p, s) == pc' = [pc EXCEPT ![p] = s]

End(p, code) ==
    /\ Goto(p, "done")
    /\ exit' = [exit EXCEPT ![p] = code]

\* p wrote the file: every other process's reading of it is out of date.
Write(p, lines) ==
    /\ file' = lines
    /\ raced' = [q \in Procs |-> raced[q] \/ (q # p /\ lines # file)]

\* The lines an add and a revoke write, and the one of the two that p writes: the
\* format of an add that has come so far is decided.
Pin(p)  == [kind |-> "pin", host |-> host[p], print |-> print[p],
            hashed |-> format[p] = "hashed"]
Mark(p) == [kind |-> "revoked", host |-> host[p], print |-> print[p]]
Line(p) == IF format[p] = "auto" THEN Mark(p) ELSE Pin(p)

Start(p, at, x, fmt) ==
    /\ pc[p] \in {"idle", "done"}
    /\ started < MaxCommands
    /\ started' = started + 1
    /\ input' = [input EXCEPT ![p] = x]
    /\ format' = [format EXCEPT ![p] = fmt]
    /\ exit' = [exit EXCEPT ![p] = Running]
    /\ copy' = [copy EXCEPT ![p] = {}]
    /\ raced' = [raced EXCEPT ![p] = FALSE]
    /\ Goto(p, at)
    /\ UNCHANGED <<file, host, print, orphan, clobbered>>

\* The process is interrupted; its temporary file is not the known_hosts file.
Kill(p) ==
    /\ pc[p] \notin {"idle", "done"}
    /\ End(p, 1)
    /\ UNCHANGED <<file, input, host, print, format, copy, raced, orphan, clobbered, started>>

----------------------------------------------------------------------------
(* hosts add *)

StartAdd(p) == \E h \in Hosts, fmt \in {"auto", "hash", "noHash"} : Start(p, "probe", h, fmt)

\* A connection that checks no host key and sends no credential shows the
\* server's fingerprint, then closes.
Probe(p) ==
    /\ pc[p] = "probe"
    /\ \/ /\ \E f \in Prints : print' = [print EXCEPT ![p] = f]
          /\ host' = [host EXCEPT ![p] = input[p]]
          /\ Goto(p, "detect")
          /\ UNCHANGED exit
       \/ End(p, 1) /\ UNCHANGED <<host, print>>
    /\ UNCHANGED <<file, input, format, copy, raced, orphan, clobbered, started>>

\* As DetectHashMode, with the flags passed through.
DetectHashModeMutant(p) ==
    /\ pc[p] = "detect"
    /\ Goto(p, "confirm")
    /\ UNCHANGED <<file, input, host, print, copy, format, exit, raced, orphan, clobbered, started>>

\* --hash and --no-hash decide, else the lines already in the file, which must
\* then be readable.
DetectHashMode(p) ==
    /\ pc[p] = "detect"
    /\ \/ /\ format' = [format EXCEPT ![p] =
                          IF \/ @ = "hash"
                             \/ @ = "auto" /\ \E l \in file : l.kind = "pin" /\ l.hashed
                          THEN "hashed" ELSE "plain"]
          /\ Goto(p, "confirm")
          /\ UNCHANGED exit
       \/ format[p] = "auto" /\ End(p, 1) /\ UNCHANGED format
    /\ UNCHANGED <<file, input, host, print, copy, raced, orphan, clobbered, started>>

\* --yes, an answer, or no terminal to ask on.
Confirm(p) ==
    /\ pc[p] = "confirm"
    /\ \/ Goto(p, "append") /\ UNCHANGED exit
       \/ End(p, 73)
       \/ End(p, 78)
    /\ UNCHANGED <<file, input, host, print, format, copy, raced, orphan, clobbered, started>>

\* append_known_host, first half: the file is opened for appending, or created.
Open(p) ==
    /\ pc[p] = "append"
    /\ \/ Goto(p, "write") /\ UNCHANGED exit
       \/ End(p, 1)
    /\ orphan' = [orphan EXCEPT ![p] = FALSE]
    /\ UNCHANGED <<file, input, host, print, format, copy, raced, clobbered, started>>

\* Second half: the line is written, and the command reports, even if the file it
\* has open is no longer the known_hosts file.
Append(p) ==
    /\ pc[p] = "write"
    /\ \/ /\ IF orphan[p]
             THEN UNCHANGED <<file, raced>>
             ELSE Write(p, file \cup {Pin(p)})
          /\ End(p, 0)
       \/ End(p, 1) /\ UNCHANGED <<file, raced>>
    /\ UNCHANGED <<input, host, print, format, copy, orphan, clobbered, started>>

----------------------------------------------------------------------------
(* hosts revoke *)

StartRevoke(p) == \E x \in Hosts \cup Prints : Start(p, "classify", x, "auto")

\* As Classify, with the pattern "*" kept for hosts instead of fingerprints.
ClassifyMutant(p) ==
    /\ pc[p] = "classify"
    /\ raced' = [raced EXCEPT ![p] = FALSE]
    /\ \/ /\ input[p] \in Prints
          /\ host' = [host EXCEPT ![p] = NoHost]
          /\ print' = [print EXCEPT ![p] = input[p]]
          /\ Goto(p, "read")
          /\ UNCHANGED exit
       \/ /\ input[p] \in Hosts
          /\ LET found == Fingerprints(input[p], file) IN
             /\ \E f \in found : print' = [print EXCEPT ![p] = f]
             /\ host' = [host EXCEPT ![p] = AnyHost]
             /\ Goto(p, "read")
          /\ UNCHANGED exit
    /\ UNCHANGED <<file, input, format, copy, orphan, clobbered, started>>

\* A fingerprint is revoked for every host.  A host's fingerprints are looked
\* up; none is an error, and so is a file that cannot be read; of several the
\* first is revoked.
Classify(p) ==
    /\ pc[p] = "classify"
    /\ raced' = [raced EXCEPT ![p] = FALSE]
    /\ \/ /\ input[p] \in Prints
          /\ host' = [host EXCEPT ![p] = AnyHost]
          /\ print' = [print EXCEPT ![p] = input[p]]
          /\ Goto(p, "read")
          /\ UNCHANGED exit
       \/ /\ input[p] \in Hosts
          /\ \E f \in Fingerprints(input[p], file) : print' = [print EXCEPT ![p] = f]
          /\ host' = [host EXCEPT ![p] = input[p]]
          /\ Goto(p, "read")
          /\ UNCHANGED exit
       \/ /\ input[p] \in Hosts
          /\ \/ Fingerprints(input[p], file) = {} /\ End(p, 2)
             \/ End(p, 1)
          /\ UNCHANGED <<host, print>>
    /\ UNCHANGED <<file, input, format, copy, orphan, clobbered, started>>

\* prepend_revoked, first half: the file is read into a temporary one.
ReadFile(p) ==
    /\ pc[p] = "read"
    /\ copy' = [copy EXCEPT ![p] = file]
    /\ raced' = [raced EXCEPT ![p] = FALSE]
    /\ Goto(p, "rename")
    /\ UNCHANGED <<file, input, host, print, format, exit, orphan, clobbered, started>>

\* As Rename, with the temporary file holding the new line alone.
RenameMutant(p) ==
    /\ pc[p] = "rename"
    /\ Write(p, {Mark(p)})
    /\ End(p, 0)
    /\ UNCHANGED <<input, host, print, format, copy, orphan, clobbered, started>>

\* Second half: the temporary file, with the @revoked line, replaces the file, and
\* whoever has that open is left with one that nobody will read.
Rename(p) ==
    /\ pc[p] = "rename"
    /\ \/ /\ Write(p, copy[p] \cup {Mark(p)})
          /\ clobbered' = (clobbered \/ raced[p])
          /\ orphan' = [q \in Procs |-> orphan[q] \/ pc[q] = "write"]
          /\ End(p, 0)
       \/ End(p, 1) /\ UNCHANGED <<file, raced, orphan, clobbered>>
    /\ UNCHANGED <<input, host, print, format, copy, started>>

----------------------------------------------------------------------------

Step(p) ==
    \/ StartAdd(p) \/ Probe(p) \/ DetectHashMode(p) \/ Confirm(p) \/ Open(p) \/ Append(p)
    \/ StartRevoke(p) \/ Classify(p) \/ ReadFile(p) \/ Rename(p)
    \/ Kill(p)

Next == \E p \in Procs : Step(p)

Spec == Init /\ [][Next]_vars

----------------------------------------------------------------------------
(* Properties *)

\* No line is ever lost, be it a pin or a revocation, but to a revoke that
\* writes back a file another command has changed since it read it; and a command
\* that reports success has its line in the file, but for an add that writes to a
\* file which a revoke replaced after it was opened.
LinesKept ==
    [][/\ \/ file \subseteq file'
          \/ \E p \in Procs : pc[p] = "rename" /\ pc'[p] = "done" /\ raced[p]
       /\ \A p \in Procs :
             exit[p] # 0 /\ exit'[p] = 0 /\ ~(pc[p] = "write" /\ orphan[p]) =>
                Line(p) \in file']_vars

\* When a revoke has reported success the fingerprint it wrote is trusted no more,
\* for the host it was given or, given as a fingerprint, for every host,
\* whatever is added later, as long as no revoke has put back a file that another
\* command had changed.  (The format of an add that ended well is decided.)
RevocationHolds ==
    \A p \in Procs :
        exit[p] = 0 /\ format[p] = "auto" /\ ~clobbered =>
            \A h \in IF input[p] \in Prints THEN Hosts ELSE {input[p]} :
                ~Trusted(h, print[p])

====
