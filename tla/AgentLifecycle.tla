---- MODULE AgentLifecycle ----
(***************************************************************************)
(* `gitway agent start` and `gitway agent stop`: commands that share socket *)
(* paths and pid files in the file system.  A start (background or -D)      *)
(* launches the daemon that serves a socket; the background parent polls    *)
(* for the socket and then prints the eval lines a shell sources.           *)
(*                                                                          *)
(* The daemon a start launches is named by the start itself: start s        *)
(* spawns, or becomes, daemon s, and s also stands for that daemon's pid,   *)
(* which the system may give to another process once the daemon has ended.  *)
(* Several starts and stops may run at once, each at any point.             *)
(***************************************************************************)
EXTENDS Naturals

CONSTANTS
    Starts,    \* invocations of gitway agent start
    Stops,     \* shells that run gitway agent stop
    Paths,     \* socket paths (-a, or the default path)
    PidFiles,  \* pid-file paths (--pid-file, or the default next to the socket)
    None

ASSUME NoneAssumption == None \notin Starts \cup Stops \cup Paths \cup PidFiles

VARIABLES
    pc,         \* where each start command is
    foreground, \* whether it was given -D
    path,       \* its socket path
    pidPath,    \* its pid-file path
    daemon,     \* the state of the daemon it launched
    sock,       \* which daemon created the socket file at each path, or None
    pidFile,    \* the pid each pid file holds, or None
    target,     \* the pid each stop has read and is about to signal, or None
    contested   \* history: starts that overlapped another start on their path

vars == <<pc, foreground, path, pidPath, daemon, sock, pidFile, target, contested>>
args == <<foreground, path, pidPath>>

\* A daemon that has bound its socket is running once its pid file is written and
\* its signal handlers are installed.
DaemonStates == {"none", "starting", "bound", "running", "stopping", "gone", "crashed"}

TypeOK ==
    /\ pc \in [Starts -> {"idle", "poll", "advertised", "failed"}]
    /\ foreground \in [Starts -> BOOLEAN]
    /\ path \in [Starts -> Paths \cup {None}]
    /\ pidPath \in [Starts -> PidFiles \cup {None}]
    /\ daemon \in [Starts -> DaemonStates]
    /\ sock \in [Paths -> Starts \cup {None}]
    /\ pidFile \in [PidFiles -> Starts \cup {None}]
    /\ target \in [Stops -> Starts \cup {None}]
    /\ contested \in SUBSET Starts
    /\ \A s \in Starts : daemon[s] = "none" <=> path[s] = None

Init ==
    /\ pc = [s \in Starts |-> "idle"]
    /\ foreground = [s \in Starts |-> FALSE]
    /\ path = [s \in Starts |-> None]
    /\ pidPath = [s \in Starts |-> None]
    /\ daemon = [s \in Starts |-> "none"]
    /\ sock = [p \in Paths |-> None]
    /\ pidFile = [f \in PidFiles |-> None]
    /\ target = [t \in Stops |-> None]
    /\ contested = {}

Advance(s, from, to) ==
    /\ pc[s] = from
    /\ pc' = [pc EXCEPT ![s] = to]

DaemonStep(d, from, to) ==
    /\ daemon[d] = from
    /\ daemon' = [daemon EXCEPT ![d] = to]

\* A start on its way to p: its daemon is still to bind, or it polls p itself.
Pending(t, p) == path[t] = p /\ (daemon[t] = "starting" \/ pc[t] = "poll")

\* The starts a new start on p overlaps: those on their way to p, and it too if
\* the daemon of one of them is still to bind.
Overlap(s, p) ==
    {t \in Starts : Pending(t, p)}
        \cup {t \in {s} : \E u \in Starts : path[u] = p /\ daemon[u] = "starting"}

\* The arguments of a start, and its daemon on its way.
Launch(s, fg, p, f) ==
    /\ foreground' = [foreground EXCEPT ![s] = fg]
    /\ path' = [path EXCEPT ![s] = p]
    /\ pidPath' = [pidPath EXCEPT ![s] = f]
    /\ DaemonStep(s, "none", "starting")
    /\ contested' = contested \cup Overlap(s, p)

\* -D: the eval lines are printed, then the daemon loop starts; the path is
\* not looked at.
StartForeground(s, p, f) ==
    /\ Advance(s, "idle", "advertised")
    /\ Launch(s, TRUE, p, f)
    /\ UNCHANGED <<sock, pidFile, target>>

\* As StartBackground, without the look at the path.
StartBackgroundMutant(s, p, f) ==
    /\ Advance(s, "idle", "poll")
    /\ Launch(s, FALSE, p, f)
    /\ UNCHANGED <<sock, pidFile, target>>

\* As StartBackground, its arguments kept though it was refused.
StartBackgroundMutantRefused(s, p, f) ==
    /\ IF sock[p] # None
       THEN /\ Advance(s, "idle", "failed")
            /\ path' = [path EXCEPT ![s] = p]
            /\ UNCHANGED <<foreground, pidPath, daemon, contested>>
       ELSE Advance(s, "idle", "poll") /\ Launch(s, FALSE, p, f)
    /\ UNCHANGED <<sock, pidFile, target>>

\* A path that exists, alive or not, is refused; otherwise the child is
\* spawned with -D and the same path.
StartBackground(s, p, f) ==
    /\ IF sock[p] # None
       THEN Advance(s, "idle", "failed") /\ UNCHANGED <<args, daemon, contested>>
       ELSE Advance(s, "idle", "poll") /\ Launch(s, FALSE, p, f)
    /\ UNCHANGED <<sock, pidFile, target>>

\* daemon::run binds the socket, or dies: on a path that exists the comments
\* allow both outcomes.
Bind(d) ==
    \/ /\ DaemonStep(d, "starting", "bound")
       /\ sock' = [sock EXCEPT ![path[d]] = d]
       /\ UNCHANGED <<pc, args, pidFile, target, contested>>
    \/ /\ DaemonStep(d, "starting", "gone")
       /\ UNCHANGED <<pc, args, sock, pidFile, target, contested>>

\* As Serve, with no pid file for a start in the background.
ServeMutant(d) ==
    /\ DaemonStep(d, "bound", "running")
    /\ pidFile' = IF foreground[d] THEN [pidFile EXCEPT ![pidPath[d]] = d] ELSE pidFile
    /\ UNCHANGED <<pc, args, sock, target, contested>>

\* It writes the pid file and installs its signal handlers.
Serve(d) ==
    /\ DaemonStep(d, "bound", "running")
    /\ pidFile' = [pidFile EXCEPT ![pidPath[d]] = d]
    /\ UNCHANGED <<pc, args, sock, target, contested>>

\* The parent sees a file at its path and prints the path with its child's pid.
Advertise(s) ==
    /\ Advance(s, "poll", "advertised")
    /\ sock[path[s]] # None
    /\ UNCHANGED <<args, daemon, sock, pidFile, target, contested>>

\* As GiveUp, waiting for the child to end in place of a deadline.
GiveUpMutant(s) ==
    /\ Advance(s, "poll", "failed")
    /\ sock[path[s]] = None
    /\ daemon[s] = "gone"
    /\ UNCHANGED <<args, daemon, sock, pidFile, target, contested>>

\* Five seconds have passed with no file at the path; the child is left alone.
GiveUp(s) ==
    /\ Advance(s, "poll", "failed")
    /\ sock[path[s]] = None
    /\ UNCHANGED <<args, daemon, sock, pidFile, target, contested>>

\* agent stop finds the pid: SSH_AGENT_PID, from the eval lines its shell sourced,
\* or without that variable what a pid file holds now.  Whether the pid is still
\* that of an agent is not looked at.
ResolvePid(t, d) ==
    /\ target[t] = None
    /\ pc[d] = "advertised" \/ \E f \in PidFiles : pidFile[f] = d
    /\ target' = [target EXCEPT ![t] = d]
    /\ UNCHANGED <<pc, args, daemon, sock, pidFile, contested>>

\* SIGTERM reaches process d: the daemon's handler, or its default action before
\* daemon::run has installed one, which leaves a bound socket behind.
Signalled(d) ==
    \/ DaemonStep(d, "running", "stopping")
    \/ DaemonStep(d, "bound", "crashed")
    \/ DaemonStep(d, "starting", "gone")
    \/ daemon[d] \in {"stopping", "gone", "crashed"} /\ UNCHANGED daemon

\* As SendTerm, signalling only a process whose socket is there.
SendTermMutant(t) ==
    /\ target[t] # None
    /\ IF sock[path[target[t]]] = target[t] THEN Signalled(target[t]) ELSE UNCHANGED daemon
    /\ target' = [target EXCEPT ![t] = None]
    /\ UNCHANGED <<pc, args, sock, pidFile, contested>>

\* agent stop sends the signal.  The pid of a daemon that has ended is nobody's,
\* and the command fails, or by now an unrelated process's, which is struck.
SendTerm(t) ==
    /\ target[t] # None
    /\ Signalled(target[t])
    /\ target' = [target EXCEPT ![t] = None]
    /\ UNCHANGED <<pc, args, sock, pidFile, contested>>

\* SIGTERM or SIGINT from elsewhere: a service manager, Ctrl-C.
Terminate(d) ==
    /\ daemon[d] \in {"starting", "bound", "running"}
    /\ Signalled(d)
    /\ UNCHANGED <<pc, args, sock, pidFile, target, contested>>

\* The signalled daemon unlinks its socket and pid-file paths and exits.
Shutdown(d) ==
    /\ DaemonStep(d, "stopping", "gone")
    /\ sock' = [sock EXCEPT ![path[d]] = None]
    /\ pidFile' = [pidFile EXCEPT ![pidPath[d]] = None]
    /\ UNCHANGED <<pc, args, target, contested>>

\* Killed outright: socket and pid file stay behind.
Crash(d) ==
    /\ \E from \in {"bound", "running", "stopping"} : DaemonStep(d, from, "crashed")
    /\ UNCHANGED <<pc, args, sock, pidFile, target, contested>>

----------------------------------------------------------------------------

StartStep ==
    \E s \in Starts :
        \/ \E p \in Paths, f \in PidFiles :
            StartForeground(s, p, f) \/ StartBackground(s, p, f)
        \/ Advertise(s) \/ GiveUp(s)
        \/ Bind(s) \/ Serve(s) \/ Terminate(s) \/ Shutdown(s) \/ Crash(s)
        \/ \E t \in Stops : ResolvePid(t, s)

Next == StartStep \/ \E t \in Stops : SendTerm(t)

\* The parent's poll loop, and run_stop from the pid to the signal, run on their
\* own; nothing is assumed of the daemons.
Fairness ==
    /\ \A s \in Starts : WF_vars(Advertise(s) \/ GiveUp(s))
    /\ \A t \in Stops : WF_vars(SendTerm(t))

Spec == Init /\ [][Next]_vars /\ Fairness

----------------------------------------------------------------------------
(* Properties *)

\* The socket file behind the eval lines of a background start was bound by the
\* child whose pid they print, never by another daemon, unless another start
\* overlapped it on the same path.  That the child still runs is not looked at: one
\* that binds and dies is advertised.
AdvertisedSocketIsTheChilds ==
    [][\A s \in Starts :
        pc[s] = "poll" /\ pc'[s] = "advertised" /\ s \notin contested
            => sock[path[s]] = s]_vars

\* "the child would otherwise clobber it": a background start takes a path over
\* from a running daemon only if the two were started at the same time.
NoTakeover ==
    [][\A p \in Paths :
        LET d == sock[p]
            e == sock'[p]
        IN  d # None /\ e # None /\ e # d /\ daemon[d] \in {"bound", "running"} =>
                foreground[e] \/ e \in contested]_vars

\* Stopping an agent leaves every other running agent its socket, unless the
\* path was contested or a -D start was pointed at it.
NoForeignUnlink ==
    [][\A p \in Paths :
        LET d == sock[p]
        IN  d # None /\ sock'[p] = None /\ daemon'[d] \in {"bound", "running"} =>
                \E s \in Starts : path[s] = p /\ (foreground[s] \/ s \in contested)]_vars

\* A running daemon can be stopped by command even if its start gave up on it and
\* nobody was told its pid: its pid file names it, unless another daemon that was
\* given the same pid file has come up or gone.
Stoppable ==
    \A d \in Starts :
        daemon[d] = "running" /\ pc[d] # "poll" =>
            \/ pc[d] = "advertised"
            \/ pidFile[pidPath[d]] = d
            \/ \E t \in Starts \ {d} : pidPath[t] = pidPath[d] /\ daemon[t] \notin {"starting", "bound"}

\* Every background start returns to the shell, whatever becomes of its child: the
\* poll has a deadline.
StartEnds == []<>(\A s \in Starts : pc[s] # "poll")

\* A stop that has found a daemon's pid ends it, wherever the daemon is by then on
\* its way up or down: one that has yet to bind or to install its handlers does not
\* come up after the stop has reported success.
StopStops ==
    \A t \in Stops, d \in Starts :
        target[t] = d ~> daemon[d] \in {"stopping", "gone", "crashed"}

\* What the eval lines promise a shell, and the code does not ensure: the pid
\* printed is that of the daemon behind the socket printed.
AdvertisedPidServes ==
    [][\A s \in Starts :
        pc[s] = "poll" /\ pc'[s] = "advertised" => sock[path[s]] = s]_vars

====
