---- MODULE AgentLifecycleProofs ----
(***************************************************************************)
(* Proofs about AgentLifecycle, for any number of starts, stops, socket     *)
(* paths and pid files: its types, that a running daemon can be stopped,    *)
(* and what the start and stop commands may do to one another.              *)
(***************************************************************************)
EXTENDS AgentLifecycle, TLAPS

\* A daemon that has bound its socket and not yet cleaned up after itself, and one
\* that has done so and is up.
Bound == {"bound", "running", "stopping", "crashed"}
Up == {"bound", "running", "stopping"}

\* A start has arguments once its daemon is on its way, and only a background
\* start polls.
Launched(s) ==
    /\ daemon[s] = "none" => pidPath[s] = None
    /\ daemon[s] # "none" => pidPath[s] \in PidFiles
    /\ pc[s] = "poll" => daemon[s] # "none" /\ ~foreground[s]

TypeInv == TypeOK /\ \A s \in Starts : Launched(s)

\* A socket or pid file was made by a daemon that was given its path and has not
\* cleaned up.
FilesInv ==
    /\ \A p \in Paths : sock[p] # None => path[sock[p]] = p /\ daemon[sock[p]] \in Bound
    /\ \A f \in PidFiles :
          pidFile[f] # None => pidPath[pidFile[f]] = f /\ daemon[pidFile[f]] \in Bound

\* The pid file of a running daemon is lost only to another daemon that was given
\* the same one.
PidKept(d) ==
    daemon[d] = "running" =>
        \/ pidFile[pidPath[d]] = d
        \/ \E t \in Starts \ {d} : pidPath[t] = pidPath[d] /\ daemon[t] \notin {"starting", "bound"}

\* A background start nobody overlapped has its path to itself.
Alone(s) ==
    ~foreground[s] /\ s \notin contested /\ (daemon[s] = "starting" \/ pc[s] = "poll") =>
        /\ sock[path[s]] \in {None, s}
        /\ \A t \in Starts \ {s} : path[t] = path[s] => daemon[t] # "starting"

\* Some start came to p without looking, or at the same time as another.
Disputed(p) == \E s \in Starts : path[s] = p /\ (foreground[s] \/ s \in contested)

\* A daemon that is up owns the socket at its path, unless the path is disputed.
Owner(d) ==
    daemon[d] \in Up => sock[path[d]] = d \/ Disputed(path[d])

ShareInv == \A s \in Starts : PidKept(s) /\ Alone(s) /\ Owner(s)

Inv == TypeInv /\ FilesInv /\ ShareInv

----------------------------------------------------------------------------
(* One lemma for each kind of step *)

\* A start that launches its daemon: in the background it has looked at the path.
LEMMA LaunchInv ==
    ASSUME Inv, NEW s \in Starts, NEW p \in Paths, NEW f \in PidFiles, NEW fg \in BOOLEAN,
           NEW to \in {"poll", "advertised"},
           Advance(s, "idle", to), Launch(s, fg, p, f),
           to = "poll" => ~fg, ~fg => sock[p] = None,
           UNCHANGED <<sock, pidFile, target>>
    PROVE  Inv'
<1>0. /\ pc[s] = "idle" /\ pc' = [pc EXCEPT ![s] = to]
      /\ daemon[s] = "none" /\ daemon' = [daemon EXCEPT ![s] = "starting"]
      /\ foreground' = [foreground EXCEPT ![s] = fg]
      /\ path' = [path EXCEPT ![s] = p]
      /\ pidPath' = [pidPath EXCEPT ![s] = f]
      /\ contested' = contested \cup Overlap(s, p)
      /\ UNCHANGED <<sock, pidFile, target>>
  BY DEF Advance, Launch, DaemonStep
<1>1. /\ path[s] = None /\ pidPath[s] = None
      /\ p # None /\ f # None /\ s # None
  BY <1>0, NoneAssumption DEF Inv, TypeInv, TypeOK, Launched
<1>2. TypeInv'
  <2>1. contested' \in SUBSET Starts
    BY <1>0 DEF Inv, TypeInv, TypeOK, Overlap
  <2>2. foreground' \in [Starts -> BOOLEAN]
    BY <1>0, Zenon DEF Inv, TypeInv, TypeOK
  <2>3. TypeOK'
    BY <1>0, <1>1, <2>1, <2>2 DEF Inv, TypeInv, TypeOK, DaemonStates
  <2>4. \A q \in Starts : Launched(q)'
    BY <1>0, <1>1 DEF Inv, TypeInv, TypeOK, Launched
  <2> QED
    BY <2>3, <2>4 DEF TypeInv
<1>3. FilesInv'
  BY <1>0, <1>1 DEF Inv, TypeInv, TypeOK, FilesInv, Bound
<1>4. ASSUME NEW d \in Starts
      PROVE  PidKept(d)' /\ Owner(d)'
  <2>1. PidKept(d)'
    BY <1>0, <1>1, NoneAssumption DEF Inv, ShareInv, PidKept, TypeInv, TypeOK, Launched
  <2>2. \A x \in Paths : Disputed(x) => Disputed(x)'
    BY <1>0, <1>1, NoneAssumption DEF Disputed, Inv, TypeInv, TypeOK
  <2>3. Owner(d)'
    BY <1>0, <1>1, <2>2 DEF Inv, ShareInv, Owner, Up, TypeInv, TypeOK
  <2> QED
    BY <2>1, <2>3
<1>5. ASSUME NEW d \in Starts
      PROVE  Alone(d)'
  <2> SUFFICES ASSUME ~foreground'[d], d \notin contested',
                      daemon'[d] = "starting" \/ pc'[d] = "poll"
               PROVE  /\ sock'[path'[d]] \in {None, d}
                      /\ \A t \in Starts \ {d} : path'[t] = path'[d] => daemon'[t] # "starting"
    BY DEF Alone
  <2>1. CASE d = s
    <3>1. sock[p] = None
      BY <1>0, <2>1 DEF Inv, TypeInv, TypeOK
    <3>2. \A u \in Starts : path[u] = p => daemon[u] # "starting"
      BY <1>0, <2>1 DEF Overlap
    <3> QED
      BY <1>0, <2>1, <3>1, <3>2 DEF Inv, TypeInv, TypeOK
  <2>2. CASE d # s
    <3>1. /\ ~foreground[d] /\ d \notin contested
          /\ daemon[d] = "starting" \/ pc[d] = "poll"
      BY <1>0, <2>2 DEF Inv, TypeInv, TypeOK
    <3>2. path[d] # p
      BY <1>0, <2>2, <3>1 DEF Overlap, Pending
    <3> QED
      BY <1>0, <2>2, <3>1, <3>2 DEF Inv, ShareInv, Alone, TypeInv, TypeOK
  <2> QED
    BY <2>1, <2>2
<1> QED
  BY <1>2, <1>3, <1>4, <1>5 DEF Inv, ShareInv

\* A start that is refused, advertises or gives up: nothing but its pc changes.
LEMMA ReportInv ==
    ASSUME Inv, NEW s \in Starts, NEW to \in {"advertised", "failed"},
           pc' = [pc EXCEPT ![s] = to],
           UNCHANGED <<args, daemon, sock, pidFile, target, contested>>
    PROVE  Inv'
<1>0. /\ \A q \in Starts : pc'[q] = "poll" => pc[q] = "poll"
      /\ UNCHANGED <<foreground, path, pidPath, daemon, sock, pidFile, target, contested>>
  BY DEF args, Inv, TypeInv, TypeOK
<1>1. TypeInv'
  BY <1>0 DEF Inv, TypeInv, TypeOK, Launched
<1>2. FilesInv'
  BY <1>0 DEF Inv, FilesInv
<1>3. ShareInv'
  BY <1>0 DEF Inv, ShareInv, PidKept, Alone, Owner, Disputed
<1> QED
  BY <1>1, <1>2, <1>3 DEF Inv

\* A daemon that is signalled, killed or dies unbound: it goes its way and its
\* files stay.
LEMMA MoveInv ==
    ASSUME Inv, NEW d \in Starts,
           \/ DaemonStep(d, "running", "stopping") \/ DaemonStep(d, "starting", "gone")
           \/ \E from \in Up : DaemonStep(d, from, "crashed")
           \/ UNCHANGED daemon,
           UNCHANGED target \/ \E t \in Stops : target' = [target EXCEPT ![t] = None],
           UNCHANGED <<pc, args, sock, pidFile, contested>>
    PROVE  Inv'
<1>0. /\ UNCHANGED <<pc, foreground, path, pidPath, sock, pidFile, contested>>
      /\ \/ daemon[d] = "running" /\ daemon' = [daemon EXCEPT ![d] = "stopping"]
         \/ daemon[d] = "starting" /\ daemon' = [daemon EXCEPT ![d] = "gone"]
         \/ daemon[d] \in Up /\ daemon' = [daemon EXCEPT ![d] = "crashed"]
         \/ daemon' = daemon
  BY DEF args, DaemonStep
<1>1. target' \in [Stops -> Starts \cup {None}]
  BY DEF Inv, TypeInv, TypeOK
<1>2. TypeInv'
  <2>1. daemon' \in [Starts -> DaemonStates]
    BY <1>0 DEF Inv, TypeInv, TypeOK, DaemonStates
  <2>2. \A q \in Starts : daemon'[q] = "none" <=> daemon[q] = "none"
    BY <1>0 DEF Inv, TypeInv, TypeOK, Up
  <2> QED
    BY <1>0, <1>1, <2>1, <2>2 DEF Inv, TypeInv, TypeOK, Launched
<1>3. FilesInv'
  <2>1. \A q \in Starts : daemon[q] \in Bound => daemon'[q] \in Bound
    BY <1>0 DEF Inv, TypeInv, TypeOK, Bound
  <2> QED
    BY <1>0, <2>1 DEF Inv, TypeInv, TypeOK, FilesInv
<1>5. ShareInv'
  <2>1. \A q \in Starts : /\ daemon'[q] = "starting" => daemon[q] = "starting"
                          /\ daemon'[q] = "running" => daemon[q] = "running"
                          /\ daemon'[q] = "bound" => daemon[q] = "bound"
                          /\ daemon'[q] = "stopping" => daemon[q] \in {"running", "stopping"}
    BY <1>0 DEF Inv, TypeInv, TypeOK
  <2>2. \A q \in Starts : PidKept(q)'
    BY <1>0, <2>1 DEF Inv, ShareInv, PidKept
  <2>3. \A q \in Starts : Alone(q)'
    BY <1>0, <2>1 DEF Inv, ShareInv, Alone
  <2>4. \A q \in Starts : Owner(q)'
    BY <1>0, <2>1 DEF Inv, ShareInv, Owner, Up, Disputed
  <2> QED
    BY <2>2, <2>3, <2>4 DEF ShareInv
<1> QED
  BY <1>2, <1>3, <1>5 DEF Inv

\* A daemon that writes its pid file takes it from whoever had it.
LEMMA ServeInv ==
    ASSUME Inv, NEW d \in Starts, Serve(d)
    PROVE  Inv'
<1>0. /\ daemon[d] = "bound" /\ daemon' = [daemon EXCEPT ![d] = "running"]
      /\ pidFile' = [pidFile EXCEPT ![pidPath[d]] = d]
      /\ UNCHANGED <<pc, foreground, path, pidPath, sock, target, contested>>
  BY DEF Serve, args, DaemonStep
<1>1. pidPath[d] \in PidFiles /\ d # None
  BY <1>0, NoneAssumption DEF Inv, TypeInv, TypeOK, Launched
<1>2. TypeOK'
  BY <1>0, <1>1 DEF Inv, TypeInv, TypeOK, DaemonStates
<1>3. \A q \in Starts : Launched(q)'
  BY <1>0 DEF Inv, TypeInv, TypeOK, Launched
<1>4. FilesInv'
  BY <1>0, <1>1 DEF Inv, TypeInv, TypeOK, FilesInv, Bound
<1>5. ASSUME NEW q \in Starts
      PROVE  PidKept(q)' /\ Alone(q)'
  BY <1>0, <1>1 DEF Inv, ShareInv, TypeInv, TypeOK, PidKept, Alone
<1>6. \A q \in Starts : Owner(q)'
  BY <1>0 DEF Inv, ShareInv, TypeInv, TypeOK, Owner, Up, Disputed
<1> QED
  BY <1>2, <1>3, <1>4, <1>5, <1>6 DEF Inv, TypeInv, ShareInv

\* A daemon that binds takes the socket path.
LEMMA BoundInv ==
    ASSUME Inv, NEW d \in Starts,
           DaemonStep(d, "starting", "bound"),
           sock' = [sock EXCEPT ![path[d]] = d],
           UNCHANGED <<pc, args, pidFile, target, contested>>
    PROVE  Inv'
<1>0. /\ daemon[d] = "starting" /\ daemon' = [daemon EXCEPT ![d] = "bound"]
      /\ UNCHANGED <<pc, foreground, path, pidPath, pidFile, target, contested>>
  BY DEF args, DaemonStep
<1>1. path[d] \in Paths /\ pidPath[d] \in PidFiles /\ d # None
  BY <1>0, NoneAssumption DEF Inv, TypeInv, TypeOK, Launched
<1>2. TypeInv'
  <2>1. TypeOK'
    BY <1>0, <1>1 DEF Inv, TypeInv, TypeOK, DaemonStates
  <2>2. \A q \in Starts : Launched(q)'
    BY <1>0 DEF Inv, TypeInv, TypeOK, Launched
  <2> QED
    BY <2>1, <2>2 DEF TypeInv
<1>3. FilesInv'
  BY <1>0, <1>1 DEF Inv, TypeInv, TypeOK, FilesInv, Bound
<1>5. ASSUME NEW q \in Starts
      PROVE  PidKept(q)'
  BY <1>0, <1>1 DEF Inv, ShareInv, TypeInv, TypeOK, PidKept
<1>6. ASSUME NEW q \in Starts
      PROVE  Alone(q)'
  <2>1. CASE q = d
    BY <1>0, <1>1, <2>1 DEF Inv, ShareInv, TypeInv, TypeOK, Alone
  <2>2. CASE q # d /\ path[q] # path[d]
    BY <1>0, <1>1, <2>2 DEF Inv, ShareInv, TypeInv, TypeOK, Alone
  <2>3. CASE q # d /\ path[q] = path[d]
    BY <1>0, <1>1, <2>3 DEF Inv, ShareInv, TypeInv, TypeOK, Alone
  <2> QED
    BY <2>1, <2>2, <2>3
<1>7. ASSUME NEW q \in Starts
      PROVE  Owner(q)'
  <2>1. \A x : Disputed(x) => Disputed(x)'
    BY <1>0 DEF Disputed
  <2>2. CASE q = d \/ path[q] # path[d]
    BY <1>0, <1>1, <2>1, <2>2 DEF Inv, ShareInv, TypeInv, TypeOK, Owner, Up
  <2>3. CASE q # d /\ path[q] = path[d] /\ daemon[q] \in Up
    <3>1. foreground[d] \/ d \in contested => Disputed(path[q])
      BY <2>3 DEF Disputed
    <3>2. ~foreground[d] /\ d \notin contested => sock[path[d]] \in {None, d}
      BY <1>0 DEF Inv, ShareInv, Alone
    <3>3. sock[path[q]] = q \/ Disputed(path[q])
      BY <2>3 DEF Inv, ShareInv, Owner
    <3>4. q # None
      BY NoneAssumption
    <3> QED
      BY <1>0, <2>1, <2>3, <3>1, <3>2, <3>3, <3>4 DEF Owner
  <2>4. CASE q # d /\ daemon[q] \notin Up
    BY <1>0, <2>4 DEF Inv, TypeInv, TypeOK, Owner, Up
  <2> QED
    BY <2>2, <2>3, <2>4
<1> QED
  BY <1>2, <1>3, <1>5, <1>6, <1>7 DEF Inv, ShareInv

\* A daemon that shuts down unlinks its two paths, whoever owns them by now.
LEMMA ShutdownInv ==
    ASSUME Inv, NEW d \in Starts, Shutdown(d)
    PROVE  Inv'
<1>0. /\ daemon[d] = "stopping" /\ daemon' = [daemon EXCEPT ![d] = "gone"]
      /\ sock' = [sock EXCEPT ![path[d]] = None]
      /\ pidFile' = [pidFile EXCEPT ![pidPath[d]] = None]
      /\ UNCHANGED <<pc, foreground, path, pidPath, target, contested>>
  BY DEF Shutdown, args, DaemonStep
<1>1. path[d] \in Paths /\ pidPath[d] \in PidFiles /\ d # None
  BY <1>0, NoneAssumption DEF Inv, TypeInv, TypeOK, Launched
<1>2. TypeInv'
  <2>1. TypeOK'
    BY <1>0, <1>1 DEF Inv, TypeInv, TypeOK, DaemonStates
  <2>2. \A q \in Starts : Launched(q)'
    BY <1>0 DEF Inv, TypeInv, TypeOK, Launched
  <2> QED
    BY <2>1, <2>2 DEF TypeInv
<1>3. FilesInv'
  BY <1>0, <1>1 DEF Inv, TypeInv, TypeOK, FilesInv
<1>5. ASSUME NEW q \in Starts
      PROVE  PidKept(q)' /\ Alone(q)'
  BY <1>0, <1>1 DEF Inv, ShareInv, TypeInv, TypeOK, PidKept, Alone
<1>6. ASSUME NEW q \in Starts
      PROVE  Owner(q)'
  <2>1. \A x : Disputed(x) => Disputed(x)'
    BY <1>0 DEF Disputed
  <2>2. sock[path[d]] = d \/ Disputed(path[d])
    BY <1>0 DEF Inv, ShareInv, Owner, Up
  <2>3. daemon[q] \in Up => sock[path[q]] = q \/ Disputed(path[q])
    BY DEF Inv, ShareInv, Owner
  <2> QED
    BY <1>0, <1>1, <2>1, <2>2, <2>3 DEF Inv, TypeInv, TypeOK, Owner, Up
<1> QED
  BY <1>2, <1>3, <1>5, <1>6 DEF Inv, ShareInv

\* A stop that has found a pid has changed nothing yet.
LEMMA ResolveInv ==
    ASSUME Inv, NEW t \in Stops, NEW d \in Starts, ResolvePid(t, d)
    PROVE  Inv'
<1>0. /\ target' = [target EXCEPT ![t] = d]
      /\ UNCHANGED <<pc, foreground, path, pidPath, daemon, sock, pidFile, contested>>
  BY DEF ResolvePid, args
<1>1. TypeInv'
  BY <1>0 DEF Inv, TypeInv, TypeOK, Launched
<1>2. FilesInv' /\ ShareInv'
  BY <1>0 DEF Inv, FilesInv, ShareInv, PidKept, Alone, Owner, Disputed
<1> QED
  BY <1>1, <1>2 DEF Inv

----------------------------------------------------------------------------
(* Invariance *)

\* The invariant holds before any start.
LEMMA InitInv == Init => Inv
BY NoneAssumption
   DEF Init, Inv, TypeInv, TypeOK, Launched, FilesInv, ShareInv, PidKept,
       Alone, Owner, Up, DaemonStates

\* The invariant is inductive.
LEMMA NextInv == Inv /\ [Next]_vars => Inv'
<1> SUFFICES ASSUME Inv, [Next]_vars
             PROVE  Inv'
  OBVIOUS
<1>1. ASSUME NEW s \in Starts, NEW p \in Paths, NEW f \in PidFiles, StartForeground(s, p, f)
      PROVE  Inv'
  BY <1>1, LaunchInv DEF StartForeground
<1>2. ASSUME NEW s \in Starts, NEW p \in Paths, NEW f \in PidFiles, StartBackground(s, p, f)
      PROVE  Inv'
  <2>1. CASE sock[p] # None
    BY <1>2, <2>1, ReportInv DEF StartBackground, Advance
  <2>2. CASE sock[p] = None
    BY <1>2, <2>2, LaunchInv DEF StartBackground
  <2> QED
    BY <2>1, <2>2
<1>3. ASSUME NEW s \in Starts, Advertise(s) \/ GiveUp(s)
      PROVE  Inv'
  BY <1>3, ReportInv DEF Advertise, GiveUp, Advance
<1>4. ASSUME NEW d \in Starts, Bind(d)
      PROVE  Inv'
  BY <1>4, BoundInv, MoveInv DEF Bind
<1>5. ASSUME NEW d \in Starts, Terminate(d) \/ Crash(d)
      PROVE  Inv'
  BY <1>5, MoveInv DEF Terminate, Signalled, Crash, Up
<1>6. ASSUME NEW d \in Starts, Shutdown(d)
      PROVE  Inv'
  BY <1>6, ShutdownInv
<1>7. ASSUME NEW t \in Stops, NEW d \in Starts, ResolvePid(t, d)
      PROVE  Inv'
  BY <1>7, ResolveInv
<1>8. ASSUME NEW t \in Stops, SendTerm(t)
      PROVE  Inv'
  <2>1. target[t] \in Starts
    BY <1>8 DEF SendTerm, Inv, TypeInv, TypeOK
  <2> QED
    BY <1>8, <2>1, MoveInv DEF SendTerm, Signalled, Up
<1>9. ASSUME NEW d \in Starts, Serve(d)
      PROVE  Inv'
  BY <1>9, ServeInv
<1>10. CASE UNCHANGED vars
  BY <1>10 DEF vars, Inv, TypeInv, TypeOK, Launched, FilesInv, ShareInv, PidKept,
              Alone, Owner, Disputed
<1> QED
  BY <1>1, <1>2, <1>3, <1>4, <1>5, <1>6, <1>7, <1>8, <1>9, <1>10 DEF Next, StartStep

\* Inv holds in every state.
LEMMA Invariance == Spec => []Inv
BY InitInv, NextInv, PTL DEF Spec

----------------------------------------------------------------------------
(* Theorems *)

\* Every variable of AgentLifecycle keeps its type, and a start has a path exactly
\* when it has a daemon.
THEOREM TypeCorrect == Spec => []TypeOK
<1>1. Inv => TypeOK
  BY DEF Inv, TypeInv
<1> QED
  BY <1>1, Invariance, PTL

\* A running daemon can be stopped by command, for any number of agents, unless a
\* daemon with the same pid file has come or gone.
THEOREM StoppableSound == Spec => []Stoppable
<1>1. Inv => Stoppable
  BY DEF Inv, ShareInv, PidKept, Stoppable
<1> QED
  BY <1>1, Invariance, PTL

\* A socket file changes hands only when a daemon comes up or shuts down.
LEMMA SockChanges ==
    ASSUME Inv, [Next]_vars, NEW p \in Paths, sock'[p] # sock[p]
    PROVE  \E d \in Starts :
              /\ path[d] = p
              /\ \/ daemon[d] = "starting" /\ sock'[p] = d
                 \/ daemon[d] = "stopping" /\ daemon'[d] = "gone" /\ sock'[p] = None
              /\ UNCHANGED <<foreground, path, contested>>
<1> USE DEF Inv, TypeInv, TypeOK
<1>1. ASSUME NEW d \in Starts, Bind(d)
      PROVE  sock'[p] = sock[p] \/ (path[d] = p /\ daemon[d] = "starting" /\ sock'[p] = d
                                    /\ UNCHANGED <<foreground, path, contested>>)
  BY <1>1 DEF Bind, DaemonStep, args
<1>2. ASSUME NEW d \in Starts, Shutdown(d)
      PROVE  sock'[p] = sock[p] \/ (path[d] = p /\ daemon[d] = "stopping" /\ daemon'[d] = "gone"
                                    /\ sock'[p] = None /\ UNCHANGED <<foreground, path, contested>>)
  BY <1>2 DEF Shutdown, DaemonStep, args
<1>3. CASE UNCHANGED sock
  BY <1>3
<1>4. \/ UNCHANGED sock
      \/ \E d \in Starts : Bind(d) \/ Shutdown(d)
  BY DEF Next, StartStep, StartForeground, StartBackground, Advertise, GiveUp, Serve, Terminate,
         Crash, ResolvePid, SendTerm, vars
<1> QED
  BY <1>1, <1>2, <1>3, <1>4

\* The socket a background start prints was bound by the child whose pid it prints,
\* unless another start overlapped it.
THEOREM AdvertisedSound == Spec => AdvertisedSocketIsTheChilds
<1>1. Inv /\ [Next]_vars =>
        [\A s \in Starts : pc[s] = "poll" /\ pc'[s] = "advertised" /\ s \notin contested
            => sock[path[s]] = s]_vars
  <2> SUFFICES ASSUME Inv, Next, NEW s \in Starts,
                      pc[s] = "poll", pc'[s] = "advertised", s \notin contested
               PROVE  sock[path[s]] = s
    BY DEF vars
  <2>1. Advertise(s)
    BY DEF Next, StartStep, StartForeground, StartBackground, Advertise, GiveUp, Bind, Serve,
           Terminate, Shutdown, Crash, ResolvePid, SendTerm, Advance, Inv, TypeInv, TypeOK
  <2>2. sock[path[s]] # None
    BY <2>1 DEF Advertise
  <2>3. sock[path[s]] \in {None, s}
    BY DEF Inv, TypeInv, Launched, ShareInv, Alone
  <2> QED
    BY <2>2, <2>3
<1> QED
  BY <1>1, Invariance, PTL DEF Spec, AdvertisedSocketIsTheChilds

\* A background start takes no path over from a running daemon, unless the two
\* were started at the same time.
THEOREM TakeoverSound == Spec => NoTakeover
<1> DEFINE A == \A p \in Paths :
                  LET d == sock[p]
                      e == sock'[p]
                  IN  d # None /\ e # None /\ e # d /\ daemon[d] \in {"bound", "running"} =>
                          foreground[e] \/ e \in contested
<1>1. Inv /\ [Next]_vars => [A]_vars
  <2> SUFFICES ASSUME Inv, [Next]_vars, NEW p \in Paths,
                      sock[p] # None, sock'[p] # None, sock'[p] # sock[p]
               PROVE  foreground[sock'[p]] \/ sock'[p] \in contested
    OBVIOUS
  <2>1. PICK d \in Starts : path[d] = p /\ daemon[d] = "starting" /\ sock'[p] = d
    BY SockChanges
  <2> QED
    BY <2>1 DEF Inv, ShareInv, Alone
<1> QED
  BY <1>1, Invariance, PTL DEF Spec, NoTakeover

\* A daemon that shuts down leaves every other running one its socket, unless the
\* path was disputed.
THEOREM UnlinkSound == Spec => NoForeignUnlink
<1> DEFINE A == \A p \in Paths :
                  LET d == sock[p]
                  IN  d # None /\ sock'[p] = None /\ daemon'[d] \in {"bound", "running"} =>
                          \E s \in Starts : path[s] = p /\ (foreground[s] \/ s \in contested)
<1>1. Inv /\ [Next]_vars => [A]_vars
  <2> SUFFICES ASSUME Inv, [Next]_vars, NEW p \in Paths,
                      sock[p] # None, sock'[p] = None, daemon'[sock[p]] \in {"bound", "running"}
               PROVE  Disputed(p)
    BY DEF Disputed
  <2>1. PICK d \in Starts : path[d] = p /\ daemon[d] = "stopping" /\ daemon'[d] = "gone"
    BY SockChanges, NoneAssumption
  <2> QED
    BY <2>1 DEF Inv, ShareInv, Owner, Up
<1> QED
  BY <1>1, Invariance, PTL DEF Spec, NoForeignUnlink

====
