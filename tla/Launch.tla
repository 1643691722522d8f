------------------------------- MODULE Launch -------------------------------
(***************************************************************************)
(* main() of veri-fm2l.cpp: the command line, its checks, and the creation *)
(* and joining of the miner threads.                                       *)
(*                                                                         *)
(* The words of the command line are taken one option at a time.  A device *)
(* is a number: n is COMn on Windows, /dev/ttyUSBn on Linux.               *)
(***************************************************************************)
EXTENDS Integers, Sequences

CONSTANTS
  MaxGpus,  \* MAX_GPUS, the size of the arrays of devices and threads
  Devices,  \* cards that are plugged in and may be opened
  Lists     \* bound: the device lists one -nl may bring

NoDevice == 0      \* a name that is no device's, the empty one included

ASSUME LaunchAssumption ==
  /\ MaxGpus \in Nat \ {0}
  /\ Devices \subseteq Nat \ {0}
  /\ Lists \subseteq Seq(Devices \cup {NoDevice})

VARIABLES
  main,       \* where main() is
  fate,       \* how the process has ended, or "runs"
  hostPort,   \* what kind of text -o brought
  user,       \* what -u brought: "none" or "name"
  names,      \* devportnames, the first numofDev of them, stored beyond it too
  nThreads,   \* opt_n_threads
  spawned     \* threads created so far

launchVars == <<main, fate, hostPort, user, names, nThreads, spawned>>

\* "undefined" is no end: the model stops there and says nothing of what follows.
Fates == {"runs", "help", "error", "throws", "undefined", "gaveUp", "crash", "returned"}

\* Where the port's text goes wrong.  Without a colon all of the text is taken
\* for the port, and digits alone are "right".
HostPorts == {"none", "right", "word", "noPort", "tooLong"}

Miners == 1..MaxGpus

\* The name in m_args[m]: without a list the zeroed device_name.
NameOf(m) == IF m <= Len(names) THEN names[m] ELSE NoDevice

\* Nothing runs after the process has ended.
Runs(where) == fate = "runs" /\ main = where

Ends(how) == fate' = how /\ UNCHANGED main

LaunchTypeOK ==
  /\ main \in {"scan", "options", "client", "spawn", "join"} /\ fate \in Fates
  /\ hostPort \in HostPorts /\ user \in {"none", "name"}
  /\ names \in Seq(Devices \cup {NoDevice})
  /\ nThreads \in 0..MaxGpus /\ spawned \in 0..nThreads

LaunchInit ==
  /\ main = "scan" /\ fate = "runs"
  /\ hostPort = "none" /\ user = "none"
  /\ names = <<>> /\ nThreads = 1 /\ spawned = 0

\* -h anywhere, an option without its value, or no option at all print the
\* help and end the program.
Scan ==
  /\ Runs("scan")
  /\ \/ Ends("help")
     \/ main' = "options" /\ UNCHANGED fate
  /\ UNCHANGED <<hostPort, user, names, nThreads, spawned>>

\* -nl: the names of one more list are stored behind those of the last.  No test
\* keeps them inside devportnames: the name that no longer fits goes behind the
\* array, and what the process does from there on is undefined.
DeviceList ==
  /\ Runs("options")
  /\ \E list \in Lists : names' = names \o list
  /\ IF Len(names') <= MaxGpus THEN UNCHANGED <<main, fate>> ELSE Ends("undefined")
  /\ UNCHANGED <<hostPort, user, nThreads, spawned>>

\* Any option that begins with -d.  There are no GPUs to count, so a number of
\* one or two digits is never a device's; anything else leaves no thread.
DeviceNumber ==
  /\ Runs("options")
  /\ nThreads' = 0
  /\ \/ Ends("help")
     \/ UNCHANGED <<main, fate>>
  /\ UNCHANGED <<hostPort, user, names, spawned>>

\* -o, -u, and -tpb, -bs, -frm, whose number is converted by stoi().  The other
\* options change nothing here.
TextOption ==
  /\ Runs("options")
  /\ \/ hostPort' \in HostPorts /\ UNCHANGED <<main, fate, user>>
     \/ user' \in {"none", "name"} /\ UNCHANGED <<main, fate, hostPort>>
     \/ Ends("throws") /\ UNCHANGED <<hostPort, user>>
  /\ UNCHANGED <<names, nThreads, spawned>>

\* The checks behind the options.  A host that cannot be resolved is passed on
\* as "invalid hostname"; an empty port passes the test for digits.
Checks ==
  /\ Runs("options")
  /\ \/ (hostPort \in {"none", "word"} \/ user = "none") /\ Ends("error")
     \/ hostPort \in {"noPort", "tooLong"} /\ user # "none" /\ Ends("throws")
     \/ hostPort = "right" /\ user # "none" /\ main' = "client" /\ UNCHANGED fate
  /\ UNCHANGED <<hostPort, user, names, nThreads, spawned>>

\* Mutant of Client: the list does not override what -d has left.
ClientKeepsThreads ==
  /\ Runs("client")
  /\ main' = "spawn"
  /\ UNCHANGED <<fate, hostPort, user, names, nThreads, spawned>>

\* UCPClient's constructor connects or ends the process; a list of devices then
\* overrides the number of threads.
Client ==
  /\ Runs("client")
  /\ \/ Ends("gaveUp") /\ UNCHANGED nThreads
     \/ /\ main' = "spawn" /\ UNCHANGED fate
        /\ nThreads' = IF names # <<>> THEN Len(names) ELSE nThreads
  /\ UNCHANGED <<hostPort, user, names, spawned>>

\* Mutant of Spawn: one thread more than is asked for.
SpawnOneMore ==
  /\ Runs("spawn")
  /\ IF spawned <= nThreads
       THEN spawned' = spawned + 1 /\ UNCHANGED main
       ELSE main' = "join" /\ UNCHANGED spawned
  /\ UNCHANGED <<fate, hostPort, user, names, nThreads>>

Spawn ==
  /\ Runs("spawn")
  /\ IF spawned < nThreads
       THEN spawned' = spawned + 1 /\ UNCHANGED main
       ELSE main' = "join" /\ UNCHANGED spawned
  /\ UNCHANGED <<fate, hostPort, user, names, nThreads>>

\* pthread_join() of every thread, where `done` says which have returned.
Join(done) ==
  /\ Runs("join")
  /\ 1..spawned \subseteq done
  /\ Ends("returned")
  /\ UNCHANGED <<hostPort, user, names, nThreads, spawned>>

LaunchNext ==
  Scan \/ DeviceList \/ DeviceNumber \/ TextOption \/ Checks \/ Client \/ Spawn
=============================================================================
