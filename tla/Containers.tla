------------------------------- MODULE Containers -------------------------------
(***************************************************************************)
(* Temporary databases (utils/temp_containers.rs): each is a value that    *)
(* owns the process of a "podman run" (GracefulChild), knows the host port *)
(* that podman gave the container, and lends connections to it.  Dropping  *)
(* the value interrupts the process and leaves the rest to others: podman  *)
(* stops the container, a task waits for the process, the tasks of the     *)
(* connections notice that the server has gone.                            *)
(*                                                                         *)
(* podman and the system's ports and process ids are modelled from how the *)
(* code uses them: both are used again once they are free.                 *)
(***************************************************************************)
EXTENDS Naturals

CONSTANTS
  Pgs,        \* the databases that may be asked for
  Networked,  \* the ones that are asked for through a TempPodmanNetwork
  Ports,      \* the host ports podman chooses from
  Pids,       \* process ids
  MaxPolls,   \* how often a port, and then the health, is asked for
  Other,      \* the other programs of the machine
  Unset

ASSUME ContainersAssumption ==
  /\ Networked \subseteq Pgs
  /\ MaxPolls \in Nat
  /\ Unset \notin Ports \cup Pids \cup Pgs
  /\ Other \notin Pgs /\ Other # Unset

VARIABLES
  net,    \* the network, and the value that owns it
  temp,     \* temp[p]: the future of TempPodmanPg::new, then what it has returned
  proc,   \* proc[p]: the process of "podman run", its id, and whether it got SIGINT
  owner,  \* owner[i]: whose process has the id i, Unset if it is free
  container,    \* container[p]: the container, and its host port
  conn,   \* the tasks of open connections: lent by which value, to which container
  hit     \* whether a process of another program has been interrupted

containersVars == <<net, temp, proc, owner, container, conn, hit>>

Ended == {"failed", "dropped"}

PgPcs == {"none", "port", "health", "ready"} \cup Ended
PgValues == [pc : PgPcs, polls : 0..MaxPolls, port : Ports \cup {Unset}]
Processes == [at : {"none", "running", "exited", "reaped"}, pid : Pids \cup {Unset}, sig : BOOLEAN]
Boxes == [at : {"none", "created", "serving", "removed", "died"}, port : Ports \cup {Unset}]

ContainersTypeOK ==
  /\ net \in {"none", "made", "failed", "removed"}
  /\ temp \in [Pgs -> PgValues]
  /\ proc \in [Pgs -> Processes]
  /\ owner \in [Pids -> Pgs \cup {Other, Unset}]
  /\ container \in [Pgs -> Boxes]
  /\ conn \subseteq [by : Pgs, to : Pgs]
  /\ hit \in BOOLEAN

ContainersInit ==
  /\ net = "none"
  /\ temp = [p \in Pgs |-> [pc |-> "none", polls |-> 0, port |-> Unset]]
  /\ proc = [p \in Pgs |-> [at |-> "none", pid |-> Unset, sig |-> FALSE]]
  /\ owner = [i \in Pids |-> Unset]
  /\ container = [p \in Pgs |-> [at |-> "none", port |-> Unset]]
  /\ conn = {}
  /\ hit = FALSE

-----------------------------------------------------------------------------
(* The values and their futures *)

\* What is bound to a network cannot be used after it.
Usable(p) == p \in Networked => net \in {"made", "failed"}
Holds(p) == container[p].at \in {"created", "serving"}
Serves(p, port) == container[p].at = "serving" /\ container[p].port = port

\* Mutant: dropping the process leaves it alone.
KillNothing(p) == UNCHANGED <<proc, hit>>

\* GracefulChild::drop: a process that nobody has waited for still has its id.
Kill(p) ==
  LET target == owner[proc[p].pid] IN
  /\ proc' = [q \in Pgs |-> IF q = target /\ proc[q].at = "running"
                             THEN [at |-> "running", pid |-> proc[q].pid, sig |-> TRUE]
                             ELSE proc[q]]
  /\ hit' = (hit \/ target = Other)

\* The future ends with an error, or it or its value is dropped.
Finishes(p, how) ==
  /\ temp' = [temp EXCEPT ![p].pc = how]
  /\ Kill(p)
  /\ UNCHANGED <<net, owner, container, conn>>

\* TempPodmanNetwork::new does not look at the exit status.
NewNetwork ==
  /\ net = "none"
  /\ net' \in {"made", "failed"}
  /\ UNCHANGED <<temp, proc, owner, container, conn, hit>>

Spawn(p, i) ==
  /\ temp[p].pc = "none" /\ Usable(p) /\ owner[i] = Unset
  /\ temp' = [temp EXCEPT ![p].pc = "port"]
  /\ proc' = [proc EXCEPT ![p] = [at |-> "running", pid |-> i, sig |-> FALSE]]
  /\ owner' = [owner EXCEPT ![i] = p]
  /\ UNCHANGED <<net, container, conn, hit>>

NotSpawned(p) ==
  /\ temp[p].pc = "none" /\ Usable(p)
  /\ temp' = [temp EXCEPT ![p].pc = "failed"]
  /\ UNCHANGED <<net, proc, owner, container, conn, hit>>

\* Mutant: it asks for the latest container's.
PortOfAny(p) ==
  /\ temp[p].pc = "port" /\ temp[p].polls < MaxPolls
  /\ \E q \in Pgs :
       /\ Holds(q)
       /\ temp' = [temp EXCEPT ![p] = [pc |-> "health", polls |-> 0, port |-> container[q].port]]
  /\ UNCHANGED <<net, proc, owner, container, conn, hit>>

\* wait_for_podman_port asks for the port of the container by its name.
PortFound(p) ==
  /\ temp[p].pc = "port" /\ temp[p].polls < MaxPolls /\ Holds(p)
  /\ temp' = [temp EXCEPT ![p] = [pc |-> "health", polls |-> 0, port |-> container[p].port]]
  /\ UNCHANGED <<net, proc, owner, container, conn, hit>>

\* Mutant: the retries are not counted.
PollForever(p, ok) ==
  /\ temp[p].polls < MaxPolls /\ ~ok
  /\ UNCHANGED containersVars

PollAgain(p, ok) ==
  /\ temp[p].polls < MaxPolls /\ ~ok
  /\ temp' = [temp EXCEPT ![p].polls = @ + 1]
  /\ UNCHANGED <<net, proc, owner, container, conn, hit>>

\* healthcheck_postgres connects to the port, whosever it is.
Answers(p) == \E q \in Pgs : Serves(q, temp[p].port)

FoundHealthy(p) ==
  /\ temp[p].pc = "health" /\ temp[p].polls < MaxPolls /\ Answers(p)
  /\ temp' = [temp EXCEPT ![p].pc = "ready"]
  /\ UNCHANGED <<net, proc, owner, container, conn, hit>>

Waits(p) ==
  \/ temp[p].pc = "port" /\ PollAgain(p, Holds(p))
  \/ temp[p].pc = "health" /\ PollAgain(p, Answers(p))

TimesOut(p) ==
  /\ temp[p].pc \in {"port", "health"} /\ temp[p].polls = MaxPolls
  /\ Finishes(p, "failed")

\* "podman port" cannot be executed.
PortFails(p) == temp[p].pc = "port" /\ Finishes(p, "failed")

DropPg(p) == temp[p].pc \in {"port", "health", "ready"} /\ Finishes(p, "dropped")

\* TempPodmanPg::client, and the pool's connections.
Connect(p, q) ==
  /\ temp[p].pc = "ready" /\ Usable(p) /\ Serves(q, temp[p].port)
  /\ conn' = conn \cup {[by |-> p, to |-> q]}
  /\ UNCHANGED <<net, temp, proc, owner, container, hit>>

\* The connection's task ends: its client has been dropped, or the server closes.
Disconnect(c) ==
  /\ conn' = conn \ {c}
  /\ UNCHANGED <<net, temp, proc, owner, container, hit>>

\* The network's drop removes it with the containers in it.  No future that uses
\* it is left; the values bound to it may be, if they are not used any more.
DropNetwork ==
  /\ net \in {"made", "failed"}
  /\ \A p \in Networked : temp[p].pc \notin {"port", "health"}
  /\ net' = "removed"
  /\ container' = [p \in Pgs |-> IF p \in Networked /\ Holds(p)
                            THEN [at |-> "removed", port |-> container[p].port] ELSE container[p]]
  /\ UNCHANGED <<temp, proc, owner, conn, hit>>

-----------------------------------------------------------------------------
(* podman and the system *)

Created(p, port) ==
  /\ proc[p].at = "running" /\ container[p].at = "none"
  /\ p \in Networked => net = "made"
  /\ \A q \in Pgs : Holds(q) => container[q].port # port
  /\ container' = [container EXCEPT ![p] = [at |-> "created", port |-> port]]
  /\ UNCHANGED <<net, temp, proc, owner, conn, hit>>

Started(p) ==
  /\ container[p].at = "created"
  /\ container' = [container EXCEPT ![p].at = "serving"]
  /\ UNCHANGED <<net, temp, proc, owner, conn, hit>>

\* Mutant: the id is free when the process has exited.
ExitsUnwaited(p) ==
  /\ proc[p].at = "running"
  /\ proc' = [proc EXCEPT ![p].at = "exited"]
  /\ owner' = [owner EXCEPT ![proc[p].pid] = Unset]
  /\ container' = [container EXCEPT ![p].at = IF container[p].at = "removed" \/ proc[p].sig THEN "removed" ELSE "died"]
  /\ UNCHANGED <<net, temp, conn, hit>>

\* The process ends, and its container with it (--rm): it has been interrupted,
\* its container has been removed, or the container has failed.
Exits(p) ==
  /\ proc[p].at = "running"
  /\ proc' = [proc EXCEPT ![p].at = "exited"]
  /\ container' = [container EXCEPT ![p].at = IF container[p].at = "removed" \/ proc[p].sig THEN "removed" ELSE "died"]
  /\ UNCHANGED <<net, temp, owner, conn, hit>>

\* The task that GracefulChild::drop has spawned waits for the process.
Reap(p) ==
  /\ temp[p].pc \in Ended /\ proc[p].at = "exited"
  /\ proc' = [proc EXCEPT ![p].at = "reaped"]
  /\ owner' = [owner EXCEPT ![proc[p].pid] = Unset]
  /\ UNCHANGED <<net, temp, container, conn, hit>>

OtherProcess(i) ==
  /\ \/ owner[i] = Unset /\ owner' = [owner EXCEPT ![i] = Other]
     \/ owner[i] = Other /\ owner' = [owner EXCEPT ![i] = Unset]
  /\ UNCHANGED <<net, temp, proc, container, conn, hit>>

New(p) == PortFound(p) \/ Waits(p) \/ FoundHealthy(p) \/ TimesOut(p)

ContainersNext ==
  \/ \E p \in Pgs :
       \/ NotSpawned(p) \/ New(p) \/ PortFails(p) \/ DropPg(p)
       \/ \E i \in Pids : Spawn(p, i)
       \/ \E port \in Ports : Created(p, port)
       \/ \E q \in Pgs : Connect(p, q)
       \/ Started(p) \/ Exits(p) \/ Reap(p)
  \/ \E c \in conn : Disconnect(c)
  \/ \E i \in Pids : OtherProcess(i)
  \/ NewNetwork \/ DropNetwork

ContainersSpec == ContainersInit /\ [][ContainersNext]_containersVars

\* Futures are polled, every loop in them is bounded.  A process that has been
\* interrupted ends and is waited for; a server that has gone closes.
Closed(c) == c \in conn /\ ~Holds(c.to) /\ Disconnect(c)
ContainersFairSpec ==
  /\ ContainersSpec
  /\ \A p \in Pgs :
       /\ WF_containersVars(New(p))
       /\ WF_containersVars(proc[p].sig /\ Exits(p))
       /\ WF_containersVars(Reap(p))
  /\ \A c \in [by : Pgs, to : Pgs] : WF_containersVars(Closed(c))

-----------------------------------------------------------------------------
(* Properties *)

\* A connection goes to the container of the value that lends it, unless that
\* container has failed: then its port may be another container's.
OwnDatabase == \A c \in conn : c.to = c.by \/ container[c.by].at = "died"

\* Only processes that were spawned here are interrupted: an id cannot be another
\* program's as long as nobody has waited for the process.  And the end of a value
\* interrupts the right one: what still runs of it has got its SIGINT.
SignalsOwn ==
  /\ ~hit
  /\ \A p \in Pgs : temp[p].pc \in Ended /\ proc[p].at = "running" => proc[p].sig

\* Every future of TempPodmanPg::new ends, whatever podman does.
NewEnds == \A p \in Pgs : temp[p].pc \in {"port", "health"} ~> temp[p].pc \in {"ready"} \cup Ended

\* After a value is dropped, or its future has failed, no container, no process
\* and no connection is left: what the tests ask podman a second later.
NothingLeft ==
  \A p \in Pgs : temp[p].pc \in Ended ~>
    /\ proc[p].at \in {"none", "reaped"} /\ ~Holds(p)
    /\ \A c \in conn : c.to # p

-----------------------------------------------------------------------------
(* The inductive invariant *)

\* No two containers hold one port.
PortsDiffer == \A p, q \in Pgs : Holds(p) /\ Holds(q) /\ container[p].port = container[q].port => p = q

\* The port a value knows is its container's, as long as that has not failed or
\* gone with the network.
PortKnown ==
  \A p \in Pgs : temp[p].pc \in {"health", "ready"} =>
    \/ Holds(p) /\ container[p].port = temp[p].port
    \/ container[p].at = "died"
    \/ p \in Networked /\ net = "removed" /\ temp[p].pc = "ready"

\* Until it is waited for a process has its id, and a value's process is not
\* waited for and not interrupted before the value ends.  A container comes after
\* its process, and ends with it.
IdsKept ==
  \A p \in Pgs :
    /\ proc[p].at \in {"running", "exited"} => proc[p].pid \in Pids /\ owner[proc[p].pid] = p
    /\ temp[p].pc \in {"port", "health", "ready"} => proc[p].at \in {"running", "exited"}
    /\ proc[p].sig => temp[p].pc \in Ended
    /\ container[p].at \in {"created", "serving"} => proc[p].at = "running"
    /\ container[p].at = "died" => proc[p].at \in {"exited", "reaped"}
    /\ temp[p].pc = "none" => proc[p].at = "none"
    /\ proc[p].at = "none" => container[p].at = "none"

\* Networked containers are removed only with the network.
RemovedWithNetwork ==
  \A p \in Pgs : container[p].at = "removed" /\ temp[p].pc \notin Ended => p \in Networked /\ net = "removed"

ContainersInv ==
  /\ ContainersTypeOK /\ OwnDatabase /\ SignalsOwn
  /\ PortsDiffer /\ PortKnown /\ IdsKept /\ RemovedWithNetwork
=============================================================================
