------------------------------ MODULE StartUp ------------------------------
(***************************************************************************)
(* How one deployment comes up and runs, up to what its log shows.         *)
(*                                                                         *)
(* server.c runs on both server nodes (run_server.sh).  A deployment       *)
(* (docker-compose-swarm.yml) starts the bucket server, the mid-tier and   *)
(* the client; the latter two are built in their containers, connect to a  *)
(* server.c and set themselves up before they serve or send.  The mid-tier *)
(* waits for the bucket's port, the client for the mid-tier's.             *)
(* No container is restarted.  What client and mid-tier do once they are   *)
(* up is MidTier's and LoadGen's; here it is the lines the client prints.  *)
(***************************************************************************)

VARIABLES
    echo,     \* server.c on each node
    bucket,   \* where the bucket server is
    midtier,  \* where main of the mid-tier is
    client,   \* where main of the load generator is
    log       \* what the client has printed

startUpVars == <<echo, bucket, midtier, client, log>>

Node == {"node1", "node2"}

InitStartUp ==
    /\ echo = [n \in Node |-> "down"]
    /\ bucket = "absent"
    /\ midtier = "absent"
    /\ client = "absent"
    /\ log = {}

-----------------------------------------------------------------------------
(* server.c.                                                               *)

\* socket, bind and listen.
EchoListens(n) ==
    /\ echo[n] = "down"
    /\ echo' = [echo EXCEPT ![n] = "listening"]
    /\ UNCHANGED <<bucket, midtier, client, log>>

\* One of the calls fails, or the process dies later: it is started only once.
EchoExits(n) ==
    /\ echo[n] # "exited"
    /\ echo' = [echo EXCEPT ![n] = "exited"]
    /\ UNCHANGED <<bucket, midtier, client, log>>

-----------------------------------------------------------------------------
(* The bucket server.                                                      *)

BucketAt(from, to) ==
    /\ bucket = from
    /\ bucket' = to
    /\ UNCHANGED <<echo, midtier, client, log>>

\* The data set is loaded, and the server listens on its port.
BucketListens == BucketAt("build", "listening")

\* It fails to come up, or dies later: no container is restarted.
BucketExits == \E p \in {"build", "listening"} : BucketAt(p, "exited")

-----------------------------------------------------------------------------
(* The mid-tier.                                                           *)

MidtierAt(from, to) ==
    /\ midtier = from
    /\ midtier' = to
    /\ UNCHANGED <<echo, bucket, client, log>>

\* nc reaches the bucket's port, which it tries for ever; then make.
MidtierBuilt == MidtierAt("build", "connect") /\ bucket = "listening"

\* The connection to server.c on node2; then the helper thread is started.
MidtierConnects ==
    MidtierAt("connect", "load") /\ echo["node2"] = "listening"

\* "Connection Failed to port 8080"
MidtierRefused ==
    MidtierAt("connect", "exited") /\ echo["node2"] # "listening"

\* Command line, bucket addresses and data set.
MidtierLoads == MidtierAt("load", "index")

\* The index and the connections to the buckets; then the response threads and the
\* server.
MidtierServes == MidtierAt("index", "serving")

\* A CHECK of the set-up fails, or the process dies later.
MidtierDies ==
    \E p \in {"build", "connect", "load", "index", "serving"} : MidtierAt(p, "exited")

\* The answer to a query's RPC is an error ("Bucket no longer exists").
MidtierLosesBucket ==
    /\ MidtierAt("serving", "exited")
    /\ bucket = "exited" /\ client \in {"warmup", "run"}

\* A kill request, which only a client whose run is over sends, exits the process.
MidtierKilled == MidtierAt("serving", "exited") /\ "End of Actual Run" \in log

-----------------------------------------------------------------------------
(* The client.                                                             *)

ClientPrints(from, to, lines) ==
    /\ client = from
    /\ client' = to
    /\ log' = log \cup lines
    /\ UNCHANGED <<echo, bucket, midtier>>

\* make is through and nc reaches port 50054.
ClientFindsMidtier ==
    ClientPrints("build", "connect", {}) /\ midtier = "serving"

\* The connection to server.c on node1, although the client sends nothing on it.
ClientConnects ==
    ClientPrints("connect", "load", {}) /\ echo["node1"] = "listening"

ClientRefused ==
    ClientPrints("connect", "exited", {}) /\ echo["node1"] # "listening"

\* Command line and queries.
ClientLoads == ClientPrints("load", "start", {})

\* The channel and the reader thread.
ClientStarts == ClientPrints("start", "warmup", {})

\* Every reply of the warm-up is in: none of its RPCs has failed.
WarmupEnds ==
    /\ ClientPrints("warmup", "run", {"End of Warmup Period"})
    /\ "Call Status Error Code" \notin log

\* The time is over, whatever has been answered.
RunEnds == ClientPrints("run", "kill", {"End of Actual Run"})

\* A kill request is acknowledged.
KillAcked == ClientPrints("kill", "exited", {})

\* An RPC fails, for the mid-tier is gone or for gRPC's own reasons: the reader
\* thread says so.  The main thread goes on meanwhile.
RpcFails ==
    /\ "Call Status Error Code" \notin log
    /\ \E p \in {"warmup", "run", "kill"} : ClientPrints(p, p, {"Call Status Error Code"})

\* Then it ends the process.
ClientFails ==
    /\ "Call Status Error Code" \in log
    /\ \E p \in {"warmup", "run", "kill"} : ClientPrints(p, "exited", {})

\* A CHECK of the set-up fails, or the process dies of an undefined read.
ClientDies ==
    \E p \in {"build", "connect", "load", "start", "warmup", "run", "kill"} :
        ClientPrints(p, "exited", {})

-----------------------------------------------------------------------------

\* What the processes do by themselves, and what may happen to them.
Progress ==
    \/ \E n \in Node : EchoListens(n)
    \/ BucketListens
    \/ MidtierBuilt \/ MidtierConnects \/ MidtierRefused \/ MidtierLoads \/ MidtierServes
    \/ MidtierLosesBucket \/ MidtierKilled
    \/ ClientFindsMidtier \/ ClientConnects \/ ClientRefused \/ ClientLoads \/ ClientStarts
    \/ WarmupEnds \/ RunEnds \/ KillAcked \/ ClientFails
    \/ midtier = "exited" /\ RpcFails

Accident ==
    \/ \E n \in Node : EchoExits(n)
    \/ BucketExits \/ MidtierDies \/ ClientDies
    \/ midtier # "exited" /\ RpcFails

StartUpTypeOK ==
    /\ echo \in [Node -> {"down", "listening", "exited"}]
    /\ bucket \in {"absent", "build", "listening", "exited"}
    /\ midtier \in {"absent", "build", "connect", "load", "index", "serving", "exited"}
    /\ client \in {"absent", "build", "connect", "load", "start", "warmup", "run", "kill",
                   "exited"}
    /\ log \subseteq {"End of Warmup Period", "End of Actual Run", "Call Status Error Code"}
=============================================================================
