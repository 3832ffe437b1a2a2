------------------------- MODULE LoadGenImplements -------------------------
(***************************************************************************)
(* The load generator's two threads (LoadGen) are the client that the      *)
(* experiment driver's deployment has (StartUp), once that is up.          *)
(*                                                                         *)
(* The driver knows the client by three lines of its log.  They are not    *)
(* variables of LoadGen: which have been printed is where its threads are. *)
(***************************************************************************)
EXTENDS LoadGen

\* Has the main thread left the loop that sends the run's requests?
RunIsOver == phase = "kill" \/ (phase = "run" /\ mpc \in {"print", "ranks", "stats", "cost"})

\* Where the client is, for one that sees only its log and its end.
Stage ==
    IF ~process THEN "exited"
    ELSE IF phase = "warmup" THEN "warmup"
    ELSE IF RunIsOver THEN "kill" ELSE "run"

\* What it has printed; the reader prints the error, the main thread the others.
Lines ==
    {line \in {"End of Warmup Period", "End of Actual Run", "Call Status Error Code"} :
        \/ line = "End of Warmup Period" /\ phase # "warmup"
        \/ line = "End of Actual Run" /\ RunIsOver
        \/ line = "Call Status Error Code" /\ rpc = "told"}

Deployed == INSTANCE StartUp WITH
    echo    <- [n \in {"node1", "node2"} |-> "listening"],
    bucket  <- "listening",
    midtier <- IF server THEN "serving" ELSE "exited",
    client  <- Stage,
    log     <- Lines

\* A client that has just started its reader thread, over a mid-tier that serves.
Started == <<Stage, Lines, server>> = <<"warmup", {}, TRUE>>

\* What the processes of a deployment do of themselves, or what happens to them.
DeployedStep == Deployed!Progress \/ Deployed!Accident

\* The two threads show the driver nothing but what StartUp says: each line comes
\* once, the run's after the warm-up's, the warm-up's not after the error, and none
\* after the process has ended.
ClientAsDeployed == Started /\ [][DeployedStep]_(Deployed!startUpVars)
=============================================================================
