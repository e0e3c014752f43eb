---------------------------- MODULE SandboxRuntime ----------------------------
(* One runDockerSandbox (sandbox-runtime.ts): volume, egress proxy, job, and *)
(* the cleanup in its finally, against a Docker daemon that acts on its own  *)
(* time.  What the daemon and the docker commands do is external: a command  *)
(* may fail, and a killed docker run may leave a creation in flight.         *)
EXTENDS FiniteSets

CONSTANT PublicEgress   \* networkPolicy, "public-egress" or not: both values
ASSUME PublicEgressAssumption == PublicEgress \subseteq BOOLEAN

VARIABLES
  boxEgress,   \* this run's networkPolicy is public-egress
  boxStep,     \* where runDockerSandbox is
  boxVolume,   \* the volume exists
  boxKnown,    \* volumeCreated
  boxRun,      \* docker run of the job and of the proxy, as the daemon sees it
  boxCli,      \* docker run commands still attached
  boxTodo,     \* containers whose docker rm --force has not ended
  boxUnclean,  \* what a docker rm failed to remove, or came too early for
  boxResult    \* the promise

boxVars == <<boxEgress, boxStep, boxVolume, boxKnown, boxRun, boxCli, boxTodo, boxUnclean, boxResult>>

Container == {"job", "proxy"}

BoxInit ==
  /\ boxEgress \in PublicEgress
  /\ boxStep = IF boxEgress THEN "volume" ELSE "start"
  /\ boxVolume = FALSE /\ boxKnown = FALSE
  /\ boxRun = [c \in Container |-> "none"]
  /\ boxCli = {} /\ boxTodo = {} /\ boxUnclean = {}
  /\ boxResult = "pending"

\* finally: the job, and with egress the proxy, are removed side by side.
Cleanup == IF boxEgress THEN Container ELSE {"job"}

EnterFinally(result) ==
  /\ boxResult' = result
  /\ boxTodo' = Cleanup
  /\ boxStep' = "cleaning"

\* dockerCommand volume create has no deadline: it may also never answer.
VolumeCreated ==
  /\ boxStep = "volume"
  /\ boxVolume' = TRUE /\ boxKnown' = TRUE
  /\ boxRun' = [boxRun EXCEPT !["proxy"] = "requested"]
  /\ boxCli' = {"proxy"}
  /\ boxStep' = "proxy"
  /\ UNCHANGED <<boxEgress, boxTodo, boxUnclean, boxResult>>

\* The command fails, whether the daemon made the volume or not.
VolumeFails ==
  /\ boxStep = "volume"
  /\ boxVolume' \in BOOLEAN
  /\ EnterFinally("failed")
  /\ UNCHANGED <<boxEgress, boxKnown, boxRun, boxCli, boxUnclean>>

ProxyIsReady ==
  /\ boxStep = "proxy" /\ boxRun["proxy"] = "up"
  /\ boxStep' = "start"
  /\ UNCHANGED <<boxEgress, boxVolume, boxKnown, boxRun, boxCli, boxTodo, boxUnclean, boxResult>>

\* Too much output, error, close or the start-up deadline.
ProxyFails ==
  /\ boxStep = "proxy"
  /\ EnterFinally("failed")
  /\ UNCHANGED <<boxEgress, boxVolume, boxKnown, boxRun, boxCli, boxUnclean>>

StartJob ==
  /\ boxStep = "start"
  /\ boxRun' = [boxRun EXCEPT !["job"] = "requested"]
  /\ boxCli' = boxCli \cup {"job"}
  /\ boxStep' = "job"
  /\ UNCHANGED <<boxEgress, boxVolume, boxKnown, boxTodo, boxUnclean, boxResult>>

\* The container answered and is gone (--rm).
JobCloses ==
  /\ boxStep = "job" /\ boxRun["job"] = "up"
  /\ boxRun' = [boxRun EXCEPT !["job"] = "none"]
  /\ boxCli' = boxCli \ {"job"}
  /\ \E result \in {"resolved", "failed"} : EnterFinally(result)
  /\ UNCHANGED <<boxEgress, boxVolume, boxKnown, boxUnclean>>

\* Deadline, output limit or error: the docker run command is killed, not the
\* container.
JobFails ==
  /\ boxStep = "job"
  /\ boxCli' = boxCli \ {"job"}
  /\ EnterFinally("failed")
  /\ UNCHANGED <<boxEgress, boxVolume, boxKnown, boxRun, boxUnclean>>

\* The daemon creates the container it was asked for, even when nobody waits,
\* and with it the volume it mounts.
DaemonCreates(c) ==
  /\ boxRun[c] = "requested"
  /\ boxRun' = [boxRun EXCEPT ![c] = "up"]
  /\ boxVolume' = boxEgress
  /\ UNCHANGED <<boxEgress, boxStep, boxKnown, boxCli, boxTodo, boxUnclean, boxResult>>

\* docker run died before its request reached the daemon.
RequestLost(c) ==
  /\ boxRun[c] = "requested" /\ c \notin boxCli
  /\ boxRun' = [boxRun EXCEPT ![c] = "none"]
  /\ UNCHANGED <<boxEgress, boxStep, boxVolume, boxKnown, boxCli, boxTodo, boxUnclean, boxResult>>

\* dockerCleanupCommand: any ending resolves it, its deadline included.
RemoveContainer(c) ==
  /\ boxStep = "cleaning" /\ c \in boxTodo
  /\ \/ /\ boxRun[c] = "up" /\ boxRun' = [boxRun EXCEPT ![c] = "none"]
        /\ UNCHANGED boxUnclean
     \/ /\ boxRun[c] = "none" /\ UNCHANGED <<boxRun, boxUnclean>>
     \/ /\ boxRun[c] # "none" /\ boxUnclean' = boxUnclean \cup {c}
        /\ UNCHANGED boxRun
  /\ boxTodo' = boxTodo \ {c}
  /\ UNCHANGED <<boxEgress, boxStep, boxVolume, boxKnown, boxCli, boxResult>>

\* The removal of the volume does not wait for the containers.
VolumeAtOnce == boxStep = "cleaning"

ContainersDone == boxStep = "cleaning" /\ boxTodo = {}

\* The proxy's command is killed, then the volume is removed: refused while a
\* container uses it.
RemoveVolume ==
  /\ ContainersDone
  /\ boxCli' = boxCli \ {"proxy"}
  /\ boxStep' = "done"
  /\ IF ~boxKnown THEN UNCHANGED <<boxVolume, boxUnclean>>
     ELSE \/ boxVolume' = (\E c \in Container : boxRun[c] = "up") /\ UNCHANGED boxUnclean
          \/ boxUnclean' = boxUnclean \cup {"volume"} /\ UNCHANGED boxVolume
  /\ UNCHANGED <<boxEgress, boxKnown, boxRun, boxTodo, boxResult>>

BoxNext ==
  \/ VolumeCreated \/ VolumeFails \/ ProxyIsReady \/ ProxyFails
  \/ StartJob \/ JobCloses \/ JobFails \/ RemoveVolume
  \/ \E c \in Container : DaemonCreates(c) \/ RequestLost(c) \/ RemoveContainer(c)

BoxSpec == BoxInit /\ [][BoxNext]_boxVars

-----------------------------------------------------------------------------

BoxTypeOK ==
  /\ boxStep \in {"volume", "proxy", "start", "job", "cleaning", "done"}
  /\ {boxEgress, boxVolume, boxKnown} \subseteq BOOLEAN
  /\ boxRun \in [Container -> {"none", "requested", "up"}]
  /\ boxCli \subseteq Container /\ boxTodo \subseteq Container
  /\ boxUnclean \subseteq Container \cup {"volume"}
  /\ boxResult \in {"pending", "resolved", "failed"}

\* When the run has been answered nothing of it is left in Docker, unless a
\* removal failed or came before a creation that was still in flight, or the
\* command that created the volume failed after it did.
NothingLeftBehind ==
  boxStep = "done" =>
    /\ \A c \in Container : boxRun[c] # "none" => c \in boxUnclean
    /\ boxVolume => ~boxKnown \/ boxUnclean # {}
=============================================================================
