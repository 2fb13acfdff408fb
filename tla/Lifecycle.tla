------------------------------- MODULE Lifecycle -------------------------------
(***************************************************************************)
(* Creating, serving and deleting a cluster: server/server.go,             *)
(* server/cluster.go, and the start and stop of server/store.go and        *)
(* server/member.go, for one cluster.                                      *)
(*                                                                         *)
(* Server 0 is the cluster's PD member, and servers 1 to NumStores are its *)
(* stores.  A goroutine that takes the read lock of Server or of           *)
(* clusterInstance does nothing that blocks while it holds it, so such a   *)
(* section is one step that needs the lock to be free; only stop, which    *)
(* DeleteCluster and a CreateCluster that fails call, holds the lock for   *)
(* longer.                                                                 *)
(*                                                                         *)
(* A panic in the handler of a gRPC request ends the process.              *)
(***************************************************************************)
EXTENDS Integers

CONSTANTS NumStores,  \* the number of stores of the cluster
          Api,        \* goroutines serving the HTTP API's DeleteCluster
          Creator,    \* the goroutine serving CreateCluster
          Rpc,        \* goroutines serving gRPC requests
          Kinds,      \* the kinds of requests that come: see Kind
          Nobody      \* holder of a free lock, and the request of an idle Rpc

\* A "region" request looks up a region under the cluster's read lock.  A
\* "stream" is Tso or BatchCommands: it stays until the client closes it.
Kind == {"region", "stream"}

\* A request that runs.  ctx is "nil" when its handler holds a reqCtx without a
\* database.  early is not in the code: it remembers that a store admitted the
\* request while the API did not list the cluster.
Request == [server : 0 .. NumStores, kind : Kind, ctx : {"none", "nil"}, early : BOOLEAN]

Callers == Api \cup {Creator}

ASSUME LifecycleAssumption ==
  /\ NumStores \in Nat \ {0}
  /\ Kinds \subseteq Kind
  /\ Creator \notin Api /\ Nobody \notin Callers /\ Nobody \notin Request

VARIABLES started,   \* how many servers CreateCluster has started
          stage,     \* how far CreateCluster has come
          listed,    \* the cluster is in Server.clusters
          sLock,     \* the holder of Server's write lock
          cLock,     \* the holder of clusterInstance's write lock
          del,       \* del[a]: how far the call a serves has come in stopping
          stopping,  \* the servers whose GracefulStop was called
          rpc,       \* rpc[r]: the request r serves
          died       \* the request whose handler's panic ended the process

creating == <<started, stage>>
deleting == <<sLock, cLock, del, stopping>>
vars == <<creating, listed, deleting, rpc, died>>

Servers == 0 .. NumStores

TypeOK ==
  /\ started \in 0 .. NumStores + 1
  /\ stage \in {"starting", "initialized", "opened", "created", "failed", "crashed"}
  /\ listed \in BOOLEAN
  /\ sLock \in Api \cup {Nobody} /\ cLock \in Callers \cup {Nobody}
  /\ del \in [Callers -> [at : {"idle", "locked", "stopping", "waiting", "stopped", "done"},
                          server : Servers]]
  /\ stopping \subseteq 0 .. started - 1
  /\ rpc \in [Rpc -> Request \cup {Nobody}]
  /\ died \in Request \cup {Nobody}

Init == /\ started = 0 /\ stage = "starting" /\ listed = FALSE
        /\ sLock = Nobody /\ cLock = Nobody
        /\ del = [a \in Callers |-> [at |-> "idle", server |-> 0]]
        /\ stopping = {}
        /\ rpc = [r \in Rpc |-> Nobody] /\ died = Nobody

--------------------------------------------------------------------------------
(* CreateCluster *)

\* The member is started before the stores.  A server that is started serves.
start == /\ stage = "starting" /\ started =< NumStores
         /\ started' = started + 1
         /\ UNCHANGED <<stage, listed, deleting, rpc, died>>

\* A listener cannot be opened, and stop is called.
startFails == /\ stage = "starting" /\ started =< NumStores
              /\ stage' = "failed"
              /\ del' = [del EXCEPT ![Creator].at = "locked"]
              /\ UNCHANGED <<started, listed, sLock, cLock, stopping, rpc, died>>

initRegions == /\ stage = "starting" /\ started = NumStores + 1
               /\ stage' = "initialized"
               /\ UNCHANGED <<started, listed, deleting, rpc, died>>

NewMVCCLevelDB == /\ stage = "initialized"
                  /\ stage' = "opened"
                  /\ UNCHANGED <<started, listed, deleting, rpc, died>>

\* Mutant: the cluster is listed before it is complete.
RegisterEarly == /\ stage \in {"initialized", "opened"}
                 /\ stage' = IF stage = "opened" THEN "created" ELSE stage
                 /\ listed' = TRUE
                 /\ UNCHANGED <<started, deleting, rpc, died>>

\* doCreateCluster adds the cluster to the map, without taking Server's lock.
Register == /\ stage = "opened"
            /\ stage' = "created"
            /\ listed' = TRUE
            /\ UNCHANGED <<started, deleting, rpc, died>>

Create == start \/ startFails \/ initRegions \/ NewMVCCLevelDB \/ Register

\* The regions have their peers, and the cluster has its database.
Prepared == stage \in {"initialized", "opened", "created"}
Opened == stage \in {"opened", "created"}

--------------------------------------------------------------------------------
(* Requests *)

\* Any server that is started and not stopped admits requests.
Arrive(r, s, kind) ==
  /\ rpc[r] = Nobody
  /\ stage # "crashed" /\ s < started /\ s \notin stopping
  /\ rpc' = [rpc EXCEPT ![r] = [server |-> s, kind |-> kind, ctx |-> "none",
                                early |-> s # 0 /\ ~ listed]]
  /\ UNCHANGED <<creating, listed, deleting, died>>

\* The reply; a stream waits for its next request.
Reply(r) ==
  /\ rpc' = [rpc EXCEPT ![r] = IF rpc[r].kind = "stream"
                               THEN [rpc[r] EXCEPT !.ctx = "none"] ELSE Nobody]
  /\ UNCHANGED <<creating, listed, deleting, died>>

\* A call of the member: a lookup under the cluster's read lock, and the reply.
Serve(r) ==
  /\ rpc[r] # Nobody /\ rpc[r].kind = "region" /\ rpc[r].server = 0
  /\ cLock = Nobody
  /\ Reply(r)

\* A request for another cluster or another store is refused before any lock is
\* taken.
validateRequest(r) ==
  /\ rpc[r] # Nobody /\ rpc[r].kind = "region" /\ rpc[r].ctx = "none"
  /\ Reply(r)

OnStore(r) == rpc[r] # Nobody /\ rpc[r].server # 0

\* getRegionByID under the cluster's read lock.  There is no such region, the
\* request does not fit it or needs no database, or the handler goes on with the
\* cluster's database, which may still be nil.  With an open one it replies:
\* nothing it does until then touches the state of this module.
checkRequestContext(r) ==
  /\ OnStore(r) /\ rpc[r].ctx = "none" /\ cLock = Nobody
  /\ \/ Reply(r)
     \/ /\ Prepared /\ ~ Opened
        /\ rpc' = [rpc EXCEPT ![r].ctx = "nil"]
        /\ UNCHANGED <<creating, listed, deleting, died>>

\* The region a request names has no leader yet, whose id checkRequestContext
\* reads, or the handler calls the database it did not get.  All goroutines end.
Panic(r) ==
  /\ OnStore(r)
  /\ \/ rpc[r].ctx = "none" /\ ~ Prepared /\ cLock = Nobody
     \/ rpc[r].ctx = "nil"
  /\ died' = rpc[r]
  /\ rpc' = [q \in Rpc |-> Nobody]
  /\ del' = [a \in Callers |-> [at |-> "done", server |-> 0]]
  /\ stage' = "crashed"
  /\ UNCHANGED <<started, listed, sLock, cLock, stopping>>

CloseStream(r) ==
  /\ rpc[r] # Nobody /\ rpc[r].kind = "stream" /\ rpc[r].ctx = "none"
  /\ rpc' = [rpc EXCEPT ![r] = Nobody]
  /\ UNCHANGED <<creating, listed, deleting, died>>

--------------------------------------------------------------------------------
(* Stopping a cluster, in DeleteCluster and when CreateCluster fails *)

\* Server's lock is taken and the cluster looked up.
doDeleteCluster(a) ==
  /\ del[a].at = "idle" /\ sLock = Nobody
  /\ IF listed THEN sLock' = a /\ del' = [del EXCEPT ![a].at = "locked"]
     ELSE UNCHANGED sLock /\ del' = [del EXCEPT ![a].at = "done"]
  /\ UNCHANGED <<creating, listed, cLock, stopping, rpc, died>>

\* clusterInstance.stop: the stores are stopped first.
stop(a) ==
  /\ del[a].at = "locked" /\ cLock = Nobody
  /\ cLock' = a
  /\ del' = [del EXCEPT ![a] = [at |-> "stopping", server |-> 1]]
  /\ UNCHANGED <<creating, listed, sLock, stopping, rpc, died>>

\* GracefulStop: no request is admitted any more ...
GracefulStop(a) ==
  /\ del[a].at = "stopping" /\ del[a].server < started
  /\ stopping' = stopping \cup {del[a].server}
  /\ del' = [del EXCEPT ![a].at = "waiting"]
  /\ UNCHANGED <<creating, listed, sLock, cLock, rpc, died>>

\* A store that was never started has no server: stop panics before it comes to
\* the member, its lock is released, and the API recovers.
stopPanics(a) ==
  /\ del[a].at = "stopping" /\ del[a].server >= started
  /\ cLock' = Nobody
  /\ del' = [del EXCEPT ![a].at = "done"]
  /\ UNCHANGED <<creating, listed, sLock, stopping, rpc, died>>

\* Mutant: the loop runs past the last store.
AfterNoMember(a) == del[a].server + 1

\* After a store comes the next store, and after the last the member.
After(a) == IF del[a].server = NumStores THEN 0 ELSE del[a].server + 1

\* Mutant: the member is stopped without waiting for its requests.
DrainedStores(a) ==
  /\ del[a].at = "waiting"
  /\ del[a].server # 0 =>
       \A r \in Rpc : rpc[r] # Nobody => rpc[r].server # del[a].server
  /\ IF del[a].server = 0
     THEN cLock' = Nobody /\ del' = [del EXCEPT ![a].at = "stopped"]
     ELSE UNCHANGED cLock /\ del' = [del EXCEPT ![a] = [at |-> "stopping", server |-> After(a)]]
  /\ UNCHANGED <<creating, listed, sLock, stopping, rpc, died>>

\* ... and GracefulStop returns when those that were have ended.
Drained(a) ==
  /\ del[a].at = "waiting"
  /\ \A r \in Rpc : rpc[r] # Nobody => rpc[r].server # del[a].server
  /\ IF del[a].server = 0
     THEN cLock' = Nobody /\ del' = [del EXCEPT ![a].at = "stopped"]
     ELSE UNCHANGED cLock /\ del' = [del EXCEPT ![a] = [at |-> "stopping", server |-> After(a)]]
  /\ UNCHANGED <<creating, listed, sLock, stopping, rpc, died>>

\* The cluster leaves the map and Server's lock is released.
Forget(a) ==
  /\ del[a].at = "stopped"
  /\ listed' = FALSE /\ sLock' = Nobody
  /\ del' = [del EXCEPT ![a].at = "done"]
  /\ UNCHANGED <<creating, cLock, stopping, rpc, died>>

Stop(a) == stop(a) \/ GracefulStop(a) \/ stopPanics(a) \/ Drained(a)

Delete(a) == doDeleteCluster(a) \/ Forget(a)

--------------------------------------------------------------------------------

Next == \/ Create
        \/ \E r \in Rpc, s \in Servers, kind \in Kinds : Arrive(r, s, kind)
        \/ \E r \in Rpc : \/ Serve(r) \/ validateRequest(r) \/ CloseStream(r)
                          \/ checkRequestContext(r) \/ Panic(r)
        \/ \E a \in Callers : Stop(a)
        \/ \E a \in Api : Delete(a)

Spec == Init /\ [][Next]_vars

\* A request that needs nothing more of its client.
Running(r) == rpc[r] # Nobody /\ (rpc[r].kind = "stream" => rpc[r].ctx # "none")

\* The goroutines run; nothing is assumed of the clients.
FairSpec ==
  /\ Spec
  /\ \A a \in Callers : WF_vars(Stop(a))
  /\ \A a \in Api : WF_vars(Delete(a))
  /\ \A r \in Rpc : WF_vars(/\ Running(r)
                            /\ Serve(r) \/ checkRequestContext(r) \/ Panic(r))

--------------------------------------------------------------------------------
(* Properties *)

\* The servers of a cluster serve before its regions have peers and its
\* database is open, so a handler may read the id of a nil leader or call a nil
\* store, and may do so when the cluster has long been listed.  It never does
\* so for a request that was admitted after CreateCluster had listed the
\* cluster, whatever was admitted before.
OnlyEarlyPanics == died # Nobody => died.early

\* Once DeleteCluster has removed the cluster, no request of it is running and
\* no server of it admits one.  Once stop has ended for a CreateCluster that
\* failed, the same holds of the stores that were started, while the member is
\* left running.
StoppedIsQuiet ==
  /\ stage = "created" /\ ~ listed =>
       stopping = Servers /\ \A r \in Rpc : rpc[r] = Nobody
  /\ stage = "failed" /\ del[Creator].at = "done" =>
       \A s \in 1 .. started - 1 :
         s \in stopping /\ \A r \in Rpc : rpc[r] # Nobody => rpc[r].server # s

\* "DeleteCluster stops and deletes a cluster by id" (handler.go): a call that
\* found the cluster returns, when the requests it meets are served.
DeleteReturns ==
  \A a \in Api : del[a].at = "locked" ~> del[a].at = "done"

================================================================================
