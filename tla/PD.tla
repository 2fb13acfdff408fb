----------------------------------- MODULE PD ----------------------------------
(***************************************************************************)
(* What the PD member of a cluster hands out while the cluster is created, *)
(* used and deleted: the timestamps of Tso streams (server/member.go, and  *)
(* getTS of server/server.go) and the garbage collection safe point        *)
(* (server/cluster.go).                                                    *)
(*                                                                         *)
(* A stream of Lifecycle on server 0 is a Tso stream, and its requests on  *)
(* server 0 are the unary calls of the member.  A timestamp is the pair    *)
(* <<physical, logical>>.  The clock is whatever time.Now says: it may     *)
(* stand still or be set back.  delivered and told are not in the code:    *)
(* they remember what clients were told.                                   *)
(***************************************************************************)
EXTENDS Lifecycle, FiniteSets

CONSTANTS Clock,       \* readings of the clock, in milliseconds
          SafePoint,   \* safe points that are asked for, 0 included
          MaxLogical   \* bound on the timestamps that are asked for

ASSUME PDAssumption ==
  /\ Clock \subseteq Nat \ {0} /\ SafePoint \subseteq Nat /\ 0 \in SafePoint
  /\ MaxLogical \in Nat

VARIABLES tsMu,       \* the last timestamp: physicalTS and logicalTS
          tso,        \* tso[r]: the request of the Tso stream r serves
          delivered,  \* the largest timestamp a client got
          safePoint,  \* clusterInstance.safePoint
          told        \* the largest safe point a client was told

oracle == <<tsMu, tso, delivered>>
gc == <<safePoint, told>>
pdVars == <<vars, oracle, gc>>

Timestamp == Nat \X Nat

Before(t, u) == t[1] < u[1] \/ (t[1] = u[1] /\ t[2] < u[2])

Later(t, u) == IF Before(t, u) THEN u ELSE t

\* floor: the largest timestamp any client had when the request was sent.
NoRequest == [at |-> "recv", floor |-> <<0, 0>>, ts |-> <<0, 0>>]

PDTypeOK ==
  /\ TypeOK
  /\ tsMu \in Timestamp /\ delivered \in Timestamp
  /\ tso \in [Rpc -> [at : {"recv", "getTS", "send"}, floor : Timestamp, ts : Timestamp]]
  /\ safePoint \in SafePoint /\ told \in SafePoint

PDInit == /\ Init
          /\ tsMu = <<0, 0>> /\ delivered = <<0, 0>>
          /\ tso = [r \in Rpc |-> NoRequest]
          /\ safePoint = 0 /\ told = 0

--------------------------------------------------------------------------------
(* Tso *)

TsoStream(r) == rpc[r] # Nobody /\ rpc[r].kind = "stream" /\ rpc[r].server = 0

Waiting == {r \in Rpc : tso[r].at = "getTS"}

\* stream.Recv returns a request of this cluster.
Recv(r) ==
  /\ TsoStream(r) /\ tso[r].at = "recv"
  /\ tsMu[2] + Cardinality(Waiting) < MaxLogical
  /\ tso' = [tso EXCEPT ![r] = [at |-> "getTS", floor |-> delivered, ts |-> <<0, 0>>]]
  /\ UNCHANGED <<vars, tsMu, delivered, gc>>

\* Mutant: the clock is believed when it was set back.
nextTSResets(now) == IF tsMu[1] = now THEN <<tsMu[1], tsMu[2] + 1>> ELSE <<now, 0>>

\* The timestamp after the last one.
nextTS(now) == IF tsMu[1] >= now THEN <<tsMu[1], tsMu[2] + 1>> ELSE <<now, 0>>

\* Mutant: the oracle belongs to the cluster and takes its lock.
getTSLocked(r) ==
  /\ TsoStream(r) /\ tso[r].at = "getTS" /\ cLock = Nobody
  /\ \E now \in Clock :
       /\ tsMu' = nextTS(now)
       /\ tso' = [tso EXCEPT ![r].at = "send", ![r].ts = nextTS(now)]
  /\ UNCHANGED <<vars, delivered, gc>>

\* The critical section of tsMu; the cluster's lock is not taken.
getTS(r) ==
  /\ TsoStream(r) /\ tso[r].at = "getTS"
  /\ \E now \in Clock :
       /\ tsMu' = nextTS(now)
       /\ tso' = [tso EXCEPT ![r].at = "send", ![r].ts = nextTS(now)]
  /\ UNCHANGED <<vars, delivered, gc>>

\* stream.Send, and the client has it.
Send(r) ==
  /\ TsoStream(r) /\ tso[r].at = "send"
  /\ delivered' = Later(delivered, tso[r].ts)
  /\ tso' = [tso EXCEPT ![r] = NoRequest]
  /\ UNCHANGED <<vars, tsMu, gc>>

\* The client closes the stream, a message of it is lost with it, or
\* validateRequest ends it; a timestamp that was taken is lost.
Close(r) ==
  /\ CloseStream(r) /\ rpc[r].server = 0
  /\ tso' = [tso EXCEPT ![r] = NoRequest]
  /\ UNCHANGED <<tsMu, delivered, gc>>

--------------------------------------------------------------------------------
(* The safe point *)

GetGCSafePoint(r) ==
  /\ Serve(r)
  /\ told' = IF told < safePoint THEN safePoint ELSE told
  /\ UNCHANGED <<oracle, safePoint>>

\* Mutant: the last update wins.
updateSafePointAlways(new) == new

\* clusterInstance.updateSafePoint.
updateSafePoint(new) == IF new > safePoint THEN new ELSE safePoint

\* The reply repeats the safe point of the request.
UpdateGCSafePoint(r, new) ==
  /\ Serve(r)
  /\ safePoint' = updateSafePoint(new)
  /\ told' = IF told < new THEN new ELSE told
  /\ UNCHANGED oracle

--------------------------------------------------------------------------------
PDStep(r) ==
  \/ Recv(r) \/ getTS(r) \/ Send(r) \/ Close(r) \/ GetGCSafePoint(r)
  \/ \E new \in SafePoint : UpdateGCSafePoint(r, new)

\* What Lifecycle does besides: creating and deleting the cluster, admitting
\* requests, and serving those of the stores.
Elsewhere ==
  /\ \/ Create
     \/ \E r \in Rpc, s \in Servers, kind \in Kinds : Arrive(r, s, kind)
     \/ \E r \in Rpc : \/ validateRequest(r) \/ checkRequestContext(r)
                       \/ CloseStream(r) /\ rpc[r].server # 0
     \/ \E a \in Callers : Stop(a)
     \/ \E a \in Api : Delete(a)
  /\ UNCHANGED <<oracle, gc>>

\* The process ends, and with it all streams.
Crash(r) == /\ Panic(r)
            /\ tso' = [q \in Rpc |-> NoRequest]
            /\ UNCHANGED <<tsMu, delivered, gc>>

PDNext == Elsewhere \/ \E r \in Rpc : PDStep(r) \/ Crash(r)

\* The goroutine of a stream runs; nothing is assumed of clients.
PDSpec == /\ PDInit /\ [][PDNext]_pdVars
          /\ \A r \in Rpc : WF_pdVars(getTS(r) \/ Send(r))

--------------------------------------------------------------------------------
(* Properties *)

\* A timestamp is larger than every timestamp any client had when it was asked
\* for, on any stream and whatever the clock does, and no two requests get the
\* same: getTS of server.go.  Snapshot isolation rests on this.
TimestampsAreFresh ==
  \A r \in Rpc : tso[r].at = "send" =>
    /\ Before(tso[r].floor, tso[r].ts)
    /\ \A q \in Rpc \ {r} : tso[q].at = "send" => tso[q].ts # tso[r].ts

\* Whatever safe point a client was told, by GetGCSafePoint or as the new safe
\* point of an update, is not above the one the cluster keeps: nobody collects
\* less garbage than was agreed, however updates are ordered.
SafePointIsKept == told =< safePoint

\* A request on a Tso stream is answered or the stream ends, even while
\* DeleteCluster holds the locks of the server and the cluster and waits for
\* that stream.
TsoAnswered == \A r \in Rpc : tso[r].at # "recv" ~> tso[r].at = "recv"

================================================================================
