-------------------------------- MODULE PDProofs -------------------------------
(***************************************************************************)
(* Proofs about Lifecycle, for any number of stores, requests and          *)
(* concurrent DeleteCluster calls, and about PD: the member composed with  *)
(* the cluster's life does nothing Lifecycle does not allow, its timestamps *)
(* are fresh, and its safe point is kept.                                  *)
(***************************************************************************)
EXTENDS PD, TLAPS

--------------------------------------------------------------------------------
(* The cluster's life *)

\* The call a stops the cluster, or is about to forget it.
Active(a) == del[a].at \in {"locked", "stopping", "waiting", "stopped"}

\* The servers whose GracefulStop the call a has seen return.
Quiet(a) ==
  IF del[a].at = "stopped" THEN Servers
  ELSE IF del[a].at \notin {"stopping", "waiting"} THEN {}
  ELSE IF del[a].server = 0 THEN 1 .. NumStores
  ELSE 1 .. del[a].server - 1

\* No request runs on the server s, nor will one.
Idle(s) == s \in stopping /\ \A r \in Rpc : rpc[r] # Nobody => rpc[r].server # s

Creation == /\ stage \in {"initialized", "opened", "created"} => started = NumStores + 1
            /\ stage = "failed" => started =< NumStores
            /\ listed => stage \in {"created", "crashed"}

\* A call that deletes the cluster has Server's lock, so it is alone.  A
\* CreateCluster that fails stops a cluster nobody else knows, and never comes
\* to the member.
Deletion ==
  /\ \A a \in Api : Active(a) => stage = "created" /\ listed /\ sLock = a
  /\ Active(Creator) => stage = "failed" /\ del[Creator].at # "stopped"
  /\ del[Creator].at \in {"stopping", "waiting"} => del[Creator].server # 0

Draining ==
  \A a \in Callers : /\ del[a].at = "waiting" => del[a].server \in stopping
                     /\ \A s \in Quiet(a) : Idle(s)

\* A request a store admitted after the cluster was listed finds it complete.
Admitted ==
  \A r \in Rpc : rpc[r] # Nobody =>
    rpc[r].server = 0 \/ rpc[r].early \/ (stage = "created" /\ rpc[r].ctx = "none")

\* Nothing runs once the process has ended.
Ended == stage = "crashed" => /\ \A a \in Callers : del[a].at = "done"
                              /\ \A r \in Rpc : rpc[r] = Nobody

IInv == /\ TypeOK /\ Creation /\ Deletion /\ Draining /\ Admitted /\ Ended
        /\ OnlyEarlyPanics /\ StoppedIsQuiet

Progress == [at : {"idle", "locked", "stopping", "waiting", "stopped", "done"},
             server : Servers]

\* The constants, in the form the provers use best.
LEMMA Constants ==
  /\ NumStores \in Nat /\ NumStores # 0 /\ 0 \in Servers
  /\ \A s \in Servers : s \in Nat /\ s =< NumStores
  /\ Creator \in Callers /\ Creator \notin Api /\ Nobody \notin Callers
  /\ \A a \in Api : a \in Callers
  /\ \A a \in Callers : a \in Api \/ a = Creator
  /\ Nobody \notin Request
  /\ \A k \in Kinds : k \in Kind
BY LifecycleAssumption DEF Servers, Callers

LEMMA InitInv == Init => IInv
<1> SUFFICES ASSUME Init PROVE IInv
  OBVIOUS
<1>1. TypeOK
  <2>1. started \in 0 .. NumStores + 1 /\ stopping \subseteq 0 .. started - 1
    BY Constants DEF Init
  <2>2. [at |-> "idle", server |-> 0] \in Progress
    BY Constants DEF Progress
  <2>3. del \in [Callers -> Progress]
    BY <2>2 DEF Init
  <2> QED
    BY <2>1, <2>3 DEF Init, TypeOK, Progress
<1>2. Creation /\ OnlyEarlyPanics /\ StoppedIsQuiet /\ Admitted /\ Ended
  BY Constants DEF Init, Creation, OnlyEarlyPanics, StoppedIsQuiet, Admitted, Ended
<1>3. Deletion /\ Draining
  BY Constants DEF Init, Deletion, Draining, Active, Quiet
<1> QED
  BY <1>1, <1>2, <1>3 DEF IInv

\* What CreateCluster does.
LEMMA CreateInv ==
  ASSUME IInv, Create
  PROVE  IInv'
<1> USE DEF IInv
<1>1. /\ NumStores \in Nat /\ started \in Nat /\ del \in [Callers -> Progress]
      /\ UNCHANGED <<sLock, cLock, stopping, rpc, died>>
  BY Constants DEF TypeOK, Progress, Create, start, startFails, initRegions,
                   NewMVCCLevelDB, Register, deleting
<1>2. stage \notin {"created", "failed", "crashed"} /\ ~ listed
  BY DEF Creation, Create, start, startFails, initRegions, NewMVCCLevelDB, Register
<1>3. \A a \in Callers : ~ Active(a)
  BY <1>2, Constants DEF Deletion
<1>4. del' = del \/ (stage' = "failed" /\ del' = [del EXCEPT ![Creator].at = "locked"])
  BY DEF Create, start, startFails, initRegions, NewMVCCLevelDB, Register, deleting
<1>5. /\ del' \in [Callers -> Progress]
      /\ \A a \in Api : del'[a] = del[a]
      /\ del'[Creator] = del[Creator] \/ (del'[Creator].at = "locked" /\ stage' = "failed")
  <2>1. CASE del' = del
    BY <1>1, <2>1
  <2>2. CASE stage' = "failed" /\ del' = [del EXCEPT ![Creator].at = "locked"]
    BY <1>1, <2>2, Constants DEF Progress
  <2> QED
    BY <1>4, <2>1, <2>2
<1>6. Deletion'
  BY <1>3, <1>5, Constants DEF Deletion, Active
<1>7. Draining'
  <2>1. \A a \in Callers : Quiet(a)' = {} /\ del'[a].at # "waiting"
    BY <1>3, <1>5, Constants DEF Quiet, Active
  <2> QED
    BY <2>1 DEF Draining
<1>8. Admitted' /\ OnlyEarlyPanics'
  BY <1>1, <1>2 DEF Admitted, OnlyEarlyPanics
<1>9. Creation' /\ Ended'
  BY <1>1, <1>2 DEF Creation, Ended, Create, start, startFails, initRegions,
                    NewMVCCLevelDB, Register
<1>10. StoppedIsQuiet'
  <2>1. stage' = "created" => listed'
    BY <1>2 DEF Create, start, startFails, initRegions, NewMVCCLevelDB, Register
  <2>2. stage' = "failed" => del'[Creator].at = "locked"
    BY <1>1, <1>2, Constants
    DEF Progress, Create, start, startFails, initRegions, NewMVCCLevelDB, Register
  <2> QED
    BY <2>1, <2>2 DEF StoppedIsQuiet
<1>11. TypeOK'
  <2>1. started' \in 0 .. NumStores + 1 /\ stopping' \subseteq 0 .. started' - 1
    BY <1>1 DEF TypeOK, Create, start, startFails, initRegions, NewMVCCLevelDB, Register
  <2>2. /\ stage' \in {"starting", "initialized", "opened", "created", "failed", "crashed"}
        /\ listed' \in BOOLEAN
    BY DEF TypeOK, Create, start, startFails, initRegions, NewMVCCLevelDB, Register
  <2> QED
    BY <1>1, <1>5, <2>1, <2>2 DEF TypeOK, Progress
<1> QED
  BY <1>6, <1>7, <1>8, <1>9, <1>10, <1>11

\* A step of requests that were admitted: each goes on, on its server, or ends.
LEMMA GoesOn ==
  ASSUME IInv, UNCHANGED <<started, stage, listed, sLock, cLock, del, stopping, died>>,
         rpc' \in [Rpc -> Request \cup {Nobody}],
         \A q \in Rpc : rpc'[q] # Nobody =>
           /\ rpc[q] # Nobody
           /\ rpc'[q].server = rpc[q].server /\ rpc'[q].early = rpc[q].early
           /\ rpc'[q].ctx = "none" \/ rpc'[q].ctx = rpc[q].ctx \/ stage = "initialized"
  PROVE  IInv'
<1> USE DEF IInv
<1>1. Creation' /\ Deletion' /\ OnlyEarlyPanics'
  BY DEF Creation, Deletion, Active, OnlyEarlyPanics
<1>2. \A s : Idle(s) => Idle(s)'
  BY DEF Idle
<1>3. Draining'
  BY <1>2 DEF Draining, Quiet
<1>4. Admitted' /\ Ended'
  BY DEF Admitted, Ended
<1>5. StoppedIsQuiet'
  BY DEF StoppedIsQuiet
<1>6. TypeOK'
  BY DEF TypeOK
<1> QED
  BY <1>1, <1>3, <1>4, <1>5, <1>6

LEMMA RequestInv ==
  ASSUME IInv, NEW r \in Rpc,
         Serve(r) \/ validateRequest(r) \/ CloseStream(r) \/ checkRequestContext(r)
  PROVE  IInv'
<1>1. /\ UNCHANGED <<started, stage, listed, sLock, cLock, del, stopping, died>>
      /\ rpc[r] # Nobody
  BY DEF Serve, validateRequest, CloseStream, checkRequestContext, Reply, OnStore,
         creating, deleting
<1>2. rpc \in [Rpc -> Request \cup {Nobody}] /\ rpc[r] \in Request
  BY <1>1 DEF IInv, TypeOK
<1>3. \/ rpc' = [rpc EXCEPT ![r] = Nobody]
      \/ rpc' = [rpc EXCEPT ![r] = [rpc[r] EXCEPT !.ctx = "none"]]
      \/ rpc' = [rpc EXCEPT ![r] = [rpc[r] EXCEPT !.ctx = "nil"]] /\ stage = "initialized"
  BY DEF Serve, validateRequest, CloseStream, checkRequestContext, Reply, Prepared, Opened
<1>4. PICK x : /\ rpc' = [rpc EXCEPT ![r] = x]
               /\ \/ x = Nobody
                  \/ x = [rpc[r] EXCEPT !.ctx = "none"]
                  \/ x = [rpc[r] EXCEPT !.ctx = "nil"] /\ stage = "initialized"
  BY <1>3
<1>5. \/ x = Nobody
      \/ /\ x \in Request /\ x.server = rpc[r].server /\ x.early = rpc[r].early
         /\ x.ctx = "none" \/ stage = "initialized"
  BY <1>2, <1>4 DEF Request
<1>6. \A q \in Rpc : rpc'[q] = IF q = r THEN x ELSE rpc[q]
  BY <1>2, <1>4
<1>7. rpc' \in [Rpc -> Request \cup {Nobody}]
  BY <1>2, <1>4, <1>5
<1> QED
  BY <1>1, <1>5, <1>6, <1>7, GoesOn

\* A server that GracefulStop was called for admits no request.
LEMMA ArriveInv ==
  ASSUME IInv, NEW r \in Rpc, NEW s \in Servers, NEW kind \in Kinds, Arrive(r, s, kind)
  PROVE  IInv'
<1> USE DEF IInv
<1> DEFINE x == [server |-> s, kind |-> kind, ctx |-> "none", early |-> s # 0 /\ ~ listed]
<1>1. /\ UNCHANGED <<started, stage, listed, sLock, cLock, del, stopping, died>>
      /\ rpc' = [rpc EXCEPT ![r] = x] /\ s \notin stopping /\ stage # "crashed"
  BY DEF Arrive, creating, deleting
<1>2. /\ x \in Request /\ x.server = s /\ x.ctx = "none"
      /\ x.early = (s # 0 /\ ~ listed)
  BY Constants DEF Request, Servers
<1> HIDE DEF x
<1>3. rpc \in [Rpc -> Request \cup {Nobody}]
  BY DEF TypeOK
<1>4. \A q \in Rpc : rpc'[q] = IF q = r THEN x ELSE rpc[q]
  BY <1>1, <1>3
<1>5. Creation' /\ Deletion' /\ OnlyEarlyPanics'
  BY <1>1 DEF Creation, Deletion, Active, OnlyEarlyPanics
<1>6. \A t : Idle(t) => Idle(t)'
  BY <1>1, <1>2, <1>4 DEF Idle
<1>7. Draining'
  BY <1>1, <1>6 DEF Draining, Quiet
<1>8. listed => stage = "created"
  BY <1>1 DEF Creation
<1>9. Admitted'
  BY <1>1, <1>2, <1>4, <1>8 DEF Admitted
<1>10. Ended'
  BY <1>1 DEF Ended
<1>11. StoppedIsQuiet'
  <2>1. ~ (stage = "created" /\ ~ listed)
    BY <1>1 DEF StoppedIsQuiet
  <2> QED
    BY <1>1, <1>2, <1>4, <2>1 DEF StoppedIsQuiet
<1>12. TypeOK'
  BY <1>1, <1>2, <1>3 DEF TypeOK
<1> QED
  BY <1>5, <1>7, <1>9, <1>10, <1>11, <1>12

\* A handler that panics serves a request a store admitted early.
LEMMA PanicInv ==
  ASSUME IInv, NEW r \in Rpc, Panic(r)
  PROVE  IInv'
<1> USE DEF IInv
<1>1. /\ UNCHANGED <<started, listed, sLock, cLock, stopping>>
      /\ stage' = "crashed" /\ died' = rpc[r] /\ rpc[r] # Nobody
  BY DEF Panic, OnStore
<1>2. rpc' = [q \in Rpc |-> Nobody] /\ \A q \in Rpc : rpc'[q] = Nobody
  BY DEF Panic
<1>3. [at |-> "done", server |-> 0] \in Progress
  BY Constants DEF Progress
<1>4. del' \in [Callers -> Progress] /\ \A a \in Callers : del'[a].at = "done"
  BY <1>3 DEF Panic
<1>5. rpc[r] \in Request
  BY <1>1 DEF TypeOK
<1>6. TypeOK'
  BY <1>1, <1>2, <1>4, <1>5 DEF TypeOK, Progress
<1>7. Creation' /\ Ended' /\ StoppedIsQuiet'
  BY <1>1, <1>2, <1>4 DEF Creation, Ended, StoppedIsQuiet
<1>8. Deletion' /\ Draining'
  BY <1>4, Constants DEF Deletion, Draining, Active, Quiet
<1>9. Admitted'
  BY <1>2 DEF Admitted
<1>10. OnlyEarlyPanics'
  <2>1. rpc[r].server # 0 /\ ~ (stage = "created" /\ rpc[r].ctx = "none")
    BY DEF Panic, OnStore, Prepared
  <2>2. rpc[r].early
    BY <1>1, <2>1 DEF Admitted
  <2> QED
    BY <1>1, <2>2 DEF OnlyEarlyPanics
<1> QED
  BY <1>6, <1>7, <1>8, <1>9, <1>10

\* One step of stopping the cluster.  The call is the only active one, so what
\* is left to show is about its own progress.
LEMMA StopStep ==
  ASSUME IInv, NEW a \in Callers, Active(a), NEW p \in Progress,
         UNCHANGED <<started, stage, listed, sLock, rpc, died>>,
         del' = [del EXCEPT ![a] = p],
         stopping \subseteq stopping', stopping' \subseteq 0 .. started - 1,
         cLock' \in Callers \cup {Nobody},
         p.at \in {"stopping", "waiting", "stopped"} \/ (a = Creator /\ p.at = "done"),
         a = Creator => p.at # "stopped" /\ p.server # 0,
         p.at = "waiting" => p.server \in stopping',
         \A s \in Quiet(a)' : Idle(s)',
         p.at = "done" => \A s \in 1 .. started - 1 : Idle(s)'
  PROVE  IInv'
<1> USE DEF IInv
<1>1. /\ del \in [Callers -> Progress] /\ del' \in [Callers -> Progress]
      /\ del'[a] = p /\ \A b \in Callers : b # a => del'[b] = del[b]
  BY DEF TypeOK, Progress
<1>2. IF a = Creator THEN stage = "failed" ELSE stage = "created" /\ listed /\ sLock = a
  BY Constants DEF Deletion
<1>3. \A b \in Callers : b # a => ~ Active(b)
  BY <1>2, Constants DEF Deletion
<1>4. Creation' /\ Admitted' /\ Ended' /\ OnlyEarlyPanics'
  BY <1>2 DEF Creation, Admitted, Ended, OnlyEarlyPanics
<1>5. Deletion'
  BY <1>1, <1>2, <1>3, Constants DEF Deletion, Active
<1>6. Draining'
  <2>1. \A b \in Callers : b # a => Quiet(b)' = {} /\ del'[b].at # "waiting"
    BY <1>1, <1>3 DEF Quiet, Active
  <2> QED
    BY <1>1, <2>1 DEF Draining
<1>7. StoppedIsQuiet'
  <2>1. CASE a = Creator
    BY <1>1, <1>2, <2>1 DEF StoppedIsQuiet, Idle
  <2>2. CASE a # Creator
    BY <1>2, <2>2 DEF StoppedIsQuiet
  <2> QED
    BY <2>1, <2>2
<1>8. TypeOK'
  BY <1>1 DEF TypeOK, Progress
<1> QED
  BY <1>4, <1>5, <1>6, <1>7, <1>8

LEMMA StopInv ==
  ASSUME IInv, NEW a \in Callers, Stop(a)
  PROVE  IInv'
<1> USE DEF IInv
<1> DEFINE s == del[a].server
<1>1. /\ del \in [Callers -> Progress] /\ del[a] \in Progress
      /\ NumStores \in Nat /\ NumStores # 0 /\ started \in Nat
      /\ stopping \subseteq 0 .. started - 1
      /\ UNCHANGED <<started, stage, listed, sLock, rpc, died>>
  BY Constants DEF TypeOK, Progress, Stop, stop, GracefulStop, stopPanics, Drained, creating
<1>2. Active(a) /\ s \in Nat /\ s =< NumStores
  BY <1>1, Constants DEF Active, Stop, stop, GracefulStop, stopPanics, Drained, Progress
<1>3. /\ a = Creator => started =< NumStores /\ (del[a].at # "locked" => s # 0)
      /\ a # Creator => started = NumStores + 1
  BY <1>2, Constants DEF Deletion, Creation, Active
<1>4. \A t \in Quiet(a) : Idle(t)
  BY DEF Draining
<1>5. \A t : Idle(t) /\ stopping \subseteq stopping' => Idle(t)'
  BY <1>1 DEF Idle
<1>6. CASE stop(a)
  <2> DEFINE p == [at |-> "stopping", server |-> 1]
  <2>1. del' = [del EXCEPT ![a] = p] /\ cLock' = a /\ UNCHANGED stopping
    BY <1>6 DEF stop
  <2>2. p \in Progress /\ p.at = "stopping" /\ p.server = 1
    BY <1>1 DEF Progress, Servers
  <2> HIDE DEF p
  <2>3. del'[a] = p
    BY <1>1, <2>1
  <2>4. Quiet(a)' = {}
    BY <2>2, <2>3 DEF Quiet
  <2>5. cLock' \in Callers \cup {Nobody} /\ p.server # 0 /\ p.at # "stopped" /\ p.at # "done"
    BY <2>1, <2>2
  <2>6. /\ stopping \subseteq stopping' /\ stopping' \subseteq 0 .. started - 1
        /\ \A t \in Quiet(a)' : Idle(t)'
    BY <1>1, <2>1, <2>4
  <2> HIDE DEF IInv
  <2> QED
    BY <1>1, <1>2, <2>1, <2>2, <2>5, <2>6, StopStep
<1>7. CASE GracefulStop(a)
  <2> DEFINE p == [del[a] EXCEPT !.at = "waiting"]
  <2>1. /\ del[a].at = "stopping" /\ s < started /\ stopping' = stopping \cup {s}
        /\ del' = [del EXCEPT ![a] = p] /\ UNCHANGED cLock
    BY <1>1, <1>7 DEF GracefulStop
  <2>2. p \in Progress /\ p.at = "waiting" /\ p.server = s
    BY <1>1 DEF Progress
  <2> HIDE DEF p
  <2>3. del'[a] = p
    BY <1>1, <2>1
  <2>4. Quiet(a)' = Quiet(a)
    BY <2>1, <2>2, <2>3 DEF Quiet
  <2>5. stopping' \subseteq 0 .. started - 1
    <3>1. started \in Nat /\ s \in Nat /\ s < started
      BY <1>1, <1>2, <2>1
    <3>2. s \in 0 .. started - 1
      BY <3>1
    <3> QED
      BY <1>1, <2>1, <3>2, Zenon
  <2>6. cLock' \in Callers \cup {Nobody}
    BY <2>1 DEF TypeOK
  <2>7. /\ stopping \subseteq stopping' /\ p.server \in stopping' /\ p.at # "done"
        /\ a = Creator => p.at # "stopped" /\ p.server # 0
    BY <1>3, <2>1, <2>2
  <2>8. \A t \in Quiet(a)' : Idle(t)'
    BY <1>4, <1>5, <2>4, <2>7
  <2> HIDE DEF IInv
  <2> QED
    BY <1>1, <1>2, <2>1, <2>2, <2>5, <2>6, <2>7, <2>8, StopStep
<1>8. CASE stopPanics(a)
  <2> DEFINE p == [del[a] EXCEPT !.at = "done"]
  <2>1. /\ del[a].at = "stopping" /\ s >= started /\ UNCHANGED stopping
        /\ del' = [del EXCEPT ![a] = p] /\ cLock' = Nobody
    BY <1>1, <1>8 DEF stopPanics
  <2>2. p \in Progress /\ p.at = "done" /\ p.server = s
    BY <1>1 DEF Progress
  <2> HIDE DEF p
  <2>3. del'[a] = p
    BY <1>1, <2>1
  <2>4. a = Creator /\ s # 0
    BY <1>1, <1>2, <1>3, <2>1
  <2>5. Quiet(a)' = {}
    BY <2>2, <2>3 DEF Quiet
  <2>6. \A t \in 1 .. started - 1 : t \in Quiet(a)
    BY <1>1, <1>2, <2>1, <2>4 DEF Quiet
  <2>7. \A t \in 1 .. started - 1 : Idle(t)'
    BY <1>4, <1>5, <2>1, <2>6
  <2> QED
    BY <1>1, <1>2, <2>1, <2>2, <2>4, <2>5, <2>7, StopStep
<1>9. CASE Drained(a)
  <2>1. /\ del[a].at = "waiting" /\ s \in stopping /\ UNCHANGED stopping
        /\ \A r \in Rpc : rpc[r] # Nobody => rpc[r].server # s
    BY <1>9 DEF Drained, Draining
  <2>2. \A t \in Quiet(a) \cup {s} : Idle(t)'
    BY <1>1, <1>4, <1>5, <2>1 DEF Idle
  <2>3. CASE s = 0
    <3> DEFINE p == [del[a] EXCEPT !.at = "stopped"]
    <3>1. del' = [del EXCEPT ![a] = p] /\ cLock' = Nobody
      BY <1>1, <1>9, <2>3 DEF Drained
    <3>2. p \in Progress /\ p.at = "stopped"
      BY <1>1 DEF Progress
    <3> HIDE DEF p
    <3>3. del'[a] = p
      BY <1>1, <3>1
    <3>4. \A t \in Quiet(a)' : t \in Quiet(a) \cup {s}
      BY <1>1, <2>1, <2>3, <3>2, <3>3 DEF Quiet, Servers
    <3>5. a # Creator
      BY <1>3, <2>1, <2>3
    <3> QED
      BY <1>1, <1>2, <2>1, <2>2, <3>1, <3>2, <3>4, <3>5, StopStep
  <2>4. CASE s # 0
    <3> DEFINE p == [at |-> "stopping", server |-> After(a)]
    <3>1. del' = [del EXCEPT ![a] = p] /\ UNCHANGED cLock
      BY <1>9, <2>4 DEF Drained
    <3>2. After(a) \in Servers /\ After(a) = IF s = NumStores THEN 0 ELSE s + 1
      BY <1>1, <1>2 DEF After, Servers
    <3>3. p \in Progress /\ p.at = "stopping" /\ p.server = After(a)
      BY <3>2 DEF Progress
    <3> HIDE DEF p
    <3>4. del'[a] = p
      BY <1>1, <3>1
    <3>5. \A t \in Quiet(a)' : t \in Quiet(a) \cup {s}
      BY <1>1, <1>2, <2>1, <2>4, <3>2, <3>3, <3>4 DEF Quiet
    <3>6. a = Creator => p.server # 0
      BY <1>1, <1>2, <1>3, <2>1, <3>2, <3>3
    <3>7. cLock' \in Callers \cup {Nobody}
      BY <3>1 DEF TypeOK
    <3> QED
      BY <1>1, <1>2, <2>1, <2>2, <3>1, <3>3, <3>5, <3>6, <3>7, StopStep
  <2> QED
    BY <2>3, <2>4
<1> QED
  BY <1>6, <1>7, <1>8, <1>9 DEF Stop

\* A call takes Server's lock and finds the cluster, or forgets it.
LEMMA DeleteInv ==
  ASSUME IInv, NEW a \in Api, Delete(a)
  PROVE  IInv'
<1> USE DEF IInv
<1>1. /\ del \in [Callers -> Progress] /\ del[a] \in Progress
      /\ a \in Callers /\ a # Creator
      /\ UNCHANGED <<started, stage, rpc, cLock, stopping, died>>
  BY Constants DEF TypeOK, Progress, Delete, doDeleteCluster, Forget, creating
<1>2. stage # "crashed"
  BY <1>1 DEF Ended, Delete, doDeleteCluster, Forget
<1>3. \A s : Idle(s)' <=> Idle(s)
  BY <1>1 DEF Idle
<1>4. Admitted' /\ Ended' /\ OnlyEarlyPanics'
  BY <1>1, <1>2 DEF Admitted, Ended, OnlyEarlyPanics
<1>5. CASE doDeleteCluster(a)
  <2>1. /\ sLock = Nobody /\ UNCHANGED listed
        /\ \A b \in Callers : b # a => del'[b] = del[b]
        /\ del'[a].at = (IF listed THEN "locked" ELSE "done")
        /\ sLock' = (IF listed THEN a ELSE sLock)
        /\ del' \in [Callers -> Progress]
    BY <1>1, <1>5 DEF doDeleteCluster, Progress
  <2>2. \A b \in Api : ~ Active(b)
    BY <2>1, Constants DEF Deletion
  <2>3. listed => stage = "created"
    BY <1>2 DEF Creation
  <2>4. Deletion'
    BY <1>1, <2>1, <2>2, <2>3, Constants DEF Deletion, Active
  <2>5. Draining'
    <3>1. ASSUME NEW b \in Callers, b # a
          PROVE  Quiet(b)' = Quiet(b) /\ del'[b] = del[b]
      BY <2>1, <3>1 DEF Quiet
    <3>2. Quiet(a)' = {} /\ del'[a].at # "waiting"
      BY <2>1 DEF Quiet
    <3> QED
      BY <1>1, <1>3, <3>1, <3>2 DEF Draining
  <2>6. TypeOK'
    BY <1>1, <2>1 DEF TypeOK, Progress
  <2>7. Creation' /\ StoppedIsQuiet'
    BY <1>1, <2>1, Constants DEF Creation, StoppedIsQuiet
  <2> QED
    BY <1>4, <2>4, <2>5, <2>6, <2>7
<1>6. CASE Forget(a)
  <2>1. /\ del[a].at = "stopped" /\ ~ listed' /\ sLock' = Nobody
        /\ \A b \in Callers : b # a => del'[b] = del[b]
        /\ del'[a].at = "done" /\ del' \in [Callers -> Progress]
    BY <1>1, <1>6 DEF Forget, Progress
  <2>2. stage = "created" /\ started = NumStores + 1 /\ \A b \in Callers : b # a => ~ Active(b)
    BY <2>1, Constants DEF Deletion, Creation, Active
  <2>3. \A s \in Servers : Idle(s)
    BY <1>1, <2>1 DEF Draining, Quiet
  <2>4. stopping = Servers
    <3>1. stopping \subseteq 0 .. started - 1 /\ started - 1 = NumStores
      BY <2>2, Constants DEF TypeOK
    <3> QED
      BY <2>3, <3>1 DEF Servers, Idle
  <2>5. \A r \in Rpc : rpc[r] = Nobody
    <3>1. \A r \in Rpc : rpc[r] # Nobody => rpc[r].server \in Servers
      BY DEF TypeOK, Request, Servers
    <3> QED
      BY <2>3, <3>1 DEF Idle
  <2>6. StoppedIsQuiet'
    BY <1>1, <2>2, <2>4, <2>5 DEF StoppedIsQuiet, Servers
  <2>7. Deletion'
    BY <1>1, <2>1, <2>2, Constants DEF Deletion, Active
  <2>8. Draining'
    <3>1. \A b \in Callers : Quiet(b)' = {} /\ del'[b].at # "waiting"
      BY <2>1, <2>2 DEF Quiet, Active
    <3> QED
      BY <3>1 DEF Draining
  <2>9. TypeOK'
    <3>1. listed' \in BOOLEAN
      BY <1>6 DEF Forget
    <3> QED
      BY <1>1, <2>1, <3>1 DEF TypeOK, Progress
  <2> QED
    BY <1>1, <1>4, <2>1, <2>2, <2>6, <2>7, <2>8, <2>9 DEF Creation
<1> QED
  BY <1>5, <1>6 DEF Delete

LEMMA NextInv == IInv /\ [Next]_vars => IInv'
<1> SUFFICES ASSUME IInv, [Next]_vars PROVE IInv'
  OBVIOUS
<1>1. CASE UNCHANGED vars
  <2>1. UNCHANGED <<started, stage, listed, sLock, cLock, del, stopping, rpc, died>>
    BY <1>1 DEF vars, creating, deleting
  <2> QED
    BY <2>1, GoesOn DEF IInv, TypeOK
<1> QED
  BY <1>1, CreateInv, ArriveInv, RequestInv, PanicInv, StopInv, DeleteInv DEF Next

\* The servers, the calls and the requests keep their types.
THEOREM TypeCorrect == Spec => []TypeOK
<1>1. IInv => TypeOK
  BY DEF IInv
<1> QED
  BY <1>1, InitInv, NextInv, PTL DEF Spec

\* A handler reads the id of a nil leader or calls a nil database only for a
\* request that a store admitted before CreateCluster had listed the cluster:
\* one that came later finds the cluster complete, for any number of stores,
\* requests and calls, and for as long as the process lives.
THEOREM ListedClustersDoNotPanic == Spec => []OnlyEarlyPanics
<1>1. IInv => OnlyEarlyPanics
  BY DEF IInv
<1> QED
  BY <1>1, InitInv, NextInv, PTL DEF Spec

\* When DeleteCluster has removed a cluster, all of its servers have stopped
\* and no request is running, however many calls and requests raced.  A
\* CreateCluster that failed leaves no store serving.
THEOREM StopIsComplete == Spec => []StoppedIsQuiet
<1>1. IInv => StoppedIsQuiet
  BY DEF IInv
<1> QED
  BY <1>1, InitInv, NextInv, PTL DEF Spec

--------------------------------------------------------------------------------
(* The PD member *)

Pending == [at : {"recv", "getTS", "send"}, floor : Timestamp, ts : Timestamp]

OracleType == /\ tsMu \in Timestamp /\ delivered \in Timestamp
              /\ tso \in [Rpc -> Pending]

GCType == safePoint \in SafePoint /\ told \in SafePoint

\* t is the last timestamp, or older.
Issued(t) == ~ Before(tsMu, t)

\* Every timestamp anybody knows was issued.  So a new one, which is after the
\* last, is fresh.
OracleInv ==
  /\ OracleType /\ Issued(delivered)
  /\ \A r \in Rpc : Issued(tso[r].floor) /\ Issued(tso[r].ts)
  /\ TimestampsAreFresh

\* The order of timestamps is a strict total order.
LEMMA Order ==
  /\ \A t, u, v \in Timestamp : Before(t, u) /\ ~ Before(v, u) => Before(t, v)
  /\ \A t, u, v \in Timestamp : ~ Before(u, t) /\ Before(u, v) => Before(t, v)
  /\ \A t \in Timestamp : ~ Before(t, t)
  /\ \A t, u \in Timestamp : Before(t, u) => ~ Before(u, t)
  /\ <<0, 0>> \in Timestamp /\ \A t \in Timestamp : ~ Before(t, <<0, 0>>)
BY DEF Timestamp, Before

LEMMA NoRequestType == NoRequest \in Pending /\ NoRequest.at = "recv"
                       /\ NoRequest.floor = <<0, 0>> /\ NoRequest.ts = <<0, 0>>
BY Order DEF NoRequest, Pending

\* Whatever the clock says, the next timestamp is after the last.
LEMMA NextTimestamp ==
  ASSUME tsMu \in Timestamp, NEW now \in Clock
  PROVE  nextTS(now) \in Timestamp /\ Before(tsMu, nextTS(now))
<1>1. now \in Nat
  BY PDAssumption
<1>2. tsMu[1] \in Nat /\ tsMu[2] \in Nat /\ tsMu = <<tsMu[1], tsMu[2]>>
  BY DEF Timestamp
<1> QED
  BY <1>1, <1>2 DEF nextTS, Timestamp, Before

--------------------------------------------------------------------------------

\* The steps of the composition are steps of Lifecycle or leave it alone.
LEMMA StepIsLifecycle == [PDNext]_pdVars => [Next]_vars
<1>1. ASSUME NEW r \in Rpc, PDStep(r)
      PROVE  [Next]_vars
  BY <1>1, SMTT(30) DEF PDStep, Recv, getTS, Send, Close, GetGCSafePoint, UpdateGCSafePoint, Next
<1>2. Elsewhere => [Next]_vars
  BY DEF Elsewhere, Next
<1>3. ASSUME NEW r \in Rpc, Crash(r)
      PROVE  [Next]_vars
  BY <1>3 DEF Crash, Next
<1>4. UNCHANGED pdVars => UNCHANGED vars
  BY DEF pdVars
<1> QED
  BY <1>1, <1>2, <1>3, <1>4 DEF PDNext

\* Serving timestamps and safe points adds nothing to the life of a cluster,
\* so what is proved of Lifecycle holds with it.
THEOREM ServesWithinLifecycle == PDSpec => Spec
<1>1. PDInit => Init
  BY DEF PDInit
<1> QED
  BY <1>1, StepIsLifecycle, PTL DEF PDSpec, Spec

--------------------------------------------------------------------------------

LEMMA InitOracle == PDInit => OracleInv
BY Order, NoRequestType DEF PDInit, OracleInv, OracleType, Issued, TimestampsAreFresh

\* A step that forgets a request, or does not touch the oracle.
LEMMA ForgetsRequest ==
  ASSUME OracleInv, NEW r \in Rpc, UNCHANGED tsMu,
         tso' = [tso EXCEPT ![r] = NoRequest],
         delivered' \in Timestamp, Issued(delivered')
  PROVE  OracleInv'
<1>1. tsMu \in Timestamp /\ tso \in [Rpc -> Pending]
  BY DEF OracleInv, OracleType
<1>2. /\ tso' \in [Rpc -> Pending]
      /\ \A q \in Rpc : tso'[q] = IF q = r THEN NoRequest ELSE tso[q]
  BY <1>1, NoRequestType
<1>3. OracleType' /\ Issued(delivered)'
  BY <1>1, <1>2 DEF OracleType, Issued
<1>4. \A q \in Rpc : Issued(tso[q].floor)' /\ Issued(tso[q].ts)'
  BY <1>1, <1>2, NoRequestType, Order DEF OracleInv, Issued
<1>5. TimestampsAreFresh'
  BY <1>2, NoRequestType, SMTT(30) DEF OracleInv, TimestampsAreFresh
<1> QED
  BY <1>3, <1>4, <1>5 DEF OracleInv

LEMMA NextOracle == OracleInv /\ [PDNext]_pdVars => OracleInv'
<1> SUFFICES ASSUME OracleInv, [PDNext]_pdVars PROVE OracleInv'
  OBVIOUS
<1>1. /\ tsMu \in Timestamp /\ delivered \in Timestamp /\ tso \in [Rpc -> Pending]
      /\ Issued(delivered)
      /\ \A q \in Rpc : Issued(tso[q].floor) /\ Issued(tso[q].ts)
  BY DEF OracleInv, OracleType
<1>2. ASSUME UNCHANGED oracle
      PROVE  OracleInv'
  BY <1>2 DEF oracle, OracleInv, OracleType, Issued, TimestampsAreFresh
<1>3. ASSUME NEW r \in Rpc, Recv(r)
      PROVE  OracleInv'
  <2> DEFINE q == [at |-> "getTS", floor |-> delivered, ts |-> <<0, 0>>]
  <2>1. UNCHANGED <<tsMu, delivered>> /\ tso' = [tso EXCEPT ![r] = q]
    BY <1>3 DEF Recv
  <2>2. q \in Pending /\ q.at = "getTS" /\ q.floor = delivered /\ q.ts = <<0, 0>>
    BY <1>1, Order DEF Pending
  <2> HIDE DEF q
  <2>3. /\ tso' \in [Rpc -> Pending]
        /\ \A p \in Rpc : tso'[p] = IF p = r THEN q ELSE tso[p]
    BY <1>1, <2>1, <2>2
  <2>4. \A p \in Rpc : Issued(tso[p].floor)' /\ Issued(tso[p].ts)'
    BY <1>1, <2>1, <2>2, <2>3, Order DEF Issued
  <2>5. TimestampsAreFresh'
    BY <2>2, <2>3 DEF OracleInv, TimestampsAreFresh
  <2> QED
    BY <1>1, <2>1, <2>3, <2>4, <2>5 DEF OracleInv, OracleType, Issued
<1>4. ASSUME NEW r \in Rpc, getTS(r)
      PROVE  OracleInv'
  <2>1. PICK now \in Clock : /\ tsMu' = nextTS(now)
                             /\ tso' = [tso EXCEPT ![r].at = "send", ![r].ts = nextTS(now)]
    BY <1>4 DEF getTS
  <2>2. tsMu' \in Timestamp /\ Before(tsMu, tsMu') /\ UNCHANGED delivered
    BY <1>1, <1>4, <2>1, NextTimestamp DEF getTS
  <2>3. /\ tso' \in [Rpc -> Pending]
        /\ \A p \in Rpc : p # r => tso'[p] = tso[p]
        /\ tso'[r].at = "send" /\ tso'[r].floor = tso[r].floor /\ tso'[r].ts = tsMu'
    BY <1>1, <2>1, <2>2 DEF Pending
  <2>4. \A t \in Timestamp : Issued(t) => Before(t, tsMu')
    BY <1>1, <2>2, Order DEF Issued
  <2>5. \A p \in Rpc : tso[p].floor \in Timestamp /\ tso[p].ts \in Timestamp
    BY <1>1 DEF Pending
  <2>6. /\ Before(delivered, tsMu')
        /\ \A p \in Rpc : Before(tso[p].floor, tsMu') /\ Before(tso[p].ts, tsMu')
    BY <1>1, <2>4, <2>5
  <2>7. Issued(delivered)' /\ \A p \in Rpc : Issued(tso[p].floor)' /\ Issued(tso[p].ts)'
    <3>1. /\ ~ Before(tsMu', delivered) /\ ~ Before(tsMu', tsMu')
          /\ \A p \in Rpc : ~ Before(tsMu', tso[p].floor) /\ ~ Before(tsMu', tso[p].ts)
      BY <1>1, <2>2, <2>5, <2>6, Order
    <3>2. ASSUME NEW p \in Rpc
          PROVE  ~ Before(tsMu', tso'[p].floor) /\ ~ Before(tsMu', tso'[p].ts)
      BY <2>3, <3>1
    <3> QED
      BY <2>2, <3>1, <3>2 DEF Issued
  <2>8. TimestampsAreFresh'
    <3>1. \A p \in Rpc : tso[p].ts # tsMu'
      BY <2>2, <2>6, Order
    <3> QED
      BY <2>3, <2>6, <3>1 DEF OracleInv, TimestampsAreFresh
  <2> QED
    BY <1>1, <2>2, <2>3, <2>7, <2>8 DEF OracleInv, OracleType
<1>5. ASSUME NEW r \in Rpc, Send(r)
      PROVE  OracleInv'
  <2>1. tso[r].ts \in Timestamp
    BY <1>1 DEF Pending
  <2>2. delivered' = delivered \/ delivered' = tso[r].ts
    BY <1>5 DEF Send, Later
  <2>3. delivered' \in Timestamp /\ Issued(delivered')
    BY <1>1, <2>1, <2>2
  <2> QED
    BY <1>5, <2>3, ForgetsRequest DEF Send
<1>6. ASSUME NEW r \in Rpc, Close(r)
      PROVE  OracleInv'
  BY <1>1, <1>6, ForgetsRequest DEF Close
<1>7. ASSUME NEW r \in Rpc, GetGCSafePoint(r) \/ \E new \in SafePoint : UpdateGCSafePoint(r, new)
      PROVE  OracleInv'
  BY <1>2, <1>7 DEF GetGCSafePoint, UpdateGCSafePoint
<1>8. ASSUME NEW r \in Rpc, Crash(r)
      PROVE  OracleInv'
  <2>1. UNCHANGED <<tsMu, delivered>> /\ tso' = [q \in Rpc |-> NoRequest]
    BY <1>8 DEF Crash
  <2>2. tso' \in [Rpc -> Pending] /\ \A q \in Rpc : tso'[q] = NoRequest
    BY <2>1, NoRequestType
  <2>3. \A q \in Rpc : Issued(tso[q].floor)' /\ Issued(tso[q].ts)'
    BY <1>1, <2>1, <2>2, NoRequestType, Order DEF Issued
  <2>4. TimestampsAreFresh'
    BY <2>2, NoRequestType DEF TimestampsAreFresh
  <2> QED
    BY <1>1, <2>1, <2>2, <2>3, <2>4 DEF OracleInv, OracleType, Issued
<1> QED
  BY <1>2, <1>3, <1>4, <1>5, <1>6, <1>7, <1>8 DEF PDNext, PDStep, Elsewhere, pdVars

\* Every timestamp is larger than any a client had when it was asked for, for
\* any number of streams and whatever the clock does.
THEOREM FreshTimestamps == PDSpec => []TimestampsAreFresh
<1>1. OracleInv => TimestampsAreFresh
  BY DEF OracleInv
<1> QED
  BY <1>1, InitOracle, NextOracle, PTL DEF PDSpec

--------------------------------------------------------------------------------

GCInv == GCType /\ SafePointIsKept

\* However updates race with reads and with each other, the safe point is one
\* of the values it was set to and not below one a client was told.
LEMMA GCInvariant == PDSpec => []GCInv
<1>1. PDInit => GCInv
  BY PDAssumption, SMTT(30) DEF PDInit, GCInv, GCType, SafePointIsKept
<1>2. GCInv /\ [PDNext]_pdVars => GCInv'
  <2> SUFFICES ASSUME GCInv, [PDNext]_pdVars PROVE GCInv'
    OBVIOUS
  <2>1. /\ safePoint \in SafePoint /\ told \in SafePoint /\ told =< safePoint
        /\ \A p \in SafePoint : p \in Nat
    BY PDAssumption DEF GCInv, GCType, SafePointIsKept
  <2>2. ASSUME UNCHANGED gc
        PROVE  GCInv'
    BY <2>2 DEF gc, GCInv, GCType, SafePointIsKept
  <2>3. ASSUME NEW r \in Rpc, GetGCSafePoint(r)
        PROVE  GCInv'
    BY <2>1, <2>3 DEF GetGCSafePoint, GCInv, GCType, SafePointIsKept
  <2>4. ASSUME NEW r \in Rpc, NEW new \in SafePoint, UpdateGCSafePoint(r, new)
        PROVE  GCInv'
    BY <2>1, <2>4 DEF UpdateGCSafePoint, updateSafePoint, GCInv, GCType, SafePointIsKept
  <2>5. ASSUME NEW r \in Rpc, Recv(r) \/ getTS(r) \/ Send(r) \/ Close(r) \/ Crash(r)
        PROVE  GCInv'
    BY <2>2, <2>5 DEF Recv, getTS, Send, Close, Crash
  <2> QED
    BY <2>2, <2>3, <2>4, <2>5 DEF PDNext, PDStep, Elsewhere, pdVars
<1> QED
  BY <1>1, <1>2, PTL DEF PDSpec

\* The safe point never falls below one a client was told, however updates
\* race with reads and with each other.
THEOREM SafePointNeverReturns == PDSpec => []SafePointIsKept
<1>1. GCInv => SafePointIsKept
  BY DEF GCInv
<1> QED
  BY <1>1, GCInvariant, PTL

\* The timestamps and safe points PD keeps and hands out are well formed, and so
\* is the life of the cluster under it.
THEOREM ServerTypeCorrect == PDSpec => []PDTypeOK
<1>1. PDSpec => []OracleInv
  BY InitOracle, NextOracle, PTL DEF PDSpec
<1>2. TypeOK /\ OracleInv /\ GCInv => PDTypeOK
  BY Zenon DEF OracleInv, GCInv, OracleType, Pending, GCType, PDTypeOK
<1> QED
  BY <1>1, <1>2, GCInvariant, TypeCorrect, ServesWithinLifecycle, PTL

================================================================================
