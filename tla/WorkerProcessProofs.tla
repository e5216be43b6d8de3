------------------------- MODULE WorkerProcessProofs -------------------------
(***************************************************************************)
(* Proofs about the worker Processes of a generation, for any sets of       *)
(* namespaces and requests and any numbers of Processes, starts and         *)
(* teardowns.                                                               *)
(*                                                                          *)
(* RunInv is about one Process: which of its starts may have a goroutine,   *)
(* and what Running says about the last one.  CleanInv is about the         *)
(* teardown: why the snapshot that WaitAll takes is still complete when     *)
(* WaitAll returns.                                                         *)
(***************************************************************************)
EXTENDS WorkerProcess, TLAPS

-----------------------------------------------------------------------------
(* Type correctness                                                        *)

\* TypeOK with what it needs to be inductive: a thread has a namespace before
\* it has a Process, and a Process before it starts or awaits it.
TypeInv ==
    /\ TypeOK
    /\ \A t \in Thread : /\ pc[t] \in {"get", "add"} => ns[t] \in Namespace
                         /\ pc[t] \in {"start", "await"} => proc[t] # 0

\* The starts of a Process: all but the last have ended, none is ahead of the
\* counter, and Running says whether the last one is live and not cancelled.
RunInv ==
    \A p \in Proc :
        /\ \A s \in Start1 :
              /\ s < generation[p] => run[p][s] = "ended"
              /\ s > generation[p] => run[p][s] = "none" /\ ~cancelled[p][s]
        /\ running[p] <=> /\ generation[p] # 0
                          /\ Live(p, generation[p]) /\ ~cancelled[p][generation[p]]

\* A teardown without errors: nobody is left who could start a worker or
\* replace an entry of the store, and WaitAll has the start of every Process
\* that is stored.
CleanInv ==
    /\ teardown # "no" => pc["boot"] = "idle" /\ toStart = {}
    /\ teardown \in {"draining", "waiting", "clean"} => ~accepting
    /\ (teardown = "clean" \/ (teardown = "waiting" /\ ~failed)) =>
          \A t \in Thread : pc[t] = "idle"
    /\ (teardown = "waiting" /\ ~failed) =>
          \A p \in Stored : generation[p] # 0 => <<p, generation[p]>> \in waitFor
    /\ teardown = "clean" => \A p \in Stored : Stopped(p)

\* The Processes of the store have been made.
LEMMA StoredProc == TypeOK => Stored \subseteq Proc
  BY WorkerAssumption DEF TypeOK, Stored, Range, Proc

\* Replacing one value of a function of functions keeps its type.
LEMMA SetAt2 ==
    ASSUME NEW S, NEW T, NEW U, NEW f \in [S -> [T -> U]], NEW x, NEW y, NEW v \in U
    PROVE  [f EXCEPT ![x][y] = v] \in [S -> [T -> U]]
<1>1. \A z \in S : f[z] \in [T -> U] /\ [f[z] EXCEPT ![y] = v] \in [T -> U]
  OBVIOUS
<1> QED
  BY <1>1

\* Process.Stop keeps the types.
LEMMA StopType ==
    ASSUME TypeOK, NEW p, Stop(p)
    PROVE  running' \in [Proc -> BOOLEAN] /\ cancelled' \in [Proc -> [Start1 -> BOOLEAN]]
<1>1. running' = running \/ running' = [running EXCEPT ![p] = FALSE]
  BY DEF Stop
<1>2. cancelled' = cancelled \/ cancelled' = [cancelled EXCEPT ![p][generation[p]] = TRUE]
  BY DEF Stop
<1>3. running' \in [Proc -> BOOLEAN]
  BY <1>1 DEF TypeOK
<1>4. cancelled' \in [Proc -> [Start1 -> BOOLEAN]]
  <2>1. cancelled \in [Proc -> [Start1 -> BOOLEAN]] /\ TRUE \in BOOLEAN
    BY DEF TypeOK
  <2>2. [cancelled EXCEPT ![p][generation[p]] = TRUE] \in [Proc -> [Start1 -> BOOLEAN]]
    BY <2>1, SetAt2
  <2> QED
    BY <1>2, <2>1, <2>2
<1> QED
  BY <1>3, <1>4

\* Process.Stop keeps RunInv: the start it cancels is the one Running is about.
LEMMA StopRun ==
    ASSUME TypeOK, RunInv, NEW p \in 0 .. MaxProcs, Stop(p), UNCHANGED <<generation, run>>
    PROVE  RunInv'
<1>1. CASE p # 0 /\ running[p]
  <2>1. p \in Proc /\ generation[p] \in Start1
    BY <1>1, WorkerAssumption DEF RunInv, Proc, Start1, TypeOK
  <2>2. /\ running' = [running EXCEPT ![p] = FALSE]
        /\ cancelled' = [cancelled EXCEPT ![p][generation[p]] = TRUE]
    BY <1>1 DEF Stop
  <2>3. \A q \in Proc : q # p => running'[q] = running[q] /\ cancelled'[q] = cancelled[q]
    BY <2>1, <2>2 DEF TypeOK
  <2>4. ~running'[p] /\ cancelled'[p][generation[p]]
    BY <2>1, <2>2 DEF TypeOK
  <2>5. \A s \in Start1 : s # generation[p] => cancelled'[p][s] = cancelled[p][s]
    BY <2>1, <2>2 DEF TypeOK
  <2>6. ASSUME NEW q \in Proc, q # p
        PROVE  /\ \A s \in Start1 : /\ s < generation[q] => run[q][s] = "ended"
                                    /\ s > generation[q] => run[q][s] = "none" /\ ~cancelled'[q][s]
               /\ running'[q] <=> /\ generation[q] # 0
                                  /\ Live(q, generation[q]) /\ ~cancelled'[q][generation[q]]
    BY <2>3, <2>6 DEF RunInv
  <2>7. \A s \in Start1 : /\ s < generation[p] => run[p][s] = "ended"
                          /\ s > generation[p] => run[p][s] = "none" /\ ~cancelled'[p][s]
    BY <2>1, <2>5 DEF RunInv, Start1
  <2>8. UNCHANGED <<generation, run>>
    OBVIOUS
  <2> QED
    BY <2>4, <2>6, <2>7, <2>8 DEF RunInv, Live
<1>2. CASE ~(p # 0 /\ running[p])
  BY <1>2 DEF Stop, RunInv, Live
<1> QED
  BY <1>1, <1>2

\* What Process.Start does: it returns, or it makes the next start.
LEMMA StartCases ==
    ASSUME NEW t, Start(t)
    PROVE  /\ pc[t] = "start" /\ UNCHANGED <<storeVars, teardownVars>>
           /\ \/ UNCHANGED procVars /\ (Returns(t, TRUE) \/ Returns(t, FALSE))
              \/ LET p == proc[t]
                     s == generation[p] + 1
                 IN /\ ~running[p] /\ Stopped(p) /\ s <= MaxStarts
                    /\ running' = [running EXCEPT ![p] = TRUE]
                    /\ generation' = [generation EXCEPT ![p] = s]
                    /\ run' = [run EXCEPT ![p][s] = "init"]
                    /\ pc' = [pc EXCEPT ![t] = "await"]
                    /\ awaited' = [awaited EXCEPT ![t] = s]
                    /\ UNCHANGED <<cancelled, ready, proc, ns, toStart>>
  BY Zenon DEF Start

\* A thread that returns keeps the types.
LEMMA ReturnsType ==
    ASSUME TypeInv, NEW t \in Thread, NEW ok, Returns(t, ok)
    PROVE  /\ pc' \in [Thread -> {"idle", "get", "add", "start", "await"}]
           /\ ns' \in [Thread -> Namespace \cup {"none"}]
           /\ proc' \in [Thread -> 0 .. MaxProcs] /\ awaited' \in [Thread -> 0 .. MaxStarts]
           /\ toStart' \subseteq Namespace
           /\ \A u \in Thread : /\ pc'[u] \in {"get", "add"} => ns'[u] \in Namespace
                                /\ pc'[u] \in {"start", "await"} => proc'[u] # 0
<1>1. /\ pc' = [pc EXCEPT ![t] = "idle"] /\ ns' = [ns EXCEPT ![t] = "none"]
      /\ proc' = [proc EXCEPT ![t] = 0] /\ awaited' = [awaited EXCEPT ![t] = 0]
      /\ toStart' \in {toStart, toStart \ {ns[t]}, {}}
  BY DEF Returns, Finished
<1> QED
  BY <1>1, WorkerAssumption DEF TypeInv, TypeOK

\* Every step preserves TypeInv.
LEMMA TypeInvNext == TypeInv /\ [Next]_vars => TypeInv'
<1> SUFFICES ASSUME TypeInv, [Next]_vars PROVE TypeInv'
  OBVIOUS
<1> USE WorkerAssumption
<1> USE DEF TypeInv, TypeOK, Proc, Start1, Thread, storeVars, procVars, threadVars,
            teardownVars, WorkerFrame
<1>1. ASSUME NEW t \in Request, NEW n \in Namespace, NEW old \in Namespace \cup {"none"}, processStart(t, n, old) PROVE TypeInv'
  <2>1. \E q : Stop(q) \/ UNCHANGED <<running, cancelled>>
    BY <1>1 DEF processStart
  <2>2. running' \in [Proc -> BOOLEAN] /\ cancelled' \in [Proc -> [Start1 -> BOOLEAN]]
    BY <1>1, StopType DEF processStart
  <2> QED
    BY <1>1, <2>2 DEF processStart
<1>2. ASSUME NEW n \in Namespace, startWorkerIfNeeded(n) PROVE TypeInv'
  BY <1>2 DEF startWorkerIfNeeded
<1>3. ASSUME NEW t \in Thread, Get(t) PROVE TypeInv'
  BY <1>3 DEF Get
<1>4. ASSUME NEW t \in Thread, Add(t) PROVE TypeInv'
  BY <1>4 DEF Add
<1>5. ASSUME NEW t \in Thread, Start(t) PROVE TypeInv'
  <2>a. pc[t] = "start"
    BY <1>5, StartCases, Zenon
  <2>1. proc[t] \in Proc /\ generation[proc[t]] \in 0 .. MaxStarts
    BY <2>a
  <2>2. CASE UNCHANGED procVars /\ (Returns(t, TRUE) \/ Returns(t, FALSE))
    BY <1>5, <2>2, StartCases, ReturnsType
  <2>3. CASE ~(UNCHANGED procVars /\ (Returns(t, TRUE) \/ Returns(t, FALSE)))
    <3> DEFINE s == generation[proc[t]] + 1
    <3>1. /\ s <= MaxStarts
          /\ running' = [running EXCEPT ![proc[t]] = TRUE]
          /\ generation' = [generation EXCEPT ![proc[t]] = s]
          /\ run' = [run EXCEPT ![proc[t]][s] = "init"]
          /\ pc' = [pc EXCEPT ![t] = "await"] /\ awaited' = [awaited EXCEPT ![t] = s]
          /\ UNCHANGED <<cancelled, ready, proc, ns, toStart, storeVars, teardownVars>>
      BY <1>5, <2>3, StartCases, Zenon
    <3>2. s \in Start1
      BY <2>1, <3>1
    <3> HIDE DEF s
    <3>3. run' \in [Proc -> [Start1 -> {"none", "init", "serving", "returning", "ended"}]]
      BY <3>1, SetAt2
    <3>a. s \in 0 .. MaxStarts
      BY <3>2
    <3>b. running' \in [Proc -> BOOLEAN]
      BY <3>1
    <3>4. generation' \in [Proc -> 0 .. MaxStarts] /\ awaited' \in [Thread -> 0 .. MaxStarts]
      BY <3>1, <3>a
    <3>5. /\ pc' \in [Thread -> {"idle", "get", "add", "start", "await"}]
          /\ \A u \in Thread : /\ pc'[u] \in {"get", "add"} => ns[u] \in Namespace
                               /\ pc'[u] \in {"start", "await"} => proc[u] # 0
      BY <3>1, <2>1
    <3> QED
      BY <3>1, <3>3, <3>4, <3>5, <3>b
  <2> QED
    BY <2>2, <2>3
<1>6. ASSUME NEW t \in Thread, StartReturns(t) PROVE TypeInv'
  <2>1. running' \in [Proc -> BOOLEAN] /\ cancelled' \in [Proc -> [Start1 -> BOOLEAN]]
    BY <1>6, StopType DEF StartReturns
  <2>2. toStart' \subseteq toStart
    BY <1>6 DEF StartReturns, Returns
  <2> QED
    BY <1>6, <2>1, <2>2 DEF StartReturns, Returns, Finished
<1>7. CASE StartTimesOut
  <2>1. running' \in [Proc -> BOOLEAN] /\ cancelled' \in [Proc -> [Start1 -> BOOLEAN]]
    BY <1>7, StopType DEF StartTimesOut
  <2>2. toStart' \subseteq toStart
    BY <1>7 DEF StartTimesOut, Returns
  <2> QED
    BY <1>7, <2>1, <2>2 DEF StartTimesOut, Returns, Finished
<1>8. ASSUME NEW p \in Proc, NEW s \in Start1, WorkerServes(p, s) PROVE TypeInv'
  BY <1>8 DEF WorkerServes, signalReady
<1>9. ASSUME NEW p \in Proc, NEW s \in Start1, WorkerRetries(p, s) PROVE TypeInv'
  BY <1>9 DEF WorkerRetries
<1>10. ASSUME NEW p \in Proc, NEW s \in Start1, WorkerFails(p, s) PROVE TypeInv'
  BY <1>10 DEF WorkerFails, signalReady
<1>11. ASSUME NEW p \in Proc, NEW s \in Start1, WorkerSeesCancel(p, s) PROVE TypeInv'
  BY <1>11 DEF WorkerSeesCancel, signalReady
<1>12. ASSUME NEW p \in Proc, NEW s \in Start1, RunEnds(p, s) PROVE TypeInv'
  BY <1>12 DEF RunEnds
<1>13. CASE StopAll
  <2>1. Stored \subseteq Proc
    BY StoredProc
  <2>2. attempts' \in 0 .. MaxTeardowns /\ teardown' = "stopping" /\ toStop' \subseteq Proc
    BY <1>13, <2>1 DEF StopAll
  <2>3. failed' = FALSE /\ UNCHANGED <<storeVars, procVars, threadVars, waitFor, accepting>>
    BY <1>13 DEF StopAll
  <2> QED
    BY <2>2, <2>3
<1>14. ASSUME NEW p \in Proc, StopOne(p) PROVE TypeInv'
  <2>1. running' \in [Proc -> BOOLEAN] /\ cancelled' \in [Proc -> [Start1 -> BOOLEAN]]
    BY <1>14, StopType DEF StopOne
  <2> QED
    BY <1>14, <2>1 DEF StopOne
<1>15. CASE Shutdown
  BY <1>15 DEF Shutdown
<1>16. CASE WaitAll
  <2>1. WaitTargets \subseteq Proc \X Start1
    BY StoredProc DEF WaitTargets
  <2>2. failed' \in BOOLEAN
    BY <1>16, Zenon DEF WaitAll
  <2> QED
    BY <1>16, <2>1, <2>2 DEF WaitAll
<1>17. CASE WaitAllReturns
  BY <1>17 DEF WaitAllReturns
<1>18. CASE UNCHANGED vars
  BY <1>18 DEF vars
<1> HIDE DEF TypeInv, TypeOK, Proc, Start1, Thread, storeVars, procVars, threadVars,
             teardownVars, WorkerFrame
<1> QED
  BY <1>1, <1>2, <1>3, <1>4, <1>5, <1>6, <1>7, <1>8, <1>9, <1>10, <1>11, <1>12, <1>13,
     <1>14, <1>15, <1>16, <1>17, <1>18, Zenon
   DEF Next, ThreadStep, RunStep

\* Every step preserves RunInv.
LEMMA RunInvNext == TypeInv /\ RunInv /\ [Next]_vars => RunInv'
<1> SUFFICES ASSUME TypeInv, RunInv, [Next]_vars PROVE RunInv'
  OBVIOUS
<1> USE WorkerAssumption
<1> USE DEF RunInv, Live, TypeInv, TypeOK, Proc, Start1, Thread, storeVars, procVars,
            threadVars, teardownVars, WorkerFrame
<1>1. ASSUME NEW t \in Request, NEW n \in Namespace, NEW old \in Namespace \cup {"none"}, processStart(t, n, old) PROVE RunInv'
  <2>1. CASE old \in Namespace
    BY <1>1, <2>1, StopRun DEF processStart
  <2>2. CASE old \notin Namespace
    BY <1>1, <2>2 DEF processStart
  <2> QED
    BY <2>1, <2>2
<1>2. ASSUME NEW n \in Namespace, startWorkerIfNeeded(n) PROVE RunInv'
  BY <1>2 DEF startWorkerIfNeeded
<1>3. ASSUME NEW t \in Thread, Get(t) PROVE RunInv'
  BY <1>3 DEF Get
<1>4. ASSUME NEW t \in Thread, Add(t) PROVE RunInv'
  BY <1>4 DEF Add
<1>5. ASSUME NEW t \in Thread, Start(t) PROVE RunInv'
  <2>a. pc[t] = "start"
    BY <1>5, StartCases, Zenon
  <2>1. proc[t] \in Proc /\ generation[proc[t]] \in 0 .. MaxStarts
    BY <2>a
  <2>2. CASE UNCHANGED procVars
    BY <2>2
  <2>3. CASE ~UNCHANGED procVars
    <3> DEFINE q == proc[t]
               s == generation[q] + 1
    <3>a. /\ s <= MaxStarts /\ Stopped(q)
          /\ running' = [running EXCEPT ![q] = TRUE]
          /\ generation' = [generation EXCEPT ![q] = s]
          /\ run' = [run EXCEPT ![q][s] = "init"]
          /\ cancelled' = cancelled
      BY <1>5, <2>3, StartCases, Zenon
    <3>1. s \in Start1 /\ q \in Proc /\ s = generation[q] + 1 /\ generation[q] \in Nat
      BY <2>1, <3>a
    <3>2. generation[q] # 0 => run[q][generation[q]] = "ended"
      BY <3>a DEF Stopped
    <3> HIDE DEF q, s
    <3>3. /\ generation'[q] = s /\ running'[q] /\ run'[q][s] = "init" /\ ~cancelled'[q][s]
          /\ \A r \in Start1 : r # s => run'[q][r] = run[q][r]
      BY <3>1, <3>a
    <3>4. \A p \in Proc : p # q => /\ generation'[p] = generation[p] /\ running'[p] = running[p]
                                   /\ run'[p] = run[p]
      BY <3>1, <3>a
    <3>5. \A r \in Start1 : r < s => run'[q][r] = "ended"
      <4> SUFFICES ASSUME NEW r \in Start1, r < s PROVE run'[q][r] = "ended"
        OBVIOUS
      <4>1. r < generation[q] \/ (r = generation[q] /\ generation[q] # 0)
        BY <3>1
      <4>2. r # s
        BY <3>1
      <4>3. run[q][r] = "ended"
        BY <3>1, <3>2, <4>1
      <4> QED
        BY <3>3, <4>2, <4>3
    <3>6. \A r \in Start1 : r > s => run'[q][r] = "none" /\ ~cancelled'[q][r]
      BY <3>1, <3>3, <3>a
    <3> QED
      BY <3>1, <3>3, <3>4, <3>5, <3>6, <3>a
  <2> QED
    BY <2>2, <2>3
<1>6. ASSUME NEW t \in Thread, StartReturns(t) PROVE RunInv'
  <2>1. /\ UNCHANGED <<generation, run>>
        /\ Stop(proc[t]) \/ UNCHANGED <<running, cancelled>>
    BY <1>6, Zenon DEF StartReturns
  <2>2. CASE Stop(proc[t])
    BY <2>1, <2>2, StopRun
  <2>3. CASE UNCHANGED <<running, cancelled>>
    BY <2>1, <2>3
  <2> QED
    BY <2>1, <2>2, <2>3
<1>7. CASE StartTimesOut
  BY <1>7, StopRun DEF StartTimesOut
<1>8. ASSUME NEW p \in Proc, NEW s \in Start1, WorkerServes(p, s) PROVE RunInv'
  BY <1>8 DEF WorkerServes, signalReady
<1>9. ASSUME NEW p \in Proc, NEW s \in Start1, WorkerRetries(p, s) PROVE RunInv'
  BY <1>9 DEF WorkerRetries
<1>10. ASSUME NEW p \in Proc, NEW s \in Start1, WorkerFails(p, s) PROVE RunInv'
  BY <1>10 DEF WorkerFails, signalReady
<1>11. ASSUME NEW p \in Proc, NEW s \in Start1, WorkerSeesCancel(p, s) PROVE RunInv'
  BY <1>11 DEF WorkerSeesCancel, signalReady
<1>12. ASSUME NEW p \in Proc, NEW s \in Start1, RunEnds(p, s) PROVE RunInv'
  BY <1>12 DEF RunEnds
<1>13. CASE StopAll
  BY <1>13 DEF StopAll, Stored, Range
<1>14. ASSUME NEW p \in Proc, StopOne(p) PROVE RunInv'
  <2>1. UNCHANGED <<generation, run>> /\ Stop(p) /\ p \in 0 .. MaxProcs
    BY <1>14 DEF StopOne
  <2> QED
    BY <2>1, StopRun
<1>15. CASE Shutdown
  BY <1>15 DEF Shutdown
<1>16. CASE WaitAll
  BY <1>16 DEF WaitAll, WaitTargets, Stored, Range
<1>17. CASE WaitAllReturns
  BY <1>17 DEF WaitAllReturns
<1>18. CASE UNCHANGED vars
  BY <1>18 DEF vars
<1> HIDE DEF RunInv, Live, TypeInv, TypeOK, Proc, Start1, Thread, storeVars, procVars,
             threadVars, teardownVars, WorkerFrame
<1> QED
  BY <1>1, <1>2, <1>3, <1>4, <1>5, <1>6, <1>7, <1>8, <1>9, <1>10, <1>11, <1>12, <1>13,
     <1>14, <1>15, <1>16, <1>17, <1>18, Zenon
   DEF Next, ThreadStep, RunStep

\* Every step preserves CleanInv.
LEMMA CleanInvNext == TypeInv /\ RunInv /\ CleanInv /\ [Next]_vars => CleanInv'
<1> SUFFICES ASSUME TypeInv, RunInv, CleanInv, [Next]_vars PROVE CleanInv'
  OBVIOUS
<1> USE WorkerAssumption
<1> USE DEF CleanInv, TypeInv, TypeOK, Proc, Start1, Thread, Stored, Range, Stopped,
            storeVars, procVars, threadVars, teardownVars, WorkerFrame
<1>1. ASSUME NEW t \in Request, NEW n \in Namespace, NEW old \in Namespace \cup {"none"}, processStart(t, n, old) PROVE CleanInv'
  BY <1>1 DEF processStart, Stop
<1>2. ASSUME NEW n \in Namespace, startWorkerIfNeeded(n) PROVE CleanInv'
  BY <1>2 DEF startWorkerIfNeeded
<1>3. ASSUME NEW t \in Thread, Get(t) PROVE CleanInv'
  BY <1>3 DEF Get
<1>4. ASSUME NEW t \in Thread, Add(t) PROVE CleanInv'
  BY <1>4 DEF Add
<1>5. ASSUME NEW t \in Thread, Start(t) PROVE CleanInv'
  BY <1>5 DEF Start, Stopped, Returns, Finished
<1>6. ASSUME NEW t \in Thread, StartReturns(t) PROVE CleanInv'
  BY <1>6 DEF StartReturns, Stop, Returns, Finished
<1>7. CASE StartTimesOut
  BY <1>7 DEF StartTimesOut, Stop, Returns, Finished
<1>8. ASSUME NEW p \in Proc, NEW s \in Start1, WorkerServes(p, s) PROVE CleanInv'
  BY <1>8 DEF WorkerServes, signalReady
<1>9. ASSUME NEW p \in Proc, NEW s \in Start1, WorkerRetries(p, s) PROVE CleanInv'
  BY <1>9 DEF WorkerRetries
<1>10. ASSUME NEW p \in Proc, NEW s \in Start1, WorkerFails(p, s) PROVE CleanInv'
  BY <1>10 DEF WorkerFails, signalReady
<1>11. ASSUME NEW p \in Proc, NEW s \in Start1, WorkerSeesCancel(p, s) PROVE CleanInv'
  BY <1>11 DEF WorkerSeesCancel, signalReady
<1>12. ASSUME NEW p \in Proc, NEW s \in Start1, RunEnds(p, s) PROVE CleanInv'
  BY <1>12 DEF RunEnds
<1>13. CASE StopAll
  BY <1>13 DEF StopAll, Stored, Range
<1>14. ASSUME NEW p \in Proc, StopOne(p) PROVE CleanInv'
  BY <1>14 DEF StopOne, Stop
<1>15. CASE Shutdown
  BY <1>15 DEF Shutdown
<1>16. CASE WaitAll
  <2>1. /\ teardown = "draining" /\ teardown' = "waiting" /\ waitFor' = WaitTargets
        /\ UNCHANGED <<store, generation, pc, toStart, accepting>>
        /\ ~failed' => Drained
    BY <1>16 DEF WaitAll
  <2>2. Drained /\ pc["boot"] = "idle" => \A t \in Thread : pc[t] = "idle"
    BY Zenon DEF Drained
  <2>3. \A p \in Stored : generation[p] # 0 => <<p, generation[p]>> \in WaitTargets
    BY Zenon DEF WaitTargets
  <2> QED
    BY <2>1, <2>2, <2>3
<1>17. CASE WaitAllReturns
  <2>1. /\ teardown = "waiting" /\ UNCHANGED <<store, generation, run, pc, toStart, accepting, failed>>
        /\ teardown' \in {"clean", "dirty"}
    BY <1>17 DEF WaitAllReturns
  <2>2. teardown' = "clean" => ~failed /\ \A w \in waitFor : run[w[1]][w[2]] = "ended"
    BY <1>17 DEF WaitAllReturns
  <2>3. teardown' = "clean" => \A p \in Stored : Stopped(p)
    <3> SUFFICES ASSUME teardown' = "clean", NEW p \in Stored, generation[p] # 0
                 PROVE  run[p][generation[p]] = "ended"
      OBVIOUS
    <3>1. <<p, generation[p]>> \in waitFor
      BY <2>1, <2>2
    <3> QED
      BY <2>2, <3>1
  <2> QED
    BY <2>1, <2>2, <2>3
<1>18. CASE UNCHANGED vars
  BY <1>18 DEF vars
<1> HIDE DEF CleanInv, TypeInv, TypeOK, Proc, Start1, Thread, Stored, Range, Stopped,
             storeVars, procVars, threadVars, teardownVars, WorkerFrame
<1> QED
  BY <1>1, <1>2, <1>3, <1>4, <1>5, <1>6, <1>7, <1>8, <1>9, <1>10, <1>11, <1>12, <1>13,
     <1>14, <1>15, <1>16, <1>17, <1>18, Zenon
   DEF Next, ThreadStep, RunStep

-----------------------------------------------------------------------------
(* Theorems                                                                *)

\* The inductive invariant.
WorkerInv == TypeInv /\ RunInv /\ CleanInv

\* The initial state satisfies WorkerInv.
LEMMA WorkerInvInit == Init => WorkerInv
<1> SUFFICES ASSUME Init PROVE WorkerInv
  OBVIOUS
<1>1. TypeOK
  <2>1. /\ run \in [Proc -> [Start1 -> {"none", "init", "serving", "returning", "ended"}]]
        /\ cancelled \in [Proc -> [Start1 -> BOOLEAN]]
        /\ ready \in [Proc -> [Start1 -> {"none", "ok", "error"}]]
        /\ running \in [Proc -> BOOLEAN] /\ failed \in BOOLEAN /\ accepting \in BOOLEAN
    BY Zenon DEF Init
  <2>2. /\ store \in [Namespace -> 0 .. MaxProcs] /\ made \in 0 .. MaxProcs
        /\ generation \in [Proc -> 0 .. MaxStarts] /\ attempts \in 0 .. MaxTeardowns
        /\ proc \in [Thread -> 0 .. MaxProcs] /\ awaited \in [Thread -> 0 .. MaxStarts]
    BY WorkerAssumption DEF Init
  <2>3. /\ pc \in [Thread -> {"idle", "get", "add", "start", "await"}]
        /\ ns \in [Thread -> Namespace \cup {"none"}]
        /\ toStart \subseteq Namespace /\ toStop \subseteq Proc
        /\ waitFor \subseteq Proc \X Start1 /\ teardown = "no"
    BY DEF Init
  <2> QED
    BY <2>1, <2>2, <2>3 DEF TypeOK
<1>2. TypeInv
  BY <1>1 DEF Init, TypeInv
<1>3. RunInv
  BY <1>1 DEF Init, RunInv, Live, Start1, Proc
<1>4. CleanInv
  BY DEF Init, CleanInv
<1> QED
  BY <1>2, <1>3, <1>4 DEF WorkerInv

\* In every behaviour WorkerInv holds.
LEMMA WorkerInvHolds == Spec => []WorkerInv
<1>1. Init => WorkerInv
  BY WorkerInvInit
<1>2. WorkerInv /\ [Next]_vars => WorkerInv'
  BY TypeInvNext, RunInvNext, CleanInvNext DEF WorkerInv
<1> QED
  BY <1>1, <1>2, PTL DEF Spec

\* However requests, the activation and the teardown interleave their starts
\* and stops, a Process has at most one worker goroutine (process.go: the
\* "worker is still stopping" error of Process.Start).
THEOREM OneRun == Spec => []OneRunPerProcess
<1>1. WorkerInv => OneRunPerProcess
  <2> SUFFICES ASSUME WorkerInv, NEW p \in Proc, NEW s \in Start1, Live(p, s)
               PROVE  s = generation[p]
    BY DEF OneRunPerProcess
  <2>1. generation[p] \in 0 .. MaxStarts /\ s \in Nat
    BY WorkerAssumption DEF WorkerInv, TypeInv, TypeOK, Start1
  <2>2. ~(s < generation[p]) /\ ~(s > generation[p])
    BY DEF WorkerInv, RunInv, Live
  <2> QED
    BY <2>1, <2>2
<1> QED
  BY <1>1, WorkerInvHolds, PTL

\* Running is true of exactly the Processes whose latest goroutine is live
\* and not cancelled, also when a goroutine ends after its Process has been
\* started again (process.go: the generation check of the deferred function).
THEOREM RunningTruthful == Spec => []RunningIsTruthful
<1>1. WorkerInv => RunningIsTruthful
  <2> SUFFICES ASSUME WorkerInv, NEW p \in Proc
               PROVE  running[p] <=> \E s \in Start1 : /\ s = generation[p] /\ Live(p, s)
                                                       /\ ~cancelled[p][s]
    BY DEF RunningIsTruthful
  <2>1. generation[p] \in 0 .. MaxStarts /\ (generation[p] # 0 => generation[p] \in Start1)
    BY WorkerAssumption DEF WorkerInv, TypeInv, TypeOK, Start1
  <2>2. running[p] <=> /\ generation[p] # 0
                       /\ Live(p, generation[p]) /\ ~cancelled[p][generation[p]]
    BY DEF WorkerInv, RunInv
  <2>3. 0 \notin Start1
    BY WorkerAssumption DEF Start1
  <2> QED
    BY <2>1, <2>2, <2>3
<1> QED
  BY <1>1, WorkerInvHolds, PTL

\* A teardown that reports no error leaves no live worker in any Process of
\* the store, whatever requests were in flight when it began (process.go:
\* StopAll and WaitAll; the drained API between them).
THEOREM CleanTeardown == Spec => []CleanEndsStored
<1>1. WorkerInv => CleanEndsStored
  <2> SUFFICES ASSUME WorkerInv, teardown = "clean", NEW p \in Stored, NEW s \in Start1
               PROVE  ~Live(p, s)
    BY DEF CleanEndsStored
  <2>1. p \in Proc /\ generation[p] \in 0 .. MaxStarts /\ s \in 1 .. MaxStarts
    BY StoredProc, WorkerAssumption DEF WorkerInv, TypeInv, TypeOK, Start1
  <2>2. generation[p] # 0 => run[p][generation[p]] = "ended"
    BY DEF WorkerInv, CleanInv, Stopped
  <2>3. s < generation[p] \/ s > generation[p] \/ (s = generation[p] /\ generation[p] # 0)
    BY <2>1
  <2>4. run[p][s] \in {"ended", "none"}
    BY <2>1, <2>2, <2>3 DEF WorkerInv, RunInv
  <2> QED
    BY <2>4 DEF Live
<1> QED
  BY <1>1, WorkerInvHolds, PTL
=============================================================================
