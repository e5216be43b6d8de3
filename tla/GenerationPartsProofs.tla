----------------------- MODULE GenerationPartsProofs -------------------------
(***************************************************************************)
(* Proofs about one generation made of its real parts, for any inventories, *)
(* endpoints and numbers of starts, requests, attempts and applies.         *)
(*                                                                          *)
(* Each part has an inductive invariant of its own (TunnelInv, APIInv,      *)
(* RemoteInv), kept by every step of the part's own module; every step of   *)
(* the generation is a step of its parts or leaves them alone, and StageInv  *)
(* ties the parts together.                                                 *)
(***************************************************************************)
EXTENDS GenerationParts, TLAPS


\* The types of the records of the tunnel: a process and a call of Start or Stop.
ProcessRecord ==
    [alive : BOOLEAN, url : {"none", "found"},
     wait : {"none", "wait", "report", "close", "end"}, exited : BOOLEAN,
     expectedStop : BOOLEAN, started : BOOLEAN, done : BOOLEAN]
CallRecord == [pc : {"idle", "select", "publish", "stop", "term", "kill"},
               op : {"none", "start", "stop"}, of : 0 .. MaxStarts, ok : BOOLEAN]

-----------------------------------------------------------------------------
(* What the steps of the tunnel write                                      *)

Published(r) == [r EXCEPT !.started = TRUE]
Signalled(r) == [r EXCEPT !.expectedStop = TRUE]
Read(r) == [r EXCEPT !.url = "found"]
Dead(r) == [r EXCEPT !.alive = FALSE]
Exited(r, w) == [r EXCEPT !.exited = TRUE, !.wait = w]
Reported(r) == [r EXCEPT !.wait = "close"]
Ended(r) == [r EXCEPT !.wait = "end", !.done = TRUE]
Called(s, o, f, b) == [pc |-> s, op |-> o, of |-> f, ok |-> b]
Returned(c, b) == [c EXCEPT !.pc = "idle", !.ok = b]
Moved(c, s) == [c EXCEPT !.pc = s]

\* A step of a process keeps the fields it does not write.
LEMMA ProcessUpdates ==
  ASSUME NEW r \in ProcessRecord, NEW w \in {"report", "close"}
  PROVE  /\ Published(r) \in ProcessRecord /\ Published(r).alive = r.alive
         /\ Published(r).wait = r.wait
         /\ Published(r).exited = r.exited /\ Published(r).started
         /\ Published(r).expectedStop = r.expectedStop /\ Published(r).done = r.done
         /\ Signalled(r) \in ProcessRecord /\ Signalled(r).alive = r.alive
         /\ Signalled(r).wait = r.wait
         /\ Signalled(r).exited = r.exited /\ Signalled(r).started = r.started
         /\ Signalled(r).expectedStop /\ Signalled(r).done = r.done
         /\ Read(r) \in ProcessRecord /\ Read(r).alive = r.alive /\ Read(r).wait = r.wait
         /\ Read(r).exited = r.exited /\ Read(r).started = r.started
         /\ Read(r).expectedStop = r.expectedStop /\ Read(r).done = r.done
         /\ Dead(r) \in ProcessRecord /\ ~Dead(r).alive /\ Dead(r).wait = r.wait
         /\ Dead(r).exited = r.exited /\ Dead(r).started = r.started
         /\ Dead(r).expectedStop = r.expectedStop /\ Dead(r).done = r.done
         /\ Exited(r, w) \in ProcessRecord /\ Exited(r, w).alive = r.alive
         /\ Exited(r, w).wait = w
         /\ Exited(r, w).exited /\ Exited(r, w).started = r.started
         /\ Exited(r, w).expectedStop = r.expectedStop /\ Exited(r, w).done = r.done
         /\ Reported(r) \in ProcessRecord /\ Reported(r).alive = r.alive
         /\ Reported(r).wait = "close"
         /\ Reported(r).exited = r.exited /\ Reported(r).started = r.started
         /\ Reported(r).expectedStop = r.expectedStop /\ Reported(r).done = r.done
         /\ Ended(r) \in ProcessRecord /\ Ended(r).alive = r.alive /\ Ended(r).wait = "end"
         /\ Ended(r).exited = r.exited /\ Ended(r).started = r.started
         /\ Ended(r).expectedStop = r.expectedStop /\ Ended(r).done
  BY DEF ProcessRecord, Published, Signalled, Read, Dead, Exited, Reported, Ended

\* The process that Start launches.
LEMMA Launch ==
  /\ Tunnel!NewProcess \in ProcessRecord
  /\ Tunnel!NewProcess.alive /\ Tunnel!NewProcess.wait = "wait" /\ ~Tunnel!NewProcess.exited
  /\ ~Tunnel!NewProcess.started /\ ~Tunnel!NewProcess.expectedStop /\ ~Tunnel!NewProcess.done
  BY DEF ProcessRecord, Tunnel!NewProcess

\* A step writes the record of one process.
LEMMA SetProcess ==
  ASSUME p \in [Tunnel!Procs -> ProcessRecord], NEW c \in Tunnel!Procs, NEW r \in ProcessRecord,
         p' = [p EXCEPT ![c] = r]
  PROVE  /\ p' \in [Tunnel!Procs -> ProcessRecord] /\ p'[c] = r
         /\ \A q \in Tunnel!Procs : q # c => p'[q] = p[q]
  OBVIOUS

\* The calls of Start and Stop.
LEMMA CallUpdates ==
  ASSUME NEW c \in CallRecord, NEW b \in BOOLEAN, NEW s \in {"publish", "stop", "kill"}
  PROVE  /\ Returned(c, b) \in CallRecord /\ Returned(c, b).pc = "idle"
         /\ Returned(c, b).op = c.op /\ Returned(c, b).ok = b
         /\ Moved(c, s) \in CallRecord /\ Moved(c, s).pc = s
         /\ Moved(c, s).op = c.op /\ Moved(c, s).of = c.of
         /\ c.op \in {"none", "start", "stop"} /\ c.ok \in BOOLEAN /\ c.of \in 0 .. MaxStarts
         /\ c.pc \in {"idle", "select", "publish", "stop", "term", "kill"}
  BY DEF CallRecord, Returned, Moved

-----------------------------------------------------------------------------
(* The tunnel                                                              *)

\* The types of the tunnel's variables.
TunnelType ==
    /\ launched \in 0 .. MaxStarts /\ process \in 0 .. MaxStarts
    /\ failures \in 0 .. MaxStarts /\ noticed \subseteq Tunnel!Procs
    /\ p \in [Tunnel!Procs -> ProcessRecord]
    /\ call \in CallRecord

\* A process that was never launched, and one whose end is a failure.
Fresh(q) == /\ ~p[q].alive /\ p[q].wait = "none" /\ ~p[q].exited /\ ~p[q].started
            /\ ~p[q].expectedStop /\ ~p[q].done
Failed(q) == p[q].exited /\ p[q].started /\ ~p[q].expectedStop

\* A process: waitProcess has a program order, one that has not exited is the
\* one Cloudflared holds, and the failures that were reported are those of
\* tunnels whose URL was returned and which nobody stopped.
ProcessOK(q) ==
    /\ q > launched => Fresh(q)
    /\ q <= launched =>
        /\ p[q].wait # "none"
        /\ p[q].exited <=> p[q].wait # "wait"
        /\ p[q].done => p[q].wait = "end"
        /\ p[q].alive => p[q].wait = "wait"
        /\ ~p[q].exited => process = q
        /\ p[q].wait = "report" => p[q].started /\ ~p[q].expectedStop
    /\ q = failures \/ q \in noticed => q <= launched /\ Failed(q)
    /\ Failed(q) /\ p[q].wait # "report" => failures # 0 \/ noticed # {}

\* The call in progress is about the process launched last, and after a Stop
\* that returned nil no process lives.
CallOK ==
    /\ process # 0 => process = launched /\ ~p[process].exited
    /\ call.pc # "idle" => call.of = launched /\ launched # 0
    /\ call.pc \in {"select", "publish", "stop"} => call.op = "start"
    /\ call.pc = "idle" /\ call.op = "stop" /\ call.ok => \A q \in Tunnel!Procs : ~p[q].alive

\* The inductive invariant of the tunnel.
TunnelInv == TunnelType /\ CallOK /\ \A q \in Tunnel!Procs : ProcessOK(q)

\* Every step of the tunnel keeps it.
LEMMA TunnelInvNext == TunnelInv /\ Tunnel!Next => TunnelInv'
<1> SUFFICES ASSUME TunnelInv, Tunnel!Next PROVE TunnelInv'
  OBVIOUS
<1> USE PartsAssumption
<1>p. p \in [Tunnel!Procs -> ProcessRecord] /\ call \in CallRecord /\ process \in 0 .. MaxStarts
  BY DEF TunnelInv, TunnelType
<1>c. /\ call.op \in {"none", "start", "stop"} /\ call.ok \in BOOLEAN
      /\ call.of \in 0 .. MaxStarts
      /\ call.pc \in {"idle", "select", "publish", "stop", "term", "kill"}
  BY <1>p, CallUpdates
<1>1. CASE Tunnel!StartAgain
  <2>1. call' = Called("idle", "start", process, TRUE)
    BY <1>1 DEF Tunnel!StartAgain, Tunnel!Idle, Called
  <2>2. call' \in CallRecord /\ call'.pc = "idle" /\ call'.op = "start"
    BY <2>1, <1>p DEF Called, CallRecord
  <2> QED
    BY <1>1, <2>2
     DEF Tunnel!StartAgain, TunnelInv, TunnelType, CallOK, ProcessOK, Fresh, Failed
<1>2. CASE Tunnel!Start
  <2>1. CASE /\ call' = [Tunnel!Idle EXCEPT !.op = "start"]
             /\ UNCHANGED <<launched, process, publicURL, p>>
    <3>1. call' = Called("idle", "start", 0, FALSE)
      BY <2>1 DEF Tunnel!Idle, Called
    <3>2. call' \in CallRecord /\ call'.pc = "idle" /\ call'.op = "start"
      BY <3>1 DEF Called, CallRecord
    <3> QED
      BY <1>2, <2>1, <3>2
       DEF Tunnel!Start, TunnelInv, TunnelType, CallOK, ProcessOK, Fresh, Failed
  <2>2. CASE /\ launched < MaxStarts
             /\ launched' = launched + 1
             /\ process' = launched' /\ publicURL' = 0
             /\ p' = [p EXCEPT ![launched'] = Tunnel!NewProcess]
             /\ call' = [pc |-> "select", op |-> "start", of |-> launched', ok |-> FALSE]
    <3>1. /\ launched \in 0 .. MaxStarts /\ launched' = launched + 1
          /\ launched' \in Tunnel!Procs /\ launched' \in 0 .. MaxStarts
      BY <2>2 DEF TunnelInv, TunnelType, Tunnel!Procs
    <3>2. /\ p' \in [Tunnel!Procs -> ProcessRecord] /\ p'[launched'] = Tunnel!NewProcess
          /\ \A q \in Tunnel!Procs : q # launched' => p'[q] = p[q]
      BY <2>2, <3>1, <1>p, Launch, SetProcess
    <3>c. call' = Called("select", "start", launched', FALSE)
      BY <2>2 DEF Called
    <3>3. /\ call' \in CallRecord /\ call'.pc = "select" /\ call'.op = "start"
          /\ call'.of = launched'
      BY <3>c, <3>1 DEF Called, CallRecord
    <3>4. process' = launched' /\ UNCHANGED <<failures, noticed>> /\ ~Tunnel!AlreadyRunning
      BY <1>2, <2>2 DEF Tunnel!Start
    <3>5. (TunnelType /\ CallOK)'
      BY <3>1, <3>2, <3>3, <3>4, Launch DEF TunnelInv, TunnelType, CallOK
    <3>6. ASSUME NEW q \in Tunnel!Procs PROVE ProcessOK(q)'
      <4>1. CASE q = launched'
        BY <3>1, <3>2, <3>4, <4>1, Launch
         DEF TunnelInv, TunnelType, ProcessOK, Fresh, Failed, Tunnel!Procs
      <4>2. CASE q # launched'
        BY <3>1, <3>2, <3>4, <4>2
         DEF TunnelInv, TunnelType, ProcessOK, Fresh, Failed, Tunnel!Procs, CallOK,
             Tunnel!AlreadyRunning, Tunnel!Running
      <4> QED
        BY <4>1, <4>2
    <3> QED
      BY <3>5, <3>6 DEF TunnelInv, Tunnel!Procs
  <2> QED
    BY <1>2, <2>1, <2>2 DEF Tunnel!Start
<1>3. CASE Tunnel!StartSelects
  <2>1. /\ call' \in CallRecord
        /\ \/ call'.pc \in {"publish", "stop"} /\ call'.of = call.of /\ call'.op = call.op
           \/ call'.pc = "idle" /\ call'.ok = FALSE
    <3>1. call' \in {Moved(call, "publish"), Moved(call, "stop"), Returned(call, FALSE)}
      BY <1>3 DEF Tunnel!StartSelects, Tunnel!Return, Moved, Returned
    <3> QED
      BY <3>1, <1>p DEF Moved, Returned, CallRecord
  <2> QED
    BY <1>3, <2>1
     DEF Tunnel!StartSelects, TunnelInv, TunnelType, CallOK, ProcessOK, Fresh, Failed
<1>4. CASE Tunnel!StartPublishes
  <2>1. CASE p[call.of].exited
    <3>1. UNCHANGED p /\ call' = Returned(call, FALSE)
      BY <1>4, <2>1 DEF Tunnel!StartPublishes, Tunnel!Return, Returned
    <3>2. call' \in CallRecord /\ call'.pc = "idle" /\ call'.ok = FALSE
      BY <3>1, <1>p, CallUpdates
    <3> QED
      BY <1>4, <3>1, <3>2
       DEF Tunnel!StartPublishes, TunnelInv, TunnelType, CallOK, ProcessOK, Fresh,
           Failed
  <2>2. CASE ~p[call.of].exited
    <3>1. call' = Returned(call, TRUE)
      BY <1>4, <2>2 DEF Tunnel!StartPublishes, Tunnel!Return, Returned
    <3>2. call' \in CallRecord /\ call'.pc = "idle" /\ call'.op = "start"
      BY <1>4, <3>1, <1>p, CallUpdates DEF TunnelInv, CallOK, Tunnel!StartPublishes
    <3>3. call.of \in Tunnel!Procs /\ call.of = launched /\ p[call.of] \in ProcessRecord
      BY <1>4, <1>p, <1>c
       DEF TunnelInv, TunnelType, CallOK, Tunnel!StartPublishes, Tunnel!Procs
    <3>4. p' = [p EXCEPT ![call.of] = Published(p[call.of])]
      BY <1>4, <2>2 DEF Tunnel!StartPublishes, Published
    <3>5. /\ p' \in [Tunnel!Procs -> ProcessRecord]
          /\ p'[call.of] = Published(p[call.of])
          /\ \A q \in Tunnel!Procs : q # call.of => p'[q] = p[q]
      BY <3>3, <3>4, <1>p, ProcessUpdates, SetProcess
    <3>6. LET n == p'[call.of] r == p[call.of] IN
              /\ n.alive = r.alive /\ n.wait = r.wait /\ n.exited = r.exited
              /\ n.started /\ n.expectedStop = r.expectedStop /\ n.done = r.done
      BY <3>3, <3>5, ProcessUpdates
    <3> QED
      BY <1>4, <2>2, <3>2, <3>3, <3>5, <3>6
       DEF Tunnel!StartPublishes, TunnelInv, TunnelType, CallOK, ProcessOK, Fresh,
           Failed
  <2> QED
    BY <2>1, <2>2
<1>5. CASE Tunnel!Stop
  <2>u. UNCHANGED <<launched, process, failures, noticed>>
    BY <1>5 DEF Tunnel!Stop
  <2> DEFINE o == IF call.pc = "stop" THEN "start" ELSE "stop"
  <2>1. CASE Tunnel!Running
    <3>1. /\ p' = [p EXCEPT ![process].expectedStop = TRUE]
          /\ call' = Called("term", o, process, FALSE)
      BY <1>5, <2>1 DEF Tunnel!Stop, Called
    <3>2. call' \in CallRecord /\ call'.pc = "term" /\ call'.of = process
      BY <3>1, <1>p DEF Called, CallRecord
    <3>3. /\ process \in Tunnel!Procs /\ process = launched
          /\ p[process] \in ProcessRecord /\ ~p[process].exited
      BY <2>1, <1>p DEF TunnelInv, TunnelType, CallOK, Tunnel!Procs, Tunnel!Running
    <3>4. p' = [p EXCEPT ![process] = Signalled(p[process])]
      BY <3>1 DEF Signalled
    <3>5. /\ p' \in [Tunnel!Procs -> ProcessRecord]
          /\ p'[process] = Signalled(p[process])
          /\ \A q \in Tunnel!Procs : q # process => p'[q] = p[q]
      BY <3>3, <3>4, <1>p, ProcessUpdates, SetProcess
    <3>6. LET n == p'[process] r == p[process] IN
              /\ n.alive = r.alive /\ n.wait = r.wait /\ n.exited = r.exited
              /\ n.started = r.started /\ n.expectedStop /\ n.done = r.done
      BY <3>3, <3>5, ProcessUpdates
    <3> QED
      BY <2>u, <3>2, <3>3, <3>5, <3>6
       DEF TunnelInv, TunnelType, CallOK, ProcessOK, Fresh, Failed, Tunnel!Procs
  <2>2. CASE ~Tunnel!Running
    <3>1. UNCHANGED p /\ call' = Called("idle", o, 0, o = "stop")
      BY <1>5, <2>2 DEF Tunnel!Stop, Called, Tunnel!Idle
    <3>3. call' \in CallRecord /\ call'.pc = "idle"
      BY <3>1 DEF Called, CallRecord
    <3>4. \A q \in Tunnel!Procs : ~p[q].alive
      BY <2>2
       DEF Tunnel!Running, TunnelInv, TunnelType, CallOK, ProcessOK, Fresh, Failed,
           Tunnel!Procs
    <3> QED
      BY <2>u, <3>1, <3>3, <3>4
       DEF TunnelInv, TunnelType, CallOK, ProcessOK, Fresh, Failed
  <2> QED
    BY <2>1, <2>2
<1>6. CASE Tunnel!StopWaits
  <2>1. /\ UNCHANGED <<launched, process, failures, noticed, p>> /\ call.of = launched
        /\ call.of \in Tunnel!Procs
    BY <1>6, <1>c DEF Tunnel!StopWaits, TunnelInv, TunnelType, CallOK, Tunnel!Procs
  <2>2. CASE p[call.of].done /\ call' = Returned(call, call.op = "stop")
    <3>1. call' \in CallRecord /\ call'.pc = "idle"
      BY <2>2, <1>p DEF Returned, CallRecord
    <3>2. \A q \in Tunnel!Procs : ~p[q].alive
      BY <2>1, <2>2
       DEF TunnelInv, TunnelType, CallOK, ProcessOK, Fresh, Failed, Tunnel!Procs
    <3> QED
      BY <2>1, <3>1, <3>2 DEF TunnelInv, TunnelType, CallOK, ProcessOK, Fresh, Failed
  <2>3. CASE call' = Returned(call, FALSE)
    <3>1. call' \in CallRecord /\ call'.pc = "idle" /\ call'.ok = FALSE
      BY <2>3, <1>p, CallUpdates
    <3> QED
      BY <2>1, <3>1 DEF TunnelInv, TunnelType, CallOK, ProcessOK, Fresh, Failed
  <2>4. CASE call' = Moved(call, "kill")
    <3>1. call' \in CallRecord /\ call'.pc = "kill" /\ call'.of = call.of
      BY <2>4, <1>p, CallUpdates
    <3> QED
      BY <2>1, <3>1
       DEF TunnelInv, TunnelType, CallOK, ProcessOK, Fresh, Failed, Tunnel!Procs
  <2> QED
    BY <1>6, <2>2, <2>3, <2>4 DEF Tunnel!StopWaits, Tunnel!Return, Returned, Moved
<1>7. CASE Tunnel!Notice
  BY <1>7
   DEF Tunnel!Notice, TunnelInv, TunnelType, CallOK, ProcessOK, Fresh, Failed,
       Tunnel!Procs
<1>8. ASSUME NEW q \in Tunnel!Procs, Tunnel!consumeOutput(q) PROVE TunnelInv'
  <2>1. p[q] \in ProcessRecord
    BY <1>p
  <2>2. p' = [p EXCEPT ![q] = Read(p[q])]
    BY <1>8 DEF Tunnel!consumeOutput, Read
  <2>3. /\ p' \in [Tunnel!Procs -> ProcessRecord] /\ p'[q] = Read(p[q])
        /\ \A z \in Tunnel!Procs : z # q => p'[z] = p[z]
    BY <2>1, <2>2, <1>p, ProcessUpdates, SetProcess
  <2>4. LET n == p'[q] r == p[q] IN
          /\ n.alive = r.alive /\ n.wait = r.wait /\ n.exited = r.exited
          /\ n.started = r.started /\ n.expectedStop = r.expectedStop /\ n.done = r.done
    BY <2>1, <2>3, ProcessUpdates
  <2> QED
    BY <1>8, <2>3, <2>4
     DEF Tunnel!consumeOutput, TunnelInv, TunnelType, CallOK, ProcessOK, Fresh, Failed,
         Tunnel!Procs
<1>9. ASSUME NEW q \in Tunnel!Procs, Tunnel!ProcessDies(q) PROVE TunnelInv'
  <2>1. p[q] \in ProcessRecord
    BY <1>p
  <2>2. p' = [p EXCEPT ![q] = Dead(p[q])]
    BY <1>9 DEF Tunnel!ProcessDies, Dead
  <2>3. /\ p' \in [Tunnel!Procs -> ProcessRecord] /\ p'[q] = Dead(p[q])
        /\ \A z \in Tunnel!Procs : z # q => p'[z] = p[z]
    BY <2>1, <2>2, <1>p, ProcessUpdates, SetProcess
  <2>4. LET n == p'[q] r == p[q] IN
          /\ ~n.alive /\ n.wait = r.wait /\ n.exited = r.exited
          /\ n.started = r.started /\ n.expectedStop = r.expectedStop /\ n.done = r.done
    BY <2>1, <2>3, ProcessUpdates
  <2> QED
    BY <1>9, <2>3, <2>4
     DEF Tunnel!ProcessDies, TunnelInv, TunnelType, CallOK, ProcessOK, Fresh, Failed,
         Tunnel!Procs
<1>10. ASSUME NEW q \in Tunnel!Procs, Tunnel!waitProcess(q) PROVE TunnelInv'
  <2> DEFINE w == IF Tunnel!Unexpected(q) THEN "report" ELSE "close"
  <2>w. w \in {"report", "close"}
    OBVIOUS
  <2> HIDE DEF w
  <2>1. p[q] \in ProcessRecord
    BY <1>p
  <2>2. p' = [p EXCEPT ![q] = Exited(p[q], w)]
    BY <1>10 DEF Tunnel!waitProcess, w, Exited
  <2>3. /\ p' \in [Tunnel!Procs -> ProcessRecord] /\ p'[q] = Exited(p[q], w)
        /\ \A z \in Tunnel!Procs : z # q => p'[z] = p[z]
    BY <2>1, <2>2, <1>p, ProcessUpdates, SetProcess, <2>w
  <2>4. LET n == p'[q] r == p[q] IN
          /\ n.alive = r.alive /\ n.wait = w /\ n.exited
          /\ n.started = r.started /\ n.expectedStop = r.expectedStop /\ n.done = r.done
    BY <2>1, <2>3, ProcessUpdates, <2>w
  <2> QED
    BY <1>10, <2>3, <2>4
     DEF Tunnel!waitProcess, TunnelInv, TunnelType, CallOK, ProcessOK, Fresh, Failed,
         Tunnel!Procs, w, Tunnel!Unexpected
<1>11. ASSUME NEW q \in Tunnel!Procs, Tunnel!reportFailure(q) PROVE TunnelInv'
  <2>1. p[q] \in ProcessRecord
    BY <1>p
  <2>2. p' = [p EXCEPT ![q] = Reported(p[q])]
    BY <1>11 DEF Tunnel!reportFailure, Reported
  <2>3. /\ p' \in [Tunnel!Procs -> ProcessRecord] /\ p'[q] = Reported(p[q])
        /\ \A z \in Tunnel!Procs : z # q => p'[z] = p[z]
    BY <2>1, <2>2, <1>p, ProcessUpdates, SetProcess
  <2>4. LET n == p'[q] r == p[q] IN
          /\ n.alive = r.alive /\ n.wait = "close" /\ n.exited = r.exited
          /\ n.started = r.started /\ n.expectedStop = r.expectedStop /\ n.done = r.done
    BY <2>1, <2>3, ProcessUpdates
  <2> QED
    BY <1>11, <2>3, <2>4
     DEF Tunnel!reportFailure, TunnelInv, TunnelType, CallOK, ProcessOK, Fresh, Failed,
         Tunnel!Procs
<1>12. ASSUME NEW q \in Tunnel!Procs, Tunnel!CloseDone(q) PROVE TunnelInv'
  <2>1. p[q] \in ProcessRecord
    BY <1>p
  <2>2. p' = [p EXCEPT ![q] = Ended(p[q])]
    BY <1>12 DEF Tunnel!CloseDone, Ended
  <2>3. /\ p' \in [Tunnel!Procs -> ProcessRecord] /\ p'[q] = Ended(p[q])
        /\ \A z \in Tunnel!Procs : z # q => p'[z] = p[z]
    BY <2>1, <2>2, <1>p, ProcessUpdates, SetProcess
  <2>4. LET n == p'[q] r == p[q] IN
          /\ n.alive = r.alive /\ n.wait = "end" /\ n.exited = r.exited
          /\ n.started = r.started /\ n.expectedStop = r.expectedStop /\ n.done
    BY <2>1, <2>3, ProcessUpdates
  <2> QED
    BY <1>12, <2>3, <2>4
     DEF Tunnel!CloseDone, TunnelInv, TunnelType, CallOK, ProcessOK, Fresh, Failed,
         Tunnel!Procs
<1> QED
  BY <1>1, <1>2, <1>3, <1>4, <1>5, <1>6, <1>7, <1>8, <1>9, <1>10, <1>11, <1>12, Zenon
   DEF Tunnel!Next
-----------------------------------------------------------------------------
(* The API                                                                 *)

\* serve has a program order, and a Shutdown that returned nil is for good:
\* Start is refused after it, so nothing opens the API again.
APIInv ==
    /\ started \in BOOLEAN /\ shutdownRequested \in BOOLEAN /\ serveDone \in BOOLEAN
    /\ listening \in BOOLEAN /\ closing \in BOOLEAN /\ closed \in BOOLEAN
    /\ requests \in Nat
    /\ serving \in {"none", "serve", "accept", "check", "close", "report", "end"}
    /\ apiCall \in {"idle", "drain", "wait"}
    /\ started <=> serving # "none"
    /\ serveDone <=> serving \in {"report", "end"}
    /\ serving \in {"check", "close", "report", "end"} => ~listening
    /\ ~started => requests = 0
    /\ closed /\ started => serveDone /\ requests = 0
    /\ closed /\ ~started => ~listening
    /\ closed => shutdownRequested
    /\ apiCall # "idle" => started /\ shutdownRequested

\* Every step of the API keeps the invariant.
LEMMA APIInvNext == APIInv /\ API!Next => APIInv'
<1> SUFFICES ASSUME APIInv, API!Next PROVE APIInv'
  OBVIOUS
<1> USE DEF APIInv
<1>1. CASE API!Start
  BY <1>1 DEF API!Start
<1>2. CASE API!Request
  BY <1>2 DEF API!Request
<1>3. CASE API!RequestEnds
  BY <1>3 DEF API!RequestEnds
<1>4. CASE API!Serve
  BY <1>4 DEF API!Serve
<1>5. CASE API!ServeReturns
  BY <1>5 DEF API!ServeReturns
<1>6. CASE API!ServeChecks
  BY <1>6 DEF API!ServeChecks
<1>7. CASE API!ServeCloses
  BY <1>7 DEF API!ServeCloses
<1>8. CASE API!reportFailure
  BY <1>8 DEF API!reportFailure
<1>9. CASE API!Shutdown
  BY <1>9 DEF API!Shutdown
<1>10. CASE API!ServerShutdown
  BY <1>10 DEF API!ServerShutdown
<1>11. CASE API!ShutdownReturns
  BY <1>11 DEF API!ShutdownReturns
<1> QED
  BY <1>1, <1>2, <1>3, <1>4, <1>5, <1>6, <1>7, <1>8, <1>9, <1>10, <1>11, Zenon
   DEF API!Next
-----------------------------------------------------------------------------
(* The conversation with Credimi                                           *)

\* The types of the conversation, and the parts of an operation.
Steps == {"idle", "verify", "fallback", "delay", "runner", "resolved", "devices", "retry",
          "resume", "heartbeat", "running", "failed", "pausing", "down"}
Config == [devices : Inventories, endpoint : Endpoints]
RemoteRecord == [endpoint : Endpoints \cup {Remote!NoEndpoint}, devices : SUBSET UNION Inventories,
                 active : BOOLEAN]
Sending == {"runner", "resolved", "devices", "retry"}
Resuming == {"resume", "heartbeat"}
\* Credimi lists the configuration c.
Lists(c) == /\ remote.endpoint = c.endpoint
            /\ c.devices # {} => remote.devices = c.devices

\* The types of the conversation's variables.
RemoteType ==
    /\ pc \in Steps /\ op \in {"none", "activate", "inventory", "endpoint"}
    /\ candidate \in Config /\ active \in Config
    /\ remote \in RemoteRecord
    /\ ok \in BOOLEAN

\* What is sent has been verified or was brought along.
VerifiedInv ==
    /\ pc \in Sending \cup Resuming => candidate.endpoint \in verified \cup carried
    /\ remote.endpoint \in verified \cup carried \cup {Remote!NoEndpoint}

\* The progress of Register: the runner is stored before the devices, a device
\* that was accepted is stored, and without errors every device is either
\* accepted or still to be sent.
PublishedInv ==
    /\ pc \in Resuming => op = "activate" /\ active = candidate /\ Lists(active)
    /\ pc = "running" /\ ok => Lists(active)
    /\ pc \in Sending \cup Resuming \cup {"verify", "fallback", "delay"} => ~ok /\ op # "none"
    /\ pc = "devices" =>
        /\ remote.endpoint = candidate.endpoint
        /\ ids \subseteq remote.devices
        /\ todo \cup ids \subseteq candidate.devices
        /\ errs = {} => todo \cup ids = candidate.devices

\* The inductive invariant of the conversation.
RemoteInv == RemoteType /\ VerifiedInv /\ PublishedInv

\* What registering, reconciling, resuming and pausing do to Credimi's records.
RemoteAt(e) == [remote EXCEPT !.endpoint = e]
RemoteWith(d) == [remote EXCEPT !.devices = d]
RemoteActive(b) == [remote EXCEPT !.active = b]

\* The file that is published in place is a configuration.
LEMMA SavedIsConfig == active \in Config => Remote!SavedConfigs \subseteq Config
  BY DEF Config, Remote!SavedConfigs

\* Every step of an operation keeps it.
LEMMA RemoteInvNext == RemoteInv /\ Remote!Operate => RemoteInv'
<1> SUFFICES ASSUME RemoteInv, Remote!Operate PROVE RemoteInv'
  OBVIOUS
<1> USE DEF Sending, Resuming, Lists, Steps
<1>t. /\ candidate \in Config /\ active \in Config /\ remote \in RemoteRecord
      /\ candidate.devices \subseteq UNION Inventories
      /\ remote.devices \subseteq UNION Inventories
      /\ candidate.endpoint \in Endpoints /\ active.endpoint \in Endpoints
      /\ remote.endpoint \in Endpoints \cup {Remote!NoEndpoint}
  BY DEF RemoteInv, RemoteType, Config, RemoteRecord
<1>1. CASE Remote!Activate
  BY <1>1
   DEF Remote!Activate, Remote!Begin, RemoteInv, RemoteType, VerifiedInv, PublishedInv
<1>2. CASE Remote!ApplyInventory
  <2>1. PICK cfg \in Remote!SavedConfigs :
            /\ Remote!Begin("inventory", "runner", cfg)
            /\ carried' = carried \cup ({cfg.endpoint} \ verified)
    BY <1>2 DEF Remote!ApplyInventory
  <2>2. candidate' \in Config
    BY <2>1, <1>t, SavedIsConfig DEF Remote!Begin
  <2>3. /\ op' = "inventory" /\ pc' = "runner" /\ ok' = FALSE /\ pc = "running"
        /\ UNCHANGED <<active, remote, verified>>
        /\ candidate'.endpoint \in verified' \cup carried' /\ carried \subseteq carried'
    BY <1>2, <2>1 DEF Remote!ApplyInventory, Remote!applyFrame, Remote!Begin
  <2> QED
    BY <2>2, <2>3 DEF RemoteInv, RemoteType, VerifiedInv, PublishedInv
<1>3. CASE Remote!ApplyEndpoint
  <2>1. PICK cfg \in Remote!SavedConfigs : Remote!Begin("endpoint", "verify", cfg)
    BY <1>3 DEF Remote!ApplyEndpoint
  <2>2. candidate' \in Config
    BY <2>1, <1>t, SavedIsConfig DEF Remote!Begin
  <2> QED
    BY <1>3, <2>1, <2>2
     DEF Remote!ApplyEndpoint, Remote!applyFrame, Remote!Begin, RemoteInv, RemoteType, VerifiedInv,
         PublishedInv
<1>4. CASE Remote!verify
  BY <1>4
   DEF Remote!verify, Remote!Fail, Remote!request, RemoteInv, RemoteType, VerifiedInv,
       PublishedInv
<1>5. CASE Remote!verifyDelay
  BY <1>5
   DEF Remote!verifyDelay, Remote!Fail, Remote!request, RemoteInv, RemoteType,
       VerifiedInv, PublishedInv
<1>6. CASE Remote!RegisterMobileRunner
  <2>1. PICK r \in Remote!Reply :
        /\ remote' = IF r.applied THEN RemoteAt(candidate.endpoint) ELSE remote
        /\ \/ r.err = "none" /\ candidate.devices = {} /\ Remote!Registered
           \/ /\ r.err = "none" /\ candidate.devices # {}
              /\ pc' = "devices" /\ UNCHANGED <<active, ok>>
           \/ r.err = "transient" /\ pc' = "retry" /\ UNCHANGED <<active, ok>>
           \/ /\ r.err = "permanent" /\ UNCHANGED <<active, ok>>
              /\ Remote!Fail \/ pc' = "resolved"
    BY <1>6 DEF Remote!RegisterMobileRunner, RemoteAt
  <2>2. /\ remote' \in RemoteRecord
        /\ remote'.endpoint \in {remote.endpoint, candidate.endpoint}
        /\ r.err = "none" => remote'.endpoint = candidate.endpoint
    BY <2>1, <1>t DEF RemoteAt, RemoteRecord, Remote!Reply
  <2>3. /\ pc \in {"runner", "resolved"} /\ UNCHANGED <<op, candidate, verified, carried>>
        /\ todo' = candidate.devices /\ ids' = {}
    BY <1>6 DEF Remote!RegisterMobileRunner
  <2>4. /\ pc' \in Steps /\ active' \in {active, candidate} /\ ok' \in BOOLEAN
        /\ pc' \in Resuming => /\ op = "activate" /\ active' = candidate
                              /\ r.err = "none" /\ candidate.devices = {}
        /\ ok' => active' = candidate /\ r.err = "none" /\ candidate.devices = {}
        /\ pc' \in Sending \cup Resuming => ~ok'
        /\ pc' \notin {"idle", "verify", "fallback", "delay"}
        /\ pc' = "devices" => r.err = "none"
        /\ pc' = "running" => op # "activate"
    <3>1. ok = FALSE
      BY <2>3 DEF RemoteInv, RemoteType, VerifiedInv, PublishedInv
    <3>2. CASE r.err = "none" /\ candidate.devices = {} /\ Remote!Registered
      BY <3>1, <3>2 DEF Remote!Registered
    <3>3. CASE UNCHANGED <<active, ok>> /\ (pc' = "retry" \/ Remote!Fail \/ pc' = "resolved")
      BY <3>1, <3>3 DEF Remote!Fail
    <3>4. CASE r.err = "none" /\ pc' = "devices" /\ UNCHANGED <<active, ok>>
      BY <3>1, <3>4
    <3> QED
      BY <2>1, <3>2, <3>3, <3>4
  <2> QED
    BY <2>2, <2>3, <2>4 DEF RemoteInv, RemoteType, VerifiedInv, PublishedInv
<1>7. CASE Remote!RegisterMobileDevice
  <2>1. PICK d \in todo, r \in Remote!Reply :
        /\ todo' = todo \ {d}
        /\ remote' = IF r.applied THEN RemoteWith(remote.devices \cup {d}) ELSE remote
        /\ ids' = IF r.err = "none" THEN ids \cup {d} ELSE ids
        /\ errs' = IF r.err = "none" THEN errs ELSE errs \cup {r.err}
    BY <1>7 DEF Remote!RegisterMobileDevice, RemoteWith
  <2>2. pc = "devices" /\ UNCHANGED <<pc, op, candidate, active, verified, carried, ok>>
    BY <1>7 DEF Remote!RegisterMobileDevice
  <2>3. d \in UNION Inventories
    BY <2>1, <2>2, <1>t DEF RemoteInv, RemoteType, VerifiedInv, PublishedInv
  <2>4. /\ remote' \in RemoteRecord /\ remote'.endpoint = remote.endpoint
        /\ remote.devices \subseteq remote'.devices
        /\ r.err = "none" => d \in remote'.devices
    BY <2>1, <2>3, <1>t DEF RemoteWith, RemoteRecord, Remote!Reply
  <2> QED
    BY <2>1, <2>2, <2>4 DEF RemoteInv, RemoteType, VerifiedInv, PublishedInv
<1>8. CASE Remote!ReconcileMobileDevices
  <2>1. pc = "devices" /\ todo = {} /\ UNCHANGED <<op, candidate, verified, carried>>
    BY <1>8 DEF Remote!ReconcileMobileDevices
  <2>2. CASE errs # {}
    <3>1. pc' = "retry" \/ Remote!Fail
      BY <1>8, <2>2 DEF Remote!ReconcileMobileDevices, Remote!DevicesFailed
    <3>2. UNCHANGED <<remote, active, ok>>
      BY <1>8, <2>2 DEF Remote!ReconcileMobileDevices, Remote!DevicesFailed
    <3> QED
      BY <2>1, <3>1, <3>2
       DEF Remote!Fail, RemoteInv, RemoteType, VerifiedInv, PublishedInv
  <2>3. CASE errs = {}
    <3>1. PICK r \in Remote!Reply :
            /\ remote' = IF r.applied THEN RemoteWith(remote.devices \cap ids) ELSE remote
            /\ \/ r.err = "none" /\ Remote!Registered
               \/ r.err = "transient" /\ pc' = "retry" /\ UNCHANGED <<active, ok>>
               \/ r.err = "permanent" /\ Remote!Fail /\ UNCHANGED <<active, ok>>
      BY <1>8, <2>3 DEF Remote!ReconcileMobileDevices, Remote!DevicesFailed, RemoteWith
    <3>2. ids = candidate.devices /\ ids \subseteq remote.devices
      BY <2>1, <2>3 DEF RemoteInv, RemoteType, VerifiedInv, PublishedInv
    <3>3. /\ remote' \in RemoteRecord /\ remote'.endpoint = remote.endpoint
          /\ r.err = "none" => remote'.devices = candidate.devices
      BY <3>1, <3>2, <1>t DEF RemoteWith, RemoteRecord, Remote!Reply
    <3>4. /\ pc' \in {"resume", "running", "retry", "failed"}
          /\ active' \in {active, candidate} /\ ok' \in BOOLEAN
          /\ pc' \in Resuming => op = "activate" /\ active' = candidate /\ r.err = "none"
          /\ ok' => active' = candidate /\ r.err = "none"
          /\ pc' \in {"resume", "retry"} => ~ok'
          /\ pc' = "running" => op # "activate"
      <4>1. ok = FALSE
        BY <2>1 DEF RemoteInv, RemoteType, VerifiedInv, PublishedInv
      <4>2. CASE r.err = "none" /\ Remote!Registered
        BY <4>1, <4>2 DEF Remote!Registered
      <4>3. CASE UNCHANGED <<active, ok>> /\ (pc' = "retry" \/ Remote!Fail)
        BY <4>1, <4>3 DEF Remote!Fail
      <4> QED
        BY <3>1, <4>2, <4>3
    <3> QED
      BY <2>1, <3>3, <3>4 DEF RemoteInv, RemoteType, VerifiedInv, PublishedInv
  <2> QED
    BY <2>2, <2>3
<1>9. CASE Remote!registerWithRetry
  BY <1>9
   DEF Remote!registerWithRetry, Remote!Fail, Remote!request, RemoteInv, RemoteType,
       VerifiedInv, PublishedInv
<1>10. CASE Remote!Resume
  <2>1. /\ remote' \in {remote, RemoteActive(TRUE)}
        /\ \/ pc' = "heartbeat" /\ UNCHANGED ok
           \/ UNCHANGED <<pc, ok>>
           \/ Remote!Fail /\ UNCHANGED ok
    BY <1>10 DEF Remote!Resume, Remote!post, RemoteActive
  <2>2. pc = "resume" /\ UNCHANGED <<op, candidate, active, todo, ids, errs, verified, carried>>
    BY <1>10 DEF Remote!Resume
  <2>3. /\ remote' \in RemoteRecord /\ remote'.endpoint = remote.endpoint
        /\ remote'.devices = remote.devices
    BY <2>1, <1>t DEF RemoteActive, RemoteRecord
  <2> QED
    BY <2>1, <2>2, <2>3
     DEF Remote!Fail, RemoteInv, RemoteType, VerifiedInv, PublishedInv
<1>11. CASE Remote!Heartbeat
  <2>1. /\ remote' = remote
        /\ \/ pc' = "running" /\ ok' = TRUE
           \/ UNCHANGED <<pc, ok>>
           \/ Remote!Fail /\ UNCHANGED ok
    BY <1>11 DEF Remote!Heartbeat, Remote!post
  <2>2. pc = "heartbeat" /\ UNCHANGED <<op, candidate, active, todo, ids, errs, verified, carried>>
    BY <1>11 DEF Remote!Heartbeat
  <2>3. /\ ok = FALSE /\ op = "activate" /\ active = candidate /\ Lists(active)
        /\ active.endpoint \in verified \cup carried
    BY <2>2 DEF RemoteInv, RemoteType, VerifiedInv, PublishedInv
  <2>4. CASE pc' = "running" /\ ok' = TRUE
    BY <2>1, <2>2, <2>3, <2>4 DEF RemoteInv, RemoteType, VerifiedInv, PublishedInv
  <2>5. CASE ok' = ok /\ pc' \in {"heartbeat", "failed"}
    BY <2>1, <2>2, <2>3, <2>5 DEF RemoteInv, RemoteType, VerifiedInv, PublishedInv
  <2> QED
    BY <2>1, <2>2, <2>3, <2>4, <2>5 DEF Remote!Fail
<1>12. CASE Remote!Pause
  <2>1. /\ remote' \in {remote, RemoteActive(FALSE)} /\ pc' \in {"down", "pausing"}
        /\ ok' \in BOOLEAN
    BY <1>12 DEF Remote!Pause, RemoteActive
  <2>2. UNCHANGED <<op, candidate, active, todo, ids, errs, verified, carried>>
    BY <1>12 DEF Remote!Pause
  <2>3. remote' \in RemoteRecord /\ remote'.endpoint = remote.endpoint
    BY <2>1, <1>t DEF RemoteActive, RemoteRecord
  <2> QED
    BY <2>1, <2>2, <2>3 DEF RemoteInv, RemoteType, VerifiedInv, PublishedInv
<1> QED
  BY <1>1, <1>2, <1>3, <1>4, <1>5, <1>6, <1>7, <1>8, <1>9, <1>10, <1>11, <1>12, Zenon
   DEF Remote!Operate
-----------------------------------------------------------------------------
(* Every step of the generation is a step of its parts                     *)

\* The tunnel takes a step of Cloudflared, or none.
LEMMA TunnelSteps == [Next]_vars => Tunnel!Next \/ UNCHANGED tunnelVars
  BY Zenon
   DEF Next, Transition, vars, TunnelAlone, CreateFails, StartAPI, StartEdge, Converse,
       BeginTeardown, PauseRemote, ShutdownAPI, StopEdge, WatchFailures, TunnelRuns,
       TunnelDies, APIServes, APIFails, Tunnel!Next

\* The API takes a step of HTTPAPI, or none.
LEMMA APISteps == [Next]_vars => API!Next \/ UNCHANGED apiVars
  BY Zenon
   DEF Next, Transition, vars, TunnelAlone, CreateFails, StartAPI, StartEdge, Converse,
       BeginTeardown, PauseRemote, ShutdownAPI, StopEdge, WatchFailures, TunnelRuns,
       TunnelDies, APIServes, APIFails, API!Next

\* fatalError, and a teardown that begins or is repeated, end the conversation.
GivesUp == /\ UNCHANGED <<active, remote, verified, carried, ok>>
           /\ \/ /\ pc' = "failed" \/ UNCHANGED pc
                 /\ UNCHANGED <<op, candidate, todo, ids, errs>>
              \/ /\ pc \in {"running", "failed"} /\ UNCHANGED pc
                 /\ op' = "none" /\ candidate' = active

\* The conversation takes a step of Registration, or is given up.
LEMMA RemoteSteps == [Next]_vars => Remote!Operate \/ GivesUp
<1> SUFFICES ASSUME [Next]_vars PROVE Remote!Operate \/ GivesUp
  OBVIOUS
<1>1. CASE Converse
  BY <1>1, Zenon DEF Converse, Remote!Operate, GivesUp
<1>2. CASE PauseRemote
  BY <1>2, Zenon DEF PauseRemote, remoteVars, Remote!Operate, GivesUp
<1>3. CASE StopEdge
  BY <1>3 DEF StopEdge, GivesUp
<1>4. CASE UNCHANGED remoteVars
  BY <1>4, Zenon DEF remoteVars, GivesUp
<1>5. CASE BeginTeardown
  BY <1>5 DEF BeginTeardown, GivesUp
<1> QED
  BY <1>1, <1>2, <1>3, <1>4, <1>5, Zenon
   DEF Next, Transition, vars, TunnelAlone, CreateFails, StartAPI, StartEdge, Converse,
       BeginTeardown, PauseRemote, ShutdownAPI, StopEdge, WatchFailures, TunnelRuns,
       TunnelDies, APIServes, APIFails

\* Where the transition stands: the tunnel is idle outside its own stages, and
\* a generation is released by a Stop of the tunnel and a Shutdown of the API
\* that both returned nil.
StageInv ==
    /\ stage \notin {"alone", "edge", "stopping"} => call.pc = "idle"
    /\ stage = "edge" /\ mode = "manual" => call.pc = "idle"
    /\ stage = "stopping" => call.op = "stop"
    /\ stage = "released" => closed /\ call.op = "stop" /\ call.ok

\* The inductive invariant of the generation.
GenerationInv == TunnelInv /\ APIInv /\ RemoteInv /\ StageInv

\* A step that leaves a part alone keeps its invariant.
LEMMA TunnelStutters == TunnelInv /\ UNCHANGED tunnelVars => TunnelInv'
  BY DEF TunnelInv, TunnelType, CallOK, ProcessOK, Fresh, Failed, tunnelVars

\* The same for the API.
LEMMA APIStutters == APIInv /\ UNCHANGED apiVars => APIInv'
  BY DEF APIInv, apiVars

\* An operation that is given up keeps the invariant of the conversation.
LEMMA RemoteGivesUp == RemoteInv /\ GivesUp => RemoteInv'
  BY DEF RemoteInv, RemoteType, VerifiedInv, PublishedInv, GivesUp, Lists, Steps,
       Sending, Resuming

\* Every step keeps the invariant of the stages, by the invariants of the parts.
LEMMA StageInvNext == GenerationInv /\ [Next]_vars => StageInv'
<1> SUFFICES ASSUME GenerationInv, [Next]_vars PROVE StageInv'
  OBVIOUS
<1> USE DEF GenerationInv, StageInv
<1>1. CASE StartAPI
  BY <1>1 DEF StartAPI, Goto, tunnelVars
<1>2. CASE StartEdge
  <2>1. CASE UNCHANGED stage /\ mode # "manual"
    BY <1>2, <2>1 DEF StartEdge
  <2>2. CASE call.pc = "idle" /\ stage' \in {"remote", "down"} /\ UNCHANGED tunnelVars
    BY <2>2 DEF tunnelVars
  <2>3. stage = "edge"
    BY <1>2 DEF StartEdge
  <2>4. CASE mode = "manual"
    BY <1>2, <2>2, <2>3, <2>4 DEF StartEdge, Goto
  <2>5. CASE mode # "manual"
    BY <1>2, <2>1, <2>2, <2>5, Zenon DEF StartEdge, Goto
  <2> QED
    BY <2>4, <2>5
<1>3. CASE Converse
  BY <1>3 DEF Converse, tunnelVars, apiVars
<1>4. CASE PauseRemote
  BY <1>4 DEF PauseRemote, Goto, tunnelVars, apiVars
<1>5. CASE ShutdownAPI
  BY <1>5 DEF ShutdownAPI, Goto, tunnelVars
<1>6. CASE StopEdge
  <2>1. CASE stage = "stop" /\ Tunnel!Stop /\ Goto("stopping")
    <3>1. call.pc = "idle"
      BY <2>1
    <3>2. call' \in {Called("term", "stop", process, FALSE), Called("idle", "stop", 0, TRUE)}
      BY <2>1, <3>1 DEF Tunnel!Stop, Tunnel!Idle, Called
    <3>3. call'.op = "stop" /\ stage' = "stopping"
      BY <2>1, <3>2 DEF Called, Goto
    <3> QED
      BY <3>3
  <2>2. CASE Tunnel!StopWaits /\ UNCHANGED stage
    BY <1>6, <2>2
     DEF Tunnel!StopWaits, Tunnel!Return, StopEdge, TunnelInv, TunnelType, CallRecord
  <2>3. CASE stage = "stopping" /\ call.pc = "idle" /\ UNCHANGED tunnelVars
    BY <1>6, <2>3 DEF StopEdge, Goto, tunnelVars, apiVars
  <2> QED
    BY <1>6, <2>1, <2>2, <2>3, Zenon DEF StopEdge
<1>7. CASE BeginTeardown
  BY <1>7 DEF BeginTeardown, Goto, tunnelVars, apiVars
<1>8. CASE CreateFails
  BY <1>8 DEF CreateFails, Goto, tunnelVars, apiVars
<1>9. CASE TunnelAlone
  BY <1>9 DEF TunnelAlone
<1>10. CASE WatchFailures
  BY <1>10 DEF WatchFailures, Tunnel!Notice, tunnelVars, apiVars
<1>11. CASE TunnelRuns
  BY <1>11
   DEF TunnelRuns, Tunnel!consumeOutput, Tunnel!waitProcess, Tunnel!reportFailure,
       Tunnel!CloseDone, apiVars
<1>12. CASE TunnelDies
  BY <1>12 DEF TunnelDies, Tunnel!ProcessDies, apiVars
<1>13. CASE APIServes \/ APIFails
  BY <1>13
   DEF APIServes, APIFails, API!Request, API!RequestEnds, API!Serve, API!ServeChecks,
       API!ServeCloses, API!reportFailure, API!ServeReturns, tunnelVars
<1>14. CASE UNCHANGED vars
  BY <1>14 DEF vars, tunnelVars, apiVars
<1> QED
  BY <1>1, <1>2, <1>3, <1>4, <1>5, <1>6, <1>7, <1>8, <1>9, <1>10, <1>11, <1>12, <1>13, <1>14, Zenon
   DEF Next, Transition

\* A new generation satisfies the invariant.
LEMMA GenerationInvInit == Init => GenerationInv
<1> SUFFICES ASSUME Init PROVE GenerationInv
  OBVIOUS
<1> USE PartsAssumption
<1>1. TunnelInv
  <2> DEFINE r == [Tunnel!NewProcess EXCEPT !.alive = FALSE, !.wait = "none"]
  <2>1. /\ r \in ProcessRecord /\ ~r.alive /\ r.wait = "none" /\ ~r.exited /\ ~r.started
        /\ ~r.expectedStop /\ ~r.done
    BY DEF ProcessRecord, Tunnel!NewProcess
  <2>2. p = [q \in Tunnel!Procs |-> r]
    BY Zenon DEF Init
  <2> HIDE DEF r
  <2>3. call \in CallRecord /\ call.pc = "idle" /\ call.op = "none"
    BY DEF Init, Tunnel!Idle, CallRecord
  <2>4. launched = 0 /\ process = 0 /\ failures = 0 /\ noticed = {}
    BY DEF Init
  <2>5. p \in [Tunnel!Procs -> ProcessRecord] /\ \A q \in Tunnel!Procs : Fresh(q) /\ q > 0
    BY <2>1, <2>2 DEF Fresh, Tunnel!Procs
  <2> QED
    BY <2>3, <2>4, <2>5
     DEF TunnelInv, TunnelType, CallOK, ProcessOK, Fresh, Failed, Tunnel!Procs
<1>2. APIInv
  BY DEF Init, API!Init, APIInv
<1>3. RemoteInv
  <2>1. candidate \in Config /\ active = candidate
    BY DEF Init, Remote!Configs, Config
  <2>2. remote \in RemoteRecord /\ remote.endpoint = Remote!NoEndpoint
    BY DEF Init, RemoteRecord
  <2> QED
    BY <2>1, <2>2
     DEF Init, RemoteInv, RemoteType, VerifiedInv, PublishedInv, Lists, Steps, Sending,
         Resuming
<1>4. StageInv
  BY DEF Init, Tunnel!Idle, StageInv
<1> QED
  BY <1>1, <1>2, <1>3, <1>4 DEF GenerationInv

\* The invariant holds in every state of every generation.
LEMMA GenerationInvHolds == Spec => []GenerationInv
<1>1. GenerationInv /\ [Next]_vars => GenerationInv'
  BY TunnelSteps, APISteps, RemoteSteps, TunnelInvNext, APIInvNext, RemoteInvNext, StageInvNext,
     TunnelStutters, APIStutters, RemoteGivesUp, Zenon DEF GenerationInv
<1> QED
  BY <1>1, GenerationInvInit, PTL DEF Spec

-----------------------------------------------------------------------------
(* The theorems                                                            *)

\* A tunnel process that lives is the one Cloudflared holds, so that Stop can
\* signal it, and none lives after a Stop that returned nil.
THEOREM TunnelOwned == Spec => []TunnelIsOwned
<1>1. GenerationInv => TunnelIsOwned
  BY PartsAssumption
   DEF GenerationInv, TunnelInv, TunnelType, CallOK, ProcessOK, Fresh, Tunnel!Procs,
       TunnelIsOwned, Tunnel!TunnelIsOwned
<1> QED
  BY <1>1, GenerationInvHolds, PTL

\* The end of a tunnel whose URL Start has returned is put into Failures(),
\* unless Stop was called; no other end is.
THEOREM EndReported == Spec => []EndIsReported
<1>1. GenerationInv => EndIsReported
  BY PartsAssumption
   DEF GenerationInv, TunnelInv, TunnelType, CallOK, ProcessOK, Failed, Tunnel!Procs,
       EndIsReported, Tunnel!EndIsReported
<1> QED
  BY <1>1, GenerationInvHolds, PTL

\* A teardown without local errors leaves no tunnel process, no open listener
\* and no request, whatever failed before it and however often it was repeated.
THEOREM ReleasedFree == Spec => []ReleasedIsFree
<1>1. GenerationInv => ReleasedIsFree
  BY DEF GenerationInv, TunnelInv, CallOK, APIInv, StageInv, ReleasedIsFree, Alive
<1> QED
  BY <1>1, GenerationInvHolds, PTL

\* An operation that returned nil has left the active configuration at Credimi,
\* however many requests were lost, applied twice or refused.
THEOREM PublishedActive == Spec => []PublishedIsActive
<1>1. GenerationInv => PublishedIsActive
  BY DEF GenerationInv, RemoteInv, PublishedInv, Lists, PublishedIsActive,
       Remote!PublishedIsActive
<1> QED
  BY <1>1, GenerationInvHolds, PTL

\* Credimi only has an endpoint that answered as this runner and this boot.
THEOREM Verified == Spec => []EndpointIsVerified
<1>1. GenerationInv => EndpointIsVerified
  BY DEF GenerationInv, RemoteInv, VerifiedInv, EndpointIsVerified,
       Remote!EndpointIsVerified
<1> QED
  BY <1>1, GenerationInvHolds, PTL

\* What a step of DevicesAreKept must do.
Kept == remote.devices \cap candidate.devices \subseteq remote'.devices
\* Reconciling is the only request that deletes devices, and by then the list
\* it sends is the whole inventory of the configuration.
LEMMA KeptByStep == RemoteInv /\ Remote!Operate => Kept
<1> SUFFICES ASSUME RemoteInv, Remote!Operate PROVE Kept
  OBVIOUS
<1>t. remote \in RemoteRecord /\ remote.devices \subseteq UNION Inventories
  BY DEF RemoteInv, RemoteType, RemoteRecord
<1>1. CASE \/ Remote!Activate \/ Remote!ApplyInventory \/ Remote!ApplyEndpoint
           \/ Remote!verify \/ Remote!verifyDelay \/ Remote!registerWithRetry
  BY <1>1
   DEF Kept, Remote!Activate, Remote!ApplyInventory, Remote!ApplyEndpoint, Remote!applyFrame,
       Remote!verify, Remote!verifyDelay, Remote!registerWithRetry
<1>2. CASE Remote!RegisterMobileRunner
  BY <1>2, <1>t DEF Kept, Remote!RegisterMobileRunner, RemoteRecord
<1>3. CASE Remote!RegisterMobileDevice
  BY <1>3, <1>t DEF Kept, Remote!RegisterMobileDevice, RemoteRecord
<1>4. CASE Remote!ReconcileMobileDevices
  <2>1. CASE errs # {}
    BY <1>4, <2>1 DEF Kept, Remote!ReconcileMobileDevices, Remote!DevicesFailed
  <2>2. CASE errs = {}
    <3>1. ids = candidate.devices
      BY <1>4, <2>2 DEF Remote!ReconcileMobileDevices, RemoteInv, PublishedInv
    <3>2. remote' \in {remote, RemoteWith(remote.devices \cap ids)}
      BY <1>4, <2>2 DEF Remote!ReconcileMobileDevices, Remote!DevicesFailed, RemoteWith
    <3> QED
      BY <3>1, <3>2, <1>t DEF Kept, RemoteWith, RemoteRecord
  <2> QED
    BY <2>1, <2>2
<1>5. CASE Remote!Resume \/ Remote!Heartbeat \/ Remote!Pause
  <2>1. remote' \in {remote, RemoteActive(TRUE), RemoteActive(FALSE)}
    BY <1>5 DEF Remote!Resume, Remote!Heartbeat, Remote!Pause, Remote!post, RemoteActive
  <2> QED
    BY <2>1, <1>t DEF Kept, RemoteActive, RemoteRecord
<1> QED
  BY <1>1, <1>2, <1>3, <1>4, <1>5, Zenon DEF Remote!Operate

\* No registration deletes a configured device that Credimi already has.
THEOREM DevicesKept == Spec => DevicesAreKept
<1>1. GenerationInv /\ [Next]_vars => [Kept]_vars
  <2>1. GivesUp => Kept
    BY DEF GivesUp, Kept
  <2> QED
    BY <2>1, RemoteSteps, KeptByStep DEF GenerationInv
<1> QED
  BY <1>1, GenerationInvHolds, PTL DEF Spec, DevicesAreKept, Kept
=============================================================================
