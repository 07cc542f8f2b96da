---------------------------- MODULE StoresProofs ----------------------------
(***************************************************************************)
(* What is proved of the stores, for every number of processes, accounts   *)
(* and operations: who runs the schedulers, what a failed mutation in      *)
(* Redis leaves behind, that a killed migration loses and doubles nothing, *)
(* and that the refresh tokens of Build accounts survive.                  *)
(***************************************************************************)
EXTENDS Stores, TLAPS, FiniteSetTheorems

-----------------------------------------------------------------------------
(* The leader.  A process that has started a scheduler, or is about to,      *)
(* has taken a lock since it started, and holds it until it shuts down.      *)
Frame == [at : {"out", "state", "each", "wait", "woken", "halt"},
          i : 1 .. Len(Kinds), enabled : BOOLEAN]

Entitled(p) == \/ main[p] \in {"stop", "renewer", "release", "unlock", "exit"}
               \/ lease[p]
               \/ local[p] # "none"

LeadersAreEntitled == \A p \in Process : leader[p] => Entitled(p)
CallersAreEntitled ==
    \A p \in Process, th \in Leader!Thread :
        frame[p][th].at \notin {"out", "state"} => Entitled(p)
LoopsAreEntitled == \A p \in Process, k \in Leader!Kind : loops[p][k] > 0 => Entitled(p)

(* What is held is what was acquired.                                        *)
LocksAreHeld ==
    \A p \in Process : /\ lease[p] => key # NoStore
                       /\ local[p] = "flock" => file[DirOf[p]] = p
                       /\ local[p] = "noop" => Faults

LeaderInv == /\ Leader!TypeOK
             /\ LeadersAreEntitled /\ CallersAreEntitled /\ LoopsAreEntitled
             /\ LocksAreHeld

LEMMA KindsType == Len(Kinds) \in Nat \ {0} /\ \A i \in 1 .. Len(Kinds) : Kinds[i] \in Leader!Kind
  BY StoresAssumption DEF Leader!LeaderAssumption, Leader!Kind

(* The frames that ReconcileRefreshRuntime goes through.                     *)
LEMMA FrameTypes ==
    ASSUME Leader!TypeOK
    PROVE  /\ Leader!Out \in Frame
           /\ \A p \in Process : Leader!Call(p) \in Frame
           /\ \A f \in Frame : /\ Leader!Forward(f, "each") \in Frame
                               /\ Leader!Forward(f, "halt") \in Frame
  <1>1. Leader!Out \in Frame
    BY KindsType DEF Leader!Out, Frame
  <1>2. ASSUME NEW p \in Process PROVE Leader!Call(p) \in Frame
    <2>1. cfg[p][Kinds[1]] \in BOOLEAN
      BY KindsType DEF Leader!TypeOK
    <2> QED
      BY <2>1, KindsType DEF Leader!Call, Frame
  <1>3. ASSUME NEW f \in Frame, NEW next \in {"each", "halt"} PROVE Leader!Forward(f, next) \in Frame
    <2>1. CASE f.i = Len(Kinds)
      BY <1>1, <2>1 DEF Leader!Forward
    <2>2. CASE f.i # Len(Kinds)
      <3>1. f.i + 1 \in 1 .. Len(Kinds)
        BY <2>2, KindsType DEF Frame
      <3>2. Leader!Forward(f, next) = [at |-> next, i |-> f.i + 1, enabled |-> f.enabled]
        BY <2>2 DEF Leader!Forward, Frame
      <3> QED
        BY <3>1, <3>2 DEF Frame
    <2> QED
      BY <2>1, <2>2
  <1> QED
    BY <1>1, <1>2, <1>3

(* The types, with the frames as one name.                                   *)
LeaderTypeOK ==
    /\ key \in Process \cup {Free, Orphan, NoStore}
    /\ file \in [Dir -> Process \cup {Free}]
    /\ cfg \in [Process -> [Leader!Kind -> BOOLEAN]]
    /\ main \in [Process -> {"down", "file", "bind", "reconcile", "serving", "stop",
                             "renewer", "release", "unlock", "exit"}]
    /\ leader \in [Process -> BOOLEAN] /\ bound \in [Process -> BOOLEAN]
    /\ lease \in [Process -> BOOLEAN]
    /\ local \in [Process -> {"none", "flock", "noop"}]
    /\ renewer \in [Process -> {"off", "wait", "lost", "ended"}]
    /\ running \in [Process -> [Leader!Kind -> BOOLEAN]]
    /\ loops \in [Process -> [Leader!Kind -> Nat]]
    /\ frame \in [Process -> [Leader!Thread -> Frame]]
    /\ \A p \in Process, k \in Leader!Kind : running[p][k] => loops[p][k] > 0

LEMMA LeaderTypes == Leader!TypeOK <=> LeaderTypeOK
  BY DEF Leader!TypeOK, LeaderTypeOK, Frame

(* A thread moves to another frame.                                          *)
LEMMA FrameMoves ==
    ASSUME LeaderTypeOK, NEW p \in Process, NEW th \in Leader!Thread, NEW f \in Frame,
           frame' = [frame EXCEPT ![p][th] = f]
    PROVE  /\ frame' \in [Process -> [Leader!Thread -> Frame]]
           /\ \A q \in Process, u \in Leader!Thread :
                 frame'[q][u] = IF q = p /\ u = th THEN f ELSE frame[q][u]
  BY DEF LeaderTypeOK

(* What each step of the scheduler leader keeps of the types.                *)
LEMMA LeaderTypeStep == ASSUME LeaderTypeOK, [Leader!Next]_leaderVars PROVE LeaderTypeOK'
  <1> USE DEF Leader!locks, Leader!held, Leader!scheds
  <1>a. {Free, Orphan, NoStore} \cap Process = {} /\ DirOf \in [Process -> Dir]
    BY StoresAssumption DEF Leader!LeaderAssumption
  <1>b. "main" \in Leader!Thread /\ "renew" \in Leader!Thread /\ \A th \in Handler : th \in Leader!Thread
    BY DEF Leader!Thread
  <1>c. /\ Leader!Out \in Frame
        /\ \A p \in Process : Leader!Call(p) \in Frame
        /\ \A f \in Frame : Leader!Forward(f, "each") \in Frame /\ Leader!Forward(f, "halt") \in Frame
    BY LeaderTypes, FrameTypes
  <1>d. ASSUME NEW f \in Frame,
               NEW label \in {"out", "state", "each", "wait", "woken", "halt"}
        PROVE  [f EXCEPT !.at = label] \in Frame
    BY DEF Frame
  <1>e. \A p \in Process, th \in Leader!Thread :
           frame[p][th] \in Frame /\ Kinds[frame[p][th].i] \in Leader!Kind
    BY KindsType DEF LeaderTypeOK, Frame
  <1>1. CASE UNCHANGED leaderVars
    BY <1>1 DEF leaderVars, LeaderTypeOK
  <1>2. ASSUME NEW p \in Process,
               Leader!AcquireLock(p) \/ Leader!AcquireFileLock(p) \/ Leader!ListenAndServe(p)
        PROVE  LeaderTypeOK'
    <2>1. CASE Leader!AcquireLock(p)
      BY <2>1 DEF Leader!AcquireLock, LeaderTypeOK
    <2>2. CASE Leader!AcquireFileLock(p)
      <3>1. file' = file \/ file' = [file EXCEPT ![DirOf[p]] = p]
        BY <2>2 DEF Leader!AcquireFileLock
      <3>2. local' \in [Process -> {"none", "flock", "noop"}]
        BY <2>2 DEF Leader!AcquireFileLock, LeaderTypeOK
      <3>3. file' \in [Dir -> Process \cup {Free}]
        BY <3>1, <1>a DEF LeaderTypeOK
      <3> QED
        BY <2>2, <3>2, <3>3 DEF Leader!AcquireFileLock, LeaderTypeOK
    <2>3. CASE Leader!ListenAndServe(p)
      BY <2>3 DEF Leader!ListenAndServe, LeaderTypeOK
    <2> QED
      BY <1>2, <2>1, <2>2, <2>3
  <1>3. ASSUME NEW p \in Process, Leader!Bind(p) PROVE LeaderTypeOK'
    <2>1. frame' \in [Process -> [Leader!Thread -> Frame]]
      BY <1>3, <1>b, <1>c, FrameMoves DEF Leader!Bind
    <2>2. leader' \in [Process -> BOOLEAN]
      BY <1>3, Zenon DEF Leader!Bind, LeaderTypeOK
    <2> QED
      BY <1>3, <2>1, <2>2 DEF Leader!Bind, LeaderTypeOK
  <1>4. ASSUME NEW p \in Process, NEW th \in Handler, Leader!HandleRequest(p, th) PROVE LeaderTypeOK'
    <2>1. frame' \in [Process -> [Leader!Thread -> Frame]]
      BY <1>4, <1>b, <1>c, FrameMoves DEF Leader!HandleRequest
    <2> QED
      BY <1>4, <2>1 DEF Leader!HandleRequest, LeaderTypeOK
  <1>5. ASSUME NEW p \in Process, NEW th \in Leader!Thread, Leader!ReadState(p, th) PROVE LeaderTypeOK'
    <2> DEFINE f == IF bound[p] /\ leader[p] THEN [frame[p][th] EXCEPT !.at = "each"] ELSE Leader!Out
    <2>1. f \in Frame
      BY <1>c, <1>d, <1>e
    <2>2. frame' = [frame EXCEPT ![p][th] = f]
      BY <1>5 DEF Leader!ReadState, LeaderTypeOK
    <2> HIDE DEF f
    <2>3. frame' \in [Process -> [Leader!Thread -> Frame]]
      BY <2>1, <2>2, FrameMoves
    <2> QED
      BY <1>5, <2>3 DEF Leader!ReadState, LeaderTypeOK
  <1>6. ASSUME NEW p \in Process, NEW th \in Leader!Thread, Leader!StartScheduler(p, th)
        PROVE  LeaderTypeOK'
    <2> DEFINE k == Kinds[frame[p][th].i]
    <2>1. k \in Leader!Kind
      BY <1>e
    <2>2. Leader!Forward(frame[p][th], "each") \in Frame
      BY <1>c, <1>e
    <2>3. frame' = [frame EXCEPT ![p][th] = Leader!Forward(frame[p][th], "each")]
      BY <1>6 DEF Leader!StartScheduler, LeaderTypeOK
    <2>4. /\ running' = [running EXCEPT ![p][k] = TRUE]
          /\ loops' = [loops EXCEPT ![p][k] = IF running[p][k] THEN @ ELSE @ + 1]
      BY <1>6 DEF Leader!StartScheduler
    <2>5. frame' \in [Process -> [Leader!Thread -> Frame]]
      BY <2>2, <2>3, FrameMoves
    <2> HIDE DEF k
    <2>6. /\ running' \in [Process -> [Leader!Kind -> BOOLEAN]]
          /\ loops' \in [Process -> [Leader!Kind -> Nat]]
          /\ \A q \in Process, j \in Leader!Kind : running'[q][j] => loops'[q][j] > 0
      BY <2>1, <2>4 DEF LeaderTypeOK
    <2> QED
      BY <1>6, <2>5, <2>6 DEF Leader!StartScheduler, LeaderTypeOK
  <1>7. ASSUME NEW p \in Process, NEW th \in Leader!Thread, Leader!StopScheduler(p, th)
        PROVE  LeaderTypeOK'
    <2> DEFINE k == Kinds[frame[p][th].i]
               f == IF running[p][k] THEN [frame[p][th] EXCEPT !.at = "wait"]
                    ELSE Leader!Forward(frame[p][th], "each")
    <2>1. k \in Leader!Kind
      BY <1>e
    <2>2. f \in Frame
      BY <1>c, <1>d, <1>e
    <2>3. frame' = [frame EXCEPT ![p][th] = f] /\ running' = [running EXCEPT ![p][k] = FALSE]
      BY <1>7 DEF Leader!StopScheduler, LeaderTypeOK
    <2> HIDE DEF k, f
    <2>4. frame' \in [Process -> [Leader!Thread -> Frame]]
      BY <2>2, <2>3, FrameMoves
    <2>5. /\ running' \in [Process -> [Leader!Kind -> BOOLEAN]]
          /\ \A q \in Process, j \in Leader!Kind : running'[q][j] => running[q][j]
      BY <2>1, <2>3 DEF LeaderTypeOK
    <2> QED
      BY <1>7, <2>4, <2>5 DEF Leader!StopScheduler, LeaderTypeOK
  <1>8. ASSUME NEW p \in Process, NEW th \in Leader!Thread,
               Leader!StopReturns(p, th) \/ Leader!WaitPanics(p, th)
        PROVE  LeaderTypeOK'
    <2>1. PICK f \in Frame : frame' = [frame EXCEPT ![p][th] = f]
      BY <1>8, <1>c, <1>e DEF Leader!StopReturns, Leader!WaitPanics, LeaderTypeOK
    <2>2. frame' \in [Process -> [Leader!Thread -> Frame]]
      BY <2>1, FrameMoves
    <2> QED
      BY <1>8, <2>2 DEF Leader!StopReturns, Leader!WaitPanics, LeaderTypeOK
  <1>9. ASSUME NEW p \in Process, NEW k \in Leader!Kind, Leader!LoopEnds(p, k) PROVE LeaderTypeOK'
    <2>1. PICK woken \in SUBSET Leader!Waiting(p, k) :
            frame' = [frame EXCEPT ![p] = [th \in Leader!Thread |->
                        IF th \in woken THEN [frame[p][th] EXCEPT !.at = "woken"] ELSE frame[p][th]]]
      BY <1>9 DEF Leader!LoopEnds, LeaderTypeOK
    <2>2. [th \in Leader!Thread |->
             IF th \in woken THEN [frame[p][th] EXCEPT !.at = "woken"] ELSE frame[p][th]]
               \in [Leader!Thread -> Frame]
      BY <1>d, <1>e
    <2>3. frame' \in [Process -> [Leader!Thread -> Frame]]
      BY <2>1, <2>2 DEF LeaderTypeOK
    <2>4. loops' = [loops EXCEPT ![p][k] = @ - 1] /\ UNCHANGED running
          /\ loops[p][k] > (IF running[p][k] THEN 1 ELSE 0)
      BY <1>9 DEF Leader!LoopEnds
    <2>5. /\ loops' \in [Process -> [Leader!Kind -> Nat]]
          /\ \A q \in Process, j \in Leader!Kind : running'[q][j] => loops'[q][j] > 0
      BY <2>4 DEF LeaderTypeOK
    <2> QED
      BY <1>9, <2>3, <2>5 DEF Leader!LoopEnds, LeaderTypeOK
  <1>10. ASSUME NEW p \in Process, NEW k \in Leader!Kind, Leader!SetConfig(p, k) PROVE LeaderTypeOK'
    <2>1. cfg' \in [Process -> [Leader!Kind -> BOOLEAN]]
      BY <1>10 DEF Leader!SetConfig, LeaderTypeOK
    <2> QED
      BY <1>10, <2>1 DEF Leader!SetConfig, LeaderTypeOK
  <1>11. ASSUME NEW p \in Process, Leader!RenewLoses(p) PROVE LeaderTypeOK'
    <2>1. frame' \in [Process -> [Leader!Thread -> Frame]]
      BY <1>11, <1>b, <1>c, FrameMoves DEF Leader!RenewLoses
    <2> QED
      BY <1>11, <2>1 DEF Leader!RenewLoses, LeaderTypeOK
  <1>12. ASSUME NEW p \in Process, Leader!RenewerEnds(p) \/ Leader!AwaitRenewer(p) PROVE LeaderTypeOK'
    BY <1>12 DEF Leader!RenewerEnds, Leader!AwaitRenewer, LeaderTypeOK
  <1>13. CASE Leader!Expire
    BY <1>13 DEF Leader!Expire, LeaderTypeOK
  <1>14. ASSUME NEW p \in Process, Leader!Shutdown(p) PROVE LeaderTypeOK'
    <2>1. frame' \in [Process -> [Leader!Thread -> Frame]]
      BY <1>14, <1>b, <1>c, <1>d, FrameMoves DEF Leader!Shutdown
    <2> QED
      BY <1>14, <2>1 DEF Leader!Shutdown, LeaderTypeOK
  <1>15. ASSUME NEW p \in Process, Leader!Halt(p) PROVE LeaderTypeOK'
    <2> DEFINE k == Kinds[frame[p]["main"].i]
    <2>1. frame' = [frame EXCEPT ![p]["main"] = [frame[p]["main"] EXCEPT !.at = "wait"]]
      BY <1>15, <1>b DEF Leader!Halt, LeaderTypeOK
    <2>2. frame' \in [Process -> [Leader!Thread -> Frame]]
      BY <2>1, <1>b, <1>d, <1>e, FrameMoves
    <2>3. k \in Leader!Kind /\ running' = [running EXCEPT ![p][k] = FALSE]
      BY <1>15, <1>b, <1>e DEF Leader!Halt
    <2> HIDE DEF k
    <2>4. /\ running' \in [Process -> [Leader!Kind -> BOOLEAN]]
          /\ \A q \in Process, j \in Leader!Kind : running'[q][j] => running[q][j]
      BY <2>3 DEF LeaderTypeOK
    <2> QED
      BY <1>15, <2>2, <2>4 DEF Leader!Halt, LeaderTypeOK
  <1>16. ASSUME NEW p \in Process, Leader!Release(p) \/ Leader!Unlock(p) PROVE LeaderTypeOK'
    BY <1>16, <1>a DEF Leader!Release, Leader!Unlock, Leader!Unlocked, LeaderTypeOK
  <1>17. ASSUME NEW p \in Process, Leader!Terminate(p) PROVE LeaderTypeOK'
    <2>1. frame' \in [Process -> [Leader!Thread -> Frame]]
      BY <1>17, <1>c DEF Leader!Terminate, LeaderTypeOK
    <2>2. /\ running' \in [Process -> [Leader!Kind -> BOOLEAN]]
          /\ loops' \in [Process -> [Leader!Kind -> Nat]]
          /\ \A q \in Process, j \in Leader!Kind : running'[q][j] => loops'[q][j] > 0
      BY <1>17 DEF Leader!Terminate, LeaderTypeOK
    <2> QED
      BY <1>17, <2>1, <2>2 DEF Leader!Terminate, Leader!Unlocked, LeaderTypeOK
  <1> QED
    BY <1>1, <1>2, <1>3, <1>4, <1>5, <1>6, <1>7, <1>8, <1>9, <1>10, <1>11, <1>12, <1>13, <1>14,
       <1>15, <1>16, <1>17
    DEF Leader!Next, Leader!Work, Leader!Reconcile, Leader!Exit

-----------------------------------------------------------------------------
(* A process loses its entitlement only when it ends.                        *)
LEMMA EntitledStays ==
    ASSUME LeaderTypeOK, [Leader!Next]_leaderVars, NEW p \in Process, Entitled(p)
    PROVE  Entitled(p)' \/ Leader!Terminate(p)
  <1> USE DEF Leader!locks, Leader!held, Leader!scheds, LeaderTypeOK, Entitled
  <1>1. ASSUME NEW q \in Process, Leader!AcquireLock(q) \/ Leader!AcquireFileLock(q) PROVE Entitled(p)'
    BY <1>1 DEF Leader!AcquireLock, Leader!AcquireFileLock
  <1>2. ASSUME NEW q \in Process, Leader!Release(q) PROVE Entitled(p)'
    BY <1>2 DEF Leader!Release
  <1>3. ASSUME NEW q \in Process, Leader!Unlock(q) PROVE Entitled(p)'
    BY <1>3 DEF Leader!Unlock
  <1>4. ASSUME NEW q \in Process, Leader!Terminate(q), q # p PROVE Entitled(p)'
    BY <1>4 DEF Leader!Terminate
  <1>5. ASSUME NEW q \in Process, Leader!AwaitRenewer(q) \/ Leader!Shutdown(q) PROVE Entitled(p)'
    BY <1>5 DEF Leader!AwaitRenewer, Leader!Shutdown
  <1>6. ASSUME NEW q \in Process, Leader!ListenAndServe(q) \/ Leader!Bind(q) PROVE Entitled(p)'
    BY <1>6 DEF Leader!ListenAndServe, Leader!Bind
  <1>7. ASSUME UNCHANGED <<main, lease, local>> PROVE Entitled(p)'
    BY <1>7
  <1>8. ASSUME NEW q \in Process, NEW th,
               \/ Leader!HandleRequest(q, th) \/ Leader!ReadState(q, th) \/ Leader!StartScheduler(q, th)
               \/ Leader!StopScheduler(q, th) \/ Leader!StopReturns(q, th) \/ Leader!WaitPanics(q, th)
               \/ Leader!LoopEnds(q, th) \/ Leader!SetConfig(q, th)
        PROVE  UNCHANGED <<main, lease, local>>
    BY <1>8 DEF Leader!HandleRequest, Leader!ReadState, Leader!StartScheduler, Leader!StopScheduler,
                Leader!StopReturns, Leader!WaitPanics, Leader!LoopEnds, Leader!SetConfig
  <1>9. ASSUME NEW q \in Process,
               Leader!RenewLoses(q) \/ Leader!RenewerEnds(q) \/ Leader!Halt(q) \/ Leader!Expire
        PROVE  UNCHANGED <<main, lease, local>>
    BY <1>9 DEF Leader!RenewLoses, Leader!RenewerEnds, Leader!Halt, Leader!Expire
  <1>10. leaderVars' = leaderVars => UNCHANGED <<main, lease, local>>
    BY DEF leaderVars
  <1> QED
    BY <1>1, <1>2, <1>3, <1>4, <1>5, <1>6, <1>7, <1>8, <1>9, <1>10
    DEF Leader!Next, Leader!Work, Leader!Reconcile, Leader!Exit

(* A process that has ended runs nothing.                                    *)
LEMMA EndedIsQuiet ==
    ASSUME LeaderTypeOK, NEW p \in Process, Leader!Terminate(p)
    PROVE  /\ ~leader'[p]
           /\ \A th \in Leader!Thread : frame'[p][th].at = "out"
           /\ \A k \in Leader!Kind : loops'[p][k] = 0
  BY DEF Leader!Terminate, LeaderTypeOK, Leader!Out, Leader!scheds, Leader!locks, Leader!held

(* The leader flag is set by a process that has a lock.                      *)
LEMMA LeaderFlag ==
    ASSUME LeaderTypeOK, [Leader!Next]_leaderVars, NEW p \in Process, leader'[p]
    PROVE  leader[p] \/ Entitled(p)'
  <1> USE DEF Leader!locks, Leader!held, Leader!scheds, LeaderTypeOK
  <1>1. ASSUME NEW q \in Process, Leader!Bind(q) PROVE leader[p] \/ Entitled(p)'
    <2>1. leader' = [leader EXCEPT ![q] = lease[q] \/ local[q] # "none"] /\ UNCHANGED <<lease, local>>
      BY <1>1 DEF Leader!Bind
    <2>2. CASE p = q
      <3>1. lease[p] \/ local[p] # "none"
        BY <2>1, <2>2
      <3> QED
        BY <2>1, <3>1 DEF Entitled
    <2>3. CASE p # q
      BY <2>1, <2>3
    <2> QED
      BY <2>2, <2>3
  <1>2. ASSUME NEW q \in Process, Leader!RenewLoses(q) \/ Leader!Unlock(q) \/ Leader!Terminate(q)
        PROVE  leader[p]
    BY <1>2 DEF Leader!RenewLoses, Leader!Unlock, Leader!Terminate
  <1>3. ASSUME NEW q \in Process,
               \/ Leader!AcquireLock(q) \/ Leader!AcquireFileLock(q) \/ Leader!ListenAndServe(q)
               \/ Leader!RenewerEnds(q) \/ Leader!Halt(q) \/ Leader!AwaitRenewer(q)
               \/ Leader!Release(q) \/ Leader!Shutdown(q) \/ Leader!Expire
        PROVE  leader' = leader
    BY <1>3 DEF Leader!AcquireLock, Leader!AcquireFileLock, Leader!ListenAndServe, Leader!RenewerEnds,
                Leader!Halt, Leader!AwaitRenewer, Leader!Release, Leader!Shutdown, Leader!Expire
  <1>4. ASSUME NEW q \in Process, NEW th,
               \/ Leader!HandleRequest(q, th) \/ Leader!ReadState(q, th) \/ Leader!StartScheduler(q, th)
               \/ Leader!StopScheduler(q, th) \/ Leader!StopReturns(q, th) \/ Leader!WaitPanics(q, th)
               \/ Leader!LoopEnds(q, th) \/ Leader!SetConfig(q, th)
        PROVE  leader' = leader
    BY <1>4 DEF Leader!HandleRequest, Leader!ReadState, Leader!StartScheduler, Leader!StopScheduler,
                Leader!StopReturns, Leader!WaitPanics, Leader!LoopEnds, Leader!SetConfig
  <1>5. leaderVars' = leaderVars => leader' = leader
    BY DEF leaderVars
  <1> QED
    BY <1>1, <1>2, <1>3, <1>4, <1>5 DEF Leader!Next, Leader!Work, Leader!Reconcile, Leader!Exit

(* A thread goes on past the state only as the leader or in a shutdown.      *)
LEMMA CallerMoves ==
    ASSUME LeaderTypeOK, [Leader!Next]_leaderVars, NEW p \in Process, NEW th \in Leader!Thread,
           frame'[p][th].at \notin {"out", "state"}
    PROVE  frame[p][th].at \notin {"out", "state"} \/ leader[p] \/ Entitled(p)'
  <1> USE DEF Leader!locks, Leader!held, Leader!scheds
  <1> DEFINE Goal == frame[p][th].at \notin {"out", "state"} \/ leader[p] \/ Entitled(p)'
  <1>b. "main" \in Leader!Thread /\ "renew" \in Leader!Thread /\ \A u \in Handler : u \in Leader!Thread
    BY DEF Leader!Thread
  <1>c. /\ Leader!Out \in Frame /\ Leader!Out.at = "out"
        /\ \A q \in Process : Leader!Call(q) \in Frame /\ Leader!Call(q).at = "state"
    BY LeaderTypes, FrameTypes DEF Leader!Out, Leader!Call
  <1>1. ASSUME NEW q \in Process,
               Leader!Bind(q) \/ (\E u \in Handler : Leader!HandleRequest(q, u)) \/ Leader!RenewLoses(q)
        PROVE  Goal
    <2>1. PICK u \in Leader!Thread : frame' = [frame EXCEPT ![q][u] = Leader!Call(q)]
      BY <1>1, <1>b DEF Leader!Bind, Leader!HandleRequest, Leader!RenewLoses
    <2> QED
      BY <2>1, <1>c, FrameMoves
  <1>2. ASSUME NEW q \in Process, NEW u \in Leader!Thread, Leader!ReadState(q, u) PROVE Goal
    <2>1. frame[q][u].at = "state"
          /\ frame' = [frame EXCEPT ![q][u] =
                         IF bound[q] /\ leader[q] THEN [frame[q][u] EXCEPT !.at = "each"] ELSE Leader!Out]
      BY <1>2 DEF Leader!ReadState, LeaderTypeOK
    <2>2. CASE q = p /\ u = th
      <3>1. frame'[p][th] = IF bound[p] /\ leader[p] THEN [frame[p][th] EXCEPT !.at = "each"] ELSE Leader!Out
        BY <2>1, <2>2 DEF LeaderTypeOK
      <3> QED
        BY <3>1, <1>c
    <2>3. CASE ~(q = p /\ u = th)
      BY <2>1, <2>3 DEF LeaderTypeOK
    <2> QED
      BY <2>2, <2>3
  <1>3. ASSUME NEW q \in Process, NEW u \in Leader!Thread,
               frame[q][u].at \notin {"out", "state"}, NEW f, frame' = [frame EXCEPT ![q][u] = f]
        PROVE  Goal
    BY <1>3 DEF LeaderTypeOK
  <1>4. ASSUME NEW q \in Process, NEW u \in Leader!Thread,
               \/ Leader!StartScheduler(q, u) \/ Leader!StopScheduler(q, u)
               \/ Leader!StopReturns(q, u) \/ Leader!WaitPanics(q, u)
        PROVE  Goal
    <2>1. frame[q][u].at \in {"each", "wait", "woken"} /\ \E f : frame' = [frame EXCEPT ![q][u] = f]
      BY <1>4 DEF Leader!StartScheduler, Leader!StopScheduler, Leader!StopReturns, Leader!WaitPanics
    <2> QED
      BY <2>1, <1>3
  <1>5. ASSUME NEW q \in Process, Leader!Halt(q) PROVE Goal
    <2>1. /\ frame[q]["main"].at = "halt"
          /\ frame' = [frame EXCEPT ![q]["main"] = [frame[q]["main"] EXCEPT !.at = "wait"]]
      BY <1>5, <1>b DEF Leader!Halt, LeaderTypeOK
    <2> QED
      BY <2>1, <1>b, <1>3
  <1>6. ASSUME NEW q \in Process, NEW k \in Leader!Kind, Leader!LoopEnds(q, k) PROVE Goal
    <2>1. PICK woken \in SUBSET Leader!Waiting(q, k) :
            frame' = [frame EXCEPT ![q] = [u \in Leader!Thread |->
                        IF u \in woken THEN [frame[q][u] EXCEPT !.at = "woken"] ELSE frame[q][u]]]
      BY <1>6 DEF Leader!LoopEnds, LeaderTypeOK
    <2>2. CASE q = p /\ th \in woken
      BY <2>1, <2>2 DEF Leader!Waiting
    <2>3. CASE ~(q = p /\ th \in woken)
      BY <2>1, <2>3 DEF LeaderTypeOK
    <2> QED
      BY <2>2, <2>3
  <1>7. ASSUME NEW q \in Process, Leader!Shutdown(q) PROVE Goal
    <2>1. CASE q = p
      BY <1>7, <2>1 DEF Leader!Shutdown, LeaderTypeOK, Entitled
    <2>2. CASE q # p
      BY <1>7, <2>2 DEF Leader!Shutdown, LeaderTypeOK
    <2> QED
      BY <2>1, <2>2
  <1>8. ASSUME NEW q \in Process, Leader!Terminate(q) PROVE Goal
    BY <1>8, <1>c DEF Leader!Terminate, LeaderTypeOK
  <1>9. ASSUME frame' = frame PROVE Goal
    BY <1>9
  <1>10. ASSUME NEW q \in Process,
               \/ Leader!AcquireLock(q) \/ Leader!AcquireFileLock(q) \/ Leader!ListenAndServe(q)
               \/ Leader!RenewerEnds(q) \/ Leader!AwaitRenewer(q) \/ Leader!Release(q)
               \/ Leader!Unlock(q) \/ Leader!Expire \/ \E k \in Leader!Kind : Leader!SetConfig(q, k)
        PROVE  frame' = frame
    BY <1>10 DEF Leader!AcquireLock, Leader!AcquireFileLock, Leader!ListenAndServe, Leader!RenewerEnds,
                 Leader!AwaitRenewer, Leader!Release, Leader!Unlock, Leader!Expire, Leader!SetConfig
  <1>11. leaderVars' = leaderVars => frame' = frame
    BY DEF leaderVars
  <1> HIDE DEF Goal
  <1>12. Goal
    BY <1>1, <1>2, <1>4, <1>5, <1>6, <1>7, <1>8, <1>9, <1>10, <1>11
    DEF Leader!Next, Leader!Work, Leader!Reconcile, Leader!Exit
  <1> QED
    BY <1>12 DEF Goal

(* Only a thread of ReconcileRefreshRuntime starts a scheduler.              *)
LEMMA LoopsStart ==
    ASSUME LeaderTypeOK, [Leader!Next]_leaderVars, NEW p \in Process, NEW k \in Leader!Kind,
           loops'[p][k] > 0
    PROVE  loops[p][k] > 0 \/ \E th \in Leader!Thread : frame[p][th].at = "each"
  <1> USE DEF Leader!locks, Leader!held, Leader!scheds
  <1> DEFINE Goal == loops[p][k] > 0 \/ \E th \in Leader!Thread : frame[p][th].at = "each"
  <1>1. ASSUME NEW q \in Process, NEW th \in Leader!Thread, Leader!StartScheduler(q, th) PROVE Goal
    <2>1. CASE q = p
      BY <1>1, <2>1 DEF Leader!StartScheduler
    <2>2. CASE q # p
      BY <1>1, <2>2 DEF Leader!StartScheduler, LeaderTypeOK
    <2> QED
      BY <2>1, <2>2
  <1>2. ASSUME NEW q \in Process, NEW j \in Leader!Kind, Leader!LoopEnds(q, j) PROVE Goal
    <2>1. loops[q][j] > 0 /\ loops' = [loops EXCEPT ![q][j] = @ - 1]
      BY <1>2 DEF Leader!LoopEnds, LeaderTypeOK
    <2> QED
      BY <2>1 DEF LeaderTypeOK
  <1>3. ASSUME NEW q \in Process, Leader!Terminate(q) PROVE Goal
    BY <1>3 DEF Leader!Terminate, LeaderTypeOK
  <1>4. ASSUME loops' = loops PROVE Goal
    BY <1>4
  <1>5. ASSUME NEW q \in Process,
               \/ Leader!AcquireLock(q) \/ Leader!AcquireFileLock(q) \/ Leader!ListenAndServe(q)
               \/ Leader!Bind(q) \/ Leader!RenewLoses(q) \/ Leader!Shutdown(q) \/ Leader!Halt(q)
               \/ Leader!RenewerEnds(q) \/ Leader!AwaitRenewer(q) \/ Leader!Release(q)
               \/ Leader!Unlock(q) \/ Leader!Expire
        PROVE  loops' = loops
    BY <1>5 DEF Leader!AcquireLock, Leader!AcquireFileLock, Leader!ListenAndServe, Leader!RenewerEnds,
                Leader!AwaitRenewer, Leader!Release, Leader!Unlock, Leader!Expire, Leader!Bind,
                Leader!RenewLoses, Leader!Shutdown, Leader!Halt
  <1>6. ASSUME NEW q \in Process, NEW th,
               \/ Leader!HandleRequest(q, th) \/ Leader!ReadState(q, th)
               \/ Leader!StopScheduler(q, th) \/ Leader!StopReturns(q, th) \/ Leader!WaitPanics(q, th)
               \/ Leader!SetConfig(q, th)
        PROVE  loops' = loops
    BY <1>6 DEF Leader!HandleRequest, Leader!ReadState, Leader!StopScheduler,
                Leader!StopReturns, Leader!WaitPanics, Leader!SetConfig
  <1>7. leaderVars' = leaderVars => loops' = loops
    BY DEF leaderVars
  <1> HIDE DEF Goal
  <1>8. Goal
    BY <1>1, <1>2, <1>3, <1>4, <1>5, <1>6, <1>7
    DEF Leader!Next, Leader!Work, Leader!Reconcile, Leader!Exit
  <1> QED
    BY <1>8 DEF Goal

(* What a process holds stays its own until it gives it up.                  *)
LEMMA LocksStep == ASSUME LeaderTypeOK, LocksAreHeld, [Leader!Next]_leaderVars PROVE LocksAreHeld'
  <1> USE DEF Leader!locks, Leader!held, Leader!scheds, LocksAreHeld
  <1>a. {Free, Orphan, NoStore} \cap Process = {} /\ NoStore \notin {Free, Orphan} /\ DirOf \in [Process -> Dir]
    BY StoresAssumption DEF Leader!LeaderAssumption
  <1>1. ASSUME NEW q \in Process, Leader!AcquireLock(q) PROVE LocksAreHeld'
    <2>1. /\ key # NoStore /\ key' # NoStore /\ UNCHANGED <<file, local>>
      BY <1>1, <1>a DEF Leader!AcquireLock
    <2> QED
      BY <2>1
  <1>2. ASSUME NEW q \in Process, Leader!AcquireFileLock(q) PROVE LocksAreHeld'
    <2>1. UNCHANGED <<key, lease>>
      BY <1>2 DEF Leader!AcquireFileLock
    <2>2. CASE file[DirOf[q]] = Free /\ file' = [file EXCEPT ![DirOf[q]] = q]
                 /\ local' = [local EXCEPT ![q] = "flock"]
      <3>1. \A p \in Process : p # q => local'[p] = local[p] /\ (local[p] = "flock" => DirOf[p] # DirOf[q])
        BY <2>2, <1>a DEF LeaderTypeOK
      <3>2. \A d \in Dir : file'[d] = IF d = DirOf[q] THEN q ELSE file[d]
        BY <2>2 DEF LeaderTypeOK
      <3> QED
        BY <2>1, <2>2, <3>1, <3>2, <1>a DEF LeaderTypeOK
    <2>3. CASE UNCHANGED <<file, local>>
      BY <2>1, <2>3
    <2>4. CASE Faults /\ local' = [local EXCEPT ![q] = "noop"] /\ UNCHANGED file
      BY <2>1, <2>4 DEF LeaderTypeOK
    <2> QED
      BY <1>2, <2>2, <2>3, <2>4 DEF Leader!AcquireFileLock
  <1>3. ASSUME NEW q \in Process, Leader!Release(q) PROVE LocksAreHeld'
    <2>1. /\ lease' = [lease EXCEPT ![q] = FALSE] /\ UNCHANGED <<file, local>>
          /\ key' = NoStore => key = NoStore
      BY <1>3, <1>a DEF Leader!Release
    <2>2. \A p \in Process : lease'[p] => lease[p]
      BY <2>1 DEF LeaderTypeOK
    <2> QED
      BY <2>1, <2>2
  <1>4. ASSUME NEW q \in Process, file' = Leader!Unlocked(q), local' = [local EXCEPT ![q] = "none"],
               UNCHANGED key \/ key' = Orphan, \A p \in Process : lease'[p] => lease[p]
        PROVE  LocksAreHeld'
    <2>1. ASSUME NEW p \in Process, local'[p] = "flock" PROVE file'[DirOf[p]] = p
      <3>1. p # q /\ local[p] = "flock"
        BY <1>4, <2>1 DEF LeaderTypeOK
      <3>2. DirOf[p] \in Dir /\ file[DirOf[p]] = p
        BY <3>1, <1>a
      <3> QED
        BY <1>4, <3>1, <3>2 DEF Leader!Unlocked
    <2>2. \A p \in Process : local'[p] = "noop" => local[p] = "noop"
      BY <1>4 DEF LeaderTypeOK
    <2> QED
      BY <1>4, <2>1, <2>2, <1>a
  <1>5. ASSUME NEW q \in Process, Leader!Unlock(q) \/ Leader!Terminate(q) PROVE LocksAreHeld'
    <2>1. \/ UNCHANGED <<file, local, lease, key>>
          \/ /\ file' = Leader!Unlocked(q) /\ local' = [local EXCEPT ![q] = "none"]
             /\ UNCHANGED key \/ key' = Orphan
             /\ \A p \in Process : lease'[p] => lease[p]
      BY <1>5 DEF Leader!Unlock, Leader!Terminate, LeaderTypeOK
    <2> QED
      BY <2>1, <1>4
  <1>6. CASE Leader!Expire
    BY <1>6, <1>a DEF Leader!Expire
  <1>7. ASSUME UNCHANGED <<key, file, lease, local>> PROVE LocksAreHeld'
    BY <1>7
  <1>8. ASSUME NEW q \in Process,
               \/ Leader!ListenAndServe(q) \/ Leader!Bind(q) \/ Leader!RenewLoses(q)
               \/ Leader!Shutdown(q) \/ Leader!Halt(q) \/ Leader!RenewerEnds(q) \/ Leader!AwaitRenewer(q)
        PROVE  UNCHANGED <<key, file, lease, local>>
    BY <1>8 DEF Leader!ListenAndServe, Leader!RenewerEnds, Leader!AwaitRenewer, Leader!Bind,
                Leader!RenewLoses, Leader!Shutdown, Leader!Halt
  <1>9. ASSUME NEW q \in Process, NEW th,
               \/ Leader!HandleRequest(q, th) \/ Leader!ReadState(q, th) \/ Leader!StartScheduler(q, th)
               \/ Leader!StopScheduler(q, th) \/ Leader!StopReturns(q, th) \/ Leader!WaitPanics(q, th)
               \/ Leader!LoopEnds(q, th) \/ Leader!SetConfig(q, th)
        PROVE  UNCHANGED <<key, file, lease, local>>
    BY <1>9 DEF Leader!HandleRequest, Leader!ReadState, Leader!StartScheduler, Leader!StopScheduler,
                Leader!StopReturns, Leader!WaitPanics, Leader!LoopEnds, Leader!SetConfig
  <1>10. leaderVars' = leaderVars => UNCHANGED <<key, file, lease, local>>
    BY DEF leaderVars
  <1> QED
    BY <1>1, <1>2, <1>3, <1>5, <1>6, <1>7, <1>8, <1>9, <1>10
    DEF Leader!Next, Leader!Work, Leader!Reconcile, Leader!Exit

LEMMA LeaderStep == ASSUME LeaderInv, [Leader!Next]_leaderVars PROVE LeaderInv'
  <1>1. LeaderTypeOK /\ LocksAreHeld
    BY LeaderTypes DEF LeaderInv
  <1>2. LeaderTypeOK'
    BY <1>1, LeaderTypeStep
  <1>3. Leader!TypeOK'
    BY <1>2 DEF LeaderTypeOK, Leader!TypeOK, Frame
  <1>4. LeadersAreEntitled'
    <2> SUFFICES ASSUME NEW p \in Process, leader'[p] PROVE Entitled(p)'
      BY DEF LeadersAreEntitled
    <2>1. ~Leader!Terminate(p)
      BY <1>1, EndedIsQuiet
    <2>2. Entitled(p) => Entitled(p)'
      BY <1>1, <2>1, EntitledStays
    <2> QED
      BY <1>1, <2>2, LeaderFlag DEF LeaderInv, LeadersAreEntitled
  <1>5. CallersAreEntitled'
    <2> SUFFICES ASSUME NEW p \in Process, NEW th \in Leader!Thread,
                        frame'[p][th].at \notin {"out", "state"}
                 PROVE  Entitled(p)'
      BY DEF CallersAreEntitled
    <2>1. ~Leader!Terminate(p)
      BY <1>1, EndedIsQuiet
    <2>2. Entitled(p) => Entitled(p)'
      BY <1>1, <2>1, EntitledStays
    <2> QED
      BY <1>1, <2>2, CallerMoves DEF LeaderInv, LeadersAreEntitled, CallersAreEntitled
  <1>6. LoopsAreEntitled'
    <2> SUFFICES ASSUME NEW p \in Process, NEW k \in Leader!Kind, loops'[p][k] > 0
                 PROVE  Entitled(p)'
      BY DEF LoopsAreEntitled
    <2>1. ~Leader!Terminate(p)
      BY <1>1, EndedIsQuiet
    <2>2. Entitled(p) => Entitled(p)'
      BY <1>1, <2>1, EntitledStays
    <2>3. loops[p][k] > 0 \/ \E th \in Leader!Thread : frame[p][th].at = "each"
      BY <1>1, LoopsStart
    <2> QED
      BY <2>2, <2>3 DEF LeaderInv, LoopsAreEntitled, CallersAreEntitled
  <1> QED
    BY <1>1, <1>3, <1>4, <1>5, <1>6, LocksStep DEF LeaderInv

LEMMA LeaderInit == Leader!Init => LeaderInv
  <1> SUFFICES ASSUME Leader!Init PROVE LeaderInv
    OBVIOUS
  <1>1. StoreKeys \subseteq {Free, NoStore} /\ Leader!Out \in Frame /\ Leader!Out.at = "out"
    BY StoresAssumption, KindsType DEF Leader!LeaderAssumption, Leader!Out, Frame
  <1>2. LeaderTypeOK
    <2>1. frame \in [Process -> [Leader!Thread -> Frame]]
      BY <1>1 DEF Leader!Init
    <2> QED
      BY <1>1, <2>1 DEF Leader!Init, LeaderTypeOK
  <1>3. LeadersAreEntitled /\ LoopsAreEntitled /\ LocksAreHeld
    BY DEF Leader!Init, LeadersAreEntitled, LoopsAreEntitled, LocksAreHeld
  <1>4. CallersAreEntitled
    BY <1>1 DEF Leader!Init, CallersAreEntitled
  <1> QED
    BY <1>2, <1>3, <1>4, LeaderTypes DEF LeaderInv

(* Entitled processes of one directory without a store hold its one lock.    *)
LEMMA LeaderSafe ==
    ASSUME LeaderInv PROVE Leader!FollowersAreQuiet /\ (~Faults => Leader!OnePerDataDir)
  <1>1. Leader!FollowersAreQuiet
    BY DEF LeaderInv, LoopsAreEntitled, Entitled, Leader!FollowersAreQuiet, Leader!Active
  <1>2. ASSUME ~Faults PROVE Leader!OnePerDataDir
    <2> SUFFICES ASSUME key = NoStore, NEW p \in Process, main[p] = "serving", Leader!Active(p)
                 PROVE  file[DirOf[p]] = p
      BY DEF Leader!OnePerDataDir
    <2>1. Entitled(p)
      BY DEF LeaderInv, LoopsAreEntitled, Leader!Active
    <2>2. ~lease[p] /\ local[p] # "noop"
      BY <1>2 DEF LeaderInv, LocksAreHeld
    <2>3. local[p] = "flock"
      BY <2>1, <2>2, LeaderTypes DEF LeaderInv, LeaderTypeOK, Entitled
    <2> QED
      BY <2>3 DEF LeaderInv, LocksAreHeld
  <1> QED
    BY <1>1, <1>2

(* The only step out of "release" that leads to "unlock" compares the key.   *)
LEMMA ReleaseCompares ==
    ASSUME LeaderTypeOK, [Leader!Next]_leaderVars, NEW p \in Process,
           main[p] = "release", main'[p] = "unlock", key # p
    PROVE  key' = key
  <1> USE DEF Leader!locks, Leader!held, Leader!scheds, LeaderTypeOK
  <1>1. ASSUME Leader!Release(p) PROVE key' = key
    BY <1>1 DEF Leader!Release
  <1>2. ASSUME NEW q \in Process, q # p,
               \/ Leader!AcquireLock(q) \/ Leader!AcquireFileLock(q) \/ Leader!ListenAndServe(q)
               \/ Leader!Bind(q) \/ Leader!Shutdown(q) \/ Leader!AwaitRenewer(q)
        PROVE  FALSE
    BY <1>2 DEF Leader!AcquireLock, Leader!AcquireFileLock, Leader!ListenAndServe, Leader!Bind,
                Leader!Shutdown, Leader!AwaitRenewer
  <1>3. ASSUME NEW q \in Process, q # p, Leader!Release(q) \/ Leader!Unlock(q) \/ Leader!Terminate(q)
        PROVE  FALSE
    BY <1>3 DEF Leader!Release, Leader!Unlock, Leader!Terminate
  <1>4. ASSUME \/ Leader!AcquireLock(p) \/ Leader!AcquireFileLock(p) \/ Leader!ListenAndServe(p)
               \/ Leader!Bind(p) \/ Leader!Shutdown(p) \/ Leader!AwaitRenewer(p)
               \/ Leader!Unlock(p) \/ Leader!Terminate(p)
        PROVE  FALSE
    BY <1>4 DEF Leader!AcquireLock, Leader!AcquireFileLock, Leader!ListenAndServe, Leader!Bind,
                Leader!Shutdown, Leader!AwaitRenewer, Leader!Unlock, Leader!Terminate
  <1>5. ASSUME UNCHANGED main PROVE FALSE
    BY <1>5
  <1>6. ASSUME NEW q \in Process, NEW th,
               \/ Leader!HandleRequest(q, th) \/ Leader!ReadState(q, th) \/ Leader!StartScheduler(q, th)
               \/ Leader!StopScheduler(q, th) \/ Leader!StopReturns(q, th) \/ Leader!WaitPanics(q, th)
               \/ Leader!LoopEnds(q, th) \/ Leader!SetConfig(q, th)
               \/ Leader!RenewLoses(q) \/ Leader!RenewerEnds(q) \/ Leader!Halt(q) \/ Leader!Expire
        PROVE  UNCHANGED main
    BY <1>6 DEF Leader!HandleRequest, Leader!ReadState, Leader!StartScheduler, Leader!StopScheduler,
                Leader!StopReturns, Leader!WaitPanics, Leader!LoopEnds, Leader!SetConfig,
                Leader!RenewLoses, Leader!RenewerEnds, Leader!Halt, Leader!Expire
  <1>7. leaderVars' = leaderVars => UNCHANGED main
    BY DEF leaderVars
  <1> QED
    BY <1>1, <1>2, <1>3, <1>4, <1>5, <1>6, <1>7
    DEF Leader!Next, Leader!Work, Leader!Reconcile, Leader!Exit

(* A process that serves without a lock runs no scheduler, whatever fails:   *)
(* also when Redis commands and file operations do.                          *)
THEOREM FollowersRunNothing == Spec => [](Leader!TypeOK /\ Leader!FollowersAreQuiet)
  <1>1. Init => LeaderInv
    BY LeaderInit DEF Init
  <1>2. LeaderInv /\ [Next]_vars => LeaderInv'
    BY LeaderStep DEF Next, vars, InRedis, InLeader, InMigration, InBuild
  <1>3. LeaderInv => Leader!TypeOK /\ Leader!FollowersAreQuiet
    BY LeaderSafe DEF LeaderInv
  <1> QED
    BY <1>1, <1>2, <1>3, PTL DEF Spec

(* Of the processes of a data directory at most one runs schedulers, when    *)
(* files can be locked; none runs them without a lock; and a process that    *)
(* shuts down leaves the key of a later leader alone, though its lease had   *)
(* expired (the scheduler leader's lock, runtime.go, redis_runtime.go).      *)
THEOREM AtMostOneLeader == ASSUME ~Faults PROVE Spec => OneLeader
  <1>1. Init => LeaderInv
    BY LeaderInit DEF Init
  <1>2. [Next]_vars => [Leader!Next]_leaderVars
    BY DEF Next, vars, InRedis, InLeader, InMigration, InBuild
  <1>3. LeaderInv /\ [Next]_vars => LeaderInv'
    BY <1>2, LeaderStep
  <1>4. LeaderInv => Leader!TypeOK /\ Leader!FollowersAreQuiet /\ Leader!OnePerDataDir
    BY LeaderSafe DEF LeaderInv
  <1>5. LeaderInv /\ [Next]_vars =>
          [\A p \in Process :
             (main[p] = "release" /\ main'[p] = "unlock" /\ key # p) => key' = key]_(Leader!vars)
    BY <1>2, LeaderTypes, ReleaseCompares DEF LeaderInv
  <1> QED
    BY <1>1, <1>3, <1>4, <1>5, PTL
    DEF Spec, OneLeader, Leader!OneLeader, Leader!ReleaseSparesOthers

-----------------------------------------------------------------------------
(* The accounts in Redis: what RedisAccountSyncProofs shows of a repository  *)
(* holds of the one whose commands fail and of the one whose commands do not.*)
UndoFacts == INSTANCE RedisAccountSyncProofs WITH Faults <- TRUE, phase <- scanPhase
SerialFacts == INSTANCE RedisAccountSyncProofs WITH
    Pool <- SerialPool, Overlap <- FALSE, Faults <- FALSE, phase <- scanPhase

LEMMA UndoIsProved ==
    /\ UndoRedis!Init => UndoFacts!Init
    /\ UndoRedis!Next => UndoFacts!Next
    /\ UNCHANGED redisVars => UNCHANGED UndoFacts!vars
  <1>1. UndoRedis!Init => UndoFacts!Init
    BY DEF UndoRedis!Init, UndoFacts!Init, UndoRedis!Feed!Init, UndoFacts!Feed!Init,
           UndoRedis!Feed!NoRow, UndoFacts!Feed!NoRow, UndoRedis!Idle, UndoFacts!Idle
  <1>2. UndoRedis!Next => UndoFacts!Next
    BY DEF UndoRedis!Next, UndoFacts!Next, UndoRedis!vars, UndoFacts!vars, UndoRedis!keys,
           UndoFacts!keys, UndoRedis!replica, UndoFacts!replica, UndoRedis!scanner,
           UndoFacts!scanner, UndoRedis!Mutation, UndoFacts!Mutation, UndoRedis!Batches,
           UndoFacts!Batches, UndoRedis!UpsertAccounts, UndoFacts!UpsertAccounts,
           UndoRedis!PatchAccounts, UndoFacts!PatchAccounts, UndoRedis!DeleteAccounts,
           UndoFacts!DeleteAccounts, UndoRedis!ReplacePool, UndoFacts!ReplacePool, UndoRedis!Start,
           UndoFacts!Start, UndoRedis!MayStart, UndoFacts!MayStart, UndoRedis!Busy, UndoFacts!Busy,
           UndoRedis!Idle, UndoFacts!Idle, UndoRedis!Incr, UndoFacts!Incr, UndoRedis!Look,
           UndoFacts!Look, UndoRedis!Finish, UndoFacts!Finish, UndoRedis!Write, UndoFacts!Write,
           UndoRedis!Written, UndoFacts!Written, UndoRedis!Row, UndoFacts!Row, UndoRedis!Upserts,
           UndoFacts!Upserts, UndoRedis!Deletes, UndoFacts!Deletes, UndoRedis!Index,
           UndoFacts!Index, UndoRedis!Log, UndoFacts!Log, UndoRedis!Fail, UndoFacts!Fail,
           UndoRedis!Restore, UndoFacts!Restore, UndoRedis!Abandon, UndoFacts!Abandon,
           UndoRedis!SnapshotKeys, UndoFacts!SnapshotKeys, UndoRedis!ReadRecord,
           UndoFacts!ReadRecord, UndoRedis!SnapshotRevision, UndoFacts!SnapshotRevision,
           UndoRedis!ScanRevision, UndoFacts!ScanRevision, UndoRedis!ScanLog, UndoFacts!ScanLog,
           UndoRedis!ScanApply, UndoFacts!ScanApply, UndoRedis!Fresh, UndoFacts!Fresh,
           UndoRedis!SlotAfter, UndoFacts!SlotAfter, UndoRedis!Later, UndoFacts!Later,
           UndoRedis!Restrict, UndoFacts!Restrict, UndoRedis!Feed!NoRow, UndoFacts!Feed!NoRow
  <1>3. UNCHANGED redisVars => UNCHANGED UndoFacts!vars
    BY DEF redisVars, UndoFacts!vars, UndoFacts!keys, UndoFacts!replica, UndoFacts!scanner
  <1> QED
    BY <1>1, <1>2, <1>3

LEMMA SerialIsProved ==
    /\ SerialRedis!Init => SerialFacts!Init
    /\ SerialRedis!Next => SerialFacts!Next
    /\ UNCHANGED redisVars => UNCHANGED SerialFacts!vars
  <1>1. SerialRedis!Init => SerialFacts!Init
    BY DEF SerialRedis!Init, SerialFacts!Init, SerialRedis!Feed!Init, SerialFacts!Feed!Init,
           SerialRedis!Feed!NoRow, SerialFacts!Feed!NoRow, SerialRedis!Idle, SerialFacts!Idle
  <1>2. SerialRedis!Next => SerialFacts!Next
    BY DEF SerialRedis!Next, SerialFacts!Next, SerialRedis!vars, SerialFacts!vars, SerialRedis!keys,
           SerialFacts!keys, SerialRedis!replica, SerialFacts!replica, SerialRedis!scanner,
           SerialFacts!scanner, SerialRedis!Mutation, SerialFacts!Mutation, SerialRedis!Batches,
           SerialFacts!Batches, SerialRedis!UpsertAccounts, SerialFacts!UpsertAccounts,
           SerialRedis!PatchAccounts, SerialFacts!PatchAccounts, SerialRedis!DeleteAccounts,
           SerialFacts!DeleteAccounts, SerialRedis!ReplacePool, SerialFacts!ReplacePool,
           SerialRedis!Start, SerialFacts!Start, SerialRedis!MayStart, SerialFacts!MayStart,
           SerialRedis!Busy, SerialFacts!Busy, SerialRedis!Idle, SerialFacts!Idle, SerialRedis!Incr,
           SerialFacts!Incr, SerialRedis!Look, SerialFacts!Look, SerialRedis!Finish,
           SerialFacts!Finish, SerialRedis!Write, SerialFacts!Write, SerialRedis!Written,
           SerialFacts!Written, SerialRedis!Row, SerialFacts!Row, SerialRedis!Upserts,
           SerialFacts!Upserts, SerialRedis!Deletes, SerialFacts!Deletes, SerialRedis!Index,
           SerialFacts!Index, SerialRedis!Log, SerialFacts!Log, SerialRedis!Fail, SerialFacts!Fail,
           SerialRedis!Restore, SerialFacts!Restore, SerialRedis!Abandon, SerialFacts!Abandon,
           SerialRedis!SnapshotKeys, SerialFacts!SnapshotKeys, SerialRedis!ReadRecord,
           SerialFacts!ReadRecord, SerialRedis!SnapshotRevision, SerialFacts!SnapshotRevision,
           SerialRedis!ScanRevision, SerialFacts!ScanRevision, SerialRedis!ScanLog,
           SerialFacts!ScanLog, SerialRedis!ScanApply, SerialFacts!ScanApply, SerialRedis!Fresh,
           SerialFacts!Fresh, SerialRedis!SlotAfter, SerialFacts!SlotAfter, SerialRedis!Later,
           SerialFacts!Later, SerialRedis!Restrict, SerialFacts!Restrict, SerialRedis!Feed!NoRow,
           SerialFacts!Feed!NoRow
  <1>3. UNCHANGED redisVars => UNCHANGED SerialFacts!vars
    BY DEF redisVars, SerialFacts!vars, SerialFacts!keys, SerialFacts!replica, SerialFacts!scanner
  <1> QED
    BY <1>1, <1>2, <1>3

(* A step of the focus, or none, for either repository.                      *)
LEMMA RedisSteps ==
    ASSUME [Next]_vars
    PROVE  /\ focus' = focus
           /\ focus # "serial" => [UndoFacts!Next]_(UndoFacts!vars)
           /\ focus = "serial" => [SerialFacts!Next]_(SerialFacts!vars)
  <1>1. CASE focus = "undo" /\ InRedis /\ UndoRedis!Next
    BY <1>1, UndoIsProved DEF InRedis
  <1>2. CASE focus = "serial" /\ InRedis /\ SerialRedis!Next
    BY <1>2, SerialIsProved DEF InRedis
  <1>3. CASE InLeader \/ InMigration \/ InBuild \/ UNCHANGED vars
    <2>1. focus' = focus /\ UNCHANGED redisVars
      BY <1>3 DEF InLeader, InMigration, InBuild, vars
    <2> QED
      BY <2>1, UndoIsProved, SerialIsProved
  <1> QED
    BY <1>1, <1>2, <1>3 DEF Next

UndoHolds == focus # "serial" => UndoFacts!UndoInv
TypeHolds == focus # "serial" => UndoFacts!RedisTypeOK
SerialHolds == focus = "serial" => SerialFacts!SerialInv

LEMMA RedisInit == Init => UndoHolds /\ TypeHolds /\ SerialHolds
  <1> SUFFICES ASSUME Init PROVE UndoHolds /\ TypeHolds /\ SerialHolds
    OBVIOUS
  <1>1. CASE focus = "serial"
    BY <1>1, SerialIsProved, SerialFacts!SerialInit DEF Init, UndoHolds, TypeHolds, SerialHolds
  <1>2. CASE focus # "serial"
    BY <1>2, UndoIsProved, UndoFacts!UndoInit, UndoFacts!RedisTypeInit DEF Init, UndoHolds, TypeHolds, SerialHolds
  <1> QED
    BY <1>1, <1>2

LEMMA TypeHoldsStep == TypeHolds /\ [Next]_vars => TypeHolds'
  BY RedisSteps, UndoFacts!RedisTypeStep DEF TypeHolds

LEMMA UndoHoldsStep == ASSUME ~Overlap PROVE UndoHolds /\ [Next]_vars => UndoHolds'
  BY RedisSteps, UndoFacts!UndoStep DEF UndoHolds

LEMMA SerialHoldsStep == SerialHolds /\ [Next]_vars => SerialHolds'
  BY RedisSteps, SerialFacts!SerialStep DEF SerialHolds

(* An undo that runs to the end restores every row, and without faults       *)
(* there is none (redis_mutations.go, restoreRedisBackup).                   *)
THEOREM UndoRestoresRows == ASSUME ~Overlap PROVE Spec => UndoComplete
  <1>1. ASSUME UndoHolds, SerialHolds, [Next]_vars PROVE [UndoRedis!UndoRestores]_redisVars
    <2>1. CASE focus # "serial"
      <3>1. UndoFacts!UndoRestores
        BY <1>1, <2>1, RedisSteps, UndoFacts!UndoActs DEF UndoHolds
      <3> QED
        BY <3>1 DEF UndoFacts!UndoRestores, UndoRedis!UndoRestores, UndoFacts!Restore, UndoRedis!Restore,
           UndoFacts!Idle, UndoRedis!Idle, UndoFacts!replica, UndoRedis!replica,
           UndoFacts!scanner, UndoRedis!scanner, UndoFacts!Restrict, UndoRedis!Restrict
    <2>2. CASE focus = "serial"
      <3>1. \A w \in Writer : job[w].stage # "restore"
        BY <1>1, <2>2 DEF SerialHolds, SerialFacts!SerialInv, SerialFacts!WritersAreAhead, SerialFacts!WriterIsAhead
      <3> QED
        BY <3>1 DEF UndoRedis!UndoRestores, UndoRedis!Restore
    <2> QED
      BY <2>1, <2>2
  <1>2. UndoHolds /\ SerialHolds /\ [Next]_vars => [UndoRedis!UndoRestores]_redisVars
    BY <1>1
  <1>3. UndoHolds /\ [Next]_vars => UndoHolds'
    BY UndoHoldsStep
  <1> QED
    BY <1>2, <1>3, RedisInit, SerialHoldsStep, PTL DEF Spec, UndoComplete

(* Without faults and overlap no row behind the cursor of the directory is   *)
(* stale and ReplacePool misses no live account; with them the types hold    *)
(* (redis_mutations.go, sync.go).                                            *)
THEOREM RedisIsSound == Spec => []SyncIsSound
  <1>1. TypeHolds => (focus # "serial" => UndoRedis!TypeOK)
    <2>1. UndoFacts!RedisTypeOK => UndoFacts!TypeOK
      BY UndoFacts!TypeFollows
    <2>2. UndoFacts!TypeOK => UndoRedis!TypeOK
      BY DEF UndoFacts!TypeOK, UndoRedis!TypeOK, UndoFacts!Feed!TypeOK, UndoRedis!Feed!TypeOK,
         UndoFacts!Feed!Row, UndoRedis!Feed!Row
    <2> QED
      BY <2>1, <2>2 DEF TypeHolds
  <1>2. SerialHolds => (focus = "serial" => SerialRedis!SyncIsSound)
    <2>1. SerialFacts!SerialInv => SerialFacts!SyncIsSound
      BY SerialFacts!TypeFollows DEF SerialFacts!SerialInv, SerialFacts!SyncIsSound
    <2>2. SerialFacts!SyncIsSound => SerialRedis!SyncIsSound
      BY DEF SerialFacts!SyncIsSound, SerialRedis!SyncIsSound, SerialFacts!TypeOK, SerialRedis!TypeOK,
         SerialFacts!SyncComplete, SerialRedis!SyncComplete, SerialFacts!PoolSetCovers, SerialRedis!PoolSetCovers,
         SerialFacts!Feed!TypeOK, SerialRedis!Feed!TypeOK, SerialFacts!Feed!Row, SerialRedis!Feed!Row,
         SerialFacts!Feed!SyncComplete, SerialRedis!Feed!SyncComplete,
         SerialFacts!Feed!Reflects, SerialRedis!Feed!Reflects
    <2> QED
      BY <2>1, <2>2 DEF SerialHolds
  <1>3. TypeHolds /\ SerialHolds => SyncIsSound
    BY <1>1, <1>2 DEF SyncIsSound
  <1> QED
    BY <1>3, RedisInit, TypeHoldsStep, SerialHoldsStep, PTL DEF Spec

-----------------------------------------------------------------------------
(* The migration of the accounts.  Where the copy is, which pages it has     *)
(* done and what it has made of the accounts of the page it works on.        *)
Position == [page : 0 .. Len(Pages), call : {"none", "upsert", "patch", "delete", "rename", "mark"}]
Account == [uses : Nat, deleted : BOOLEAN]
Steps == {"config", "adminKey", "logging", "runtime", "tasks", "repository", "build",
          "migrateConfig", "interval", "migrateAccounts", "reload", "media",
          "directory", "refresh", "proxy", "serve"}
After == {"reload", "media", "directory", "refresh", "proxy", "serve"}

MigrationType ==
    /\ phase \in Steps \cup {"failed", "stopped"} /\ at \in Position
    /\ shared \in BOOLEAN /\ source \in BOOLEAN /\ database \in BOOLEAN /\ moved \in BOOLEAN
    /\ DOMAIN target \subseteq Migration!Locals /\ target \in [DOMAIN target -> Account]
    /\ starts \in 1 .. MaxStarts /\ faults \in 0 .. MaxFaults

(* The copy runs in its hook and with a shared store only.                   *)
CopyIsPlaced ==
    /\ at.page = 0 <=> at.call = "none"
    /\ at.call # "none" => shared /\ phase = "migrateAccounts"
    /\ at.call \in {"upsert", "patch", "delete", "rename"} => ~moved

Copied(a) == a \in DOMAIN target /\ target[a] = Migration!Migrated(a)

(* A page begins with new records; after its three calls its accounts are    *)
(* what they were locally, and so are those of the pages before.             *)
PagesAreCopied ==
    /\ at.page > 0 =>
         \A i \in 1 .. at.page : \A a \in Migration!OnPage(i) :
            (i < at.page /\ a \notin Migration!OnPage(at.page)) \/ (i < at.page /\ at.call = "upsert") => Copied(a)
    /\ at.call \in {"patch", "delete"} =>
         \A a \in Migration!OnPage(at.page) :
            a \in DOMAIN target /\ target[a] = [uses |-> IF at.call = "patch" THEN 0 ELSE Uses[a], deleted |-> FALSE]
    /\ at.call \in {"rename", "mark"} \/ moved => \A a \in Migration!Locals : Copied(a)

(* The file is renamed once and for all, the import is marked in the shared  *)
(* store only, and without a fault a copy that has begun is finished.        *)
RenameIsFinal ==
    /\ moved => ~database /\ shared
    /\ at.call = "mark" => moved
    /\ "accounts_imported" \in confKeys => moved
    /\ "accounts_imported" \notin userFile
    /\ faults = 0 /\ DOMAIN target # {} => moved \/ at.page > 0
    /\ faults = 0 /\ shared /\ phase \in After => ~database

MigrationInv ==
    /\ MigrationType /\ CopyIsPlaced /\ PagesAreCopied /\ RenameIsFinal /\ Migration!CountedOnce

LEMMA Follow ==
    /\ Migration!Follows("config") = "adminKey" /\ Migration!Follows("adminKey") = "logging"
    /\ Migration!Follows("logging") = "runtime" /\ Migration!Follows("runtime") = "tasks"
    /\ Migration!Follows("tasks") = "repository" /\ Migration!Follows("repository") = "build"
    /\ Migration!Follows("build") = "migrateConfig" /\ Migration!Follows("migrateConfig") = "interval"
    /\ Migration!Follows("interval") = "migrateAccounts" /\ Migration!Follows("migrateAccounts") = "reload"
    /\ Migration!Follows("reload") = "media" /\ Migration!Follows("media") = "directory"
    /\ Migration!Follows("directory") = "refresh" /\ Migration!Follows("refresh") = "proxy"
    /\ Migration!Follows("proxy") = "serve"
  BY DEF Migration!Follows, Migration!Order

LEMMA StepNames == Steps = {Migration!Order[i] : i \in DOMAIN Migration!Order}
  BY DEF Steps, Migration!Order

LEMMA PagesType ==
    /\ Len(Pages) \in Nat \ {0} /\ DOMAIN Pages = 1 .. Len(Pages)
    /\ \A i \in 1 .. Len(Pages) : Migration!OnPage(i) \subseteq Migration!Locals
    /\ \A a \in Migration!Locals : Uses[a] \in Nat /\ \E i \in 1 .. Len(Pages) : a \in Migration!OnPage(i)
  BY StoresAssumption DEF Migration!MigrationAssumption, Migration!OnPage, Migration!Locals

(* A hook outside the copy of the accounts.                                  *)
LEMMA HookPasses ==
    ASSUME MigrationInv, phase \in Steps \ {"migrateAccounts", "serve"}, phase' = Migration!Follows(phase),
           UNCHANGED <<shared, source, at, moved, target, starts, faults>>,
           database' \in BOOLEAN, shared => database' = database,
           "accounts_imported" \in confKeys' => "accounts_imported" \in confKeys,
           "accounts_imported" \notin userFile'
    PROVE  MigrationInv'
  <1> USE DEF MigrationInv
  <1>1. phase' \in Steps /\ (phase' \in After => phase \in After)
    BY Follow DEF Steps, After
  <1>2. MigrationType'
    BY <1>1 DEF MigrationType
  <1>3. CopyIsPlaced'
    BY DEF CopyIsPlaced
  <1>4. PagesAreCopied' /\ Migration!CountedOnce'
    BY DEF PagesAreCopied, Copied, Migration!CountedOnce
  <1>5. RenameIsFinal'
    BY <1>1 DEF RenameIsFinal, MigrationType
  <1> QED
    BY <1>2, <1>3, <1>4, <1>5

LEMMA HooksPass ==
    ASSUME MigrationInv,
           \/ Migration!EnsureConfig \/ Migration!EnsureInitialAdminKey \/ Migration!SetupLogging
           \/ Migration!StartRuntimeStore \/ Migration!ConfigureTaskSnapshots \/ Migration!InitializeRepository
           \/ Migration!InitializeBuildAccounts \/ Migration!ReloadConfig \/ Migration!ReconcileMediaCache
           \/ Migration!StartDirectory \/ Migration!StartRefreshRuntime \/ Migration!StartProxyScheduler
           \/ Migration!MigrateConfig \/ Migration!MigrateInterval
    PROVE  MigrationInv'
  <1> USE DEF Migration!Goes, Migration!Kept, Migration!DataKept, Migration!ConfigKept
  <1>0. "accounts_imported" \notin userFile /\ database \in BOOLEAN /\ shared \in BOOLEAN
    BY DEF MigrationInv, RenameIsFinal, MigrationType
  <1>1. CASE Migration!EnsureConfig
    BY <1>0, <1>1, HookPasses DEF Migration!EnsureConfig, Steps
  <1>2. ASSUME NEW keys, Migration!Store(keys),
               "accounts_imported" \in keys => "accounts_imported" \in Migration!Stored
        PROVE  /\ "accounts_imported" \in confKeys' => "accounts_imported" \in confKeys
               /\ "accounts_imported" \notin userFile'
    BY <1>0, <1>2 DEF Migration!Store, Migration!Stored
  <1>3. CASE Migration!EnsureInitialAdminKey
    <2>1. /\ "accounts_imported" \in confKeys' => "accounts_imported" \in confKeys
          /\ "accounts_imported" \notin userFile'
      BY <1>0, <1>2, <1>3 DEF Migration!EnsureInitialAdminKey
    <2> QED
      BY <1>0, <1>3, <2>1, HookPasses DEF Migration!EnsureInitialAdminKey, Steps
  <1>4. CASE Migration!MigrateConfig
    <2>1. /\ "accounts_imported" \in confKeys' => "accounts_imported" \in confKeys
          /\ "accounts_imported" \notin userFile'
      BY <1>0, <1>2, <1>4 DEF Migration!MigrateConfig
    <2> QED
      BY <1>0, <1>4, <2>1, HookPasses DEF Migration!MigrateConfig, Steps
  <1>5. CASE Migration!MigrateInterval
    <2>1. /\ "accounts_imported" \in confKeys' => "accounts_imported" \in confKeys
          /\ "accounts_imported" \notin userFile'
      BY <1>0, <1>2, <1>5 DEF Migration!MigrateInterval
    <2> QED
      BY <1>0, <1>5, <2>1, HookPasses DEF Migration!MigrateInterval, Steps
  <1>6. CASE Migration!InitializeRepository
    BY <1>0, <1>6, HookPasses DEF Migration!InitializeRepository, Migration!Passes, Steps
  <1>7. ASSUME NEW p \in Steps \ {"migrateAccounts", "serve"}, NEW done,
               Migration!Passes(p, done), UNCHANGED database
        PROVE  MigrationInv'
    BY <1>0, <1>7, HookPasses DEF Migration!Passes
  <1>8. CASE \/ Migration!SetupLogging \/ Migration!StartRuntimeStore \/ Migration!ConfigureTaskSnapshots
             \/ Migration!InitializeBuildAccounts \/ Migration!ReloadConfig \/ Migration!ReconcileMediaCache
             \/ Migration!StartDirectory \/ Migration!StartRefreshRuntime \/ Migration!StartProxyScheduler
    <2>1. PICK p \in {"logging", "runtime", "tasks", "build", "reload", "media", "directory", "refresh", "proxy"} :
            \E done : Migration!Passes(p, done) /\ UNCHANGED database
      BY <1>8, Zenon DEF Migration!SetupLogging, Migration!StartRuntimeStore, Migration!ConfigureTaskSnapshots,
         Migration!InitializeBuildAccounts, Migration!ReloadConfig, Migration!ReconcileMediaCache,
         Migration!StartDirectory, Migration!StartRefreshRuntime, Migration!StartProxyScheduler
    <2> QED
      BY <1>7, <2>1 DEF Steps
  <1> QED
    BY <1>1, <1>3, <1>4, <1>5, <1>6, <1>8


(* The copy of the accounts.  A call changes the accounts of its page only.  *)
LEMMA PutFacts ==
    ASSUME MigrationType, NEW i \in 1 .. Len(Pages)
    PROVE  /\ target' = Migration!Put(target, Migration!OnPage(i), LAMBDA a : [uses |-> 0, deleted |-> FALSE]) =>
                /\ DOMAIN target' = DOMAIN target \cup Migration!OnPage(i)
                /\ \A a \in Migration!OnPage(i) : target'[a] = [uses |-> 0, deleted |-> FALSE]
                /\ \A a \in DOMAIN target \ Migration!OnPage(i) : target'[a] = target[a]
                /\ target' \in [DOMAIN target' -> Account]
           /\ target' = Migration!Put(target, Migration!OnPage(i), LAMBDA a : [target[a] EXCEPT !.uses = @ + Uses[a]])
              /\ Migration!OnPage(i) \subseteq DOMAIN target =>
                /\ DOMAIN target' = DOMAIN target
                /\ \A a \in Migration!OnPage(i) :
                     target'[a] = [uses |-> target[a].uses + Uses[a], deleted |-> target[a].deleted]
                /\ \A a \in DOMAIN target \ Migration!OnPage(i) : target'[a] = target[a]
                /\ target' \in [DOMAIN target' -> Account]
           /\ target' = Migration!Put(target, Migration!OnPage(i) \cap DeletedLocal,
                                      LAMBDA a : [target[a] EXCEPT !.deleted = TRUE])
              /\ Migration!OnPage(i) \subseteq DOMAIN target =>
                /\ DOMAIN target' = DOMAIN target
                /\ \A a \in Migration!OnPage(i) :
                     target'[a] = [uses |-> target[a].uses, deleted |-> target[a].deleted \/ a \in DeletedLocal]
                /\ \A a \in DOMAIN target \ Migration!OnPage(i) : target'[a] = target[a]
                /\ target' \in [DOMAIN target' -> Account]
  <1>1. \A a \in Migration!OnPage(i) : Uses[a] \in Nat
    BY PagesType
  <1>2. \A a \in DOMAIN target : target[a] \in Account
    BY DEF MigrationType
  <1>3. ASSUME target' = Migration!Put(target, Migration!OnPage(i), LAMBDA a : [uses |-> 0, deleted |-> FALSE])
        PROVE  /\ DOMAIN target' = DOMAIN target \cup Migration!OnPage(i)
               /\ \A a \in Migration!OnPage(i) : target'[a] = [uses |-> 0, deleted |-> FALSE]
               /\ \A a \in DOMAIN target \ Migration!OnPage(i) : target'[a] = target[a]
               /\ target' \in [DOMAIN target' -> Account]
    BY <1>2, <1>3 DEF Migration!Put, Account
  <1>4. ASSUME target' = Migration!Put(target, Migration!OnPage(i), LAMBDA a : [target[a] EXCEPT !.uses = @ + Uses[a]]),
               Migration!OnPage(i) \subseteq DOMAIN target
        PROVE  /\ DOMAIN target' = DOMAIN target
               /\ \A a \in Migration!OnPage(i) :
                    target'[a] = [uses |-> target[a].uses + Uses[a], deleted |-> target[a].deleted]
               /\ \A a \in DOMAIN target \ Migration!OnPage(i) : target'[a] = target[a]
               /\ target' \in [DOMAIN target' -> Account]
    <2>1. DOMAIN target' = DOMAIN target
      BY <1>4 DEF Migration!Put
    <2>2. \A a \in Migration!OnPage(i) :
            target'[a] = [uses |-> target[a].uses + Uses[a], deleted |-> target[a].deleted]
      BY <1>2, <1>4 DEF Migration!Put, Account
    <2>3. \A a \in DOMAIN target \ Migration!OnPage(i) : target'[a] = target[a]
      BY <1>4 DEF Migration!Put
    <2>4. ASSUME NEW a \in DOMAIN target PROVE target'[a] \in Account
      <3>1. CASE a \in Migration!OnPage(i)
        <4>1. target[a].uses + Uses[a] \in Nat /\ target[a].deleted \in BOOLEAN
          BY <1>1, <1>2, <3>1 DEF Account
        <4>2. target'[a] = [uses |-> target[a].uses + Uses[a], deleted |-> target[a].deleted]
          BY <2>2, <3>1
        <4> QED
          BY <4>1, <4>2 DEF Account
      <3> QED
        BY <1>2, <2>3, <3>1
    <2> QED
      BY <1>4, <2>1, <2>2, <2>3, <2>4 DEF Migration!Put
  <1>5. ASSUME target' = Migration!Put(target, Migration!OnPage(i) \cap DeletedLocal,
                                       LAMBDA a : [target[a] EXCEPT !.deleted = TRUE]),
               Migration!OnPage(i) \subseteq DOMAIN target
        PROVE  /\ DOMAIN target' = DOMAIN target
               /\ \A a \in Migration!OnPage(i) :
                    target'[a] = [uses |-> target[a].uses, deleted |-> target[a].deleted \/ a \in DeletedLocal]
               /\ \A a \in DOMAIN target \ Migration!OnPage(i) : target'[a] = target[a]
               /\ target' \in [DOMAIN target' -> Account]
    <2>1. DOMAIN target' = DOMAIN target
      BY <1>5 DEF Migration!Put
    <2>2. \A a \in Migration!OnPage(i) :
            target'[a] = [uses |-> target[a].uses, deleted |-> target[a].deleted \/ a \in DeletedLocal]
      <3> SUFFICES ASSUME NEW a \in Migration!OnPage(i)
                   PROVE  target'[a] = [uses |-> target[a].uses, deleted |-> target[a].deleted \/ a \in DeletedLocal]
        OBVIOUS
      <3>1. target[a] \in Account /\ a \in DOMAIN target
        BY <1>2, <1>5
      <3>2. CASE a \in DeletedLocal
        <4>1. target'[a] = [target[a] EXCEPT !.deleted = TRUE]
          BY <1>5, <3>1, <3>2 DEF Migration!Put
        <4> QED
          BY <3>1, <3>2, <4>1 DEF Account
      <3>3. CASE a \notin DeletedLocal
        <4>1. target'[a] = target[a]
          BY <1>5, <3>1, <3>3 DEF Migration!Put
        <4> QED
          BY <3>1, <3>3, <4>1 DEF Account
      <3> QED
        BY <3>2, <3>3
    <2>3. \A a \in DOMAIN target \ Migration!OnPage(i) : target'[a] = target[a]
      BY <1>5 DEF Migration!Put
    <2>4. ASSUME NEW a \in DOMAIN target PROVE target'[a] \in Account
      <3>1. CASE a \in Migration!OnPage(i)
        <4> DEFINE gone == target[a].deleted \/ a \in DeletedLocal
        <4>1. target'[a] = [uses |-> target[a].uses, deleted |-> gone]
          BY <2>2, <3>1
        <4>2. target[a].uses \in Nat
          BY <1>2 DEF Account
        <4>3. gone \in BOOLEAN
          OBVIOUS
        <4> HIDE DEF gone
        <4> QED
          BY <4>1, <4>2, <4>3 DEF Account
      <3> QED
        BY <1>2, <2>3, <3>1
    <2> QED
      BY <1>5, <2>1, <2>2, <2>3, <2>4 DEF Migration!Put
  <1> QED
    BY <1>3, <1>4, <1>5


LEMMA CopyStarts ==
    ASSUME MigrationInv, Migration!SkipAccounts \/ Migration!CopyBegins \/ Migration!CopyRefused PROVE MigrationInv'
  <1> USE DEF MigrationInv, Migration!Kept, Migration!DataKept, Migration!ConfigKept
  <1>1. CASE Migration!SkipAccounts
    <2>1. phase' = "reload" /\ phase = "migrateAccounts" /\ at.page = 0 /\ at' = at /\ target' = target
          /\ UNCHANGED <<shared, source, database, moved, starts, faults, confKeys, userFile>>
      BY <1>1, Follow DEF Migration!SkipAccounts
    <2>2. at.call = "none"
      BY <2>1 DEF CopyIsPlaced
    <2>3. MigrationType'
      BY <2>1 DEF MigrationType, Steps
    <2>4. CopyIsPlaced' /\ PagesAreCopied' /\ Migration!CountedOnce'
      BY <2>1, <2>2 DEF CopyIsPlaced, PagesAreCopied, Copied, Migration!CountedOnce
    <2>5. faults = 0 /\ shared => ~database
      <3>1. ~Migration!Wanted
        BY <1>1 DEF Migration!SkipAccounts
      <3>2. at.page > 0 => FALSE
        BY <2>1
      <3> QED
        BY <3>1, <3>2 DEF Migration!Wanted, RenameIsFinal
    <2>6. RenameIsFinal'
      BY <2>1, <2>5 DEF RenameIsFinal
    <2> QED
      BY <2>3, <2>4, <2>6
  <1>2. CASE Migration!CopyBegins
    <2>1. /\ at' = [page |-> 1, call |-> "upsert"] /\ phase = "migrateAccounts" /\ phase' = phase
          /\ shared /\ database /\ DOMAIN target = {} /\ target' = target
          /\ UNCHANGED <<shared, source, database, moved, starts, faults, confKeys, userFile>>
      BY <1>2 DEF Migration!CopyBegins, Migration!Wanted
    <2>2. ~moved
      BY <2>1 DEF RenameIsFinal
    <2>3. at'.page = 1 /\ at'.call = "upsert" /\ at' \in Position
      BY <2>1, PagesType DEF Position
    <2>4. MigrationType'
      BY <2>1, <2>3 DEF MigrationType
    <2>5. CopyIsPlaced'
      BY <2>1, <2>2, <2>3 DEF CopyIsPlaced
    <2>6. PagesAreCopied'
      BY <2>1, <2>2, <2>3 DEF PagesAreCopied
    <2>7. RenameIsFinal' /\ Migration!CountedOnce'
      BY <2>1, <2>3 DEF RenameIsFinal, Migration!CountedOnce, After
    <2> QED
      BY <2>4, <2>5, <2>6, <2>7
  <1>3. CASE Migration!CopyRefused
    <2>1. /\ phase' = "failed" /\ at.page = 0 /\ at' = at /\ target' = target
          /\ UNCHANGED <<shared, source, database, moved, starts, faults, confKeys, userFile>>
      BY <1>3 DEF Migration!CopyRefused
    <2>2. at.call = "none"
      BY <2>1 DEF CopyIsPlaced
    <2>3. MigrationType'
      BY <2>1 DEF MigrationType
    <2>4. CopyIsPlaced' /\ PagesAreCopied' /\ Migration!CountedOnce'
      BY <2>1, <2>2 DEF CopyIsPlaced, PagesAreCopied, Copied, Migration!CountedOnce
    <2>5. RenameIsFinal'
      BY <2>1 DEF RenameIsFinal, After
    <2> QED
      BY <2>3, <2>4, <2>5
  <1> QED
    BY <1>1, <1>2, <1>3

LEMMA CopyGoesOn ==
    ASSUME MigrationInv, Migration!UpsertPage \/ Migration!PatchPage \/ Migration!DeletePage PROVE MigrationInv'
  <1> USE DEF MigrationInv, Migration!PageCall, Migration!DataKept, Migration!ConfigKept
  <1> DEFINE page == Migration!OnPage(at.page)
  <1>0. /\ phase = "migrateAccounts" /\ phase' = phase
        /\ UNCHANGED <<shared, source, database, moved, starts, faults, confKeys, userFile>>
    BY DEF Migration!UpsertPage, Migration!PatchPage, Migration!DeletePage
  <1>1. /\ at.call \in {"upsert", "patch", "delete"} /\ at.page \in 1 .. Len(Pages)
        /\ ~moved /\ shared /\ page \subseteq Migration!Locals
    <2>1. at.call \in {"upsert", "patch", "delete"}
      BY DEF Migration!UpsertPage, Migration!PatchPage, Migration!DeletePage
    <2>2. at \in Position /\ at.page # 0
      BY <2>1 DEF MigrationType, CopyIsPlaced
    <2>3. at.page \in 1 .. Len(Pages)
      BY <2>2, PagesType DEF Position
    <2> QED
      BY <2>1, <2>3, PagesType DEF CopyIsPlaced
  <1>2. \A i \in 1 .. at.page : \A a \in Migration!OnPage(i) : i < at.page /\ a \notin page => Copied(a)
    BY <1>1 DEF PagesAreCopied
  <1>f. ASSUME at'.page > 0, at'.call # "mark" PROVE RenameIsFinal'
    BY <1>0, <1>1, <1>f DEF RenameIsFinal, After
  <1>3. CASE Migration!UpsertPage
    <2>0. at.call = "upsert" /\ at' = [at EXCEPT !.call = "patch"]
          /\ target' = Migration!Put(target, page, LAMBDA a : [uses |-> 0, deleted |-> FALSE])
      BY <1>3 DEF Migration!UpsertPage
    <2>1. at' \in Position /\ at'.page = at.page /\ at'.call = "patch"
      BY <2>0 DEF MigrationType, Position
    <2>2. /\ DOMAIN target' = DOMAIN target \cup page
          /\ \A a \in page : target'[a] = [uses |-> 0, deleted |-> FALSE]
          /\ \A a \in DOMAIN target \ page : target'[a] = target[a]
          /\ target' \in [DOMAIN target' -> Account]
      BY <1>1, <2>0, PutFacts
    <2>3. MigrationType'
      BY <1>0, <1>1, <2>1, <2>2 DEF MigrationType
    <2>4. CopyIsPlaced'
      BY <1>0, <1>1, <2>1 DEF CopyIsPlaced
    <2>5. PagesAreCopied'
      BY <1>0, <1>1, <1>2, <2>1, <2>2 DEF PagesAreCopied, Copied
    <2>6. Migration!CountedOnce'
      BY <2>2 DEF Migration!CountedOnce
    <2>7. RenameIsFinal'
      BY <1>1, <1>f, <2>1
    <2> QED
      BY <2>3, <2>4, <2>5, <2>6, <2>7
  <1>4. CASE Migration!PatchPage
    <2>0. at.call = "patch" /\ at' = [at EXCEPT !.call = "delete"]
          /\ target' = Migration!Put(target, page, LAMBDA a : [target[a] EXCEPT !.uses = @ + Uses[a]])
      BY <1>4 DEF Migration!PatchPage
    <2>1. at' \in Position /\ at'.page = at.page /\ at'.call = "delete"
      BY <2>0 DEF MigrationType, Position
    <2>2. \A a \in page : a \in DOMAIN target /\ target[a] = [uses |-> 0, deleted |-> FALSE] /\ Uses[a] \in Nat
      BY <1>1, <2>0, PagesType DEF PagesAreCopied
    <2>3. /\ DOMAIN target' = DOMAIN target
          /\ \A a \in page : target'[a] = [uses |-> target[a].uses + Uses[a], deleted |-> target[a].deleted]
          /\ \A a \in DOMAIN target \ page : target'[a] = target[a]
          /\ target' \in [DOMAIN target' -> Account]
      BY <1>1, <2>0, <2>2, PutFacts
    <2>4. \A a \in page : target'[a] = [uses |-> Uses[a], deleted |-> FALSE]
      <3> SUFFICES ASSUME NEW a \in page PROVE target'[a] = [uses |-> Uses[a], deleted |-> FALSE]
        OBVIOUS
      <3>1. target[a].uses = 0 /\ target[a].deleted = FALSE /\ Uses[a] \in Nat
        BY <2>2
      <3>2. target[a].uses + Uses[a] = Uses[a]
        BY <3>1
      <3> QED
        BY <2>3, <3>1, <3>2
    <2>5. MigrationType'
      BY <1>0, <2>1, <2>3 DEF MigrationType
    <2>6. CopyIsPlaced'
      BY <1>0, <1>1, <2>1 DEF CopyIsPlaced
    <2>7. PagesAreCopied'
      BY <1>0, <1>1, <1>2, <2>1, <2>2, <2>3, <2>4 DEF PagesAreCopied, Copied
    <2>8. Migration!CountedOnce'
      <3> SUFFICES ASSUME NEW a \in DOMAIN target PROVE target'[a].uses \in {0, Uses[a]}
        BY <2>3 DEF Migration!CountedOnce
      <3>1. CASE a \in page
        <4>1. target'[a] = [uses |-> Uses[a], deleted |-> FALSE]
          BY <2>4, <3>1, Zenon
        <4> QED
          BY <4>1
      <3>2. CASE a \notin page
        BY <2>3, <3>2 DEF Migration!CountedOnce
      <3> QED
        BY <3>1, <3>2
    <2>9. RenameIsFinal'
      BY <1>1, <1>f, <2>1
    <2> QED
      BY <2>5, <2>6, <2>7, <2>8, <2>9
  <1>5. CASE Migration!DeletePage
    <2>0. /\ at.call = "delete"
          /\ at' = IF at.page >= Len(Pages) THEN [at EXCEPT !.call = "rename"]
                   ELSE [page |-> at.page + 1, call |-> "upsert"]
          /\ target' = Migration!Put(target, page \cap DeletedLocal, LAMBDA a : [target[a] EXCEPT !.deleted = TRUE])
      BY <1>5 DEF Migration!DeletePage
    <2>1. at' \in Position /\ at'.page \in Nat \ {0}
          /\ \/ at.page = Len(Pages) /\ at'.page = at.page /\ at'.call = "rename"
             \/ at.page < Len(Pages) /\ at'.page = at.page + 1 /\ at'.call = "upsert"
      BY <1>1, <2>0, PagesType DEF MigrationType, Position
    <2>2. \A a \in page : a \in DOMAIN target /\ target[a] = [uses |-> Uses[a], deleted |-> FALSE]
      BY <1>1, <2>0 DEF PagesAreCopied
    <2>3. /\ DOMAIN target' = DOMAIN target
          /\ \A a \in page : target'[a] = [uses |-> target[a].uses, deleted |-> target[a].deleted \/ a \in DeletedLocal]
          /\ \A a \in DOMAIN target \ page : target'[a] = target[a]
          /\ target' \in [DOMAIN target' -> Account]
      BY <1>1, <2>0, <2>2, PutFacts
    <2>4. \A a \in page : Copied(a)'
      <3> SUFFICES ASSUME NEW a \in page PROVE Copied(a)'
        OBVIOUS
      <3>0. a \in DOMAIN target /\ target[a] = [uses |-> Uses[a], deleted |-> FALSE]
        BY <2>2, Zenon
      <3>1. a \in DOMAIN target /\ target[a].uses = Uses[a] /\ target[a].deleted = FALSE
        BY <3>0
      <3>2. (target[a].deleted \/ a \in DeletedLocal) = (a \in DeletedLocal)
        BY <3>1
      <3>3. target'[a] = [uses |-> target[a].uses, deleted |-> target[a].deleted \/ a \in DeletedLocal]
        BY <2>3
      <3>4. target'[a] = [uses |-> Uses[a], deleted |-> a \in DeletedLocal]
        BY <3>1, <3>2, <3>3, Zenon
      <3> QED
        BY <2>3, <3>1, <3>4 DEF Copied, Migration!Migrated
    <2>5. \A i \in 1 .. at.page : \A a \in Migration!OnPage(i) : Copied(a)'
      <3> SUFFICES ASSUME NEW i \in 1 .. at.page, NEW a \in Migration!OnPage(i) PROVE Copied(a)'
        OBVIOUS
      <3>1. CASE a \in page
        BY <2>4, <3>1
      <3>2. CASE a \notin page
        <4>1. i < at.page
          BY <1>1, <3>2
        <4>2. Copied(a)
          BY <1>2, <3>2, <4>1
        <4> QED
          BY <2>3, <3>2, <4>2 DEF Copied
      <3> QED
        BY <3>1, <3>2
    <2>6. MigrationType'
      BY <1>0, <2>1, <2>3 DEF MigrationType
    <2>7. CopyIsPlaced'
      BY <1>0, <1>1, <2>1 DEF CopyIsPlaced
    <2>8. PagesAreCopied'
      <3>1. CASE at'.call = "rename"
        <4>1. \A a \in Migration!Locals : Copied(a)'
          BY <2>1, <2>5, <3>1, PagesType
        <4> QED
          BY <1>0, <1>1, <2>1, <2>5, <3>1, <4>1 DEF PagesAreCopied
      <3>2. CASE at'.call = "upsert"
        BY <1>0, <1>1, <2>1, <2>5, <3>2 DEF PagesAreCopied
      <3> QED
        BY <2>1, <3>1, <3>2
    <2>9. Migration!CountedOnce'
      <3> SUFFICES ASSUME NEW a \in DOMAIN target PROVE target'[a].uses \in {0, Uses[a]}
        BY <2>3 DEF Migration!CountedOnce
      <3>1. CASE a \in page
        <4>1. target'[a] = [uses |-> Uses[a], deleted |-> a \in DeletedLocal]
          BY <2>4, <3>1, Zenon DEF Copied, Migration!Migrated
        <4> DEFINE gone == a \in DeletedLocal
        <4> HIDE DEF gone
        <4> QED
          BY <4>1 DEF gone
      <3>2. CASE a \notin page
        BY <2>3, <3>2 DEF Migration!CountedOnce
      <3> QED
        BY <3>1, <3>2
    <2>10. RenameIsFinal'
      BY <1>1, <1>f, <2>1
    <2> QED
      BY <2>6, <2>7, <2>8, <2>9, <2>10
  <1> QED
    BY <1>3, <1>4, <1>5

LEMMA CopyEnds ==
    ASSUME MigrationInv, Migration!RenameDatabase \/ Migration!MarkImported PROVE MigrationInv'
  <1> USE DEF MigrationInv, Migration!Kept, Migration!DataKept, Migration!ConfigKept
  <1>1. CASE Migration!RenameDatabase
    <2>1. /\ phase = "migrateAccounts" /\ phase' = phase /\ at.call = "rename" /\ at' = [at EXCEPT !.call = "mark"]
          /\ database' = FALSE /\ moved' = TRUE /\ target' = target
          /\ UNCHANGED <<shared, source, starts, faults, confKeys, userFile>>
      BY <1>1 DEF Migration!RenameDatabase
    <2>2. at' \in Position /\ at'.page = at.page /\ at'.call = "mark" /\ shared /\ at.page # 0
      BY <2>1 DEF MigrationType, Position, CopyIsPlaced
    <2>3. \A a \in Migration!Locals : Copied(a)'
      BY <2>1 DEF PagesAreCopied, Copied
    <2>4. MigrationType'
      BY <2>1, <2>2 DEF MigrationType
    <2>5. CopyIsPlaced'
      BY <2>1, <2>2 DEF CopyIsPlaced
    <2>6. PagesAreCopied'
      <3>1. \A i \in 1 .. at.page : \A a \in Migration!OnPage(i) : Copied(a)'
        BY <2>2, <2>3, PagesType DEF MigrationType, Position
      <3> QED
        BY <2>1, <2>2, <2>3, <3>1 DEF PagesAreCopied
    <2>7. RenameIsFinal' /\ Migration!CountedOnce'
      BY <2>1, <2>2 DEF RenameIsFinal, Migration!CountedOnce
    <2> QED
      BY <2>4, <2>5, <2>6, <2>7
  <1>2. CASE Migration!MarkImported
    <2>1. /\ phase = "migrateAccounts" /\ phase' = "reload" /\ at.call = "mark" /\ at' = [page |-> 0, call |-> "none"]
          /\ Migration!Store(Migration!Stored \cup {"accounts_imported"}) /\ target' = target
          /\ UNCHANGED <<shared, source, database, moved, starts, faults>>
      BY <1>2, Follow DEF Migration!MarkImported
    <2>2. at' \in Position /\ at'.page = 0 /\ at'.call = "none"
      BY <2>1, PagesType DEF Position
    <2>3. moved /\ shared /\ ~database
      BY <2>1 DEF RenameIsFinal
    <2>4. userFile' = userFile
      BY <2>1, <2>3 DEF Migration!Store
    <2>5. MigrationType'
      BY <2>1, <2>2 DEF MigrationType, Steps
    <2>6. CopyIsPlaced' /\ PagesAreCopied'
      BY <2>1, <2>2 DEF CopyIsPlaced, PagesAreCopied, Copied
    <2>7. RenameIsFinal' /\ Migration!CountedOnce'
      BY <2>1, <2>3, <2>4 DEF RenameIsFinal, Migration!CountedOnce
    <2> QED
      BY <2>5, <2>6, <2>7
  <1> QED
    BY <1>1, <1>2

LEMMA StartsAndEnds ==
    ASSUME MigrationInv,
           Migration!Fails \/ Migration!Shutdown \/ \E sharing \in BOOLEAN : Migration!Restart(sharing)
    PROVE  MigrationInv'
  <1> USE DEF MigrationInv, Migration!Kept, Migration!DataKept, Migration!ConfigKept
  <1>1. CASE Migration!Fails
    <2>1. /\ phase' = "failed" /\ at' = [page |-> 0, call |-> "none"] /\ faults' = faults + 1 /\ faults < MaxFaults
          /\ target' = target /\ UNCHANGED <<shared, source, database, moved, starts, confKeys, userFile>>
      BY <1>1 DEF Migration!Fails
    <2>2. at' \in Position /\ at'.page = 0 /\ at'.call = "none"
      BY <2>1, PagesType DEF Position
    <2>3. faults' \in 0 .. MaxFaults /\ faults' # 0
      BY <2>1, StoresAssumption DEF MigrationType, Migration!MigrationAssumption
    <2>4. MigrationType'
      BY <2>1, <2>2, <2>3 DEF MigrationType
    <2>5. CopyIsPlaced' /\ PagesAreCopied'
      BY <2>1, <2>2 DEF CopyIsPlaced, PagesAreCopied, Copied
    <2>6. RenameIsFinal' /\ Migration!CountedOnce'
      BY <2>1, <2>2, <2>3 DEF RenameIsFinal, Migration!CountedOnce
    <2> QED
      BY <2>4, <2>5, <2>6
  <1>2. CASE Migration!Shutdown
    <2>1. /\ phase = "serve" /\ phase' \in {"serve", "stopped"} /\ at' = at
          /\ target' = target /\ UNCHANGED <<shared, source, database, moved, starts, faults, confKeys, userFile>>
      BY <1>2 DEF Migration!Shutdown
    <2>2. MigrationType'
      BY <2>1 DEF MigrationType, Steps
    <2>3. CopyIsPlaced' /\ PagesAreCopied'
      BY <2>1 DEF CopyIsPlaced, PagesAreCopied, Copied
    <2>4. RenameIsFinal' /\ Migration!CountedOnce'
      BY <2>1 DEF RenameIsFinal, Migration!CountedOnce, After
    <2> QED
      BY <2>2, <2>3, <2>4
  <1>3. ASSUME NEW sharing \in BOOLEAN, Migration!Restart(sharing) PROVE MigrationInv'
    <2>1. /\ phase \in {"failed", "stopped"} /\ phase' = "config" /\ at' = at /\ shared' = (shared \/ sharing)
          /\ starts' = starts + 1 /\ starts < MaxStarts
          /\ target' = target /\ UNCHANGED <<source, database, moved, faults, confKeys, userFile>>
      BY <1>3 DEF Migration!Restart
    <2>2. starts' \in 1 .. MaxStarts
      BY <2>1, StoresAssumption DEF MigrationType, Migration!MigrationAssumption
    <2>3. shared' \in BOOLEAN /\ (shared => shared')
      BY <2>1
    <2>4. MigrationType'
      BY <2>1, <2>2, <2>3 DEF MigrationType, Steps
    <2>5. CopyIsPlaced' /\ PagesAreCopied'
      BY <2>1, <2>3 DEF CopyIsPlaced, PagesAreCopied, Copied
    <2>6. RenameIsFinal' /\ Migration!CountedOnce'
      BY <2>1, <2>3 DEF RenameIsFinal, Migration!CountedOnce, After
    <2> QED
      BY <2>4, <2>5, <2>6
  <1> QED
    BY <1>1, <1>2, <1>3

LEMMA MigrationStep == MigrationInv /\ [Next]_vars => MigrationInv'
  <1> SUFFICES ASSUME MigrationInv, [Next]_vars PROVE MigrationInv'
    OBVIOUS
  <1>1. CASE InMigration /\ Migration!Next
    BY <1>1, HooksPass, CopyStarts, CopyGoesOn, CopyEnds, StartsAndEnds DEF Migration!Next, Migration!Hook
  <1>2. CASE InRedis \/ InLeader \/ InBuild \/ UNCHANGED vars
    <2>1. UNCHANGED startVars
      BY <1>2 DEF InRedis, InLeader, InBuild, vars
    <2> QED
      BY <2>1 DEF startVars, MigrationInv, MigrationType, CopyIsPlaced, PagesAreCopied, Copied, RenameIsFinal,
         Migration!CountedOnce
  <1> QED
    BY <1>1, <1>2 DEF Next

LEMMA MigrationInit == Init => MigrationInv
  <1> SUFFICES ASSUME Init PROVE MigrationInv
    OBVIOUS
  <1>1. /\ phase = "config" /\ at = [page |-> 0, call |-> "none"] /\ target = [a \in {} |-> "none"]
        /\ moved = FALSE /\ starts = 1 /\ faults = 0 /\ confKeys = {} /\ "accounts_imported" \notin userFile
    BY DEF Init, Migration!Init, Migration!NoAccounts
  <1>2. shared \in BOOLEAN /\ source \in BOOLEAN /\ database \in BOOLEAN
    BY StoresAssumption DEF Init, Migration!Init, Migration!MigrationAssumption
  <1>3. DOMAIN target = {} /\ target \in [DOMAIN target -> Account]
    BY <1>1
  <1>4. at \in Position /\ at.page = 0 /\ at.call = "none"
    BY <1>1, PagesType DEF Position
  <1>5. MigrationType
    <2>1. 1 \in 1 .. MaxStarts /\ 0 \in 0 .. MaxFaults
      BY StoresAssumption DEF Migration!MigrationAssumption
    <2>2. starts \in 1 .. MaxStarts /\ faults \in 0 .. MaxFaults /\ phase \in Steps
      BY <1>1, <2>1 DEF Steps
    <2>3. moved \in BOOLEAN /\ DOMAIN target \subseteq Migration!Locals
      BY <1>1, <1>3
    <2> QED
      BY <1>2, <1>3, <1>4, <2>2, <2>3 DEF MigrationType
  <1>6. CopyIsPlaced /\ PagesAreCopied /\ RenameIsFinal /\ Migration!CountedOnce
    BY <1>1, <1>3, <1>4 DEF CopyIsPlaced, PagesAreCopied, RenameIsFinal, Migration!CountedOnce, After
  <1> QED
    BY <1>5, <1>6 DEF MigrationInv

(* However often a start is killed and repeated, accounts.db leaves its      *)
(* place only when all of it is in the repository, no counter is added       *)
(* twice, and a start without a fault that serves has brought the accounts   *)
(* along (startup/migrations.go, migrateAccounts and copyAccounts).          *)
THEOREM AccountsSurviveMigration == Spec => []MigrationIsSafe
  <1>1. MigrationInv => MigrationIsSafe
    <2> SUFFICES ASSUME MigrationInv PROVE MigrationIsSafe
      OBVIOUS
    <2> USE DEF MigrationInv
    <2>1. Migration!TypeOK
      BY StepNames DEF MigrationType, Migration!TypeOK, Position
    <2>2. Migration!DatabaseKeptUntilCopied
      BY DEF PagesAreCopied, Copied, RenameIsFinal, Migration!DatabaseKeptUntilCopied
    <2>3. Migration!AccountsArrive
      BY DEF MigrationType, PagesAreCopied, Copied, RenameIsFinal, Migration!AccountsArrive, After
    <2> QED
      BY <2>1, <2>2, <2>3 DEF MigrationIsSafe, Migration!MigrationIsSafe
  <1> QED
    BY <1>1, MigrationInit, MigrationStep, PTL DEF Spec

-----------------------------------------------------------------------------
(* The Build accounts.  The accounts a flow has still to work on are copies; *)
(* what the proof says of them it says of the set.                           *)
Listed(f) == {flows[f].todo[n] : n \in DOMAIN flows[f].todo}
CopyType == [id : Build!Id, access : BOOLEAN, refresh : 0 .. MaxTokens, fresh : BOOLEAN, billing : Build!Billing]
Label == {"idle", "filter", "next", "exchange", "granted", "refused", "reread", "call", "done"}
Working == {"exchange", "granted", "refused", "reread", "call"}
FlowType(r) ==
    /\ DOMAIN r = {"kind", "pc", "todo", "retried", "new", "result"}
    /\ r.pc \in Label /\ r.todo \in Seq(CopyType) /\ r.new \in 0 .. MaxTokens

FlowsType ==
    /\ DOMAIN flows = Flow
    /\ \A f \in Flow : FlowType(flows[f]) /\ (flows[f].pc \in Working => flows[f].todo # <<>>)
RowsType ==
    /\ brow \in [Build!Id -> Build!Row \cup {NoAccount}]
    /\ nextId \in 1 .. MaxIds + 1 /\ owed \in [Build!Id -> Nat]
ServerType ==
    /\ valid \in [Build!Id -> SUBSET (1 .. MaxTokens)] /\ lastToken \in 1 .. MaxTokens
    /\ rotates \in BOOLEAN /\ models \in [ids : BOOLEAN, fresh : BOOLEAN]

(* A token the server has handed out is never handed out again.              *)
Issued(t) == t <= lastToken
TokensAreIssued ==
    /\ \A i \in Build!Present : Issued(brow[i].refresh)
    /\ \A f \in Flow : \A c \in Listed(f) : Issued(c.refresh)
    /\ \A i \in Build!Id : \A t \in valid[i] : Issued(t)
    /\ \A f \in Flow : Build!At(f, "granted") => Issued(flows[f].new)

(* The token of an exchange is accepted until its flow has written it; one   *)
(* that replaces another is known to that flow only.                         *)
GrantsAreGood ==
    \A f \in Flow : Build!At(f, "granted") /\ Build!Acc(f).id \notin damaged
                       => flows[f].new \in valid[Build!Acc(f).id]
NewIsUnknown ==
    rotates => \A f \in Flow : Build!At(f, "granted") =>
        /\ flows[f].new # 0
        /\ \A i \in Build!Present : brow[i].refresh # flows[f].new
        /\ \A g \in Flow : \A c \in Listed(g) : c.refresh # flows[f].new
        /\ \A g \in Flow \ {f} : Build!At(g, "granted") => flows[g].new # flows[f].new

(* Without rotation every copy of a token is as good as the row's.           *)
CopiesAreGood ==
    ~rotates => \A f \in Flow : \A c \in Listed(f) :
                    c.id \notin damaged => c.refresh \in valid[c.id] \cup {0}
RowsAreGood ==
    ~rotates => \A i \in Build!Present \ damaged : brow[i].refresh \in valid[i] \cup {0}
RefusalsHaveCause ==
    /\ \A f \in Flow : Build!At(f, "exchange") => Build!Acc(f).refresh # 0
    /\ ~rotates => \A f \in Flow : Build!At(f, "refused") => Build!Acc(f).id \in damaged

(* What is owed to an account is its cooldown; ids are never used again.     *)
OwedIsCooldown ==
    /\ \A i \in Build!Present : owed[i] = brow[i].cool
    /\ \A i \in Build!Id : i >= nextId => owed[i] = 0 /\ i \notin Build!Present
    /\ \A f \in Flow : \A c \in Listed(f) : c.id < nextId

BuildInv ==
    /\ FlowsType /\ RowsType /\ ServerType /\ TokensAreIssued /\ GrantsAreGood /\ NewIsUnknown
    /\ CopiesAreGood /\ RowsAreGood /\ RefusalsHaveCause /\ OwedIsCooldown
    /\ Build!GrantIsKept /\ Build!NoRaceWithoutRotation

(* What most steps do to the flows: one of them goes on with copies it had   *)
(* or takes now, and nobody comes to hold a new token or writes one.         *)
Copies(r) == {r.todo[n] : n \in DOMAIN r.todo}
Fits(f, r) ==
    /\ FlowType(r) /\ r.pc # "granted" /\ (r.pc \in Working => r.todo # <<>>)
    /\ Copies(r) \subseteq Listed(f) \cup {Build!Copy(i) : i \in Build!Present}
    /\ r.pc = "exchange" => Head(r.todo).refresh # 0
    /\ r.pc = "refused" => rotates \/ Head(r.todo).id \in damaged

FlowsStay ==
    /\ FlowsType'
    /\ \A g \in Flow : Listed(g)' \subseteq Listed(g) \cup {Build!Copy(i) : i \in Build!Present}
    /\ \A g \in Flow : Build!At(g, "granted") \/ Build!At(g, "granted")' => flows'[g] = flows[g]
    /\ \A g \in Flow : Build!At(g, "exchange")' => Build!Acc(g)'.refresh # 0
    /\ \A g \in Flow : Build!At(g, "refused")' => rotates \/ Build!Acc(g)'.id \in damaged

(* And to the rows: no token changes, and a status for a reason.             *)
RowsStay ==
    /\ RowsType' /\ nextId' = nextId
    /\ \A i \in Build!Present' : i \in Build!Present /\ brow'[i].refresh = brow[i].refresh /\ owed'[i] = brow'[i].cool
    /\ \A i \in Build!Present' : brow'[i].status = "expired" =>
          \/ rotates \/ i \in damaged \/ i \in marked'
          \/ brow[i].status = "expired" /\ i \notin marked
    /\ \A i \in Build!Id : i >= nextId => owed'[i] = 0

LEMMA NothingGranted ==
    ASSUME BuildInv, FlowsStay, RowsStay, UNCHANGED <<valid, lastToken, rotates, damaged>>,
           models' \in [ids : BOOLEAN, fresh : BOOLEAN]
    PROVE  BuildInv'
  <1> USE DEF BuildInv
  <1>1. FlowsType' /\ RowsType' /\ ServerType'
    BY DEF FlowsStay, RowsStay, ServerType
  <1>2. \A g \in Flow : \A c \in Listed(g)' :
            c \in Listed(g) \/ \E i \in Build!Present : c = Build!Copy(i)
    BY DEF FlowsStay
  <1>3. \A i \in Build!Present : Build!Copy(i).id = i /\ Build!Copy(i).refresh = brow[i].refresh
    BY DEF Build!Copy
  <1>4. \A i \in Build!Present' : i \in Build!Present /\ brow'[i].refresh = brow[i].refresh
    BY DEF RowsStay
  <1>5. \A g \in Flow : Build!At(g, "granted") \/ Build!At(g, "granted")' =>
            Build!At(g, "granted") /\ Build!At(g, "granted")' /\ flows'[g].new = flows[g].new
            /\ Build!Acc(g)' = Build!Acc(g)
    BY DEF FlowsStay, Build!At, Build!Acc
  <1>6. TokensAreIssued'
    BY <1>2, <1>3, <1>4, <1>5 DEF TokensAreIssued, Issued
  <1>7. GrantsAreGood'
    BY <1>5 DEF GrantsAreGood
  <1>8. NewIsUnknown'
    BY <1>2, <1>3, <1>4, <1>5 DEF NewIsUnknown
  <1>9. CopiesAreGood' /\ RowsAreGood'
    BY <1>2, <1>3, <1>4 DEF CopiesAreGood, RowsAreGood
  <1>10. RefusalsHaveCause'
    BY DEF FlowsStay, RefusalsHaveCause
  <1>11. OwedIsCooldown'
    <2>1. \A g \in Flow : \A c \in Listed(g)' : c.id < nextId
      <3> SUFFICES ASSUME NEW g \in Flow, NEW c \in Listed(g)' PROVE c.id < nextId
        OBVIOUS
      <3>1. CASE c \in Listed(g)
        BY <3>1 DEF OwedIsCooldown
      <3>2. ASSUME NEW i \in Build!Present, c = Build!Copy(i) PROVE c.id < nextId
        <4>1. i \in Nat /\ nextId \in Nat /\ ~(i >= nextId)
          BY DEF OwedIsCooldown, Build!Present, Build!Id, RowsType
        <4> QED
          BY <1>3, <3>2, <4>1
      <3> QED
        BY <1>2, <3>1, <3>2
    <2> QED
      BY <1>4, <2>1 DEF RowsStay, OwedIsCooldown
  <1>12. Build!GrantIsKept'
    BY <1>4, <1>5 DEF Build!GrantIsKept
  <1>13. Build!NoRaceWithoutRotation'
    BY <1>4 DEF RowsStay, Build!NoRaceWithoutRotation
  <1> QED
    BY <1>1, <1>6, <1>7, <1>8, <1>9, <1>10, <1>11, <1>12, <1>13

LEMMA FlowStays ==
    ASSUME FlowsType, RefusalsHaveCause, NEW f \in Flow, NEW r, Fits(f, r), ~Build!At(f, "granted"), Build!Move(f, r)
    PROVE  FlowsStay
  <1>1. flows'[f] = r /\ DOMAIN flows' = Flow /\ \A g \in Flow \ {f} : flows'[g] = flows[g]
    BY DEF FlowsType, Build!Move
  <1>2. FlowsType'
    BY <1>1 DEF Fits, FlowsType
  <1>3. Listed(f)' = Copies(r) /\ \A g \in Flow \ {f} : Listed(g)' = Listed(g)
    BY <1>1 DEF Listed, Copies
  <1> QED
    BY <1>1, <1>2, <1>3 DEF Fits, FlowsStay, RefusalsHaveCause, Build!At, Build!Acc

(* The ways a flow goes on.                                                  *)
LEMMA Onward ==
    ASSUME FlowsType, NEW f \in Flow
    PROVE  /\ \A p \in Label \ {"granted", "exchange", "refused"} :
                 (p \in Working => flows[f].todo # <<>>) => Fits(f, Build!Goto(f, p))
           /\ flows[f].todo # <<>> /\ Build!Acc(f).refresh # 0 =>
                 /\ Fits(f, Build!Goto(f, "exchange"))
                 /\ Fits(f, [flows[f] EXCEPT !.pc = "exchange", !.retried = TRUE])
           /\ flows[f].todo # <<>> => Fits(f, Build!NextAccount(f))
           /\ \A result : Fits(f, Build!Served(f, result))
  <1>0. FlowType(flows[f])
    BY DEF FlowsType
  <1>1. ASSUME NEW p \in Label \ {"granted", "exchange", "refused"}, p \in Working => flows[f].todo # <<>>
        PROVE  Fits(f, Build!Goto(f, p))
    <2>1. /\ DOMAIN Build!Goto(f, p) = DOMAIN flows[f] /\ Build!Goto(f, p).pc = p
          /\ Build!Goto(f, p).todo = flows[f].todo /\ Build!Goto(f, p).new = flows[f].new
      BY <1>0 DEF Build!Goto, FlowType
    <2> HIDE DEF Build!Goto
    <2> QED
      BY <1>0, <1>1, <2>1 DEF Fits, FlowType, Copies, Listed
  <1>2. ASSUME flows[f].todo # <<>>, Build!Acc(f).refresh # 0,
               NEW r \in {Build!Goto(f, "exchange"), [flows[f] EXCEPT !.pc = "exchange", !.retried = TRUE]}
        PROVE  Fits(f, r)
    <2>1. DOMAIN r = DOMAIN flows[f] /\ r.pc = "exchange" /\ r.todo = flows[f].todo /\ r.new = flows[f].new
      BY <1>0 DEF Build!Goto, FlowType
    <2> QED
      BY <1>0, <1>2, <2>1 DEF Fits, FlowType, Copies, Listed, Label, Build!Acc
  <1>3. ASSUME flows[f].todo # <<>> PROVE Fits(f, Build!NextAccount(f))
    <2> DEFINE r == Build!NextAccount(f)
    <2>1. DOMAIN r = DOMAIN flows[f] /\ r.pc = "next" /\ r.todo = Tail(flows[f].todo) /\ r.new = flows[f].new
      BY <1>0 DEF Build!NextAccount, FlowType
    <2> HIDE DEF r
    <2>2. r.todo \in Seq(CopyType) /\ Copies(r) \subseteq Listed(f)
      BY <1>0, <1>3, <2>1 DEF FlowType, Copies, Listed
    <2>3. Fits(f, r)
      BY <1>0, <2>1, <2>2 DEF Fits, FlowType, Label, Working
    <2> QED
      BY <2>3 DEF r
  <1>4. ASSUME NEW result PROVE Fits(f, Build!Served(f, result))
    <2> DEFINE r == Build!Served(f, result)
    <2>1. DOMAIN r = DOMAIN flows[f] /\ r.pc = "done" /\ r.todo = <<>> /\ r.new = flows[f].new
      BY <1>0 DEF Build!Served, FlowType
    <2> HIDE DEF r
    <2>2. r.todo \in Seq(CopyType) /\ Copies(r) = {}
      BY <2>1 DEF Copies
    <2>3. Fits(f, r)
      BY <1>0, <2>1, <2>2 DEF Fits, FlowType, Label, Working
    <2> QED
      BY <2>3 DEF r
  <1> QED
    BY <1>1, <1>2, <1>3, <1>4

LEMMA PauseType ==
    /\ \A b \in Build!Billing : Build!PaymentCoolingUntil(b) \in Nat
    /\ QuotaPause \in Nat
  <1>1. \A body \in Payloads : Build!ParseBilling(body).period \in Nat
    BY StoresAssumption DEF Build!BuildAssumption, Build!ParseBilling
  <1>2. \A m, c \in {Build!ParseBilling(body) : body \in Payloads} :
           Build!MergeBillingSnapshots(m, c).period \in Nat
    <2> SUFFICES ASSUME NEW m \in {Build!ParseBilling(body) : body \in Payloads}, NEW c
                 PROVE  Build!MergeBillingSnapshots(m, c).period \in Nat
      OBVIOUS
    <2>1. m.period \in Nat /\ "period" \in DOMAIN m
      BY <1>1 DEF Build!ParseBilling
    <2> QED
      BY <2>1 DEF Build!MergeBillingSnapshots
  <1>3. \A b \in Build!GetBilling : b.period \in Nat
    BY <1>1, <1>2 DEF Build!GetBilling
  <1> QED
    BY <1>3, StoresAssumption DEF Build!BuildAssumption, Build!Billing, Build!PaymentCoolingUntil

LEMMA RowsAsTheyWere ==
    ASSUME BuildInv, UNCHANGED <<brow, nextId, owed, marked>>
    PROVE  RowsStay
  BY DEF BuildInv, RowsStay, RowsType, OwedIsCooldown, Build!Present, Build!NoRaceWithoutRotation

LEMMA RowType ==
    ASSUME RowsType, NEW i \in Build!Present
    PROVE  /\ i \in Build!Id /\ brow[i] \in Build!Row
           /\ DOMAIN brow = Build!Id
  BY DEF RowsType, Build!Present

(* A row that is given another status, as all paths of the code give it.     *)
LEMMA StatusIsSet ==
    ASSUME BuildInv, NEW i \in Build!Id, i < nextId, NEW status \in Build!Status, NEW until \in Nat,
           Build!SetStatusUntil(i, status, until), nextId' = nextId,
           owed' = [owed EXCEPT ![i] = IF status = "cooling" THEN until ELSE 0],
           marked \ {i} \subseteq marked',
           status = "expired" => rotates \/ i \in damaged \/ i \in marked'
    PROVE  RowsStay
  <1> USE DEF BuildInv
  <1> DEFINE rest == IF status = "cooling" THEN until ELSE 0
  <1>1. rest \in Nat
    OBVIOUS
  <1>2. owed' \in [Build!Id -> Nat] /\ owed'[i] = rest /\ \A j \in Build!Id \ {i} : owed'[j] = owed[j]
    BY <1>1 DEF RowsType
  <1>3. \A j \in Build!Id : j >= nextId => owed'[j] = 0
    BY <1>2 DEF OwedIsCooldown, RowsType, Build!Id
  <1>4. CASE i \notin Build!Present
    <2>1. brow' = brow
      BY <1>4 DEF Build!SetStatusUntil
    <2>2. Build!Present' = Build!Present /\ \A j \in Build!Present : j \in Build!Id /\ j # i
      BY <1>4, <2>1 DEF Build!Present
    <2>3. \A j \in Build!Present : brow'[j].status = "expired" =>
             rotates \/ j \in damaged \/ (brow[j].status = "expired" /\ j \notin marked) \/ j \in marked'
      BY <2>1, <2>2 DEF Build!NoRaceWithoutRotation
    <2> QED
      BY <1>2, <1>3, <2>1, <2>2, <2>3 DEF RowsStay, RowsType, OwedIsCooldown
  <1>5. CASE i \in Build!Present
    <2> DEFINE row == [brow[i] EXCEPT !.status = status, !.cool = rest, !.old = FALSE]
    <2>1. brow[i] \in Build!Row /\ DOMAIN brow = Build!Id
      BY <1>5, RowType
    <2>2. brow' = [brow EXCEPT ![i] = row]
      BY <1>5 DEF Build!SetStatusUntil
    <2> HIDE DEF rest
    <2>3. row \in Build!Row
      BY <1>1, <2>1 DEF Build!Row
    <2>4. row.refresh = brow[i].refresh /\ row.cool = rest /\ row.status = status
      BY <2>1 DEF Build!Row
    <2> HIDE DEF row
    <2>5. brow'[i] = row /\ \A j \in Build!Id \ {i} : brow'[j] = brow[j]
      BY <2>1, <2>2
    <2>6. brow' \in [Build!Id -> Build!Row \cup {NoAccount}]
      BY <2>2, <2>3 DEF RowsType
    <2>7. \A j \in Build!Present' : j \in Build!Present /\ (j # i => brow'[j] = brow[j])
      BY <1>5, <2>5 DEF Build!Present
    <2>8. \A j \in Build!Present' : brow'[j].refresh = brow[j].refresh /\ owed'[j] = brow'[j].cool
      <3> SUFFICES ASSUME NEW j \in Build!Present'
                   PROVE  brow'[j].refresh = brow[j].refresh /\ owed'[j] = brow'[j].cool
        OBVIOUS
      <3>1. CASE j = i
        BY <1>2, <2>4, <2>5, <3>1
      <3>2. CASE j # i
        <4>1. j \in Build!Present /\ j \in Build!Id \ {i} /\ brow'[j] = brow[j]
          BY <2>7, <3>2 DEF Build!Present
        <4> QED
          BY <1>2, <4>1 DEF OwedIsCooldown
      <3> QED
        BY <3>1, <3>2
    <2>9. \A j \in Build!Present' : brow'[j].status = "expired" =>
             rotates \/ j \in damaged \/ j \in marked' \/ (brow[j].status = "expired" /\ j \notin marked)
      <3> SUFFICES ASSUME NEW j \in Build!Present', brow'[j].status = "expired"
                   PROVE  rotates \/ j \in damaged \/ j \in marked' \/ (brow[j].status = "expired" /\ j \notin marked)
        OBVIOUS
      <3>1. CASE j = i
        BY <2>4, <2>5, <3>1
      <3>2. CASE j # i
        BY <2>7, <3>2
      <3> QED
        BY <3>1, <3>2
    <2>10. RowsType'
      BY <1>2, <2>6 DEF RowsType
    <2> QED
      BY <1>3, <2>7, <2>8, <2>9, <2>10 DEF RowsStay
  <1> QED
    BY <1>4, <1>5

LEMMA BillingIsSet ==
    ASSUME BuildInv, NEW i \in Build!Id, NEW billing \in Build!GetBilling,
           Build!UpdateBilling(i, billing), UNCHANGED <<nextId, owed, marked>>
    PROVE  RowsStay
  <1>1. CASE i \notin Build!Present
    BY <1>1, RowsAsTheyWere DEF Build!UpdateBilling
  <1>2. CASE i \in Build!Present
    <2> DEFINE row == [brow[i] EXCEPT !.billing = billing, !.old = FALSE]
    <2>1. brow[i] \in Build!Row /\ DOMAIN brow = Build!Id
      BY <1>2, RowType DEF BuildInv
    <2>2. brow' = [brow EXCEPT ![i] = row]
      BY <1>2 DEF Build!UpdateBilling
    <2>3. row \in Build!Row
      BY <2>1 DEF Build!Row, Build!Billing
    <2>4. row.refresh = brow[i].refresh /\ row.cool = brow[i].cool /\ row.status = brow[i].status
      BY <2>1 DEF Build!Row
    <2> HIDE DEF row
    <2>5. brow'[i] = row /\ \A j \in Build!Id \ {i} : brow'[j] = brow[j]
      BY <2>1, <2>2
    <2>6. RowsType'
      BY <2>2, <2>3 DEF BuildInv, RowsType
    <2>7. \A j \in Build!Present' : j \in Build!Present /\ brow'[j].refresh = brow[j].refresh
             /\ brow'[j].cool = brow[j].cool /\ brow'[j].status = brow[j].status
      BY <1>2, <2>4, <2>5 DEF Build!Present
    <2> QED
      BY <2>6, <2>7 DEF BuildInv, RowsStay, OwedIsCooldown, Build!NoRaceWithoutRotation
  <1> QED
    BY <1>1, <1>2

LEMMA RowIsDeleted ==
    ASSUME BuildInv, NEW i \in Build!Id, brow' = [brow EXCEPT ![i] = NoAccount], UNCHANGED <<nextId, owed, marked>>
    PROVE  RowsStay
  <1>1. \A j \in Build!Present' : j \in Build!Present /\ brow'[j] = brow[j]
    BY DEF BuildInv, RowsType, Build!Present
  <1>2. RowsType'
    BY DEF BuildInv, RowsType
  <1> QED
    BY <1>1, <1>2 DEF BuildInv, RowsStay, OwedIsCooldown, Build!NoRaceWithoutRotation

LEMMA OrderedType ==
    ASSUME NEW n \in Nat, NEW S \in SUBSET (1 .. n), NEW s \in Build!Ordered(S)
    PROVE  s \in Seq(S)
  <1>1. IsFiniteSet(S)
    BY FS_Interval, FS_Subset, n \in Int, 1 \in Int
  <1>2. Cardinality(S) \in Nat
    BY <1>1, FS_CardinalityType
  <1>3. Build!Cardinality(S) = Cardinality(S)
    BY DEF Build!Cardinality, Cardinality
  <1>4. s \in [1 .. Cardinality(S) -> S]
    BY <1>3 DEF Build!Ordered
  <1> QED
    BY <1>2, <1>4

LEMMA CopyTyped ==
    ASSUME RowsType, NEW i \in Build!Present
    PROVE  Build!Copy(i) \in CopyType /\ Build!Copy(i).id = i
  BY RowType DEF CopyType, Build!Copy, Build!Row

LEMMA AccFacts ==
    ASSUME BuildInv, NEW f \in Flow, flows[f].todo # <<>>
    PROVE  /\ Build!Acc(f) \in CopyType /\ Build!Acc(f) \in Listed(f)
           /\ Build!Acc(f).id \in Build!Id /\ Build!Acc(f).id < nextId
  <1>1. flows[f].todo \in Seq(CopyType)
    BY DEF BuildInv, FlowsType, FlowType
  <1>2. Build!Acc(f) \in CopyType /\ Build!Acc(f) \in Listed(f)
    BY <1>1 DEF Build!Acc, Listed
  <1> QED
    BY <1>2 DEF BuildInv, OwedIsCooldown, CopyType

(* filterBuildAccountsByBilling, and a tick of the clock.                    *)
LEMMA FilterStep ==
    ASSUME BuildInv, NEW f \in Flow, Build!FilterByBilling(f)
    PROVE  BuildInv'
  <1> DEFINE todo == flows[f].todo
             full == {c.id : c \in {d \in {todo[n] : n \in DOMAIN todo} : Build!QuotaExhausted(d.billing)}} \cap Build!Present
             kept == {n \in DOMAIN todo : ~Build!QuotaExhausted(todo[n].billing)}
             cooled(i) == [brow[i] EXCEPT !.status = "cooling", !.cool = QuotaPause, !.old = FALSE]
  <1>0. FlowType(flows[f]) /\ todo \in Seq(CopyType) /\ flows[f].pc = "filter"
    BY DEF BuildInv, FlowsType, FlowType, Build!FilterByBilling, Build!At
  <1>1. PICK s \in Build!Ordered(kept) :
           Build!Move(f, [flows[f] EXCEPT !.pc = "next", !.todo = [n \in DOMAIN s |-> @[s[n]]]])
    BY DEF Build!FilterByBilling
  <1>2. s \in Seq(DOMAIN todo)
    <2>1. Len(todo) \in Nat /\ kept \in SUBSET (1 .. Len(todo)) /\ DOMAIN todo = 1 .. Len(todo)
      BY <1>0
    <2>2. s \in Seq(kept)
      BY <2>1, OrderedType
    <2> QED
      BY <2>2
  <1> DEFINE r == [flows[f] EXCEPT !.pc = "next", !.todo = [n \in DOMAIN s |-> todo[s[n]]]]
  <1>3. DOMAIN r = DOMAIN flows[f] /\ r.pc = "next" /\ r.todo = [n \in DOMAIN s |-> todo[s[n]]] /\ r.new = flows[f].new
    BY <1>0 DEF FlowType
  <1>4. Build!Move(f, r)
    BY <1>1
  <1> HIDE DEF r
  <1>5. r.todo \in Seq(CopyType) /\ Copies(r) \subseteq Listed(f)
    BY <1>0, <1>2, <1>3 DEF Copies, Listed
  <1>6. Fits(f, r)
    BY <1>0, <1>3, <1>5 DEF Fits, FlowType, Label, Working
  <1>7. FlowsStay
    BY <1>0, <1>4, <1>6, FlowStays DEF BuildInv, Build!At
  <1>8. /\ brow' = [i \in Build!Id |-> IF i \in full THEN cooled(i) ELSE brow[i]]
        /\ owed' = [i \in Build!Id |-> IF i \in full THEN QuotaPause ELSE owed[i]]
        /\ marked' = marked \ full
        /\ UNCHANGED <<nextId, valid, lastToken, rotates, models, damaged>>
    BY DEF Build!FilterByBilling, Build!ToSet
  <1>9. \A i \in Build!Present : cooled(i) \in Build!Row /\ cooled(i).cool = QuotaPause
           /\ cooled(i).status = "cooling" /\ cooled(i).refresh = brow[i].refresh
    BY RowType, PauseType DEF BuildInv, Build!Row, Build!Status
  <1>10. full \subseteq Build!Present
    OBVIOUS
  <1> HIDE DEF full, cooled
  <1>11. RowsStay
    <2>1. RowsType'
      BY <1>8, <1>9, <1>10, PauseType DEF BuildInv, RowsType
    <2>2. \A i \in Build!Present' : i \in Build!Present /\ brow'[i].refresh = brow[i].refresh /\ owed'[i] = brow'[i].cool
      BY <1>8, <1>9, <1>10 DEF BuildInv, Build!Present, OwedIsCooldown
    <2>3. \A i \in Build!Present' : brow'[i].status = "expired" => i \notin full /\ brow'[i] = brow[i] /\ i \in Build!Present
      BY <1>8, <1>9, <1>10 DEF Build!Present
    <2>4. \A i \in Build!Id : i >= nextId => owed'[i] = 0
      BY <1>8, <1>10 DEF BuildInv, OwedIsCooldown
    <2> QED
      BY <1>8, <2>1, <2>2, <2>3, <2>4 DEF BuildInv, RowsStay, Build!NoRaceWithoutRotation
  <1> QED
    BY <1>7, <1>8, <1>11, NothingGranted DEF BuildInv, ServerType

LEMMA TickStep == ASSUME BuildInv, Build!Tick PROVE BuildInv'
  <1> DEFINE aged(i) == [brow[i] EXCEPT !.cool = Build!Lower(@), !.old = TRUE, !.fresh = FALSE]
  <1>1. /\ brow' = [i \in Build!Id |-> IF i \in Build!Present THEN aged(i) ELSE NoAccount]
        /\ owed' = [i \in Build!Id |-> Build!Lower(owed[i])]
        /\ models' = [models EXCEPT !.fresh = FALSE]
        /\ UNCHANGED <<nextId, flows, valid, lastToken, rotates, damaged, marked>>
    BY DEF Build!Tick
  <1>2. \A i \in Build!Present : aged(i) \in Build!Row /\ aged(i).cool = Build!Lower(brow[i].cool)
           /\ aged(i).status = brow[i].status /\ aged(i).refresh = brow[i].refresh
    <2> SUFFICES ASSUME NEW i \in Build!Present
                 PROVE  aged(i) \in Build!Row /\ aged(i).cool = Build!Lower(brow[i].cool)
                        /\ aged(i).status = brow[i].status /\ aged(i).refresh = brow[i].refresh
      OBVIOUS
    <2>1. brow[i] \in Build!Row
      BY RowType DEF BuildInv
    <2>2. Build!Lower(brow[i].cool) \in Nat
      BY <2>1 DEF Build!Row, Build!Lower
    <2> QED
      BY <2>1, <2>2 DEF Build!Row
  <1> HIDE DEF aged
  <1>3. RowsStay
    <2>1. RowsType'
      BY <1>1, <1>2 DEF BuildInv, RowsType, Build!Lower
    <2>2. \A i \in Build!Present' : i \in Build!Present /\ i \in Build!Id /\ brow'[i] = aged(i)
      BY <1>1 DEF Build!Present
    <2>3. \A i \in Build!Present' : i \in Build!Present /\ brow'[i].refresh = brow[i].refresh
             /\ owed'[i] = brow'[i].cool /\ brow'[i].status = brow[i].status
      BY <1>1, <1>2, <2>2 DEF BuildInv, OwedIsCooldown
    <2>4. \A i \in Build!Id : i >= nextId => owed'[i] = 0
      BY <1>1 DEF BuildInv, OwedIsCooldown, Build!Lower
    <2> QED
      BY <1>1, <2>1, <2>3, <2>4 DEF BuildInv, RowsStay, Build!NoRaceWithoutRotation
  <1>4. FlowsStay
    BY <1>1 DEF BuildInv, FlowsStay, FlowsType, Listed, Build!At, Build!Acc, RefusalsHaveCause
  <1>5. models' \in [ids : BOOLEAN, fresh : BOOLEAN]
    BY <1>1 DEF BuildInv, ServerType
  <1> QED
    BY <1>1, <1>3, <1>4, <1>5, NothingGranted

(* A step of a flow that leaves the rows alone, or changes them quietly.     *)
LEMMA FlowGoesOn ==
    ASSUME BuildInv, NEW f \in Flow, ~Build!At(f, "granted"), NEW r, Fits(f, r), Build!Move(f, r),
           RowsStay \/ UNCHANGED <<brow, nextId, owed, marked>>,
           UNCHANGED <<valid, lastToken, rotates, damaged>>,
           models' \in [ids : BOOLEAN, fresh : BOOLEAN]
    PROVE  BuildInv'
  <1>1. FlowsStay
    BY FlowStays DEF BuildInv
  <1> QED
    BY <1>1, RowsAsTheyWere, NothingGranted

LEMMA FlowAtWork ==
    ASSUME BuildInv, NEW f \in Flow, flows[f].pc \in Working
    PROVE  flows[f].todo # <<>>
  BY DEF BuildInv, FlowsType

LEMMA ChooseAccount ==
    ASSUME BuildInv, NEW f \in Flow,
           Build!Ensure(f) \/ Build!RenewListed(f) \/ Build!DeleteListed(f) \/ Build!ListExhausted(f)
    PROVE  BuildInv'
  <1> USE DEF Build!At
  <1>0. models \in [ids : BOOLEAN, fresh : BOOLEAN] /\ FlowsType
    BY DEF BuildInv, ServerType
  <1>1. CASE Build!Ensure(f)
    <2>1. flows[f].todo # <<>> /\ ~Build!At(f, "granted")
      BY <1>1 DEF Build!Ensure
    <2>2. \E r : Build!Move(f, r) /\ Fits(f, r)
      <3>1. CASE ~Build!NeedsRefresh(Build!Acc(f))
        <4>1. Build!Move(f, Build!Goto(f, "call"))
          BY <1>1, <3>1 DEF Build!Ensure
        <4> QED
          BY <1>0, <2>1, <4>1, Onward DEF Label
      <3>2. CASE Build!NeedsRefresh(Build!Acc(f)) /\ Build!Acc(f).refresh # 0
        <4>1. Build!Move(f, Build!Goto(f, "exchange"))
          BY <1>1, <3>2 DEF Build!Ensure
        <4> QED
          BY <1>0, <2>1, <3>2, <4>1, Onward
      <3>3. CASE Build!NeedsRefresh(Build!Acc(f)) /\ ~(Build!Acc(f).refresh # 0)
        <4>1. Build!Move(f, Build!Goto(f, "call")) \/ Build!Move(f, Build!NextAccount(f))
          BY <1>1, <3>3 DEF Build!Ensure
        <4> QED
          BY <1>0, <2>1, <4>1, Onward DEF Label
      <3> QED
        BY <3>1, <3>2, <3>3
    <2> QED
      BY <1>0, <1>1, <2>1, <2>2, FlowGoesOn DEF Build!Ensure
  <1>2. CASE Build!RenewListed(f)
    <2>1. flows[f].todo # <<>> /\ ~Build!At(f, "granted")
      BY <1>2 DEF Build!RenewListed
    <2>2. \/ Build!Acc(f).refresh # 0 /\ Build!Move(f, Build!Goto(f, "exchange"))
          \/ Build!Move(f, Build!NextAccount(f))
      BY <1>2 DEF Build!RenewListed
    <2> QED
      BY <1>0, <1>2, <2>1, <2>2, Onward, FlowGoesOn DEF Build!RenewListed
  <1>3. CASE Build!DeleteListed(f)
    <2>1. flows[f].todo # <<>> /\ ~Build!At(f, "granted") /\ Build!Move(f, Build!NextAccount(f))
          /\ brow' = [brow EXCEPT ![Build!Acc(f).id] = NoAccount]
          /\ UNCHANGED <<nextId, valid, lastToken, rotates, models, owed, damaged, marked>>
      BY <1>3 DEF Build!DeleteListed
    <2>2. RowsStay
      BY <2>1, AccFacts, RowIsDeleted
    <2> QED
      BY <1>0, <2>1, <2>2, Onward, FlowGoesOn
  <1>4. CASE Build!ListExhausted(f)
    <2>1. ~Build!At(f, "granted") /\ Build!Move(f, Build!Served(f, "error"))
          /\ UNCHANGED <<brow, nextId, valid, lastToken, rotates, models, owed, damaged, marked>>
      BY <1>4 DEF Build!ListExhausted
    <2>2. Fits(f, Build!Served(f, "error"))
      BY <1>0, Onward
    <2> QED
      BY <1>0, <2>1, <2>2, FlowGoesOn
  <1> QED
    BY <1>1, <1>2, <1>3, <1>4

LEMMA Refused ==
    ASSUME BuildInv, NEW f \in Flow,
           Build!ExchangeFails(f) \/ Build!MarkExpired(f) \/ Build!Reread(f)
    PROVE  BuildInv'
  <1> USE DEF Build!At
  <1>0. models \in [ids : BOOLEAN, fresh : BOOLEAN] /\ FlowsType
    BY DEF BuildInv, ServerType
  <1>w. flows[f].todo # <<>> /\ flows[f].pc \in {"exchange", "refused", "reread"}
    BY FlowAtWork DEF Working, Build!ExchangeFails, Build!MarkExpired, Build!Reread
  <1>1. CASE Build!ExchangeFails(f)
    <2>1. Build!Move(f, Build!NextAccount(f))
          /\ UNCHANGED <<brow, nextId, valid, lastToken, rotates, models, owed, damaged, marked>>
      BY <1>1 DEF Build!ExchangeFails
    <2> QED
      BY <1>0, <1>w, <2>1, Onward, FlowGoesOn
  <1>2. CASE Build!MarkExpired(f)
    <2> DEFINE i == Build!Acc(f).id
    <2>1. /\ flows[f].pc = "refused" /\ Build!Move(f, Build!NextAccount(f))
          /\ Build!SetStatusUntil(i, "expired", 0) /\ owed' = [owed EXCEPT ![i] = 0] /\ marked' = marked \ {i}
          /\ UNCHANGED <<nextId, valid, lastToken, rotates, models, damaged>>
      BY <1>2 DEF Build!MarkExpired
    <2>2. rotates \/ i \in damaged
      BY <2>1 DEF BuildInv, RefusalsHaveCause, ServerType
    <2>3. i \in Build!Id /\ i < nextId
      BY <1>w, AccFacts
    <2> HIDE DEF i
    <2>4. "expired" \in Build!Status /\ 0 \in Nat /\ (IF "expired" = "cooling" THEN 0 ELSE 0) = 0
      BY DEF Build!Status
    <2>5. RowsStay
      BY <2>1, <2>2, <2>3, <2>4, StatusIsSet
    <2> QED
      BY <1>0, <1>w, <2>1, <2>5, Onward, FlowGoesOn
  <1>3. CASE Build!Reread(f)
    <2> DEFINE i == Build!Acc(f).id
               r == [flows[f] EXCEPT !.pc = "call", !.todo = <<Build!Copy(i)>> \o Tail(@)]
    <2>1. UNCHANGED <<brow, nextId, valid, lastToken, rotates, models, owed, damaged, marked>>
      BY <1>3 DEF Build!Reread
    <2>2. CASE i \in Build!Present
      <3>1. Build!Move(f, r)
        BY <1>3, <2>2 DEF Build!Reread
      <3>2. FlowType(flows[f])
        BY <1>0 DEF FlowsType
      <3>3. /\ DOMAIN r = DOMAIN flows[f] /\ r.pc = "call" /\ r.new = flows[f].new
            /\ r.todo = <<Build!Copy(i)>> \o Tail(flows[f].todo)
        BY <3>2 DEF FlowType
      <3> HIDE DEF r
      <3>4. Build!Copy(i) \in CopyType
        BY <2>2, CopyTyped DEF BuildInv
      <3>5. flows[f].todo \in Seq(CopyType) /\ Tail(flows[f].todo) \in Seq(CopyType)
            /\ \A n \in DOMAIN Tail(flows[f].todo) : Tail(flows[f].todo)[n] \in Listed(f)
        BY <1>w, <3>2 DEF FlowType, Listed
      <3> DEFINE t == Tail(flows[f].todo)
                 c == Build!Copy(i)
      <3> HIDE DEF t, c
      <3>6. t \in Seq(CopyType) /\ c \in CopyType
            => /\ <<c>> \o t \in Seq(CopyType) /\ <<c>> \o t # <<>>
               /\ \A n \in DOMAIN (<<c>> \o t) : (<<c>> \o t)[n] = c \/ \E k \in DOMAIN t : (<<c>> \o t)[n] = t[k]
        OBVIOUS
      <3>7. r.todo \in Seq(CopyType) /\ r.todo # <<>>
            /\ \A n \in DOMAIN r.todo : r.todo[n] = Build!Copy(i) \/ r.todo[n] \in Listed(f)
        BY <3>3, <3>4, <3>5, <3>6 DEF t, c
      <3>8. Fits(f, r)
        BY <2>2, <3>2, <3>3, <3>7 DEF Fits, FlowType, Copies, Label
      <3> QED
        BY <1>0, <1>w, <2>1, <3>1, <3>8, FlowGoesOn
    <2>3. CASE i \notin Build!Present
      <3>1. Build!Move(f, Build!NextAccount(f))
        BY <1>3, <2>3 DEF Build!Reread
      <3> QED
        BY <1>0, <1>w, <2>1, <3>1, Onward, FlowGoesOn
    <2> QED
      BY <2>2, <2>3
  <1> QED
    BY <1>1, <1>2, <1>3

(* The upstream's answers.                                                   *)
LEMMA Answered ==
    ASSUME BuildInv, NEW f \in Flow, NEW answer, NEW billing,
           \/ Build!InvokeBuildOnce(f, answer) \/ Build!ReadRetried(f, answer)
           \/ Build!LoadOrFetch(f, answer)
           \/ billing \in Build!GetBilling /\ Build!FetchBuildBilling(f, answer, billing)
    PROVE  BuildInv'
  <1> USE DEF Build!At
  <1> DEFINE acc == Build!Acc(f)
             retry == [flows[f] EXCEPT !.pc = "exchange", !.retried = TRUE]
  <1>0. models \in [ids : BOOLEAN, fresh : BOOLEAN] /\ FlowsType
    BY DEF BuildInv, ServerType
  <1>1. flows[f].pc = "call"
    BY DEF Build!InvokeBuildOnce, Build!ReadRetried, Build!LoadOrFetch, Build!FetchBuildBilling
  <1>w. flows[f].todo # <<>> /\ ~Build!At(f, "granted")
    BY <1>1, FlowAtWork DEF Working
  <1>2. acc \in CopyType /\ acc.id \in Build!Id /\ acc.id < nextId
    BY <1>w, AccFacts
  <1>3. Fits(f, Build!NextAccount(f)) /\ \A result : Fits(f, Build!Served(f, result))
    BY <1>0, <1>w, Onward
  <1>4. acc.refresh # 0 => Fits(f, retry)
    BY <1>0, <1>w, Onward
  <1> HIDE DEF acc, retry
  <1>5. CASE Build!InvokeBuildOnce(f, answer)
    <2>0. UNCHANGED <<nextId, valid, lastToken, rotates, models, damaged>>
      BY <1>5 DEF Build!InvokeBuildOnce
    <2>1. CASE answer = "401" /\ acc.refresh # 0
      <3>1. Build!Move(f, retry) /\ UNCHANGED <<brow, owed, marked>>
        BY <1>5, <2>1 DEF Build!InvokeBuildOnce, acc, retry
      <3> QED
        BY <1>0, <1>w, <1>4, <2>0, <2>1, <3>1, FlowGoesOn
    <2>2. CASE ~(answer = "401" /\ acc.refresh # 0) /\ answer = "ok"
      <3>1. Build!Move(f, Build!Served(f, "ok")) /\ UNCHANGED <<brow, owed, marked>>
        BY <1>5, <2>2 DEF Build!InvokeBuildOnce, acc
      <3> QED
        BY <1>0, <1>w, <1>3, <2>0, <3>1, FlowGoesOn
    <2>3. CASE ~(answer = "401" /\ acc.refresh # 0) /\ answer # "ok"
      <3>1. Build!Move(f, Build!NextAccount(f)) /\ Build!HandleBuildUpstreamFailure(acc, answer)
        BY <1>5, <2>3 DEF Build!InvokeBuildOnce, acc
      <3>2. ASSUME NEW pause \in Nat, Build!Cool(acc.id, pause) PROVE RowsStay
        <4>1. /\ Build!SetStatusUntil(acc.id, "cooling", pause) /\ marked' = marked \ {acc.id}
              /\ owed' = [owed EXCEPT ![acc.id] = IF "cooling" = "cooling" THEN pause ELSE 0]
          BY <3>2 DEF Build!Cool
        <4>2. "cooling" \in Build!Status /\ "cooling" # "expired"
          BY DEF Build!Status
        <4> QED
          BY <1>2, <2>0, <4>1, <4>2, StatusIsSet
      <3>3. Build!PaymentCoolingUntil(acc.billing) \in Nat /\ QuotaPause \in Nat
        BY <1>2, PauseType DEF CopyType
      <3>4. RowsStay \/ UNCHANGED <<brow, nextId, owed, marked>>
        <4>1. CASE answer = "402"
          BY <3>1, <3>2, <3>3, <4>1 DEF Build!HandleBuildUpstreamFailure
        <4>2. CASE answer = "429"
          BY <3>1, <3>2, <3>3, <4>2 DEF Build!HandleBuildUpstreamFailure
        <4>3. CASE answer \notin {"402", "429"}
          BY <2>0, <3>1, <4>3 DEF Build!HandleBuildUpstreamFailure
        <4> QED
          BY <4>1, <4>2, <4>3
      <3> QED
        BY <1>0, <1>w, <1>3, <2>0, <3>1, <3>4, FlowGoesOn
    <2> QED
      BY <2>1, <2>2, <2>3
  <1>6. CASE Build!ReadRetried(f, answer)
    <2>1. /\ Build!Move(f, Build!Served(f, answer)) \/ Build!Move(f, Build!NextAccount(f))
          /\ UNCHANGED <<brow, nextId, valid, lastToken, rotates, models, owed, damaged, marked>>
      BY <1>6 DEF Build!ReadRetried
    <2> QED
      BY <1>0, <1>w, <1>3, <2>1, FlowGoesOn
  <1>7. CASE Build!LoadOrFetch(f, answer)
    <2>1. /\ Build!Move(f, Build!Served(f, "ok")) \/ Build!Move(f, Build!NextAccount(f))
          /\ UNCHANGED <<brow, nextId, valid, lastToken, rotates, owed, damaged, marked>>
      BY <1>7 DEF Build!LoadOrFetch
    <2> DEFINE known == models.ids \/ answer = "ok"
    <2>2. models' = [ids |-> known, fresh |-> TRUE]
      BY <1>7 DEF Build!LoadOrFetch
    <2>3. known \in BOOLEAN
      OBVIOUS
    <2> HIDE DEF known
    <2>4. models' \in [ids : BOOLEAN, fresh : BOOLEAN]
      BY <2>2, <2>3
    <2> QED
      BY <1>w, <1>3, <2>1, <2>4, FlowGoesOn
  <1>8. CASE billing \in Build!GetBilling /\ Build!FetchBuildBilling(f, answer, billing)
    <2>0. UNCHANGED <<nextId, valid, lastToken, rotates, models, owed, damaged, marked>>
      BY <1>8 DEF Build!FetchBuildBilling
    <2>1. CASE answer = "401" /\ acc.refresh # 0 /\ ~flows[f].retried
      <3>1. Build!Move(f, retry) /\ UNCHANGED brow
        BY <1>8, <2>1 DEF Build!FetchBuildBilling, acc, retry
      <3> QED
        BY <1>0, <1>w, <1>4, <2>0, <2>1, <3>1, FlowGoesOn
    <2>2. CASE ~(answer = "401" /\ acc.refresh # 0 /\ ~flows[f].retried)
      <3>1. Build!Move(f, Build!NextAccount(f))
        BY <1>8, <2>2 DEF Build!FetchBuildBilling, acc
      <3>2. Build!UpdateBilling(acc.id, billing) \/ UNCHANGED brow
        BY <1>8, <2>2 DEF Build!FetchBuildBilling, acc
      <3>3. RowsStay \/ UNCHANGED <<brow, nextId, owed, marked>>
        BY <1>2, <1>8, <2>0, <3>2, BillingIsSet
      <3> QED
        BY <1>0, <1>w, <1>3, <2>0, <3>1, <3>3, FlowGoesOn
    <2> QED
      BY <2>1, <2>2
  <1> QED
    BY <1>5, <1>6, <1>7, <1>8

(* A flow begins with copies of rows.                                        *)
LEMMA BeginStep ==
    ASSUME BuildInv, NEW f \in Flow, NEW kind, NEW listed \in SUBSET Build!Present,
           NEW pc \in {"filter", "next"}, Build!Begin(f, kind, listed, pc)
    PROVE  /\ BuildInv' /\ \A g \in Flow \ {f} : flows'[g] = flows[g]
           /\ flows'[f].kind = kind
           /\ \A c \in Listed(f)' : c.id \in listed
  <1>1. PICK s \in Build!Ordered(listed) :
           Build!Move(f, [Build!Idle EXCEPT !.kind = kind, !.pc = pc, !.todo = [n \in DOMAIN s |-> Build!Copy(s[n])]])
    BY DEF Build!Begin
  <1>2. s \in Seq(listed)
    <2>1. MaxIds \in Nat
      BY StoresAssumption DEF Build!BuildAssumption
    <2>2. listed \in SUBSET (1 .. MaxIds)
      BY DEF Build!Present, Build!Id
    <2> QED
      BY <2>1, <2>2, OrderedType
  <1> DEFINE r == [Build!Idle EXCEPT !.kind = kind, !.pc = pc, !.todo = [n \in DOMAIN s |-> Build!Copy(s[n])]]
  <1>3. /\ DOMAIN r = {"kind", "pc", "todo", "retried", "new", "result"} /\ r.kind = kind /\ r.pc = pc /\ r.new = 0
        /\ r.todo = [n \in DOMAIN s |-> Build!Copy(s[n])]
    BY DEF Build!Idle
  <1>4. Build!Move(f, r)
    BY <1>1
  <1> HIDE DEF r
  <1>5. \A i \in Build!Present : Build!Copy(i) \in CopyType /\ Build!Copy(i).id = i
    BY CopyTyped DEF BuildInv
  <1>6. /\ r.todo \in Seq(CopyType)
        /\ \A n \in DOMAIN r.todo : \E i \in listed : r.todo[n] = Build!Copy(i)
    BY <1>2, <1>3, <1>5
  <1>7. Fits(f, r)
    <2>1. 0 \in 0 .. MaxTokens
      BY StoresAssumption DEF Build!BuildAssumption
    <2> QED
      BY <1>3, <1>6, <2>1 DEF Fits, FlowType, Copies, Label, Working
  <1>8. ~Build!At(f, "granted") /\ UNCHANGED <<brow, nextId, valid, lastToken, rotates, models, owed, damaged, marked>>
    BY DEF Build!Begin, Build!At
  <1>9. BuildInv'
    BY <1>4, <1>7, <1>8, FlowGoesOn DEF BuildInv, ServerType
  <1>10. flows'[f] = r /\ \A g \in Flow \ {f} : flows'[g] = flows[g]
    BY <1>4 DEF BuildInv, FlowsType, Build!Move
  <1>11. \A c \in Listed(f)' : c.id \in listed
    BY <1>5, <1>6, <1>10 DEF Listed
  <1> QED
    BY <1>3, <1>9, <1>10, <1>11

LEMMA CopiesListed ==
    ASSUME BuildInv
    PROVE  \A f \in Flow : \A c \in Listed(f) :
              c.id \in Build!Id /\ c.refresh \in Nat /\ c.refresh <= lastToken
  <1> SUFFICES ASSUME NEW f \in Flow, NEW n \in DOMAIN flows[f].todo
               PROVE  LET c == flows[f].todo[n]
                      IN  c.id \in Build!Id /\ c.refresh \in Nat /\ c.refresh <= lastToken
    BY DEF Listed
  <1>1. flows[f].todo \in Seq(CopyType)
    BY DEF BuildInv, FlowsType, FlowType
  <1>2. flows[f].todo[n] \in CopyType /\ flows[f].todo[n] \in Listed(f)
    BY <1>1 DEF Listed
  <1> QED
    BY <1>2 DEF CopyType, BuildInv, TokensAreIssued, Issued

(* The exchange of a token: refused, or granted.                             *)
LEMMA ExchangeStep == ASSUME BuildInv, NEW f \in Flow, Build!Exchange(f) PROVE BuildInv'
  <1> USE DEF Build!At
  <1> DEFINE i == Build!Acc(f).id
             g == Build!Acc(f).refresh
             new == IF rotates THEN lastToken + 1 ELSE g
             r == [flows[f] EXCEPT !.pc = "granted", !.new = new]
  <1>0. /\ flows[f].pc = "exchange" /\ flows[f].todo # <<>>
        /\ UNCHANGED <<brow, nextId, rotates, models, owed, damaged, marked>>
    BY FlowAtWork DEF Build!Exchange, Working
  <1>1. i \in Build!Id /\ Build!Acc(f) \in Listed(f) /\ g \in 0 .. MaxTokens /\ g # 0
    BY <1>0, AccFacts DEF CopyType, BuildInv, RefusalsHaveCause
  <1>2. /\ valid \in [Build!Id -> SUBSET (1 .. MaxTokens)] /\ lastToken \in 1 .. MaxTokens
        /\ models \in [ids : BOOLEAN, fresh : BOOLEAN] /\ rotates \in BOOLEAN /\ MaxTokens \in Nat
    BY StoresAssumption DEF BuildInv, ServerType, Build!BuildAssumption
  <1>3. CASE g \notin valid[i]
    <2>1. Build!Move(f, Build!Goto(f, "refused")) /\ UNCHANGED <<valid, lastToken>>
      BY <1>3 DEF Build!Exchange
    <2>2. rotates \/ i \in damaged
      BY <1>1, <1>3 DEF BuildInv, CopiesAreGood
    <2>3. FlowType(flows[f])
      BY DEF BuildInv, FlowsType
    <2> DEFINE q == Build!Goto(f, "refused")
    <2>4. DOMAIN q = DOMAIN flows[f] /\ q.pc = "refused" /\ q.todo = flows[f].todo /\ q.new = flows[f].new
      BY <2>3 DEF FlowType, Build!Goto
    <2>5. Build!Move(f, q)
      BY <2>1
    <2> HIDE DEF q
    <2>6. Fits(f, q)
      BY <1>0, <2>2, <2>3, <2>4 DEF Fits, FlowType, Copies, Listed, Label, Build!Acc
    <2> QED
      BY <1>0, <1>2, <2>1, <2>5, <2>6, FlowGoesOn
  <1>4. CASE g \in valid[i]
    <2>1. /\ rotates => lastToken < MaxTokens
          /\ valid' = [valid EXCEPT ![i] = (@ \ {g}) \cup {new}]
          /\ lastToken' = IF rotates THEN new ELSE lastToken
          /\ Build!Move(f, r)
      BY <1>4 DEF Build!Exchange
    <2>2. FlowType(flows[f])
      BY DEF BuildInv, FlowsType
    <2>3. /\ DOMAIN r = DOMAIN flows[f] /\ r.pc = "granted" /\ r.todo = flows[f].todo /\ r.new = new
      BY <2>2 DEF FlowType
    <2> HIDE DEF r
    <2>4. flows'[f] = r /\ DOMAIN flows' = Flow /\ \A h \in Flow \ {f} : flows'[h] = flows[h]
      BY <2>1 DEF BuildInv, FlowsType, Build!Move
    <2>5. /\ new \in 1 .. MaxTokens /\ lastToken' \in 1 .. MaxTokens
          /\ lastToken <= lastToken' /\ new <= lastToken' /\ (rotates => lastToken < new) /\ (~rotates => new = g)
      BY <1>1, <1>2, <1>4, <2>1 DEF BuildInv, TokensAreIssued, Issued
    <2>6. /\ valid'[i] = (valid[i] \ {g}) \cup {new} /\ \A j \in Build!Id \ {i} : valid'[j] = valid[j]
          /\ valid' \in [Build!Id -> SUBSET (1 .. MaxTokens)]
      BY <1>1, <1>2, <2>1, <2>5
    <2> HIDE DEF new
    <2>7. FlowsType'
      BY <1>0, <2>2, <2>3, <2>4, <2>5 DEF BuildInv, FlowsType, FlowType, Label
    <2>8. ServerType'
      BY <1>0, <1>2, <2>5, <2>6 DEF ServerType
    <2>9. \A h \in Flow : Listed(h)' = Listed(h) /\ Build!Acc(h)' = Build!Acc(h)
      BY <2>3, <2>4 DEF Listed, Build!Acc
    <2>10. \A h \in Flow : Build!At(h, "granted")' =>
              IF h = f THEN flows'[h].new = new ELSE Build!At(h, "granted") /\ flows'[h].new = flows[h].new
      BY <2>3, <2>4
    <2>11. Build!Present' = Build!Present /\ RowsType'
      BY <1>0 DEF Build!Present, RowsType, BuildInv
    <2>12. TokensAreIssued'
      <3>1. \A j \in Build!Present : Issued(brow[j].refresh)'
        BY <1>0, <1>2, <2>5, RowType DEF BuildInv, TokensAreIssued, Issued, Build!Row
      <3>2. \A h \in Flow : \A c \in Listed(h) : Issued(c.refresh)'
        <4>1. \A h \in Flow : \A c \in Listed(h) : c.refresh \in Nat /\ c.refresh <= lastToken
          BY CopiesListed
        <4> QED
          BY <1>2, <2>5, <4>1 DEF Issued
      <3>3. \A j \in Build!Id : \A t \in valid'[j] : Issued(t)'
        <4>1. \A j \in Build!Id : \A t \in valid[j] : t \in Nat /\ t <= lastToken
          BY <1>2 DEF BuildInv, TokensAreIssued, Issued
        <4>2. \A j \in Build!Id : \A t \in valid'[j] : t = new \/ t \in valid[j]
          BY <2>6
        <4> QED
          BY <1>2, <2>5, <4>1, <4>2 DEF Issued
      <3>4. \A h \in Flow : Build!At(h, "granted")' => Issued(flows[h].new)'
        <4>1. \A h \in Flow : Build!At(h, "granted") => flows[h].new \in Nat /\ flows[h].new <= lastToken
          BY DEF BuildInv, FlowsType, FlowType, TokensAreIssued, Issued
        <4> QED
          BY <1>2, <2>5, <2>10, <4>1 DEF Issued
      <3> QED
        BY <1>0, <2>9, <2>11, <3>1, <3>2, <3>3, <3>4 DEF TokensAreIssued
    <2>13. GrantsAreGood'
      <3> SUFFICES ASSUME NEW h \in Flow, Build!At(h, "granted")', Build!Acc(h).id \notin damaged
                   PROVE  flows'[h].new \in valid'[Build!Acc(h).id]
        BY <1>0, <2>9 DEF GrantsAreGood
      <3>1. CASE h = f
        BY <2>6, <2>10, <3>1
      <3>2. CASE h # f
        <4>1. flows'[h].new = flows[h].new /\ flows[h].new \in valid[Build!Acc(h).id] /\ Build!At(h, "granted")
          BY <2>10, <3>2 DEF BuildInv, GrantsAreGood
        <4>2. Build!Acc(h).id \in Build!Id
          BY <4>1, FlowAtWork, AccFacts DEF Working
        <4>3. rotates => flows[h].new # g
          BY <1>1, <4>1 DEF BuildInv, NewIsUnknown
        <4> QED
          BY <2>5, <2>6, <4>1, <4>2, <4>3
      <3> QED
        BY <3>1, <3>2
    <2>14. NewIsUnknown'
      <3> SUFFICES ASSUME rotates, NEW h \in Flow, Build!At(h, "granted")'
                   PROVE  /\ flows'[h].new # 0
                          /\ \A j \in Build!Present : brow[j].refresh # flows'[h].new
                          /\ \A k \in Flow : \A c \in Listed(k) : c.refresh # flows'[h].new
                          /\ \A k \in Flow \ {h} : Build!At(k, "granted")' => flows'[k].new # flows'[h].new
        BY <1>0, <2>9, <2>11 DEF NewIsUnknown
      <3>1. CASE h = f
        <4>1. flows'[h].new = new /\ new > lastToken /\ new # 0
          BY <1>2, <2>5, <2>10, <3>1
        <4>2. \A j \in Build!Present : brow[j].refresh \in Nat /\ brow[j].refresh <= lastToken
          BY RowType DEF BuildInv, TokensAreIssued, Issued, Build!Row
        <4>3. \A k \in Flow : \A c \in Listed(k) : c.refresh \in Nat /\ c.refresh <= lastToken
          BY CopiesListed
        <4>4. \A k \in Flow \ {h} : Build!At(k, "granted")' => flows'[k].new \in Nat /\ flows'[k].new <= lastToken
          BY <2>10, <3>1 DEF BuildInv, FlowsType, FlowType, TokensAreIssued, Issued
        <4> QED
          BY <1>2, <2>5, <4>1, <4>2, <4>3, <4>4
      <3>2. CASE h # f
        <4>1. Build!At(h, "granted") /\ flows'[h].new = flows[h].new
          BY <2>10, <3>2
        <4>2. /\ flows[h].new # 0
              /\ \A j \in Build!Present : brow[j].refresh # flows[h].new
              /\ \A k \in Flow : \A c \in Listed(k) : c.refresh # flows[h].new
              /\ \A k \in Flow \ {h} : Build!At(k, "granted") => flows[k].new # flows[h].new
          BY <4>1 DEF BuildInv, NewIsUnknown
        <4>3. flows[h].new \in Nat /\ flows[h].new <= lastToken
          BY <4>1 DEF BuildInv, FlowsType, FlowType, TokensAreIssued, Issued
        <4>4. flows[h].new # new
          BY <1>2, <2>5, <4>3
        <4> QED
          BY <2>10, <4>1, <4>2, <4>4
      <3> QED
        BY <3>1, <3>2
    <2>15. ~rotates => \A j \in Build!Id : valid[j] \subseteq valid'[j]
      BY <1>4, <2>5, <2>6
    <2>16. CopiesAreGood' /\ RowsAreGood'
      <3>1. \A h \in Flow : \A c \in Listed(h) : c.id \in Build!Id
        BY CopiesListed
      <3> QED
        BY <1>0, <2>9, <2>11, <2>15, <3>1, RowType DEF BuildInv, CopiesAreGood, RowsAreGood
    <2>17. RefusalsHaveCause'
      BY <1>0, <2>3, <2>4, <2>9 DEF BuildInv, RefusalsHaveCause
    <2>18. OwedIsCooldown' /\ Build!NoRaceWithoutRotation'
      BY <1>0, <2>9, <2>11 DEF BuildInv, OwedIsCooldown, Build!NoRaceWithoutRotation
    <2>19. Build!GrantIsKept'
      <3> SUFFICES ASSUME NEW j \in Build!Present \ damaged
                   PROVE  \/ brow[j].refresh \in valid'[j] \cup {0}
                          \/ \E h \in Flow : Build!At(h, "granted")' /\ Build!Acc(h).id = j
        BY <1>0, <2>9, <2>11 DEF Build!GrantIsKept
      <3>1. CASE j = i
        BY <2>3, <2>4, <3>1
      <3>2. CASE j # i
        <4>1. valid'[j] = valid[j]
          BY <2>6, <3>2 DEF Build!Present
        <4>2. \A h \in Flow : Build!At(h, "granted") => Build!At(h, "granted")'
          BY <1>0, <2>4
        <4> QED
          BY <4>1, <4>2 DEF BuildInv, Build!GrantIsKept
      <3> QED
        BY <3>1, <3>2
    <2> QED
      BY <2>7, <2>8, <2>11, <2>12, <2>13, <2>14, <2>16, <2>17, <2>18, <2>19 DEF BuildInv
  <1> QED
    BY <1>3, <1>4

(* A flow that held a new token goes on, with copies it had.                 *)
FlowLeaves(f) ==
    /\ FlowsType' /\ ~Build!At(f, "granted")' /\ ~Build!At(f, "exchange")' /\ ~Build!At(f, "refused")'
    /\ \A g \in Flow \ {f} : flows'[g] = flows[g]
    /\ Listed(f)' \subseteq Listed(f)

LEMMA GrantedGoesOn ==
    ASSUME BuildInv, NEW f \in Flow, Build!At(f, "granted"),
           \E r \in {Build!NextAccount(f), Build!Goto(f, "call"), Build!Goto(f, "reread")} : Build!Move(f, r)
    PROVE  FlowLeaves(f)
  <1>1. PICK r \in {Build!NextAccount(f), Build!Goto(f, "call"), Build!Goto(f, "reread")} : Build!Move(f, r)
    OBVIOUS
  <1>2. FlowType(flows[f]) /\ flows[f].todo # <<>>
    BY FlowAtWork DEF BuildInv, FlowsType, Build!At, Working
  <1>3. DOMAIN r = DOMAIN flows[f] /\ r.pc \in {"next", "call", "reread"} /\ r.new = flows[f].new
        /\ (r.todo = flows[f].todo \/ (r.pc = "next" /\ r.todo = Tail(flows[f].todo)))
    <2>1. CASE r = Build!NextAccount(f)
      BY <1>2, <2>1 DEF FlowType, Build!NextAccount
    <2>2. ASSUME NEW p \in {"call", "reread"}, r = Build!Goto(f, p)
          PROVE  DOMAIN r = DOMAIN flows[f] /\ r.pc = p /\ r.new = flows[f].new /\ r.todo = flows[f].todo
      BY <1>2, <2>2 DEF FlowType, Build!Goto
    <2> QED
      BY <2>1, <2>2
  <1>4. r.todo \in Seq(CopyType) /\ Copies(r) \subseteq Listed(f)
    <2>1. flows[f].todo \in Seq(CopyType) /\ flows[f].todo # <<>>
      BY <1>2 DEF FlowType
    <2>2. Tail(flows[f].todo) \in Seq(CopyType)
          /\ \A n \in DOMAIN Tail(flows[f].todo) : Tail(flows[f].todo)[n] \in Listed(f)
      BY <2>1 DEF Listed
    <2> QED
      BY <1>3, <2>1, <2>2 DEF Copies, Listed
  <1>5. flows'[f] = r /\ DOMAIN flows' = Flow /\ \A g \in Flow \ {f} : flows'[g] = flows[g]
    BY <1>1 DEF BuildInv, FlowsType, Build!Move
  <1>6. FlowsType'
    BY <1>2, <1>3, <1>4, <1>5 DEF BuildInv, FlowsType, FlowType, Label, Working
  <1>7. Listed(f)' = Copies(r)
    BY <1>5 DEF Listed, Copies
  <1> QED
    BY <1>3, <1>4, <1>5, <1>6, <1>7 DEF FlowLeaves, Build!At

LEMMA Leaving ==
    ASSUME BuildInv, NEW f \in Flow, FlowLeaves(f)
    PROVE  /\ \A h \in Flow : Listed(h)' \subseteq Listed(h)
           /\ \A h \in Flow : Build!At(h, "granted")' => h # f /\ Build!At(h, "granted") /\ flows'[h] = flows[h]
           /\ \A h \in Flow : Build!Acc(h).id # Build!Acc(f).id /\ Build!At(h, "granted") =>
                 Build!At(h, "granted")' /\ Build!Acc(h)' = Build!Acc(h)
           /\ \A h \in Flow : (Build!At(h, "exchange") \/ Build!At(h, "refused"))' =>
                 h # f /\ flows'[h] = flows[h]
  <1>1. \A h \in Flow \ {f} : Listed(h)' = Listed(h) /\ Build!Acc(h)' = Build!Acc(h)
    BY DEF FlowLeaves, Listed, Build!Acc
  <1> QED
    BY <1>1 DEF FlowLeaves, Build!At

LEMMA StoreStep == ASSUME BuildInv, NEW f \in Flow, Build!StoreTokens(f) PROVE BuildInv'
  <1> DEFINE i == Build!Acc(f).id
             new == flows[f].new
  <1>0. /\ Build!At(f, "granted") /\ Build!UpdateTokens(i, new) /\ marked' = marked \ {i}
        /\ UNCHANGED <<nextId, valid, lastToken, rotates, models, owed, damaged>>
    BY DEF Build!StoreTokens
  <1>1. FlowLeaves(f)
    BY <1>0, GrantedGoesOn DEF Build!StoreTokens, Build!Renewed
  <1>2. i \in Build!Id
    BY <1>0, FlowAtWork, AccFacts DEF Build!At, Working
  <1>3. new \in 0 .. MaxTokens /\ Issued(new) /\ (i \notin damaged => new \in valid[i])
    BY <1>0 DEF BuildInv, FlowsType, FlowType, TokensAreIssued, GrantsAreGood
  <1>4. /\ \A h \in Flow : Listed(h)' \subseteq Listed(h)
        /\ \A h \in Flow : Build!At(h, "granted")' => h # f /\ Build!At(h, "granted") /\ flows'[h] = flows[h]
        /\ \A h \in Flow : Build!Acc(h).id # i /\ Build!At(h, "granted") =>
              Build!At(h, "granted")' /\ Build!Acc(h)' = Build!Acc(h)
        /\ \A h \in Flow : (Build!At(h, "exchange") \/ Build!At(h, "refused"))' => h # f /\ flows'[h] = flows[h]
    BY <1>1, Leaving
  <1>5. rotates => \A h \in Flow \ {f} : Build!At(h, "granted") => flows[h].new # new
    BY <1>0 DEF BuildInv, NewIsUnknown
  <1>6. /\ RowsType'
        /\ \A j \in Build!Present' : j \in Build!Present /\ brow'[j].cool = brow[j].cool
        /\ \A j \in Build!Present' : j # i => brow'[j] = brow[j]
        /\ i \in Build!Present' => brow'[i].refresh = new /\ brow'[i].status = "active"
    <2>1. CASE i \notin Build!Present
      BY <1>0, <2>1 DEF Build!UpdateTokens, BuildInv, RowsType, Build!Present
    <2>2. CASE i \in Build!Present
      <3> DEFINE row == [brow[i] EXCEPT !.access = TRUE, !.refresh = new, !.fresh = TRUE,
                                        !.status = "active", !.old = FALSE]
      <3>1. brow[i] \in Build!Row /\ DOMAIN brow = Build!Id
        BY <2>2, RowType DEF BuildInv
      <3>2. brow' = [brow EXCEPT ![i] = row]
        BY <1>0, <2>2 DEF Build!UpdateTokens
      <3>3. row \in Build!Row
        BY <1>3, <3>1 DEF Build!Row, Build!Status
      <3>4. row.refresh = new /\ row.cool = brow[i].cool /\ row.status = "active"
        BY <3>1 DEF Build!Row
      <3> HIDE DEF row, i, new
      <3>5. brow'[i] = row /\ \A j \in Build!Id \ {i} : brow'[j] = brow[j]
        BY <1>2, <3>1, <3>2
      <3>6. RowsType'
        BY <1>0, <3>2, <3>3 DEF BuildInv, RowsType
      <3> QED
        BY <2>2, <3>4, <3>5, <3>6 DEF Build!Present
    <2> QED
      BY <2>1, <2>2
  <1> HIDE DEF i, new
  <1>7. \A j \in Build!Present' : j \in Build!Present /\ j \in Build!Id
    BY <1>6, RowType DEF BuildInv
  <1>8. FlowsType' /\ ServerType'
    BY <1>0, <1>1 DEF FlowLeaves, BuildInv, ServerType
  <1>9. TokensAreIssued'
    <2>1. \A j \in Build!Present' : Issued(brow'[j].refresh)
      BY <1>3, <1>6, <1>7 DEF BuildInv, TokensAreIssued
    <2> QED
      BY <1>0, <1>4, <2>1 DEF BuildInv, TokensAreIssued, Issued
  <1>10. GrantsAreGood'
    BY <1>0, <1>4 DEF BuildInv, GrantsAreGood, Build!Acc
  <1>11. NewIsUnknown'
    <2> SUFFICES ASSUME rotates, NEW h \in Flow, Build!At(h, "granted")'
                 PROVE  /\ flows'[h].new # 0
                        /\ \A j \in Build!Present' : brow'[j].refresh # flows'[h].new
                        /\ \A k \in Flow : \A c \in Listed(k)' : c.refresh # flows'[h].new
                        /\ \A k \in Flow \ {h} : Build!At(k, "granted")' => flows'[k].new # flows'[h].new
      BY <1>0 DEF NewIsUnknown
    <2>1. h # f /\ Build!At(h, "granted") /\ flows'[h] = flows[h]
      BY <1>4
    <2>2. /\ flows[h].new # 0
          /\ \A j \in Build!Present : brow[j].refresh # flows[h].new
          /\ \A k \in Flow : \A c \in Listed(k) : c.refresh # flows[h].new
          /\ \A k \in Flow \ {h} : Build!At(k, "granted") => flows[k].new # flows[h].new
      BY <2>1 DEF BuildInv, NewIsUnknown
    <2>3. flows[h].new # new
      BY <1>5, <2>1
    <2>4. \A j \in Build!Present' : brow'[j].refresh # flows[h].new
      BY <1>6, <2>2, <2>3
    <2> QED
      BY <1>4, <2>1, <2>2, <2>4
  <1>12. CopiesAreGood' /\ RowsAreGood'
    <2>1. CopiesAreGood'
      BY <1>0, <1>4 DEF BuildInv, CopiesAreGood
    <2>2. RowsAreGood'
      BY <1>0, <1>3, <1>6 DEF BuildInv, RowsAreGood
    <2> QED
      BY <2>1, <2>2
  <1>13. RefusalsHaveCause'
    BY <1>0, <1>4 DEF BuildInv, RefusalsHaveCause, Build!At, Build!Acc
  <1>14. OwedIsCooldown'
    BY <1>0, <1>4, <1>6 DEF BuildInv, OwedIsCooldown
  <1>15. Build!GrantIsKept'
    <2> SUFFICES ASSUME NEW j \in Build!Present', j \notin damaged
                 PROVE  \/ brow'[j].refresh \in valid[j] \cup {0}
                        \/ \E h \in Flow : Build!At(h, "granted")' /\ Build!Acc(h)'.id = j
      BY <1>0 DEF Build!GrantIsKept
    <2>1. CASE j = i
      BY <1>3, <1>6, <2>1
    <2>2. CASE j # i
      BY <1>4, <1>6, <2>2 DEF BuildInv, Build!GrantIsKept
    <2> QED
      BY <2>1, <2>2
  <1>16. Build!NoRaceWithoutRotation'
    BY <1>0, <1>6 DEF BuildInv, Build!NoRaceWithoutRotation
  <1> QED
    BY <1>6, <1>8, <1>9, <1>10, <1>11, <1>12, <1>13, <1>14, <1>15, <1>16 DEF BuildInv

(* The write of the new token failed: the grant is lost, and said to be.     *)
LEMMA StoreFailsStep == ASSUME BuildInv, NEW f \in Flow, Build!StoreTokensFails(f) PROVE BuildInv'
  <1> DEFINE i == Build!Acc(f).id
  <1>0. /\ Build!At(f, "granted") /\ damaged' = damaged \cup {i}
        /\ UNCHANGED <<brow, nextId, valid, lastToken, rotates, models, owed, marked>>
    BY DEF Build!StoreTokensFails
  <1>1. FlowLeaves(f)
    BY <1>0, GrantedGoesOn DEF Build!StoreTokensFails, Build!Renewed
  <1>2. /\ \A h \in Flow : Listed(h)' \subseteq Listed(h)
        /\ \A h \in Flow : Build!At(h, "granted")' => h # f /\ Build!At(h, "granted") /\ flows'[h] = flows[h]
        /\ \A h \in Flow : Build!Acc(h).id # i /\ Build!At(h, "granted") =>
              Build!At(h, "granted")' /\ Build!Acc(h)' = Build!Acc(h)
        /\ \A h \in Flow : (Build!At(h, "exchange") \/ Build!At(h, "refused"))' => h # f /\ flows'[h] = flows[h]
    BY <1>1, Leaving
  <1> HIDE DEF i
  <1>3. FlowsType' /\ ServerType' /\ RowsType' /\ Build!Present' = Build!Present
    BY <1>0, <1>1 DEF FlowLeaves, BuildInv, ServerType, RowsType, Build!Present
  <1>4. TokensAreIssued' /\ GrantsAreGood'
    BY <1>0, <1>2, <1>3 DEF BuildInv, TokensAreIssued, Issued, GrantsAreGood, Build!Acc
  <1>5. NewIsUnknown'
    BY <1>0, <1>2, <1>3 DEF BuildInv, NewIsUnknown
  <1>6. CopiesAreGood' /\ RowsAreGood'
    BY <1>0, <1>2, <1>3 DEF BuildInv, CopiesAreGood, RowsAreGood
  <1>7. RefusalsHaveCause'
    BY <1>0, <1>2 DEF BuildInv, RefusalsHaveCause, Build!At, Build!Acc
  <1>8. OwedIsCooldown' /\ Build!NoRaceWithoutRotation'
    BY <1>0, <1>2, <1>3 DEF BuildInv, OwedIsCooldown, Build!NoRaceWithoutRotation
  <1>9. Build!GrantIsKept'
    <2> SUFFICES ASSUME NEW j \in Build!Present, j \notin damaged, j # i
                 PROVE  \/ brow[j].refresh \in valid[j] \cup {0}
                        \/ \E h \in Flow : Build!At(h, "granted")' /\ Build!Acc(h)'.id = j
      BY <1>0, <1>3 DEF Build!GrantIsKept
    <2> QED
      BY <1>2 DEF BuildInv, Build!GrantIsKept
  <1> QED
    BY <1>3, <1>4, <1>5, <1>6, <1>7, <1>8, <1>9 DEF BuildInv

(* The operator and the outside.                                             *)
LEMMA FlowsAsTheyWere == ASSUME BuildInv, flows' = flows PROVE FlowsStay
  BY DEF BuildInv, FlowsStay, FlowsType, Listed, Build!At, Build!Acc, RefusalsHaveCause, ServerType

LEMMA OperatorStep ==
    ASSUME BuildInv, NEW i \in Build!Id,
           Build!Delete(i) \/ Build!Revoke(i) \/ \E s \in Build!Status : Build!SetStatus(i, s)
    PROVE  BuildInv'
  <1>0. models \in [ids : BOOLEAN, fresh : BOOLEAN]
    BY DEF BuildInv, ServerType
  <1>1. CASE Build!Delete(i)
    <2>1. brow' = [brow EXCEPT ![i] = NoAccount]
          /\ UNCHANGED <<nextId, flows, valid, lastToken, rotates, models, owed, damaged, marked>>
      BY <1>1 DEF Build!Delete
    <2> QED
      BY <1>0, <2>1, RowIsDeleted, FlowsAsTheyWere, NothingGranted
  <1>2. ASSUME NEW s \in Build!Status, Build!SetStatus(i, s) PROVE BuildInv'
    <2>1. /\ i \in Build!Present /\ Build!SetStatusUntil(i, s, QuotaPause)
          /\ owed' = [owed EXCEPT ![i] = IF s = "cooling" THEN QuotaPause ELSE 0] /\ marked' = marked \cup {i}
          /\ UNCHANGED <<nextId, flows, valid, lastToken, rotates, models, damaged>>
      BY <1>2 DEF Build!SetStatus
    <2>2. i < nextId
      BY <2>1 DEF BuildInv, OwedIsCooldown, RowsType, Build!Id
    <2>3. RowsStay
      BY <2>1, <2>2, PauseType, StatusIsSet
    <2> QED
      BY <1>0, <2>1, <2>3, FlowsAsTheyWere, NothingGranted
  <1>3. CASE Build!Revoke(i)
    <2>1. /\ valid' = [valid EXCEPT ![i] = {}] /\ damaged' = damaged \cup {i}
          /\ UNCHANGED <<brow, nextId, flows, lastToken, rotates, models, owed, marked>>
      BY <1>3 DEF Build!Revoke
    <2>2. valid'[i] = {} /\ \A j \in Build!Id \ {i} : valid'[j] = valid[j]
      BY <2>1 DEF BuildInv, ServerType
    <2>3. ServerType'
      BY <2>1 DEF BuildInv, ServerType
    <2>4. FlowsType' /\ RowsType' /\ Build!Present' = Build!Present
          /\ \A h \in Flow : Listed(h)' = Listed(h) /\ Build!Acc(h)' = Build!Acc(h)
      BY <2>1 DEF BuildInv, FlowsType, RowsType, Build!Present, Listed, Build!Acc
    <2>5. TokensAreIssued'
      BY <2>1, <2>2, <2>4 DEF BuildInv, TokensAreIssued, Issued, Build!At
    <2>6. GrantsAreGood'
      <3> SUFFICES ASSUME NEW h \in Flow, Build!At(h, "granted"), Build!Acc(h).id \notin damaged \cup {i}
                   PROVE  flows[h].new \in valid'[Build!Acc(h).id]
        BY <2>1, <2>4 DEF GrantsAreGood, Build!At
      <3>1. Build!Acc(h).id \in Build!Id
        BY FlowAtWork, AccFacts DEF Build!At, Working
      <3> QED
        BY <2>2, <3>1 DEF BuildInv, GrantsAreGood
    <2>7. NewIsUnknown' /\ RefusalsHaveCause'
      BY <2>1, <2>4 DEF BuildInv, NewIsUnknown, RefusalsHaveCause, Build!At
    <2>8. CopiesAreGood' /\ RowsAreGood' /\ Build!GrantIsKept'
      BY <2>1, <2>2, <2>4, CopiesListed, RowType
      DEF BuildInv, CopiesAreGood, RowsAreGood, Build!GrantIsKept, Build!At
    <2>9. OwedIsCooldown' /\ Build!NoRaceWithoutRotation'
      BY <2>1, <2>4 DEF BuildInv, OwedIsCooldown, Build!NoRaceWithoutRotation
    <2> QED
      BY <2>3, <2>4, <2>5, <2>6, <2>7, <2>8, <2>9 DEF BuildInv
  <1> QED
    BY <1>1, <1>2, <1>3

(* An import or a login: a row of its own or the one of the user, with a     *)
(* token of a new grant or with none.                                        *)
LEMMA UpsertStep ==
    ASSUME BuildInv, NEW u \in User, NEW access \in BOOLEAN, NEW refresh \in BOOLEAN,
           Build!Upsert(u, access, refresh)
    PROVE  BuildInv'
  <1> DEFINE known == {j \in Build!Present : brow[j].user = u}
             i == IF known # {} THEN CHOOSE x \in known : TRUE ELSE nextId
             g == lastToken + 1
             kept == IF known # {} THEN brow[i] ELSE [cool |-> 0, billing |-> NoBilling]
             token == IF refresh THEN g ELSE 0
             row == [user |-> u, access |-> access, refresh |-> token, fresh |-> access,
                     status |-> "active", cool |-> kept.cool, billing |-> kept.billing, old |-> FALSE]
  <1>0. /\ i \in Build!Id /\ (refresh => g <= MaxTokens)
        /\ brow' = [brow EXCEPT ![i] = row]
        /\ nextId' = IF known # {} THEN nextId ELSE nextId + 1
        /\ valid' = IF refresh THEN [valid EXCEPT ![i] = @ \cup {g}] ELSE valid
        /\ lastToken' = IF refresh THEN g ELSE lastToken
        /\ marked' = marked \cup {i}
        /\ UNCHANGED <<flows, rotates, models, owed, damaged>>
    BY DEF Build!Upsert
  <1>1. known # {} => i \in Build!Present
    OBVIOUS
  <1>2. brow \in [Build!Id -> Build!Row \cup {NoAccount}] /\ nextId \in 1 .. MaxIds + 1
        /\ owed \in [Build!Id -> Nat] /\ MaxIds \in Nat /\ MaxTokens \in Nat /\ lastToken \in 1 .. MaxTokens
        /\ valid \in [Build!Id -> SUBSET (1 .. MaxTokens)]
    BY StoresAssumption DEF BuildInv, RowsType, ServerType, Build!BuildAssumption
  <1>3. kept.cool = owed[i] /\ kept.cool \in Nat /\ kept.billing \in Build!Billing
    <2>1. CASE known # {}
      <3>1. brow[i] \in Build!Row /\ owed[i] = brow[i].cool /\ kept = brow[i]
        BY <1>1, <2>1, RowType DEF BuildInv, OwedIsCooldown
      <3> HIDE DEF i, kept
      <3> QED
        BY <3>1 DEF Build!Row
    <2>2. CASE known = {}
      <3>1. i = nextId /\ kept = [cool |-> 0, billing |-> NoBilling]
        BY <2>2
      <3>2. owed[i] = 0
        BY <1>0, <1>2, <3>1 DEF BuildInv, OwedIsCooldown
      <3> HIDE DEF i, kept
      <3> QED
        BY <3>1, <3>2 DEF Build!Billing
    <2> QED
      BY <2>1, <2>2
  <1>4. /\ nextId' \in 1 .. MaxIds + 1 /\ nextId <= nextId' /\ i < nextId'
        /\ \A j \in Build!Id : j >= nextId' => j >= nextId /\ j # i
    <2>1. CASE known # {}
      <3>1. i < nextId /\ nextId' = nextId
        BY <1>0, <1>1, <1>2, <2>1 DEF BuildInv, OwedIsCooldown, Build!Id
      <3> HIDE DEF i, known
      <3> QED
        BY <1>0, <1>2, <3>1 DEF Build!Id
    <2>2. CASE known = {}
      <3>1. i = nextId /\ nextId' = nextId + 1
        BY <1>0, <2>2
      <3> HIDE DEF i, known
      <3> QED
        BY <1>0, <1>2, <3>1 DEF Build!Id
    <2> QED
      BY <2>1, <2>2
  <1>5. token \in 0 .. MaxTokens /\ token \in valid'[i] \cup {0} /\ token <= lastToken'
        /\ lastToken <= lastToken' /\ lastToken' \in 1 .. MaxTokens /\ (token = 0 \/ lastToken < token)
    <2> HIDE DEF i
    <2>1. CASE refresh
      <3>1. token = g /\ g \in 1 .. MaxTokens /\ lastToken' = g /\ valid'[i] = valid[i] \cup {g}
        BY <1>0, <1>2, <2>1
      <3> QED
        BY <1>2, <3>1
    <2>2. CASE ~refresh
      BY <1>0, <1>2, <2>2
    <2> QED
      BY <2>1, <2>2
  <1>6. /\ \A j \in Build!Id : valid[j] \subseteq valid'[j] /\ \A t \in valid'[j] : t <= lastToken'
        /\ valid' \in [Build!Id -> SUBSET (1 .. MaxTokens)]
    <2>1. \A j \in Build!Id : \A t \in valid[j] : t \in Nat /\ t <= lastToken
      BY <1>2 DEF BuildInv, TokensAreIssued, Issued
    <2> HIDE DEF i
    <2>2. CASE refresh
      <3>1. valid' = [valid EXCEPT ![i] = @ \cup {g}] /\ lastToken' = g /\ g \in 1 .. MaxTokens
        BY <1>0, <1>2, <2>2
      <3>2. \A j \in Build!Id : valid[j] \subseteq valid'[j] /\ \A t \in valid'[j] : t \in valid[j] \/ t = g
        BY <1>0, <1>2, <3>1
      <3> QED
        BY <1>0, <1>2, <2>1, <3>1, <3>2
    <2>3. CASE ~refresh
      BY <1>0, <2>1, <2>3, <1>2
    <2> QED
      BY <2>2, <2>3
  <1> HIDE DEF kept, token
  <1>7. row \in Build!Row
    BY <1>3, <1>5 DEF Build!Row, Build!Status
  <1>8. row.refresh = token /\ row.cool = kept.cool /\ row.status = "active"
    OBVIOUS
  <1> HIDE DEF row, i
  <1>9. /\ brow'[i] = row /\ \A j \in Build!Id \ {i} : brow'[j] = brow[j]
        /\ brow' \in [Build!Id -> Build!Row \cup {NoAccount}]
    BY <1>0, <1>2, <1>7
  <1>10. \A j \in Build!Present' : j \in Build!Id /\ (j = i \/ (j \in Build!Present /\ brow'[j] = brow[j]))
    BY <1>9 DEF Build!Present
  <1>11. FlowsType' /\ RowsType' /\ ServerType'
    BY <1>0, <1>2, <1>4, <1>5, <1>6, <1>9 DEF BuildInv, FlowsType, RowsType, ServerType
  <1>12. \A h \in Flow : Listed(h)' = Listed(h) /\ Build!Acc(h)' = Build!Acc(h)
    BY <1>0 DEF Listed, Build!Acc
  <1>13. TokensAreIssued'
    <2>1. \A j \in Build!Present : brow[j].refresh \in Nat /\ brow[j].refresh <= lastToken
      BY RowType DEF BuildInv, TokensAreIssued, Issued, Build!Row
    <2>2. \A j \in Build!Present' : brow'[j].refresh <= lastToken'
      BY <1>2, <1>5, <1>8, <1>9, <1>10, <2>1
    <2>3. \A h \in Flow : Build!At(h, "granted") => flows[h].new \in Nat /\ flows[h].new <= lastToken
      BY DEF BuildInv, FlowsType, FlowType, TokensAreIssued, Issued
    <2>4. \A h \in Flow : Build!At(h, "granted") => flows[h].new <= lastToken'
      BY <1>2, <1>5, <2>3
    <2>5. \A h \in Flow : \A c \in Listed(h) : c.refresh <= lastToken'
      BY <1>2, <1>5, CopiesListed
    <2> QED
      BY <1>0, <1>6, <1>12, <2>2, <2>4, <2>5 DEF TokensAreIssued, Issued, Build!At
  <1>14. GrantsAreGood'
    <2>1. \A h \in Flow : Build!At(h, "granted") => Build!Acc(h).id \in Build!Id
      BY FlowAtWork, AccFacts DEF Build!At, Working
    <2> QED
      BY <1>0, <1>6, <1>12, <2>1 DEF BuildInv, GrantsAreGood, Build!At
  <1>15. NewIsUnknown'
    <2>1. \A h \in Flow : Build!At(h, "granted") => flows[h].new \in Nat /\ flows[h].new <= lastToken
      BY DEF BuildInv, FlowsType, FlowType, TokensAreIssued, Issued
    <2>2. \A h \in Flow : rotates /\ Build!At(h, "granted") => flows[h].new # token
      BY <1>2, <1>5, <2>1 DEF BuildInv, NewIsUnknown
    <2> QED
      BY <1>0, <1>8, <1>9, <1>10, <1>12, <2>2 DEF BuildInv, NewIsUnknown, Build!At
  <1>16. CopiesAreGood' /\ RowsAreGood'
    BY <1>0, <1>5, <1>6, <1>8, <1>9, <1>10, <1>12, CopiesListed DEF BuildInv, CopiesAreGood, RowsAreGood
  <1>17. RefusalsHaveCause'
    BY <1>0, <1>12 DEF BuildInv, RefusalsHaveCause, Build!At
  <1>18. OwedIsCooldown'
    <2>1. \A j \in Build!Present' : owed[j] = brow'[j].cool
      BY <1>3, <1>8, <1>9, <1>10 DEF BuildInv, OwedIsCooldown
    <2>2. \A j \in Build!Id : j >= nextId' => owed[j] = 0 /\ j \notin Build!Present'
      BY <1>4, <1>10 DEF BuildInv, OwedIsCooldown
    <2>3. \A h \in Flow : \A c \in Listed(h) : c.id < nextId'
      <3>1. \A h \in Flow : \A c \in Listed(h) : c.id \in Nat /\ c.id < nextId
        BY CopiesListed DEF BuildInv, OwedIsCooldown, Build!Id
      <3> QED
        BY <1>2, <1>4, <3>1
    <2> QED
      BY <1>0, <1>12, <2>1, <2>2, <2>3 DEF OwedIsCooldown
  <1>19. Build!GrantIsKept'
    BY <1>0, <1>5, <1>6, <1>8, <1>9, <1>10, <1>12 DEF BuildInv, Build!GrantIsKept, Build!At
  <1>20. Build!NoRaceWithoutRotation'
    BY <1>0, <1>8, <1>9, <1>10 DEF BuildInv, Build!NoRaceWithoutRotation
  <1> QED
    BY <1>11, <1>13, <1>14, <1>15, <1>16, <1>17, <1>18, <1>19, <1>20 DEF BuildInv

(* A flow of BeginFlow, as BeginStep takes it.                               *)
LEMMA BeginsListed ==
    ASSUME BuildInv, NEW f \in Flow, Build!BeginFlow(f)
    PROVE  \E kind : \E listed \in SUBSET Build!Present, pc \in {"filter", "next"} :
              /\ Build!Begin(f, kind, listed, pc)
              /\ kind \in Build!Product => listed = Build!ListActive
  <1> USE DEF Build!Product
  <1>1. CASE Build!BuildCompletions(f) \/ Build!BuildResponses(f) \/ Build!ListBuildModelSpecs(f)
    <2>1. Build!ListActive \in SUBSET Build!Present
      BY DEF Build!ListActive
    <2> QED
      BY <1>1, <2>1 DEF Build!BuildCompletions, Build!BuildResponses, Build!ListBuildModelSpecs
  <1>2. CASE Build!BillingBatch(f) \/ Build!RefreshBatch(f)
    BY <1>2 DEF Build!BillingBatch, Build!RefreshBatch
  <1>3. ASSUME NEW i \in Build!Id, Build!BillingOne(f, i)
        PROVE  \E listed \in SUBSET Build!Present : Build!Begin(f, "billing", listed, "next")
    BY <1>3 DEF Build!BillingOne
  <1>4. CASE Build!CleanupBatch(f) \/ Build!AutoClean(f)
    <2>1. \E listed \in SUBSET Build!Present : Build!Begin(f, "cleanup", listed, "next")
      BY <1>4 DEF Build!CleanupBatch, Build!AutoClean
    <2> QED
      BY <2>1
  <1> QED
    BY <1>1, <1>2, <1>3, <1>4 DEF Build!BeginFlow

LEMMA FlowStepKeeps == ASSUME BuildInv, NEW f \in Flow, Build!FlowStep(f) PROVE BuildInv'
  <1>1. ASSUME NEW answer \in Answers,
               Build!InvokeBuildOnce(f, answer) \/ Build!ReadRetried(f, answer) \/ Build!LoadOrFetch(f, answer)
        PROVE  BuildInv'
    BY <1>1, Answered
  <1>2. ASSUME NEW answer \in Answers, NEW billing \in Build!GetBilling, Build!FetchBuildBilling(f, answer, billing)
        PROVE  BuildInv'
    BY <1>2, Answered
  <1> QED
    BY <1>1, <1>2, FilterStep, ChooseAccount, ExchangeStep, Refused, StoreStep, StoreFailsStep DEF Build!FlowStep

LEMMA BuildStep == ASSUME BuildInv, Build!Next PROVE BuildInv'
  <1>1. CASE Build!Import \/ Build!DevicePoll
    <2>1. PICK u \in User : \E access \in BOOLEAN, refresh \in BOOLEAN : Build!Upsert(u, access, refresh)
      BY <1>1 DEF Build!Import, Build!DevicePoll, Build!Credentials
    <2> QED
      BY <2>1, UpsertStep
  <1>2. ASSUME NEW f \in Flow, Build!BeginFlow(f) PROVE BuildInv'
    BY <1>2, BeginsListed, BeginStep
  <1> QED
    BY <1>1, <1>2, TickStep, OperatorStep, FlowStepKeeps DEF Build!Next

LEMMA BuildInit == ASSUME Init PROVE BuildInv
  <1>1. Build!Init
    BY DEF Init
  <1> DEFINE one(u, access, fresh) == [user |-> u, access |-> access, refresh |-> 1, fresh |-> access /\ fresh,
                         status |-> "active", cool |-> 0, billing |-> NoBilling, old |-> FALSE]
  <1>2. PICK u \in User, access \in BOOLEAN, fresh \in BOOLEAN :
           brow = [i \in Build!Id |-> IF i = 1 THEN one(u, access, fresh) ELSE NoAccount]
    BY <1>1 DEF Build!Init
  <1>3. /\ nextId = 2 /\ flows = [f \in Flow |-> Build!Idle] /\ lastToken = 1 /\ rotates \in BOOLEAN
        /\ valid = [i \in Build!Id |-> IF i = 1 THEN {1} ELSE {}]
        /\ models = [ids |-> FALSE, fresh |-> FALSE] /\ owed = [i \in Build!Id |-> 0]
        /\ damaged = {} /\ marked = {}
    BY <1>1 DEF Build!Init
  <1>4. MaxIds \in Nat \ {0} /\ MaxTokens \in Nat \ {0}
    BY StoresAssumption DEF Build!BuildAssumption
  <1> DEFINE both == access /\ fresh
             row == [user |-> u, access |-> access, refresh |-> 1, fresh |-> both,
                     status |-> "active", cool |-> 0, billing |-> NoBilling, old |-> FALSE]
  <1>5. both \in BOOLEAN
    OBVIOUS
  <1>6. one(u, access, fresh) = row
    OBVIOUS
  <1> HIDE DEF both, one
  <1>7. row \in Build!Row
    BY <1>4, <1>5 DEF Build!Row, Build!Status, Build!Billing
  <1>8. row.refresh = 1 /\ row.cool = 0 /\ row.status = "active"
    OBVIOUS
  <1> HIDE DEF row
  <1>9. brow = [i \in Build!Id |-> IF i = 1 THEN row ELSE NoAccount]
    BY <1>2, <1>6
  <1>10. brow \in [Build!Id -> Build!Row \cup {NoAccount}]
    BY <1>7, <1>9
  <1>11. \A i \in Build!Present : i = 1 /\ brow[i] = row
    BY <1>9 DEF Build!Present
  <1>12. 1 \in Build!Id
    BY <1>4 DEF Build!Id
  <1>13. \A f \in Flow : flows[f].pc = "idle" /\ flows[f].todo = <<>> /\ flows[f].new = 0
            /\ DOMAIN flows[f] = {"kind", "pc", "todo", "retried", "new", "result"}
    BY <1>3 DEF Build!Idle
  <1>14. \A f \in Flow : Listed(f) = {}
    BY <1>13 DEF Listed
  <1>15. FlowsType
    <2>1. "idle" \in Label /\ "idle" \notin Working /\ <<>> \in Seq(CopyType) /\ 0 \in 0 .. MaxTokens
      BY <1>4 DEF Label, Working
    <2>2. DOMAIN flows = Flow
      BY <1>3
    <2> QED
      BY <1>13, <2>1, <2>2 DEF FlowsType, FlowType
  <1>16. RowsType
    BY <1>3, <1>4, <1>10 DEF RowsType
  <1>17. ServerType
    BY <1>3, <1>4 DEF ServerType
  <1>18. TokensAreIssued
    BY <1>3, <1>8, <1>11, <1>13, <1>14 DEF TokensAreIssued, Issued, Build!At
  <1>19. GrantsAreGood /\ NewIsUnknown /\ CopiesAreGood /\ RefusalsHaveCause
    BY <1>13, <1>14 DEF GrantsAreGood, NewIsUnknown, CopiesAreGood, RefusalsHaveCause, Build!At
  <1>20. RowsAreGood /\ Build!GrantIsKept /\ Build!NoRaceWithoutRotation
    BY <1>3, <1>8, <1>11, <1>12 DEF RowsAreGood, Build!GrantIsKept, Build!NoRaceWithoutRotation
  <1>21. OwedIsCooldown
    BY <1>3, <1>8, <1>11, <1>14 DEF OwedIsCooldown, Build!Present, Build!Id
  <1> QED
    BY <1>15, <1>16, <1>17, <1>18, <1>19, <1>20, <1>21 DEF BuildInv

LEMMA BuildStays == BuildInv /\ [Next]_vars => BuildInv'
  <1> SUFFICES ASSUME BuildInv, [Next]_vars PROVE BuildInv'
    OBVIOUS
  <1>1. CASE Build!Next
    BY <1>1, BuildStep
  <1>2. CASE UNCHANGED buildVars
    <2>1. FlowsStay /\ RowsStay
      BY <1>2, FlowsAsTheyWere, RowsAsTheyWere DEF buildVars
    <2> QED
      BY <1>2, <2>1, NothingGranted DEF buildVars, BuildInv, ServerType
  <1> QED
    BY <1>1, <1>2 DEF Next, vars, InRedis, InLeader, InMigration, InBuild

(* Whatever requests, batches, logins and clean-ups do in between, the       *)
(* refresh token of an account is one the server accepts, or the flow that   *)
(* exchanged it is about to write the new one; and while tokens do not       *)
(* rotate no race makes an account expired (UpdateTokens, MarkExpired).      *)
THEOREM GrantsSurvive == Spec => []GrantsAreKept
  <1>1. BuildInv => GrantsAreKept
    <2> SUFFICES ASSUME BuildInv PROVE GrantsAreKept
      OBVIOUS
    <2>1. \A f \in Flow : \A c \in Listed(f) : c.id \in Build!Id /\ c.refresh \in 0 .. MaxTokens
      <3> SUFFICES ASSUME NEW f \in Flow, NEW n \in DOMAIN flows[f].todo
                   PROVE  flows[f].todo[n].id \in Build!Id /\ flows[f].todo[n].refresh \in 0 .. MaxTokens
        BY DEF Listed
      <3>1. flows[f].todo[n] \in CopyType
        BY DEF BuildInv, FlowsType, FlowType
      <3> QED
        BY <3>1 DEF CopyType
    <2>2. Build!TypeOK
      BY <2>1 DEF BuildInv, FlowsType, FlowType, RowsType, ServerType, Label, Listed, Build!ToSet, Build!TypeOK
    <2> QED
      BY <2>2 DEF BuildInv, GrantsAreKept, Build!GrantsAreKept
  <1> QED
    BY <1>1, BuildInit, BuildStays, PTL DEF Spec

(* The step in which a request lists its accounts takes none whose last      *)
(* refusal is not over, whatever has renewed or imported it since.           *)
THEOREM CoolingIsRespected == Spec => CooledIsNotListed
  <1> DEFINE Lists == \A f \in Flow :
          (/\ flows[f].pc \in {"idle", "done"}
           /\ flows'[f].pc \in {"filter", "next"}
           /\ flows'[f].kind \in Build!Product)
          => \A c \in Build!ToSet(flows'[f].todo) : owed[c.id] = 0
  <1>1. ASSUME BuildInv, [Next]_vars PROVE [Lists]_(Build!vars)
    <2> SUFFICES ASSUME NEW f \in Flow, flows[f].pc \in {"idle", "done"},
                        flows'[f].pc \in {"filter", "next"}, flows'[f].kind \in Build!Product, Build!Next
                 PROVE  \A c \in Build!ToSet(flows'[f].todo) : owed[c.id] = 0
      BY <1>1 DEF Next, vars, buildVars, Build!vars, InRedis, InLeader, InMigration, InBuild
    <2>1. flows'[f] # flows[f]
      OBVIOUS
    <2>2. ASSUME NEW g \in Flow, Build!FlowStep(g) PROVE FALSE
      <3>1. flows[g].pc \notin {"idle", "done"}
        BY <2>2 DEF Build!FlowStep, Build!FilterByBilling, Build!Ensure, Build!RenewListed, Build!DeleteListed,
           Build!ListExhausted, Build!Exchange, Build!ExchangeFails, Build!StoreTokens, Build!StoreTokensFails,
           Build!MarkExpired, Build!Reread, Build!InvokeBuildOnce, Build!ReadRetried, Build!LoadOrFetch,
           Build!FetchBuildBilling, Build!At
      <3>2. \E r : Build!Move(g, r)
        BY <2>2 DEF Build!FlowStep, Build!FilterByBilling, Build!Ensure, Build!RenewListed, Build!DeleteListed,
           Build!ListExhausted, Build!Exchange, Build!ExchangeFails, Build!StoreTokens, Build!StoreTokensFails,
           Build!MarkExpired, Build!Reread, Build!InvokeBuildOnce, Build!ReadRetried, Build!LoadOrFetch,
           Build!FetchBuildBilling
      <3>3. g # f => flows'[f] = flows[f]
        BY <1>1, <3>2 DEF Build!Move, BuildInv, FlowsType
      <3> QED
        BY <2>1, <3>1, <3>3
    <2>3. PICK g \in Flow : Build!BeginFlow(g)
      BY <2>1, <2>2 DEF Build!Next, Build!Import, Build!DevicePoll, Build!Upsert, Build!Tick, Build!Delete,
         Build!Revoke, Build!SetStatus
    <2>7. PICK kind : \E listed \in SUBSET Build!Present, pc \in {"filter", "next"} :
             Build!Begin(g, kind, listed, pc) /\ (kind \in Build!Product => listed = Build!ListActive)
      BY <1>1, <2>3, BeginsListed
    <2>4. PICK listed \in SUBSET Build!Present, pc \in {"filter", "next"} :
             Build!Begin(g, kind, listed, pc) /\ (kind \in Build!Product => listed = Build!ListActive)
      BY <2>7
    <2>5. g = f /\ flows'[g].kind = kind /\ \A c \in Listed(g)' : c.id \in listed
      BY <1>1, <2>1, <2>4, BeginStep
    <2>6. \A i \in Build!ListActive : owed[i] = 0
      BY <1>1 DEF Build!ListActive, BuildInv, OwedIsCooldown
    <2> QED
      BY <2>4, <2>5, <2>6 DEF Listed, Build!ToSet
  <1>2. CooledIsNotListed <=> [][Lists]_(Build!vars)
    BY DEF CooledIsNotListed, Build!CooledIsNotListed
  <1> QED
    BY <1>1, <1>2, BuildInit, BuildStays, PTL DEF Spec
=============================================================================
