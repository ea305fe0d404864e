------------------------- MODULE AgentGatewayProofs -------------------------
(***************************************************************************)
(* Proofs about AgentGateway, for any number of agents, streams, scans and *)
(* events: its type invariant and its five safety properties, from one     *)
(* inductive invariant for the streams and one for the scans.              *)
(***************************************************************************)
EXTENDS AgentGateway, TLAPS

USE GatewayAssumption

(* Two handlers with a session of one agent make it shared. *)
TwoAreShared ==
    \A s, u \in Streams :
        /\ s # u
        /\ AgentOf[s] = AgentOf[u]
        /\ handler[s] = "registered"
        /\ handler[u] = "registered"
        => AgentOf[s] \in shared

Undialled == \A s \in Streams : conn[s] = "none" => handler[s] = "none"

StreamInv == SessionsLive /\ ListedUnlessShared /\ TwoAreShared /\ Undialled

(* How far a call has got bounds what is stored of its scan. *)
Stage(x) ==
    /\ call[x] \in {"none", "checking", "inserting"} => x \notin scans /\ stored[x] = {}
    /\ call[x] = "writing" => x \in scans
    /\ x \in cut => answer[x] = "error"
    /\ answer[x] = "accepted" => call[x] = "done"

(* Findings are stored or still to come, unless a statement failed. *)
Whole(x) ==
    spent["fault"] = 0 =>
        /\ call[x] = "writing" /\ x \notin cut => stored[x] \union todo[x] = FindingsOf[x]
        /\ x \in scans /\ answer[x] = "accepted" => stored[x] = FindingsOf[x]

Kept(x) ==
    answer[x] = "accepted" => x \in scans \/ \E y \in scans : SameCommit(x, y)

(* A call that passed the check alone is the only one of its commit.       *)
Alone ==
    spent["fault"] = 0 =>
        \A x \in Scans \ (raced \union cut), y \in Scans :
            call[x] = "inserting" /\ SameCommit(x, y) /\ x # y =>
                call[y] # "inserting" /\ y \notin scans

ScanInv ==
    /\ \A x \in Scans : Stage(x) /\ Whole(x) /\ Kept(x)
    /\ Alone
    /\ OneScanPerCommit

IInv == TypeOK /\ StreamInv /\ ScanInv

(* The inductive invariant has the safety properties as consequences. *)
LEMMA IInvImplies ==
    IInv => /\ SessionsLive
            /\ ListedUnlessShared
            /\ OneScanPerCommit
            /\ AcceptedScanStored
            /\ FindingsComplete
BY DEF IInv, StreamInv, ScanInv, TypeOK, Kept, AcceptedScanStored, Whole, FindingsComplete

LEMMA IInvInit == Init => IInv
<1> SUFFICES ASSUME Init PROVE IInv
  OBVIOUS
<1>1. TypeOK
  BY DEF Init, TypeOK
<1>2. StreamInv
  BY DEF Init, StreamInv, SessionsLive, ListedUnlessShared, TwoAreShared, Undialled
<1>3. ScanInv
  BY DEF Init, ScanInv, Stage, Whole, Kept, Alone, OneScanPerCommit
<1>4. QED
  BY <1>1, <1>2, <1>3 DEF IInv

(* A counted event leaves the counters natural numbers, and failures are   *)
(* never forgotten.                                                        *)
LEMMA SpendType ==
    ASSUME TypeOK, NEW k \in Kinds, Spend(k)
    PROVE /\ spent' \in [Kinds -> Nat]
          /\ spent'["fault"] = IF k = "fault" THEN spent["fault"] + 1 ELSE spent["fault"]
BY DEF Spend, Kinds, TypeOK

(* What a statement leaves of the counters, done or failed. *)
LEMMA StatementSpends ==
    ASSUME TypeOK, NEW x \in Scans, Runs(x) \/ Fails(x)
    PROVE /\ spent' \in [Kinds -> Nat]
          /\ spent'["fault"] = 0 => spent["fault"] = 0 /\ (Fails(x) => x \in cut)
<1>1. CASE UNCHANGED spent
  <2>1. Spend("fault") => spent'["fault"] = spent["fault"] + 1
    BY SpendType DEF Kinds
  <2>2. spent["fault"] \in Nat
    BY DEF TypeOK, Kinds
  <2>3. QED
    BY <1>1, <2>1, <2>2 DEF Fails, TypeOK
<1>2. CASE Spend("fault")
  BY <1>2, SpendType DEF Kinds, TypeOK
<1>3. QED
  BY <1>1, <1>2 DEF Runs, Fails

LEMMA TypeStep == TypeOK /\ [Next]_vars => TypeOK'
<1> SUFFICES ASSUME TypeOK, [Next]_vars PROVE TypeOK'
  OBVIOUS
<1> USE DEF TypeOK, streamVars, callVars, tables
<1>0. \A k \in Kinds : Spend(k) => spent' \in [Kinds -> Nat]
  BY SpendType
<1>1. ASSUME NEW s \in Streams, ConnectSession(s) PROVE TypeOK'
  BY <1>0, <1>1 DEF ConnectSession, Kinds
<1>2. ASSUME NEW s \in Streams, FirstMessage(s) PROVE TypeOK'
  BY <1>2 DEF FirstMessage
<1>3. ASSUME NEW s \in Streams, Disconnect(s) PROVE TypeOK'
  BY <1>3 DEF Disconnect
<1>4. ASSUME NEW s \in Streams, HandlerEnds(s) PROVE TypeOK'
  BY <1>4 DEF HandlerEnds
<1>5. ASSUME NEW x \in Scans, SyncScanResults(x) PROVE TypeOK'
  BY <1>0, <1>5 DEF SyncScanResults, Return, Kinds
<1>6. ASSUME NEW x \in Scans, GiveUp(x) PROVE TypeOK'
  BY <1>0, <1>6 DEF GiveUp, Kinds
<1>7. ASSUME NEW x \in Scans, CheckExisting(x) PROVE TypeOK'
  <2>1. spent' \in [Kinds -> Nat]
    BY <1>7, StatementSpends DEF CheckExisting
  <2>2. raced' \in SUBSET Scans
    BY <1>7 DEF CheckExisting, Rivals
  <2>3. QED
    BY <1>7, <2>1, <2>2 DEF CheckExisting, Return
<1>8. ASSUME NEW x \in Scans, CreateAgentScan(x) PROVE TypeOK'
  <2>1. spent' \in [Kinds -> Nat]
    BY <1>8, StatementSpends DEF CreateAgentScan
  <2>2. QED
    BY <1>8, <2>1 DEF CreateAgentScan, Return
<1>9. ASSUME NEW x \in Scans, CreateSecurityFinding(x) PROVE TypeOK'
  <2>1. spent' \in [Kinds -> Nat]
    BY <1>9, StatementSpends DEF CreateSecurityFinding
  <2>2. QED
    BY <1>9, <2>1 DEF CreateSecurityFinding
<1>10. ASSUME NEW x \in Scans, ScanCompleted(x) PROVE TypeOK'
  BY <1>10 DEF ScanCompleted, Return
<1>11. CASE Stop \/ StopReturns
  BY <1>11 DEF Stop, StopReturns
<1>12. CASE Kill
  BY <1>0, <1>12 DEF Kill, Kinds
<1>13. CASE Stopped \/ UNCHANGED vars
  BY <1>13 DEF Stopped, vars
<1>14. QED
  BY <1>1, <1>2, <1>3, <1>4, <1>5, <1>6, <1>7, <1>8, <1>9, <1>10, <1>11, <1>12, <1>13
     DEF Next, Sync

(* Every variable of the gateway keeps its type (server.go). *)
THEOREM TypeCorrect == Spec => []TypeOK
<1>1. Init => TypeOK
  BY IInvInit DEF IInv
<1>2. QED
  BY <1>1, TypeStep, PTL DEF Spec
-----------------------------------------------------------------------------
LEMMA StreamStep == TypeOK /\ StreamInv /\ [Next]_vars => StreamInv'
<1> SUFFICES ASSUME TypeOK, StreamInv, [Next]_vars PROVE StreamInv'
  OBVIOUS
<1> USE DEF TypeOK, StreamInv, SessionsLive, ListedUnlessShared, TwoAreShared, Undialled
<1>1. ASSUME NEW s \in Streams, ConnectSession(s) PROVE StreamInv'
  <2>1. \A u \in Streams : handler'[u] = "registered" <=> handler[u] = "registered"
    BY <1>1 DEF ConnectSession
  <2>2. sessions' = sessions /\ shared' = shared
    BY <1>1 DEF ConnectSession
  <2>3. \A a \in Agents : sessions[a] # NoStream => sessions[a] \in Streams
    OBVIOUS
  <2>4. Undialled'
    BY <1>1 DEF ConnectSession
  <2>5. QED
    BY <2>1, <2>2, <2>3, <2>4
<1>2. ASSUME NEW s \in Streams, FirstMessage(s) PROVE StreamInv'
  BY <1>2 DEF FirstMessage
<1>3. ASSUME NEW s \in Streams, HandlerEnds(s) PROVE StreamInv'
  BY <1>3 DEF HandlerEnds
<1>4. CASE Kill
  BY <1>4 DEF Kill
<1>5. ASSUME NEW s \in Streams, Disconnect(s) PROVE StreamInv'
  BY <1>5 DEF Disconnect
<1>6. CASE UNCHANGED <<conn, handler, sessions, shared>>
  BY <1>6
<1>7. QED
  BY <1>1, <1>2, <1>3, <1>4, <1>5, <1>6
     DEF Next, Sync, SyncScanResults, GiveUp, CheckExisting, CreateAgentScan,
         CreateSecurityFinding, ScanCompleted, Stop, StopReturns, Stopped, vars, streamVars
-----------------------------------------------------------------------------
(* What a step may do to calls other than its own. *)
Beside(x) ==
    /\ call'[x] = call[x] /\ todo'[x] = todo[x] /\ answer'[x] = answer[x]
    /\ stored'[x] = stored[x]
    /\ x \in cut' <=> x \in cut
    /\ x \in scans' <=> x \in scans

(* Nothing that is stored goes away, and no failure is forgotten. *)
Grows ==
    /\ scans \subseteq scans'
    /\ cut \subseteq cut'
    /\ raced \subseteq raced'
    /\ spent'["fault"] = 0 => spent["fault"] = 0

LEMMA BesideOK ==
    ASSUME NEW x \in Scans, Stage(x), Whole(x), Kept(x), Beside(x), Grows
    PROVE Stage(x)' /\ Whole(x)' /\ Kept(x)'
BY DEF Stage, Whole, Kept, Beside, Grows, SameCommit

(* A step after which no further call for a commit stands before its       *)
(* insert, and no row is added, keeps the scans of a commit apart.         *)
LEMMA ApartOK ==
    ASSUME TypeOK, Alone, OneScanPerCommit, Grows, scans' = scans,
           \A x \in Scans :
              call'[x] = "inserting" => call[x] = "inserting" \/ CommitOf[x] = NoCommit
    PROVE Alone' /\ OneScanPerCommit'
BY DEF TypeOK, Alone, OneScanPerCommit, Grows, SameCommit

(* A statement of one call: what it leaves of the others. *)
LEMMA OthersStep ==
    ASSUME TypeOK, ScanInv, NEW x \in Scans,
           \/ SyncScanResults(x) \/ GiveUp(x) \/ CheckExisting(x) \/ CreateAgentScan(x)
           \/ CreateSecurityFinding(x) \/ ScanCompleted(x)
    PROVE /\ Grows
          /\ \A y \in Scans \ {x} : Stage(y)' /\ Whole(y)' /\ Kept(y)'
<1> USE DEF TypeOK, streamVars, callVars, tables
<1>1. spent'["fault"] = 0 => spent["fault"] = 0
  <2>1. CASE SyncScanResults(x)
    BY <2>1, SpendType DEF SyncScanResults, Kinds
  <2>2. CASE GiveUp(x)
    BY <2>2, SpendType DEF GiveUp, Kinds
  <2>3. CASE CheckExisting(x) \/ CreateAgentScan(x) \/ CreateSecurityFinding(x)
    BY <2>3, StatementSpends DEF CheckExisting, CreateAgentScan, CreateSecurityFinding
  <2>4. CASE ScanCompleted(x)
    BY <2>4 DEF ScanCompleted
  <2>5. QED
    BY <2>1, <2>2, <2>3, <2>4
<1>2. Grows
  BY <1>1 DEF Grows, SyncScanResults, GiveUp, CheckExisting, CreateAgentScan,
              CreateSecurityFinding, ScanCompleted
<1>3. \A y \in Scans \ {x} : Beside(y)
  BY DEF Beside, SyncScanResults, GiveUp, CheckExisting, CreateAgentScan,
         CreateSecurityFinding, ScanCompleted, Return
<1>4. QED
  BY <1>2, <1>3, BesideOK DEF ScanInv

LEMMA OwnStep ==
    ASSUME TypeOK, ScanInv, NEW x \in Scans,
           \/ SyncScanResults(x) \/ GiveUp(x) \/ CheckExisting(x) \/ CreateAgentScan(x)
           \/ CreateSecurityFinding(x) \/ ScanCompleted(x)
    PROVE Stage(x)' /\ Whole(x)' /\ Kept(x)'
<1>0. Stage(x) /\ Whole(x) /\ Kept(x)
  BY DEF ScanInv
<1> USE DEF TypeOK, streamVars, callVars, tables, Stage, Whole, Kept
<1>1. CASE SyncScanResults(x)
  BY <1>0, <1>1 DEF SyncScanResults, Return
<1>2. CASE GiveUp(x)
  <2>1. spent'["fault"] = 0 => spent["fault"] = 0
    BY <1>2, SpendType DEF GiveUp, Kinds
  <2>2. QED
    BY <1>0, <1>2, <2>1 DEF GiveUp, InProgress
<1>3. CASE CheckExisting(x)
  BY <1>0, <1>3 DEF CheckExisting, Return, Runs, SameCommit
<1>4. CASE CreateAgentScan(x)
  <2>1. spent'["fault"] = 0 => spent["fault"] = 0 /\ (Fails(x) => x \in cut)
    BY <1>4, StatementSpends DEF CreateAgentScan
  <2>2. QED
    BY <1>0, <1>4, <2>1 DEF CreateAgentScan, Return, Runs
<1>5. CASE CreateSecurityFinding(x)
  <2>1. spent'["fault"] = 0 => spent["fault"] = 0 /\ (Fails(x) => x \in cut)
    BY <1>5, StatementSpends DEF CreateSecurityFinding
  <2>2. PICK f \in todo[x] :
           /\ todo' = [todo EXCEPT ![x] = @ \ {f}]
           /\ \/ Runs(x) /\ stored' = [stored EXCEPT ![x] = @ \union {f}]
              \/ Fails(x) /\ stored' \in {stored, [stored EXCEPT ![x] = @ \union {f}]}
    BY <1>5 DEF CreateSecurityFinding
  <2>3. UNCHANGED <<call, cut, answer, scans>> /\ call[x] = "writing"
    BY <1>5 DEF CreateSecurityFinding
  <2>4. Stage(x)' /\ Kept(x)'
    BY <1>0, <2>3 DEF SameCommit
  <2>5. Whole(x)'
    BY <1>0, <2>1, <2>2, <2>3
  <2>6. QED
    BY <2>4, <2>5
<1>6. CASE ScanCompleted(x)
  BY <1>0, <1>6 DEF ScanCompleted, Return
<1>7. QED
  BY <1>1, <1>2, <1>3, <1>4, <1>5, <1>6

(* The check keeps a commit's scans apart: an earlier row ends the call,   *)
(* and another call behind the check is recorded as a race.                *)
LEMMA CheckStep ==
    ASSUME TypeOK, ScanInv, Grows, NEW x \in Scans, CheckExisting(x)
    PROVE Alone' /\ OneScanPerCommit'
<1> USE DEF TypeOK, streamVars, callVars, tables
<1>1. OneScanPerCommit'
  BY DEF ScanInv, OneScanPerCommit, Grows, CheckExisting, SameCommit
<1>2. Alone'
  <2>1. CASE Return(x, "accepted") /\ UNCHANGED <<raced, cut, scans>>
    BY <2>1, ApartOK DEF ScanInv, Return
  <2>2. CASE /\ Fails(x) \/ (Runs(x) /\ \A y \in scans : ~SameCommit(x, y))
             /\ call' = [call EXCEPT ![x] = "inserting"]
             /\ raced' = IF Rivals(x) = {} THEN raced ELSE raced \union {x} \union Rivals(x)
    <3>1. UNCHANGED <<cut, scans>>
      BY DEF CheckExisting
    <3>2. spent'["fault"] = 0 => spent["fault"] = 0 /\ (Fails(x) => x \in cut)
      BY <2>2, StatementSpends
    <3>3. \A y \in Scans \ {x} :
             SameCommit(x, y) /\ call[y] = "inserting" => x \in raced' /\ y \in raced'
      BY <2>2 DEF Rivals
    <3>4. \A y, z \in Scans :
             SameCommit(y, z) = SameCommit(z, y) /\ SameCommit(y, z)' = SameCommit(y, z)
      BY DEF SameCommit
    <3>5. SUFFICES ASSUME spent'["fault"] = 0,
                          NEW y \in Scans, y \notin raced', y \notin cut,
                          NEW z \in Scans, z # y,
                          call'[y] = "inserting", SameCommit(y, z)
                   PROVE call'[z] # "inserting" /\ z \notin scans
      BY <3>1, <3>4 DEF Alone
    <3>6. CASE y = x
      BY <2>2, <3>2, <3>3, <3>4, <3>5, <3>6
    <3>7. CASE y # x
      <4>1. call[z] # "inserting" /\ z \notin scans
        BY <2>2, <3>2, <3>5, <3>7 DEF ScanInv, Alone, Grows
      <4>2. z # x
        BY <2>2, <3>3, <3>4, <3>5, <3>7
      <4>3. QED
        BY <2>2, <4>1, <4>2
    <3>8. QED
      BY <3>6, <3>7
  <2>3. QED
    BY <2>1, <2>2 DEF CheckExisting
<1>3. QED
  BY <1>1, <1>2

(* The insert adds a row only for a call that is alone of its commit. *)
LEMMA CreateStep ==
    ASSUME TypeOK, ScanInv, Grows, NEW x \in Scans, CreateAgentScan(x)
    PROVE Alone' /\ OneScanPerCommit'
<1> USE DEF TypeOK, streamVars, callVars, tables
<1>1. scans' \subseteq scans \union {x} /\ UNCHANGED <<cut, raced>>
  BY DEF CreateAgentScan
<1>2. call'[x] # "inserting" /\ \A y \in Scans \ {x} : call'[y] = call[y]
  BY DEF CreateAgentScan, Return
<1>3. call[x] = "inserting"
  BY DEF CreateAgentScan
<1>4. \A y, z \in Scans :
             SameCommit(y, z) = SameCommit(z, y) /\ SameCommit(y, z)' = SameCommit(y, z)
  BY DEF SameCommit
<1>5. Alone'
  BY <1>1, <1>2, <1>3, <1>4 DEF ScanInv, Alone, Grows
<1>6. OneScanPerCommit'
  <2>1. \A y \in scans : spent["fault"] = 0 /\ SameCommit(x, y) /\ x # y => x \in raced \union cut
    BY <1>3 DEF ScanInv, Alone
  <2>2. QED
    BY <1>1, <1>4, <2>1 DEF ScanInv, OneScanPerCommit, Grows
<1>7. QED
  BY <1>5, <1>6

LEMMA ScanStep == TypeOK /\ ScanInv /\ [Next]_vars => ScanInv'
<1> SUFFICES ASSUME TypeOK, ScanInv, [Next]_vars PROVE ScanInv'
  OBVIOUS
<1> USE DEF streamVars, callVars, tables
<1>1. ASSUME NEW x \in Scans, SyncScanResults(x) \/ GiveUp(x) \/ Sync(x) PROVE ScanInv'
  <2>1. Grows /\ \A y \in Scans : Stage(y)' /\ Whole(y)' /\ Kept(y)'
    BY <1>1, OthersStep, OwnStep DEF Sync
  <2>2. Alone' /\ OneScanPerCommit'
    <3>1. CASE CheckExisting(x)
      BY <2>1, <3>1, CheckStep
    <3>2. CASE CreateAgentScan(x)
      BY <2>1, <3>2, CreateStep
    <3>3. CASE SyncScanResults(x)
      BY <2>1, <3>3, ApartOK DEF SyncScanResults, Return, ScanInv, TypeOK
    <3>4. CASE GiveUp(x) \/ CreateSecurityFinding(x) \/ ScanCompleted(x)
      BY <2>1, <3>4, ApartOK
         DEF GiveUp, CreateSecurityFinding, ScanCompleted, Return, ScanInv, TypeOK
    <3>5. QED
      BY <1>1, <3>1, <3>2, <3>3, <3>4 DEF Sync
  <2>3. QED
    BY <2>1, <2>2 DEF ScanInv
<1>2. CASE Kill
  <2>1. Grows
    BY <1>2, SpendType DEF Kill, Grows, Kinds
  <2>2. \A x \in Scans : Stage(x)' /\ Whole(x)' /\ Kept(x)'
    BY <1>2, <2>1 DEF Kill, ScanInv, Stage, Whole, Kept, InProgress, TypeOK, Grows, SameCommit
  <2>3. Alone' /\ OneScanPerCommit'
    BY <1>2, <2>1, ApartOK DEF Kill, InProgress, ScanInv, TypeOK
  <2>4. QED
    BY <2>2, <2>3 DEF ScanInv
<1>3. ASSUME UNCHANGED <<callVars, tables>>, spent'["fault"] = 0 => spent["fault"] = 0
      PROVE ScanInv'
  <2>1. Grows /\ \A x \in Scans : Beside(x)
    BY <1>3 DEF Grows, Beside
  <2>2. QED
    BY <1>3, <2>1, BesideOK, ApartOK DEF ScanInv
<1>4. ASSUME NEW s \in Streams, ConnectSession(s) PROVE ScanInv'
  BY <1>3, <1>4, SpendType DEF ConnectSession, Kinds, TypeOK
<1>5. CASE UNCHANGED <<callVars, tables, spent>>
  BY <1>3, <1>5
<1>6. QED
  BY <1>1, <1>2, <1>4, <1>5
     DEF Next, FirstMessage, Disconnect, HandlerEnds, Stop, StopReturns, Stopped, vars

LEMMA IInvAlways == Spec => []IInv
<1>1. IInv /\ [Next]_vars => IInv'
  BY TypeStep, StreamStep, ScanStep DEF IInv
<1>2. QED
  BY <1>1, IInvInit, PTL DEF Spec

(* A session in the map belongs to a running handler of its agent, through *)
(* reconnects and crashes.                                                 *)
THEOREM LiveSessions == Spec => []SessionsLive
  BY IInvAlways, IInvImplies, PTL

(* An agent that never had two handlers at once is listed while it has one. *)
THEOREM Listed == Spec => []ListedUnlessShared
  BY IInvAlways, IInvImplies, PTL

(* The check before the insert is enough for calls that do not race. *)
THEOREM OneScan == Spec => []OneScanPerCommit
  BY IInvAlways, IInvImplies, PTL

(* An accepted scan is stored, under its own row or one of its commit. *)
THEOREM AcceptedIsStored == Spec => []AcceptedScanStored
  BY IInvAlways, IInvImplies, PTL

(* Without failing statements a scan is accepted with all its findings. *)
THEOREM AllFindings == Spec => []FindingsComplete
  BY IInvAlways, IInvImplies, PTL
=============================================================================
