------------------------------ MODULE ReplayLab ------------------------------
(***************************************************************************)
(* The replay lab (internal/service/replay_service.go) and its test suites *)
(* (test_suite_service.go).  A replay stores a RUNNING job, sends the      *)
(* captured request once and stores how it went.  A run of a suite stores  *)
(* a RUNNING run, replays the captured requests of the suite one after the *)
(* other and stores the counts and the verdict.  Both run in the handler   *)
(* of an HTTP request: when its client leaves, what remains of them fails. *)
(***************************************************************************)
EXTENDS Naturals, FiniteSets

CONSTANTS
    Suites,    \* runs of a suite
    Direct,    \* replays of a single request
    Length,    \* how many captured requests a suite has
    Targeted   \* steps whose target is known: the suite's, or the endpoint's

ASSUME LabAssumption ==
    Length \in Nat \ {0} /\ Targeted \subseteq 1 .. Length /\ Suites \intersect Direct = {}

Labs == Suites \union Direct
Steps == 1 .. Length
LastStep(l) == IF l \in Suites THEN Length ELSE 1

(* A status below 400, any other status, none. *)
Answers == {"accepted", "refused", "unanswered"}

VARIABLES
    place,    \* where each replay or run is
    onstep,   \* the step it is on
    jobs,     \* the replay job of each step
    answers,  \* what came back to each step's request
    verdicts, \* the verdict on each step
    runs,     \* the run of each suite
    audits,   \* steps with an audit record
    cutoff    \* runs and replays that a failed write, or the end of the process, cut off

labVars == <<place, onstep, jobs, answers, verdicts, runs, audits, cutoff>>

NoRun == [status |-> "none", passed |-> 0, failed |-> 0]

LabTypeOK ==
    /\ place \in [Labs -> {"new", "step", "sending", "answered", "audit", "counted", "over"}]
    /\ onstep \in [Labs -> Steps]
    /\ jobs \in [Labs -> [Steps -> {"none", "RUNNING", "COMPLETED", "FAILED"}]]
    /\ answers \in [Labs -> [Steps -> Answers \union {"unsent"}]]
    /\ verdicts \in [Labs -> [Steps -> {"none", "PASSED", "FAILED"}]]
    /\ runs \in [Suites -> [status : {"none", "RUNNING", "PASSED", "PARTIAL", "FAILED"},
                            passed : 0 .. Length, failed : 0 .. Length]]
    /\ audits \subseteq Labs \X Steps
    /\ cutoff \subseteq Labs

LabInit ==
    /\ place = [l \in Labs |-> "new"]
    /\ onstep = [l \in Labs |-> 1]
    /\ jobs = [l \in Labs |-> [i \in Steps |-> "none"]]
    /\ answers = [l \in Labs |-> [i \in Steps |-> "unsent"]]
    /\ verdicts = [l \in Labs |-> [i \in Steps |-> "none"]]
    /\ runs = [l \in Suites |-> NoRun]
    /\ audits = {} /\ cutoff = {}

Moves(l, from, to) == place[l] = from /\ place' = [place EXCEPT ![l] = to]

-----------------------------------------------------------------------------
CreateReplayTestRun(l) == runs' = [runs EXCEPT ![l] = [NoRun EXCEPT !.status = "RUNNING"]]

(* A suite that is gone or empty, or a run that cannot be stored, ends it. *)
StartRun(l) ==
    /\ \/ Moves(l, "new", "step") /\ CreateReplayTestRun(l)
       \/ Moves(l, "new", "over") /\ UNCHANGED runs
    /\ UNCHANGED <<onstep, jobs, answers, verdicts, audits, cutoff>>

StartReplay(l) ==
    /\ Moves(l, "new", "step")
    /\ UNCHANGED <<onstep, jobs, answers, verdicts, runs, audits, cutoff>>

(* A step passes when its request was answered with a status below 400.    *)
Verdict(answer) == IF answer = "accepted" THEN "PASSED" ELSE "FAILED"

(* MUTANT: the run goes on after its last step.                            *)
JudgeOffByOne(l, answer) ==
    LET i == onstep[l] IN
    /\ verdicts' = [verdicts EXCEPT ![l][i] = Verdict(answer)]
    /\ onstep' = [onstep EXCEPT ![l] = IF i <= LastStep(l) THEN i + 1 ELSE i]
    /\ place' = [place EXCEPT ![l] = IF i <= LastStep(l) THEN "step"
                                     ELSE IF l \in Suites THEN "counted" ELSE "over"]

(* The step is judged; the run goes on with the next one or to its end.    *)
Judge(l, answer) ==
    LET i == onstep[l] IN
    /\ verdicts' = [verdicts EXCEPT ![l][i] = Verdict(answer)]
    /\ onstep' = [onstep EXCEPT ![l] = IF i < LastStep(l) THEN i + 1 ELSE i]
    /\ place' = [place EXCEPT ![l] = IF i < LastStep(l) THEN "step"
                                     ELSE IF l \in Suites THEN "counted" ELSE "over"]

(* A step without a target is not replayed, and a replay is refused for a  *)
(* target the guard blocks, a captured request that is gone, headers that  *)
(* cannot be encrypted, or a job that cannot be stored.                    *)
StepFails(l) ==
    /\ place[l] = "step"
    /\ Judge(l, "unanswered")
    /\ UNCHANGED <<jobs, answers, runs, audits, cutoff>>

CreateReplayJob(l) == jobs' = [jobs EXCEPT ![l][onstep[l]] = "RUNNING"]

ExecuteReplay(l) ==
    /\ l \in Suites => onstep[l] \in Targeted
    /\ Moves(l, "step", "sending")
    /\ CreateReplayJob(l)
    /\ UNCHANGED <<onstep, answers, verdicts, runs, audits, cutoff>>

Send(l) ==
    /\ Moves(l, "sending", "answered")
    /\ \E answer \in Answers : answers' = [answers EXCEPT ![l][onstep[l]] = answer]
    /\ UNCHANGED <<onstep, jobs, verdicts, runs, audits, cutoff>>

(* COMPLETED says that there was an answer, whatever its status.           *)
UpdateReplayJobResult(l) ==
    LET i == onstep[l] IN
    jobs' = [jobs EXCEPT ![l][i] = IF answers[l][i] = "unanswered" THEN "FAILED" ELSE "COMPLETED"]

StoreReplayResult(l) ==
    /\ Moves(l, "answered", "audit")
    /\ \/ UpdateReplayJobResult(l) /\ UNCHANGED cutoff
       \/ UNCHANGED jobs /\ cutoff' = cutoff \union {l}
    /\ UNCHANGED <<onstep, answers, verdicts, runs, audits>>

(* The audit record is written if it can be; the step is judged by the     *)
(* answer, not by what was stored.                                         *)
AuditReplay(l) ==
    /\ place[l] = "audit"
    /\ audits' \in {audits, audits \union {<<l, onstep[l]>>}}
    /\ Judge(l, answers[l][onstep[l]])
    /\ UNCHANGED <<jobs, answers, runs, cutoff>>

Judged(l, v) == Cardinality({i \in Steps : verdicts[l][i] = v})

UpdateReplayTestRunResult(l) ==
    LET passes == Judged(l, "PASSED")
        failures == Judged(l, "FAILED")
    IN runs' = [runs EXCEPT ![l] =
           [status |-> IF failures = 0 THEN "PASSED" ELSE IF passes = 0 THEN "FAILED" ELSE "PARTIAL",
            passed |-> passes, failed |-> failures]]

FinishRun(l) ==
    /\ Moves(l, "counted", "over")
    /\ \/ UpdateReplayTestRunResult(l) /\ UNCHANGED cutoff
       \/ UNCHANGED runs /\ cutoff' = cutoff \union {l}
    /\ UNCHANGED <<onstep, jobs, answers, verdicts, audits>>

(* The process ends; the rows stay as they are.                            *)
LabStops ==
    LET begun == {l \in Labs : place[l] \notin {"new", "over"}} IN
    /\ begun # {}
    /\ place' = [l \in Labs |-> IF l \in begun THEN "over" ELSE place[l]]
    /\ cutoff' = cutoff \union begun
    /\ UNCHANGED <<onstep, jobs, answers, verdicts, runs, audits>>

LabNext ==
    \/ \E l \in Suites : StartRun(l) \/ FinishRun(l)
    \/ \E l \in Direct : StartReplay(l)
    \/ \E l \in Labs :
          StepFails(l) \/ ExecuteReplay(l) \/ Send(l) \/ StoreReplayResult(l) \/ AuditReplay(l)
    \/ LabStops

LabSpec == LabInit /\ [][LabNext]_labVars

-----------------------------------------------------------------------------
(* What the rows tell is what happened: a run PASSED only if every one of  *)
(* its requests was answered below 400, and FAILED only if none was; its   *)
(* counts are those of its requests; a job is COMPLETED only if an answer  *)
(* came and FAILED only if none did; and a row that still says RUNNING     *)
(* when its run or replay is over was left so by a failed write or by the  *)
(* end of the process.                                                     *)
LabHonest ==
    /\ \A l \in Suites :
          LET good == {i \in Steps : answers[l][i] = "accepted"} IN
          /\ runs[l].status = "PASSED" => good = Steps
          /\ runs[l].status = "FAILED" => good = {}
          /\ runs[l].status = "PARTIAL" => good \notin {{}, Steps}
          /\ runs[l].status \notin {"none", "RUNNING"} =>
                runs[l].passed = Cardinality(good) /\ runs[l].failed = Length - Cardinality(good)
          /\ runs[l].status = "RUNNING" /\ place[l] = "over" => l \in cutoff
    /\ \A l \in Labs, i \in Steps :
          /\ jobs[l][i] = "COMPLETED" => answers[l][i] \in Answers \ {"unanswered"}
          /\ jobs[l][i] = "FAILED" => answers[l][i] = "unanswered"
          /\ jobs[l][i] = "RUNNING" /\ place[l] = "over" => l \in cutoff
=============================================================================
