--------------------------- MODULE RunLoopProofs ---------------------------
(***************************************************************************)
(* Proofs about RunLoop, for every limit, cost, number of steps, attempts, *)
(* commits and processes: a run keeps its transcript, its bill and its     *)
(* verdict whatever dies and comes back.                                   *)
(***************************************************************************)
EXTENDS RunLoop, FiniteSetTheorems, TLAPS

-----------------------------------------------------------------------------
(* The inductive invariant: the type, and one part for each thing promised *)

\* the trajectory is a prefix, and the process stands at its end
Transcript ==
  \E n \in Nat :
    /\ steps = 1..n
    /\ loop.pc \in {"step", "tools"} => loop.seq = n + 1
    /\ loop.pc = "gate" => loop.seq = n

\* nothing is done after an admission, and a process closes with an outcome
Standing ==
  /\ loop.report # None /\ loop.report.admitted =>
       loop.report.current /\ loop.pc \in {"close", "clear"}
  /\ loop.pc \in {"close", "clear"} => loop.outcome # "none"

\* the governor of the process knows what the process was billed
Books ==
  /\ loop.spent = audit.mine.billed
  /\ BillIsBounded

\* the evaluations are the attempts that ended
Rounds ==
  /\ loop.pc = "dead" => audit.mine.evaluations = 0
  /\ loop.report = None => audit.mine.evaluations = 0
  /\ loop.pc \in {"step", "tools", "gate"} =>
       audit.mine.evaluations + 1 = loop.attempt /\ loop.attempt <= MaxAttempts + 1
  /\ EvaluationsAreBounded

\* whoever saw untrusted output is tainted, and so is what it froze
Taint ==
  /\ audit.mine.seen # {} => loop.tainted
  /\ freeze # None /\ freeze.seen # {} => freeze.tainted

\* without --resume every base commit is the first one
Baseline ==
  /\ status = "none" =>
       repo.head = 0 /\ steps = {} /\ freeze = None /\ loop.pc = "dead" /\ ~audit.resumed
  /\ ~audit.resumed => /\ loop.pc # "dead" => loop.base = 0
                       /\ freeze # None => freeze.base = 0
  /\ ~audit.resumed /\ loop.pc \in {"close", "clear"} /\ Admitted => ~Tampered

RunInv == RunLoopTypeOK /\ Transcript /\ Standing /\ Books /\ Rounds /\ Taint /\ Baseline

USE RunLoopAssumption

-----------------------------------------------------------------------------
(* Types *)

LEMMA IdleHasItsType ==
  Idle \in Loops /\ Fresh \in [seen : SUBSET Observers, billed : Nat, evaluations : Nat]
BY DEF Idle, Fresh, Loops, Calls

LEMMA NextSeqOfPrefix ==
  ASSUME NEW n \in Nat, steps = 1..n
  PROVE  NextSeq = n + 1
<1>1. CASE n = 0
  BY <1>1 DEF NextSeq
<1>2. CASE n # 0
  <2>1. n \in steps /\ (\A t \in steps : t <= n) /\ steps # {}
    BY <1>2
  <2>2. \A s \in steps : (\A t \in steps : t <= s) => s = n
    BY <2>1
  <2>3. (CHOOSE s \in steps : \A t \in steps : t <= s) = n
    BY <2>1, <2>2
  <2> QED BY <2>1, <2>3 DEF NextSeq
<1> QED BY <1>1, <1>2

\* a process begins with a loop of the right shape
LEMMA BeginHasItsType ==
  ASSUME NEW seq \in Nat, NEW base \in Nat, NEW tainted \in BOOLEAN, NEW thawing \in BOOLEAN,
         Begin(seq, base, tainted, thawing)
  PROVE  loop' \in Loops
<1>1. ASSUME NEW l \in Loops
      PROVE  [l EXCEPT !.pc = "step", !.seq = seq, !.left = MaxSteps, !.attempt = 1, !.base = base,
                       !.tainted = tainted, !.thawing = thawing] \in Loops
  <2> DEFINE k == [l EXCEPT !.pc = "step", !.seq = seq, !.left = MaxSteps]
  <2>1. k \in Loops
    <3>1. MaxSteps \in 0..MaxSteps OBVIOUS
    <3> QED BY <3>1 DEF Loops
  <2>2. ASSUME NEW j \in Loops
        PROVE  [j EXCEPT !.attempt = 1, !.base = base, !.tainted = tainted, !.thawing = thawing]
                 \in Loops
    BY DEF Loops
  <2> HIDE DEF k
  <2>3. [k EXCEPT !.attempt = 1, !.base = base, !.tainted = tainted, !.thawing = thawing] \in Loops
    BY <2>1, <2>2
  <2> QED BY <2>3 DEF k
<1> HIDE DEF Idle
<1> QED BY <1>1, IdleHasItsType DEF Begin

LEMMA ProcessHasItsType ==
  ASSUME RunLoopTypeOK, NEW resumed \in BOOLEAN, NEW seen \in SUBSET Observers,
         Process(resumed, seen)
  PROVE  audit' \in Audits
BY DEF Process, RunLoopTypeOK, Audits, Fresh

LEMMA AnsweredHasItsType ==
  ASSUME RunLoopTypeOK, NEW call \in Calls, NEW trust \in {"error", "trusted", "untrusted"},
         Answered(call, trust)
  PROVE  loop' \in Loops
<1>1. loop \in Loops BY DEF RunLoopTypeOK
<1>2. Append(loop.results, [call |-> call, trust |-> trust]) \in Seq(Results)
  BY <1>1 DEF Loops, Results
<1>3. [loop.asked EXCEPT ![call] = @ + 1] \in [Calls -> Nat]
  BY <1>1 DEF Loops
<1>4. (IF loop.report = None THEN loop.report ELSE [loop.report EXCEPT !.current = FALSE])
        \in Reports \cup {None}
  BY <1>1 DEF Loops, Reports
<1>5. (loop.tainted \/ trust = "untrusted") \in BOOLEAN
  BY <1>1 DEF Loops
<1> QED BY <1>1, <1>2, <1>3, <1>4, <1>5 DEF Answered, Loops

LEMMA TypeStep ==
  ASSUME RunLoopTypeOK, NextSeq \in Nat, [Next]_vars
  PROVE  RunLoopTypeOK'
<1> USE DEF RunLoopTypeOK
<1>n. NextSeq \in Nat OBVIOUS
<1>1. CASE Start
  <2>1. repo.head \in Nat /\ {} \in SUBSET Observers OBVIOUS
  <2>2. loop' \in Loops BY <1>1, <2>1, BeginHasItsType DEF Start
  <2>3. audit' \in Audits BY <1>1, <2>1, ProcessHasItsType DEF Start
  <2> QED BY <1>1, <2>2, <2>3 DEF Start, Process
<1>2. CASE Resume
  <2>1. repo.head \in Nat /\ {} \in SUBSET Observers OBVIOUS
  <2>2. loop' \in Loops BY <1>2, <1>n, <2>1, BeginHasItsType DEF Resume
  <2>3. audit' \in Audits BY <1>2, <2>1, ProcessHasItsType DEF Resume
  <2> QED BY <1>2, <2>2, <2>3 DEF Resume, Process
<1>3. CASE Thaw
  <2>1. freeze.base \in Nat /\ freeze.tainted \in BOOLEAN /\ freeze.seen \in SUBSET Observers
    BY <1>3 DEF Thaw, Snapshots
  <2>2. audit.resumed \in BOOLEAN BY DEF Audits
  <2> QED BY <1>3, <1>n, <2>1, <2>2, BeginHasItsType, ProcessHasItsType DEF Thaw, Process
<1>4. CASE Crash
  BY <1>4, IdleHasItsType DEF Crash, Exit, Audits
<1>5. CASE OutOfTime
  BY <1>5 DEF OutOfTime, Loops
<1>6. CASE Park
  BY <1>6 DEF Park, Snapshot, Snapshots, Loops, Audits
<1>7. ASSUME NEW cost \in Costs, NEW failover \in BOOLEAN, Complete(cost, failover)
      PROVE  RunLoopTypeOK'
  <2>0. loop.spent + cost \in Nat BY DEF Loops
  <2>1. loop' \in Loops BY <1>7, <2>0 DEF Complete, Loops
  <2>2. audit' \in Audits BY <1>7 DEF Complete, Audits
  <2>3. freeze' \in Snapshots \cup {None}
    BY <1>7 DEF Complete, Snapshot, Snapshots, Loops, Audits
  <2> QED BY <1>7, <2>1, <2>2, <2>3 DEF Complete
<1>8. ASSUME NEW call \in Calls, Deny(call) PROVE RunLoopTypeOK'
  <2>1. Append(loop.results, [call |-> call, trust |-> "denied"]) \in Seq(Results)
    BY DEF Loops, Results
  <2>2. [loop.asked EXCEPT ![call] = @ + 1] \in [Calls -> Nat] BY DEF Loops
  <2>3. loop' \in Loops BY <1>8, <2>1, <2>2 DEF Deny, Loops
  <2> QED BY <1>8, <2>3 DEF Deny
<1>9. ASSUME NEW call \in Calls, Run(call) PROVE RunLoopTypeOK'
  <2>1. Trust(call) \in {"trusted", "untrusted"} BY DEF Trust
  <2>2. loop' \in Loops BY <1>9, <2>1, AnsweredHasItsType DEF Run
  <2>3. audit' \in Audits BY <1>9 DEF Run, Audits, Observers
  <2>4. repo' \in [head : 0..MaxCommits, edited : BOOLEAN, tampered : Nat]
    <3>1. CASE call = "write" BY <1>9, <3>1 DEF Run, Does
    <3>2. CASE call = "shell"
      <4>1. \/ repo' \in {repo, [repo EXCEPT !.edited = TRUE]}
            \/ /\ repo' = [head |-> repo.head + 1, edited |-> FALSE,
                            tampered |-> IF repo.edited THEN repo.head + 1 ELSE repo.tampered]
               /\ repo'.head <= MaxCommits
        BY <1>9, <3>2 DEF Run, Does
      <4>2. CASE repo' \in {repo, [repo EXCEPT !.edited = TRUE]} BY <4>2
      <4>3. CASE repo'.head <= MaxCommits /\
                 repo' = [head |-> repo.head + 1, edited |-> FALSE,
                          tampered |-> IF repo.edited THEN repo.head + 1 ELSE repo.tampered]
        <5>1. repo.head + 1 \in Nat OBVIOUS
        <5>2. repo'.head = repo.head + 1 BY <4>3
        <5>3. repo.head + 1 \in 0..MaxCommits BY <5>1, <5>2, <4>3
        <5> QED BY <5>1, <5>3, <4>3
      <4> QED BY <4>1, <4>2, <4>3
    <3> QED BY <3>1, <3>2 DEF Calls
  <2> QED BY <1>9, <2>2, <2>3, <2>4 DEF Run
<1>10. ASSUME NEW call \in Calls, Raise(call) PROVE RunLoopTypeOK'
  BY <1>10, AnsweredHasItsType DEF Raise
<1>11. ASSUME NEW call \in Calls, Skip(call) PROVE RunLoopTypeOK'
  BY <1>11 DEF Skip, Loops
<1>12. CASE CloseStep
  <2>1. <<>> \in Seq(Results) BY DEF Results
  <2>2. loop' \in Loops
    <3>1. CASE loop.stuck BY <1>12, <2>1, <3>1 DEF CloseStep, After, Loops
    <3>2. CASE ~loop.stuck /\ loop.results # <<>> /\ loop.left > 1
      <4>1. loop.left - 1 \in 0..MaxSteps /\ loop.seq + 1 \in Nat BY <3>2 DEF Loops
      <4> QED BY <1>12, <2>1, <3>2, <4>1 DEF CloseStep, After, Loops
    <3>3. CASE ~loop.stuck /\ ~(loop.results # <<>> /\ loop.left > 1)
      BY <1>12, <2>1, <3>3 DEF CloseStep, After, Loops
    <3> QED BY <3>1, <3>2, <3>3
  <2>3. steps' \subseteq Nat BY <1>12 DEF CloseStep, Loops
  <2> QED BY <1>12, <2>2, <2>3 DEF CloseStep
<1>13. ASSUME NEW check \in Checks, Judge(check) \/ JudgeLate(check) PROVE RunLoopTypeOK'
  <2>1. Admits(check) \in BOOLEAN /\ (loop.tainted \/ check # "unread") \in BOOLEAN
    BY DEF Admits, Untampered, Loops
  <2>2. Judged(check) \in Loops BY <2>1 DEF Judged, Loops, Reports
  <2>3. Signature(check) \in (SUBSET {"tests_unmodified"}) \X Checks
    BY DEF Signature, FailedGates
  <2>4. ASSUME NEW l \in Loops
        PROVE  /\ [l EXCEPT !.pc = "step", !.seq = @ + 1, !.left = MaxSteps, !.attempt = @ + 1,
                             !.asked = Idle.asked, !.signatures = @ \cup {Signature(check)}]
                    \in Loops
               /\ [l EXCEPT !.pc = "close", !.outcome = "completed"] \in Loops
    <3>1. Idle.asked \in [Calls -> Nat] BY IdleHasItsType DEF Loops
    <3>2. l.signatures \cup {Signature(check)} \in SUBSET ((SUBSET {"tests_unmodified"}) \X Checks)
      BY <2>3 DEF Loops
    <3>3. l.seq + 1 \in Nat /\ l.attempt + 1 \in Nat BY DEF Loops
    <3> DEFINE k == [l EXCEPT !.pc = "step", !.seq = @ + 1, !.left = MaxSteps]
    <3>4. /\ k \in Loops /\ k.attempt = l.attempt /\ k.signatures = l.signatures
      <4>1. MaxSteps \in 0..MaxSteps OBVIOUS
      <4>2. k \in Loops BY <3>3, <4>1 DEF Loops
      <4> QED BY <4>2 DEF Loops
    <3>5. ASSUME NEW j \in Loops, j.attempt + 1 \in Nat,
                 j.signatures \cup {Signature(check)}
                   \in SUBSET ((SUBSET {"tests_unmodified"}) \X Checks)
          PROVE  [j EXCEPT !.attempt = @ + 1, !.asked = Idle.asked,
                           !.signatures = @ \cup {Signature(check)}] \in Loops
      BY <3>1, <3>5 DEF Loops
    <3>6. [l EXCEPT !.pc = "close", !.outcome = "completed"] \in Loops BY DEF Loops
    <3> HIDE DEF k
    <3>7. [k EXCEPT !.attempt = @ + 1, !.asked = Idle.asked,
                    !.signatures = @ \cup {Signature(check)}] \in Loops
      BY <3>2, <3>3, <3>4, <3>5
    <3> QED BY <3>6, <3>7 DEF k
  <2>5. loop' \in Loops
    BY <1>13, <2>2, <2>4 DEF Judge, JudgeLate
  <2>6. audit' \in Audits
    <3>1. (IF check = "unread" THEN audit.mine.seen ELSE audit.mine.seen \cup {"judge"})
            \in SUBSET Observers
      BY DEF Audits, Observers
    <3>2. Witnessed(check) BY <1>13 DEF Judge, JudgeLate
    <3>3. audit.mine.evaluations + 1 \in Nat BY DEF Audits
    <3>4. audit'.mine = [audit.mine EXCEPT !.evaluations = @ + 1,
                                           !.seen = IF check = "unread" THEN @ ELSE @ \cup {"judge"}]
          /\ audit' = [audit EXCEPT !.mine = audit'.mine]
      BY <3>2 DEF Witnessed, Audits
    <3>5. audit'.mine \in [seen : SUBSET Observers, billed : Nat, evaluations : Nat]
      BY <3>1, <3>3, <3>4 DEF Audits
    <3> QED BY <3>4, <3>5 DEF Audits
  <2> QED BY <1>13, <2>5, <2>6 DEF Judge, JudgeLate
<1>14. CASE Close
  <2>1. status' \in {"none", "working", "input-required", "failed", "completed"}
    BY <1>14 DEF Close, StatusOf, Loops
  <2>2. loop' \in Loops
    <3>1. [loop EXCEPT !.pc = "clear"] \in Loops BY DEF Loops
    <3> QED BY <1>14, <3>1, IdleHasItsType DEF Close, Exit
  <2>3. audit' \in Audits BY <1>14, IdleHasItsType DEF Close, Exit, Audits
  <2> QED BY <1>14, <2>1, <2>2, <2>3 DEF Close
<1>15. CASE ClearFreeze
  BY <1>15, IdleHasItsType DEF ClearFreeze, Exit, Audits
<1>16. CASE UNCHANGED vars
  BY <1>16 DEF vars
<1> QED
  BY <1>1, <1>2, <1>3, <1>4, <1>5, <1>6, <1>7, <1>8, <1>9, <1>10, <1>11, <1>12, <1>13, <1>14,
     <1>15, <1>16 DEF Next, Work

-----------------------------------------------------------------------------
(* A process is born, and dies *)

LEMMA IdleFacts ==
  /\ Idle.pc = "dead" /\ Idle.report = None /\ Idle.spent = 0 /\ Idle.tainted = FALSE
  /\ Fresh.seen = {} /\ Fresh.billed = 0 /\ Fresh.evaluations = 0
BY DEF Idle, Fresh

LEMMA BeginFacts ==
  ASSUME NEW seq, NEW base, NEW tainted, NEW thawing, Begin(seq, base, tainted, thawing)
  PROVE  /\ loop'.pc = "step" /\ loop'.seq = seq /\ loop'.base = base
         /\ loop'.tainted = tainted /\ loop'.attempt = 1 /\ loop'.spent = 0
         /\ loop'.report = None
BY DEF Begin, Idle

\* what holds of every process that begins, whoever began it
LEMMA BirthKeeps ==
  ASSUME RunInv, NEW seq, NEW base, NEW tainted, NEW thawing, NEW resumed \in BOOLEAN,
         NEW seen \in SUBSET Observers,
         Process(resumed, seen), Begin(seq, base, tainted, thawing),
         seq = NextSeq, seen # {} => tainted, audit.resumed => resumed,
         ~resumed => base = 0
  PROVE  Transcript' /\ Standing' /\ Books' /\ Rounds' /\ Taint' /\ Baseline'
<1> USE DEF RunInv
<1>1. /\ loop'.pc = "step" /\ loop'.seq = seq /\ loop'.base = base
      /\ loop'.tainted = tainted /\ loop'.attempt = 1 /\ loop'.spent = 0
      /\ loop'.report = None
  BY BeginFacts
<1>2. /\ audit'.resumed = resumed /\ audit'.mine.seen = seen /\ audit'.mine.billed = 0
      /\ audit'.mine.evaluations = 0
      /\ status' = "working" /\ UNCHANGED <<steps, freeze, repo>>
  BY DEF Process, Fresh
<1>3. Transcript'
  <2>1. PICK n \in Nat : steps = 1..n BY DEF Transcript
  <2>2. seq = n + 1 BY <2>1, NextSeqOfPrefix
  <2> QED BY <1>1, <1>2, <2>1, <2>2 DEF Transcript
<1>4. Standing' BY <1>1 DEF Standing
<1>5. Books' BY <1>1, <1>2 DEF Books, BillIsBounded
<1>6. Rounds' BY <1>1, <1>2 DEF Rounds, EvaluationsAreBounded
<1>7. Taint' BY <1>1, <1>2 DEF Taint
<1>8. Baseline' BY <1>1, <1>2 DEF Baseline, Admitted
<1> QED BY <1>3, <1>4, <1>5, <1>6, <1>7, <1>8

\* a process that ends leaves the disk as it found it, but for the freeze file it may clear
LEMMA DeathKeeps ==
  ASSUME RunInv, loop.pc # "dead", Exit, UNCHANGED <<steps, repo>>,
         status' # "none", freeze' = freeze \/ freeze' = None
  PROVE  Transcript' /\ Standing' /\ Books' /\ Rounds' /\ Taint' /\ Baseline'
<1> USE DEF RunInv
<1>1. loop'.pc = "dead" /\ loop'.report = None /\ loop'.spent = 0
  BY IdleFacts DEF Exit
<1>2. /\ audit'.resumed = audit.resumed /\ audit'.mine = Fresh
  BY DEF Exit, RunLoopTypeOK, Audits
<1>3. Transcript' BY <1>1 DEF Transcript
<1>4. Standing' BY <1>1 DEF Standing
<1>5. Books' BY <1>1, <1>2, IdleFacts DEF Books, BillIsBounded
<1>6. Rounds' BY <1>1, <1>2, IdleFacts DEF Rounds, EvaluationsAreBounded
<1>7. Taint' BY <1>1, <1>2, IdleFacts DEF Taint
<1>8. Baseline' BY <1>1, <1>2 DEF Baseline, Admitted
<1> QED BY <1>3, <1>4, <1>5, <1>6, <1>7, <1>8

-----------------------------------------------------------------------------
(* A process works *)

\* what a step of a live process keeps when it leaves the repository, the transcript and the
\* report alone, does not go to the gates, and taints the loop if it must
LEMMA QuietKeeps ==
  ASSUME RunInv, loop.pc # "dead", UNCHANGED <<status, steps, repo>>,
         loop'.pc \in {"tools", "close", "clear"}, loop'.pc = "tools" => loop.pc \in {"step", "tools"},
         loop'.report = loop.report, loop'.seq = loop.seq, loop'.base = loop.base,
         loop'.attempt = loop.attempt, audit'.resumed = audit.resumed,
         loop'.pc \in {"close", "clear"} => loop'.outcome # "none",
         audit'.mine.evaluations = audit.mine.evaluations,
         ~Admitted \/ (loop.pc \in {"close", "clear"} /\ loop'.pc \in {"close", "clear"})
  PROVE  Transcript' /\ Standing' /\ Rounds'
<1> USE DEF RunInv
<1>1. Transcript' BY DEF Transcript
<1>2. Standing' BY DEF Standing, Admitted
<1>3. Rounds' BY DEF Rounds, EvaluationsAreBounded
<1> QED BY <1>1, <1>2, <1>3

LEMMA NotYetAdmitted ==
  ASSUME RunInv, loop.pc \notin {"close", "clear"}
  PROVE  ~Admitted
BY DEF RunInv, Standing, Admitted

\* an answered call, made or not
LEMMA AnsweredFacts ==
  ASSUME RunInv, loop.pc = "tools", NEW call \in Calls, NEW trust, Answered(call, trust)
  PROVE  /\ loop'.pc = "tools" /\ loop'.seq = loop.seq /\ loop'.base = loop.base
         /\ loop'.attempt = loop.attempt /\ loop'.spent = loop.spent
         /\ loop'.tainted = (loop.tainted \/ trust = "untrusted")
         /\ loop'.report = None <=> loop.report = None
         /\ ~Admitted'
<1>1. ~Admitted BY NotYetAdmitted
<1>2. loop \in Loops BY DEF RunInv, RunLoopTypeOK
<1>3. loop'.report = IF loop.report = None THEN None ELSE [loop.report EXCEPT !.current = FALSE]
  BY <1>2 DEF Answered, Loops
<1>4. loop.report # None => loop'.report # None /\ loop'.report.admitted = loop.report.admitted
  <2> SUFFICES ASSUME loop.report # None
               PROVE  loop'.report # None /\ loop'.report.admitted = loop.report.admitted
    OBVIOUS
  <2>1. loop.report \in Reports BY <1>2 DEF Loops
  <2>2. loop'.report \in Reports /\ loop'.report.admitted = loop.report.admitted
    BY <1>3, <2>1 DEF Reports
  <2>3. None \notin Reports BY DEF None, Reports
  <2> QED BY <2>2, <2>3
<1>5. ~Admitted' BY <1>1, <1>3, <1>4 DEF Admitted
<1> QED BY <1>2, <1>3, <1>4, <1>5 DEF Answered, Loops

\* the gates have judged: the report is new and so is the taint
LEMMA JudgedFacts ==
  ASSUME RunInv, NEW check \in Checks
  PROVE  /\ Judged(check).report = [admitted |-> Admits(check), current |-> TRUE]
         /\ Judged(check).report # None
         /\ Judged(check).tainted = (loop.tainted \/ check # "unread")
         /\ Judged(check).pc = loop.pc /\ Judged(check).seq = loop.seq
         /\ Judged(check).base = loop.base /\ Judged(check).attempt = loop.attempt
         /\ Judged(check).spent = loop.spent
         /\ Judged(check) \in Loops
<1>1. loop \in Loops BY DEF RunInv, RunLoopTypeOK
<1>2. Admits(check) \in BOOLEAN /\ (loop.tainted \/ check # "unread") \in BOOLEAN
  BY <1>1 DEF Admits, Untampered, Loops, RunInv, RunLoopTypeOK
<1>3. Judged(check) \in Loops BY <1>1, <1>2 DEF Judged, Loops, Reports
<1>4. [admitted |-> Admits(check), current |-> TRUE] # None BY DEF None
<1> QED BY <1>1, <1>3, <1>4 DEF Judged, Loops

LEMMA WitnessedFacts ==
  ASSUME RunInv, NEW check, Witnessed(check)
  PROVE  /\ audit'.mine.evaluations = audit.mine.evaluations + 1
         /\ audit'.mine.billed = audit.mine.billed
         /\ audit'.resumed = audit.resumed
         /\ audit'.mine.seen # {} => audit.mine.seen # {} \/ check # "unread"
BY DEF Witnessed, RunInv, RunLoopTypeOK, Audits

LEMMA WorkStep ==
  ASSUME RunInv, RunLoopTypeOK', Work
  PROVE  RunInv'
<1> USE DEF RunInv
<1>t. loop \in Loops /\ audit \in Audits /\ audit.mine.billed \in Nat
  BY DEF RunLoopTypeOK, Audits
<1>1. CASE OutOfTime
  <2>1. /\ loop'.pc = "close" /\ loop'.report = loop.report /\ loop'.seq = loop.seq
        /\ loop'.base = loop.base /\ loop'.attempt = loop.attempt /\ loop'.spent = loop.spent
        /\ loop'.tainted = loop.tainted /\ loop.pc = "step" /\ loop'.outcome # "none"
        /\ UNCHANGED <<status, steps, freeze, repo, audit>>
    BY <1>1, <1>t DEF OutOfTime, Loops
  <2>2. ~Admitted BY <2>1, NotYetAdmitted
  <2>3. Transcript' /\ Standing' /\ Rounds' BY <2>1, <2>2, QuietKeeps
  <2>4. Books' /\ Taint' BY <2>1 DEF Books, BillIsBounded, Taint
  <2>5. Baseline' BY <2>1, <2>2 DEF Baseline, Admitted
  <2> QED BY <2>3, <2>4, <2>5
<1>2. CASE Park
  <2>1. /\ loop'.pc = "close" /\ loop'.report = loop.report /\ loop'.seq = loop.seq
        /\ loop'.base = loop.base /\ loop'.attempt = loop.attempt /\ loop'.spent = loop.spent
        /\ loop'.tainted = loop.tainted /\ loop.pc = "step" /\ loop'.outcome # "none"
        /\ UNCHANGED <<status, steps, repo, audit>>
    BY <1>2, <1>t DEF Park, Loops
  <2>2. freeze'.tainted = loop.tainted /\ freeze'.base = loop.base /\ freeze'.seen = audit.mine.seen
    BY <1>2 DEF Park, Snapshot
  <2>3. ~Admitted BY <2>1, NotYetAdmitted
  <2>4. Transcript' /\ Standing' /\ Rounds' BY <2>1, <2>3, QuietKeeps
  <2>5. Books' BY <2>1 DEF Books, BillIsBounded
  <2>6. Taint' BY <2>1, <2>2 DEF Taint
  <2>7. Baseline' BY <2>1, <2>2, <2>3 DEF Baseline, Admitted
  <2> QED BY <2>4, <2>5, <2>6, <2>7
<1>3. ASSUME NEW cost \in Costs, NEW failover \in BOOLEAN, Complete(cost, failover)
      PROVE  RunInv'
  <2>1. /\ loop'.pc = "tools" /\ loop'.report = loop.report /\ loop'.seq = loop.seq
        /\ loop'.base = loop.base /\ loop'.attempt = loop.attempt
        /\ loop'.tainted = loop.tainted /\ loop'.spent = loop.spent + cost
        /\ loop.pc = "step" /\ loop.spent < Limit
        /\ UNCHANGED <<status, steps, repo>>
    BY <1>3, <1>t DEF Complete, Loops
  <2>2. /\ audit'.mine.billed = audit.mine.billed + cost /\ audit'.mine.seen = audit.mine.seen
        /\ audit'.mine.evaluations = audit.mine.evaluations /\ audit'.resumed = audit.resumed
    BY <1>3, <1>t DEF Complete, Audits
  <2>3. \/ freeze' = freeze
        \/ /\ freeze'.tainted = loop.tainted /\ freeze'.base = loop.base
           /\ freeze'.seen = audit.mine.seen
    BY <1>3 DEF Complete, Snapshot
  <2>4. ~Admitted BY <2>1, NotYetAdmitted
  <2>5. Transcript' /\ Standing' /\ Rounds'
    <3>1. Transcript' BY <2>1 DEF Transcript
    <3>2. Standing' BY <2>1, <2>4 DEF Standing, Admitted
    <3>3. Rounds' BY <2>1, <2>2 DEF Rounds, EvaluationsAreBounded
    <3> QED BY <3>1, <3>2, <3>3
  <2>6. Books'
    <3>1. cost \in Nat OBVIOUS
    <3>2. audit'.mine.billed - cost < Limit BY <1>t, <2>1, <2>2, <3>1 DEF Books
    <3> QED BY <2>1, <2>2, <3>2 DEF Books, BillIsBounded
  <2>7. Taint' BY <2>1, <2>2, <2>3 DEF Taint
  <2>8. Baseline' BY <2>1, <2>2, <2>3, <2>4 DEF Baseline, Admitted
  <2> QED BY <2>5, <2>6, <2>7, <2>8
<1>4. ASSUME NEW call \in Calls, Deny(call) \/ Skip(call) PROVE RunInv'
  <2>1. /\ loop'.pc = "tools" /\ loop'.report = loop.report /\ loop'.seq = loop.seq
        /\ loop'.base = loop.base /\ loop'.attempt = loop.attempt /\ loop'.spent = loop.spent
        /\ loop'.tainted = loop.tainted /\ loop.pc = "tools"
        /\ UNCHANGED <<status, steps, freeze, repo, audit>>
    BY <1>4, <1>t DEF Deny, Skip, Asking, Loops
  <2>2. ~Admitted BY <2>1, NotYetAdmitted
  <2>3. Transcript' BY <2>1 DEF Transcript
  <2>4. Standing' BY <2>1, <2>2 DEF Standing, Admitted
  <2>5. Books' /\ Taint' BY <2>1 DEF Books, BillIsBounded, Taint
  <2>6. Rounds' BY <2>1 DEF Rounds, EvaluationsAreBounded
  <2>7. Baseline' BY <2>1, <2>2 DEF Baseline, Admitted
  <2> QED BY <2>3, <2>4, <2>5, <2>6, <2>7
<1>5. ASSUME NEW call \in Calls, Run(call) \/ Raise(call) PROVE RunInv'
  <2>1. PICK trust : /\ Answered(call, trust) /\ loop.pc = "tools"
                     /\ UNCHANGED <<status, steps, freeze>>
                     /\ audit'.mine.seen # audit.mine.seen => trust = "untrusted"
                     /\ audit'.mine.billed = audit.mine.billed
                     /\ audit'.mine.evaluations = audit.mine.evaluations
                     /\ audit'.resumed = audit.resumed
    <3>1. CASE Run(call) BY <1>t, <3>1 DEF Run, Asking, Audits
    <3>2. CASE Raise(call) BY <3>2 DEF Raise, Asking
    <3> QED BY <1>5, <3>1, <3>2
  <2>2. /\ loop'.pc = "tools" /\ loop'.seq = loop.seq /\ loop'.base = loop.base
        /\ loop'.attempt = loop.attempt /\ loop'.spent = loop.spent
        /\ loop'.tainted = (loop.tainted \/ trust = "untrusted")
        /\ loop'.report = None <=> loop.report = None
        /\ ~Admitted'
    BY <2>1, AnsweredFacts
  <2>3. Transcript' BY <2>1, <2>2 DEF Transcript
  <2>4. Standing' BY <2>2 DEF Standing, Admitted
  <2>5. Books' BY <2>1, <2>2 DEF Books, BillIsBounded
  <2>6. Rounds' BY <2>1, <2>2 DEF Rounds, EvaluationsAreBounded
  <2>7. Taint'
    <3>1. audit'.mine.seen # {} => loop'.tainted BY <2>1, <2>2 DEF Taint
    <3> QED BY <2>1, <3>1 DEF Taint
  <2>8. Baseline' BY <2>1, <2>2 DEF Baseline
  <2> QED BY <2>3, <2>4, <2>5, <2>6, <2>7, <2>8
<1>6. CASE CloseStep
  <2>1. /\ loop.pc = "tools" /\ loop'.report = loop.report
        /\ loop'.base = loop.base /\ loop'.attempt = loop.attempt /\ loop'.spent = loop.spent
        /\ loop'.tainted = loop.tainted /\ steps' = steps \cup {loop.seq}
        /\ \/ loop'.pc = "gate" /\ loop'.seq = loop.seq
           \/ loop'.pc = "close" /\ loop'.outcome # "none"
           \/ loop'.pc = "step" /\ loop'.seq = loop.seq + 1
        /\ UNCHANGED <<status, freeze, repo, audit>>
    BY <1>6, <1>t DEF CloseStep, After, Loops
  <2>2. ~Admitted BY <2>1, NotYetAdmitted
  <2>3. Transcript'
    <3>1. PICK n \in Nat : steps = 1..n /\ loop.seq = n + 1 BY <2>1 DEF Transcript
    <3>2. steps' = 1..(n + 1) BY <2>1, <3>1
    <3> QED BY <2>1, <3>1, <3>2 DEF Transcript
  <2>4. Standing' BY <2>1, <2>2 DEF Standing, Admitted
  <2>5. Books' /\ Taint' BY <2>1 DEF Books, BillIsBounded, Taint
  <2>6. Rounds' BY <2>1 DEF Rounds, EvaluationsAreBounded
  <2>7. Baseline' BY <2>1, <2>2 DEF Baseline, Admitted
  <2> QED BY <2>3, <2>4, <2>5, <2>6, <2>7
<1>7. ASSUME NEW check \in Checks, Judge(check) \/ JudgeLate(check) PROVE RunInv'
  <2>1. /\ Witnessed(check) /\ UNCHANGED <<status, steps, freeze, repo>>
        /\ loop.pc \in {"gate", "close"}
        /\ loop.pc = "close" => loop.report = None
    BY <1>7 DEF Judge, JudgeLate
  <2>2. /\ loop'.report = [admitted |-> Admits(check), current |-> TRUE] /\ loop'.report # None
        /\ loop'.tainted = (loop.tainted \/ check # "unread")
        /\ loop'.base = loop.base /\ loop'.spent = loop.spent
        /\ \/ /\ loop'.pc = "step" /\ loop.pc = "gate" /\ ~Admits(check)
              /\ loop.attempt <= MaxAttempts /\ loop'.attempt = loop.attempt + 1
              /\ loop'.seq = loop.seq + 1
           \/ loop'.pc = "close" /\ loop'.outcome # "none"
    <3>1. CASE Judge(check) /\ Repairs(check)
      <4>1. loop' = [Judged(check) EXCEPT !.pc = "step", !.seq = @ + 1, !.left = MaxSteps,
                                          !.attempt = @ + 1, !.asked = Idle.asked,
                                          !.signatures = @ \cup {Signature(check)}]
            /\ loop.pc = "gate" /\ ~Admits(check) /\ loop.attempt <= MaxAttempts
        BY <3>1 DEF Judge, Repairs
      <4>2. /\ loop'.pc = "step" /\ loop'.seq = Judged(check).seq + 1
            /\ loop'.attempt = Judged(check).attempt + 1 /\ loop'.report = Judged(check).report
            /\ loop'.tainted = Judged(check).tainted /\ loop'.base = Judged(check).base
            /\ loop'.spent = Judged(check).spent
        BY <4>1, JudgedFacts DEF Loops
      <4> QED BY <4>1, <4>2, JudgedFacts
    <3>2. CASE Judge(check) /\ ~Repairs(check)
      <4>1. loop' = [Judged(check) EXCEPT !.pc = "close", !.outcome = "completed"]
        BY <3>2 DEF Judge
      <4> QED BY <4>1, JudgedFacts DEF Loops
    <3>3. CASE JudgeLate(check)
      <4>1. loop' = Judged(check) /\ loop.pc = "close" BY <3>3 DEF JudgeLate
      <4>2. loop'.outcome = loop.outcome BY <4>1, <1>t DEF Judged, Loops
      <4> QED BY <4>1, <4>2, JudgedFacts DEF Standing
    <3> QED BY <1>7, <3>1, <3>2, <3>3
  <2>3. /\ audit'.mine.evaluations = audit.mine.evaluations + 1
        /\ audit'.mine.billed = audit.mine.billed /\ audit'.resumed = audit.resumed
        /\ audit'.mine.seen # {} => audit.mine.seen # {} \/ check # "unread"
    BY <2>1, WitnessedFacts
  <2>4. Transcript' BY <2>1, <2>2 DEF Transcript
  <2>5. Standing' BY <2>2 DEF Standing
  <2>6. Books' BY <2>2, <2>3 DEF Books, BillIsBounded
  <2>7. Rounds'
    <3>1. audit.mine.evaluations \in Nat /\ loop.attempt \in Nat BY <1>t DEF Audits, Loops
    <3>2. loop.pc = "gate" =>
            audit.mine.evaluations + 1 = loop.attempt /\ loop.attempt <= MaxAttempts + 1
      BY DEF Rounds
    <3>3. loop.pc = "close" => audit.mine.evaluations = 0 BY <2>1 DEF Rounds
    <3>4. EvaluationsAreBounded'
      BY <2>1, <2>3, <3>1, <3>2, <3>3 DEF EvaluationsAreBounded
    <3> QED BY <2>1, <2>2, <2>3, <3>1, <3>2, <3>4 DEF Rounds
  <2>8. Taint'
    <3>1. audit'.mine.seen # {} => loop'.tainted BY <2>2, <2>3 DEF Taint
    <3> QED BY <2>1, <3>1 DEF Taint
  <2>9. Baseline'
    <3>1. ~audit.resumed /\ Admits(check) => ~Tampered
      BY <2>1, <1>t DEF Baseline, Admits, Untampered, Tampered, RunLoopTypeOK
    <3>2. ~audit'.resumed /\ Admitted' => ~Tampered'
      BY <2>1, <2>2, <2>3, <3>1 DEF Admitted, Tampered
    <3> QED BY <2>1, <2>2, <2>3, <3>2 DEF Baseline
  <2> QED BY <2>4, <2>5, <2>6, <2>7, <2>8, <2>9
<1>8. CASE Close
  <2>1. /\ loop.pc = "close" /\ UNCHANGED <<steps, freeze, repo>>
        /\ status' = StatusOf(loop.outcome)
        /\ \/ loop' = [loop EXCEPT !.pc = "clear"] /\ UNCHANGED audit
           \/ Exit
    BY <1>8 DEF Close
  <2>2. status' # "none" BY <2>1 DEF StatusOf, Standing
  <2>3. CASE Exit BY <2>1, <2>2, <2>3, DeathKeeps
  <2>4. CASE loop' = [loop EXCEPT !.pc = "clear"] /\ UNCHANGED audit
    <3>1. /\ loop'.pc = "clear" /\ loop'.report = loop.report /\ loop'.base = loop.base
          /\ loop'.spent = loop.spent /\ loop'.tainted = loop.tainted
          /\ loop'.outcome = loop.outcome
      BY <2>4, <1>t DEF Loops
    <3>2. Transcript' BY <2>1, <3>1 DEF Transcript
    <3>3. Standing' BY <2>1, <3>1 DEF Standing
    <3>4. Books' /\ Taint' BY <2>1, <2>4, <3>1 DEF Books, BillIsBounded, Taint
    <3>5. Rounds' BY <2>1, <2>4, <3>1 DEF Rounds, EvaluationsAreBounded
    <3>6. Baseline' BY <2>1, <2>2, <2>4, <3>1 DEF Baseline, Admitted, Tampered
    <3> QED BY <3>2, <3>3, <3>4, <3>5, <3>6
  <2> QED BY <2>1, <2>3, <2>4
<1>9. CASE ClearFreeze
  <2>1. loop.pc = "clear" /\ Exit /\ UNCHANGED <<status, steps, repo>> /\ freeze' = None
    BY <1>9 DEF ClearFreeze
  <2>2. status' # "none" BY <2>1 DEF Baseline
  <2> QED BY <2>1, <2>2, DeathKeeps
<1> QED
  BY <1>1, <1>2, <1>3, <1>4, <1>5, <1>6, <1>7, <1>8, <1>9 DEF Work

-----------------------------------------------------------------------------
(* The theorems *)

LEMMA InitHolds == Init => RunInv
<1> SUFFICES ASSUME Init PROVE RunInv OBVIOUS
<1>1. loop = Idle /\ audit.mine = Fresh /\ audit.resumed = FALSE BY DEF Init
<1>2. RunLoopTypeOK
  <2>1. audit \in Audits BY IdleHasItsType DEF Init, Audits
  <2> QED BY <1>1, <2>1, IdleHasItsType DEF Init, RunLoopTypeOK
<1>3. Transcript
  <2>1. 0 \in Nat /\ steps = 1..0 BY DEF Init
  <2> QED BY <1>1, <2>1, IdleFacts DEF Transcript
<1>4. Standing /\ Books /\ Rounds /\ Taint
  BY <1>1, IdleFacts DEF Init, Standing, Books, BillIsBounded, Rounds, EvaluationsAreBounded, Taint
<1>5. Baseline BY <1>1, IdleFacts DEF Init, Baseline
<1> QED BY <1>2, <1>3, <1>4, <1>5 DEF RunInv

LEMMA StepHolds == RunInv /\ [Next]_vars => RunInv'
<1> SUFFICES ASSUME RunInv, [Next]_vars PROVE RunInv' OBVIOUS
<1>1. NextSeq \in Nat
  <2>1. PICK n \in Nat : steps = 1..n BY DEF RunInv, Transcript
  <2> QED BY <2>1, NextSeqOfPrefix
<1>2. RunLoopTypeOK' BY <1>1, TypeStep DEF RunInv
<1>3. CASE Start
  <2>1. steps = {} /\ repo.head = 0 /\ ~audit.resumed BY <1>3 DEF Start, RunInv, Baseline
  <2>2. NextSeq = 1 BY <2>1 DEF NextSeq
  <2>3. Process(FALSE, {}) /\ Begin(NextSeq, 0, FALSE, FALSE) BY <1>3, <2>1, <2>2 DEF Start
  <2> QED BY <1>2, <2>1, <2>3, BirthKeeps DEF RunInv
<1>4. CASE Resume
  <2>1. Process(TRUE, {}) /\ Begin(NextSeq, repo.head, FALSE, FALSE) BY <1>4 DEF Resume
  <2> QED BY <1>2, <2>1, BirthKeeps DEF RunInv
<1>5. CASE Thaw
  <2>1. /\ freeze # None /\ Process(audit.resumed, freeze.seen)
        /\ Begin(NextSeq, freeze.base, freeze.tainted, TRUE)
    BY <1>5 DEF Thaw
  <2>2. audit.resumed \in BOOLEAN /\ freeze.seen \in SUBSET Observers
    BY <2>1 DEF RunInv, RunLoopTypeOK, Audits, Snapshots
  <2>3. freeze.seen # {} => freeze.tainted BY <2>1 DEF RunInv, Taint
  <2>4. ~audit.resumed => freeze.base = 0 BY <2>1 DEF RunInv, Baseline
  <2> QED BY <1>2, <2>1, <2>2, <2>3, <2>4, BirthKeeps DEF RunInv
<1>6. CASE Crash
  <2>1. loop.pc # "dead" /\ Exit /\ UNCHANGED <<status, steps, freeze, repo>>
    BY <1>6 DEF Crash
  <2>2. status' # "none" BY <2>1 DEF RunInv, Baseline
  <2> QED BY <1>2, <2>1, <2>2, DeathKeeps DEF RunInv
<1>7. CASE Work BY <1>2, <1>7, WorkStep
<1>8. CASE UNCHANGED vars
  BY <1>2, <1>8 DEF vars, RunInv, Transcript, Standing, Books, BillIsBounded, Rounds,
     EvaluationsAreBounded, Taint, Baseline, Admitted, Tampered
<1> QED BY <1>3, <1>4, <1>5, <1>6, <1>7, <1>8 DEF Next

\* The invariant of a run: its type, its transcript, its standing report, its books, its
\* rounds of repair, its taint and its base commit.
THEOREM RunLoopInvariant == Spec => []RunInv
BY InitHolds, StepHolds, PTL DEF Spec

\* The types of the run, its files and its process.
THEOREM RunLoopTypes == Spec => []RunLoopTypeOK
<1>1. RunInv => RunLoopTypeOK BY DEF RunInv
<1> QED BY <1>1, RunLoopInvariant, PTL

\* However often a run is brought back, its trajectory has no gap and append_step never
\* repeats a key.
THEOREM DenseTranscripts == Spec => []TranscriptIsDense
<1>1. RunInv => TranscriptIsDense
  <2> SUFFICES ASSUME RunInv PROVE TranscriptIsDense OBVIOUS
  <2>1. PICK n \in Nat : /\ steps = 1..n
                         /\ loop.pc \in {"step", "tools"} => loop.seq = n + 1
    BY DEF RunInv, Transcript
  <2>2. Cardinality(steps) = n
    <3>1. Cardinality(1..n) = IF 1 > n THEN 0 ELSE n - 1 + 1 BY FS_Interval
    <3> QED BY <2>1, <3>1
  <2> QED BY <2>1, <2>2 DEF TranscriptIsDense
<1> QED BY <1>1, RunLoopInvariant, PTL

\* An admitting report is of the files as they are.
THEOREM CurrentAdmissions == Spec => []AdmittedIsCurrent
<1>1. RunInv => AdmittedIsCurrent BY DEF RunInv, Standing, AdmittedIsCurrent
<1> QED BY <1>1, RunLoopInvariant, PTL

\* Freezes and thaws never move the commit the gates diff from.
THEOREM CleanAdmissions == Spec => []AdmittedIsClean
<1>1. RunInv => AdmittedIsClean BY DEF RunInv, Baseline, AdmittedIsClean
<1> QED BY <1>1, RunLoopInvariant, PTL

\* What ends admitted was earned by gates that measured the run and the files as they are.
THEOREM EarnedAdmissions == Spec => []AdmittedIsEarned
BY CurrentAdmissions, CleanAdmissions, PTL DEF AdmittedIsEarned

\* A process passes its limit by less than one completion.
THEOREM BoundedBills == Spec => []BillIsBounded
<1>1. RunInv => BillIsBounded BY DEF RunInv, Books
<1> QED BY <1>1, RunLoopInvariant, PTL

\* A process evaluates its gates at most max_attempts + 1 times.
THEOREM BoundedEvaluations == Spec => []EvaluationsAreBounded
<1>1. RunInv => EvaluationsAreBounded BY DEF RunInv, Rounds
<1> QED BY <1>1, RunLoopInvariant, PTL

\* Completions and gate runs stay within their bounds.
THEOREM BoundedSpend == Spec => []SpendIsBounded
BY BoundedBills, BoundedEvaluations, PTL DEF SpendIsBounded

\* A write is made only while nothing untrusted was observed, by this process or before the
\* freeze it came from.
THEOREM UntaintedWrites == Spec => WritesAreUntainted
<1>1. ASSUME RunInv, Next, NewResult("write", {"trusted", "error"})
      PROVE  audit.mine.seen = {}
  <2>t. loop \in Loops /\ loop.results \in Seq(Results) BY <1>1 DEF RunInv, RunLoopTypeOK, Loops
  <2>1. Len(<<>>) = 0 /\ Len(loop.results) \in Nat BY <2>t
  <2>2. CASE Start \/ Resume \/ Thaw
    <3>1. loop'.results = <<>> BY <2>2 DEF Start, Resume, Thaw, Begin, Idle
    <3> QED BY <1>1, <2>1, <3>1 DEF NewResult
  <2>3. CASE Crash \/ Close \/ ClearFreeze
    <3>1. loop'.results \in {<<>>, loop.results}
      BY <2>t, <2>3 DEF Crash, Close, ClearFreeze, Exit, Idle, Loops
    <3> QED BY <1>1, <2>1, <3>1 DEF NewResult
  <2>4. CASE OutOfTime \/ Park
    <3>1. loop'.results = loop.results BY <2>t, <2>4 DEF OutOfTime, Park, Loops
    <3> QED BY <1>1, <2>1, <3>1 DEF NewResult
  <2>5. ASSUME NEW cost \in Costs, NEW failover \in BOOLEAN, Complete(cost, failover)
        PROVE  FALSE
    <3>1. loop'.results = loop.results BY <2>t, <2>5 DEF Complete, Loops
    <3> QED BY <1>1, <2>1, <3>1 DEF NewResult
  <2>6. ASSUME NEW call \in Calls, Skip(call) PROVE FALSE
    <3>1. loop'.results = loop.results BY <2>t, <2>6 DEF Skip, Loops
    <3> QED BY <1>1, <2>1, <3>1 DEF NewResult
  <2>7. ASSUME NEW call \in Calls, Deny(call) PROVE FALSE
    <3>1. loop'.results = Append(loop.results, [call |-> call, trust |-> "denied"])
      BY <2>t, <2>7 DEF Deny, Loops
    <3>2. loop'.results[Len(loop'.results)].trust = "denied"
      <4>1. [call |-> call, trust |-> "denied"] \in Results BY DEF Results
      <4> QED BY <2>t, <3>1, <4>1
    <3> QED BY <1>1, <3>2 DEF NewResult
  <2>8. ASSUME NEW call \in Calls, Run(call) \/ Raise(call)
        PROVE  audit.mine.seen = {}
    <3>1. PICK trust \in {"error", "trusted", "untrusted"} : Answered(call, trust)
      BY <2>8 DEF Run, Raise, Trust
    <3>2. loop'.results = Append(loop.results, [call |-> call, trust |-> trust])
      BY <2>t, <3>1 DEF Answered, Loops
    <3>3. loop'.results[Len(loop'.results)].call = call
      <4>1. [call |-> call, trust |-> trust] \in Results BY DEF Results
      <4> QED BY <2>t, <3>2, <4>1
    <3>4. call = "write" BY <1>1, <3>3 DEF NewResult
    <3>5. ~loop.tainted BY <2>8, <3>4 DEF Run, Raise, TaintGate
    <3> QED BY <1>1, <3>5 DEF RunInv, Taint
  <2>9. CASE CloseStep
    <3>1. loop'.results = <<>> BY <2>t, <2>9 DEF CloseStep, After, Loops
    <3> QED BY <1>1, <2>1, <3>1 DEF NewResult
  <2>10. ASSUME NEW check \in Checks, Judge(check) \/ JudgeLate(check) PROVE FALSE
    <3>1. Judged(check) \in Loops /\ Judged(check).results = loop.results
      BY <1>1, <2>t, <2>10, JudgedFacts DEF Judged, Loops
    <3>2. CASE Judge(check) /\ Repairs(check)
      <4>1. loop' = [Judged(check) EXCEPT !.pc = "step", !.seq = @ + 1, !.left = MaxSteps,
                                          !.attempt = @ + 1, !.asked = Idle.asked,
                                          !.signatures = @ \cup {Signature(check)}]
        BY <3>2 DEF Judge
      <4>2. loop'.results = Judged(check).results BY <3>1, <4>1 DEF Loops
      <4> QED BY <1>1, <2>1, <3>1, <4>2 DEF NewResult
    <3>3. CASE Judge(check) /\ ~Repairs(check)
      <4>1. loop' = [Judged(check) EXCEPT !.pc = "close", !.outcome = "completed"]
        BY <3>3 DEF Judge
      <4>2. loop'.results = Judged(check).results BY <3>1, <4>1 DEF Loops
      <4> QED BY <1>1, <2>1, <3>1, <4>2 DEF NewResult
    <3>4. CASE JudgeLate(check)
      BY <1>1, <2>1, <3>1, <3>4 DEF JudgeLate, NewResult
    <3> QED BY <2>10, <3>2, <3>3, <3>4
  <2>11. CASE Work
    <3>1. ASSUME NEW call \in Calls, Deny(call) \/ Run(call) \/ Raise(call) \/ Skip(call)
          PROVE  audit.mine.seen = {}
      BY <2>6, <2>7, <2>8, <3>1
    <3> QED BY <2>3, <2>4, <2>5, <2>9, <2>10, <2>11, <3>1 DEF Work
  <2> QED BY <1>1, <2>2, <2>3, <2>11 DEF Next
<1>2. RunInv /\ [Next]_vars =>
        [NewResult("write", {"trusted", "error"}) => audit.mine.seen = {}]_vars
  BY <1>1
<1> QED BY <1>2, RunLoopInvariant, PTL DEF Spec, WritesAreUntainted
=============================================================================
