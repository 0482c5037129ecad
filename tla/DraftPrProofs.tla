---------------------------- MODULE DraftPrProofs ----------------------------
(***************************************************************************)
(* Proofs about DraftPr, for any findings, workers and cap: its types, one *)
(* pull request per finding, the records that are kept, how a card comes   *)
(* to read blocked and opened, the one rescan of a resolution, and the     *)
(* bound on how far concurrent workers overshoot the cap.                  *)
(***************************************************************************)
EXTENDS DraftPr, FiniteSetTheorems, TLAPS

LEMMA NewCardType == NewCard \in Meta
BY DEF NewCard, Meta

LEMMA IdleType == Idle \in Work /\ NoSweep \in SweepState /\ NoRecon \in Recon
<1>1. (CHOOSE f \in Findings : TRUE) \in Findings
  BY ConstantsAssumption
<1>2. NothingSeen \in [Findings -> Meta]
  BY NewCardType DEF NothingSeen
<1> QED
  BY <1>1, <1>2, NewCardType DEF Idle, Work, NoSweep, SweepState, NoRecon, Recon

LEMMA TypeInit == Init => TypeOK
BY NewCardType, IdleType DEF Init, TypeOK, PrState, MaxOpened

\* What the reconciler does to the cards: it resolves what merged.
LEMMA ReconEffect ==
  ASSUME TypeOK, NEW r \in Reconcilers, ReconStep(r)
  PROVE  /\ UNCHANGED <<tasks, work, sweep, branch, pr, opened, deleted>>
         /\ \A g \in Findings :
               /\ card'[g].url = card[g].url
               /\ card'[g].closed = card[g].closed
               /\ card'[g].blocked = card[g].blocked
               /\ \/ card'[g].triage = card[g].triage
                  \/ /\ card'[g].triage = "resolved"
                     /\ pr[g] = "merged" /\ g \in recon[r].todo
         /\ card' = card \/ card' \in [Findings -> Meta]
<1>t. card \in [Findings -> Meta]
  BY DEF TypeOK
<1>1. ASSUME NEW f \in Findings, Reconcile(r, f)
      PROVE  /\ card' = [card EXCEPT ![f].triage = "resolved"]
             /\ pr[f] = "merged" /\ f \in recon[r].todo
             /\ UNCHANGED <<tasks, work, sweep, branch, pr, opened, deleted>>
  BY <1>1 DEF Reconcile, hostVars
<1>2. CASE UNCHANGED card
  <2>1. UNCHANGED <<tasks, work, sweep, branch, pr, opened, deleted>>
    BY <1>1 DEF ReconStep, ReconStart, ReconEnd, ReconDies, ReconSkip, hostVars
  <2> QED BY <1>2, <2>1
<1>3. ASSUME NEW f \in Findings, Reconcile(r, f)
      PROVE  \A g \in Findings :
               /\ card'[g].url = card[g].url
               /\ card'[g].closed = card[g].closed
               /\ card'[g].blocked = card[g].blocked
               /\ card'[g].triage = card[g].triage \/ (g = f /\ card'[g].triage = "resolved")
  BY <1>1, <1>3, <1>t DEF Meta
<1>4. ASSUME NEW f \in Findings, Reconcile(r, f) PROVE card' \in [Findings -> Meta]
  BY <1>1, <1>4, <1>t DEF Meta
<1>5. UNCHANGED card \/ \E f \in Findings : Reconcile(r, f)
  BY DEF ReconStep, ReconStart, ReconEnd, ReconDies, ReconSkip
<1> QED BY <1>1, <1>2, <1>3, <1>4, <1>5

LEMMA TypeStep == TypeOK /\ [Next]_vars => TypeOK'
<1> SUFFICES ASSUME TypeOK, [Next]_vars PROVE TypeOK'
  OBVIOUS
<1> USE DEF TypeOK, hostVars, reconVars
<1>1. ASSUME NEW f \in Findings, Triaged(f) PROVE TypeOK'
  BY <1>1 DEF Triaged, Meta
<1>2. ASSUME NEW f \in Findings, Request(f) PROVE TypeOK'
  BY <1>2 DEF Request
<1>3. ASSUME NEW f \in Findings, Decide(f) PROVE TypeOK'
  BY <1>3 DEF Decide, Merge, Close, PrState
<1>4. ASSUME NEW f \in Findings, DeleteBranch(f) PROVE TypeOK'
  BY <1>4 DEF DeleteBranch
<1>5. ASSUME NEW r \in Reconcilers, ReconStep(r) PROVE TypeOK'
  <2> USE IdleType
  <2>1. UNCHANGED <<tasks, work, sweep, branch, pr, opened, deleted>>
        /\ card' \in [Findings -> Meta]
    BY <1>5, ReconEffect
  <2>2. recon[r].owed \subseteq Findings /\ recon[r].todo \subseteq Findings
    BY DEF Recon
  <2>3. recon' \in [Reconcilers -> Recon]
    <3>1. CASE recon' = [recon EXCEPT ![r] = NoRecon]
      BY <3>1
    <3>2. ASSUME NEW todo \in SUBSET Findings, NEW owed \in SUBSET Findings,
                 Looping(r, todo, owed)
          PROVE  recon' \in [Reconcilers -> Recon]
      BY <3>2 DEF Looping, Recon
    <3>3. CASE ReconStart(r)
      BY <3>2, <3>3 DEF ReconStart, Candidates
    <3>4. ASSUME NEW f \in Findings, ReconSkip(r, f) PROVE recon' \in [Reconcilers -> Recon]
      BY <2>2, <3>2, <3>4 DEF ReconSkip
    <3>5. ASSUME NEW f \in Findings, Reconcile(r, f) PROVE recon' \in [Reconcilers -> Recon]
      <4>1. recon[r].owed \cup {g \in {f} : card[g].triage # "resolved"} \subseteq Findings
        BY <2>2
      <4> QED BY <2>2, <3>2, <3>5, <4>1 DEF Reconcile
    <3> QED BY <1>5, <3>1, <3>3, <3>4, <3>5 DEF ReconStep, ReconEnd, ReconDies
  <2>4. verified' \subseteq Findings /\ missed' \subseteq Findings
    BY <1>5, <2>2 DEF ReconStep, ReconStart, ReconEnd, ReconDies, ReconSkip, Reconcile
  <2> QED BY <2>1, <2>3, <2>4
<1>6. ASSUME NEW w \in Workers, WorkerStep(w) PROVE TypeOK'
  <2> USE NewCardType, IdleType
  <2>0. Finding(w) \in Findings /\ work[w] \in Work
    BY DEF Finding, Work
  <2>1. ASSUME NEW f \in Findings, Gate(w, f) PROVE TypeOK'
    BY <2>1 DEF Gate, Step, Work
  <2>2. CASE Refuse(w)
    BY <2>0, <2>2 DEF Refuse, Step, Work
  <2>3. CASE CreateBranch(w)
    BY <2>0, <2>3 DEF CreateBranch, Step, Work
  <2>4. CASE OpenPr(w)
    BY <2>0, <2>4 DEF OpenPr, Step, Work, PrState, MaxOpened
  <2>5. CASE RecordRead(w)
    BY <2>0, <2>5 DEF RecordRead, Step, Work
  <2>6. CASE RecordWrite(w)
    BY <2>0, <2>6 DEF RecordWrite, Work, Meta
  <2>7. CASE RecordBlocked(w)
    BY <2>0, <2>7 DEF RecordBlocked, Meta
  <2>8. CASE Die(w)
    BY <2>0, <2>8 DEF Die
  <2> QED
    BY <1>6, <2>1, <2>2, <2>3, <2>4, <2>5, <2>6, <2>7, <2>8 DEF WorkerStep
<1>7. CASE SweepStep
  <2> USE IdleType DEF Sweep, SweepState
  <2>0. NothingSeen \in [Findings -> Meta] /\ sweep.seen \in [Findings -> Meta]
    BY NewCardType DEF NothingSeen
  <2>1. CASE SweepStart
    <3>1. PICK todo \in SUBSET Findings : sweep' = [step |-> "checking", todo |-> todo,
                                                   seen |-> NothingSeen, released |-> FALSE]
      BY <2>1 DEF SweepStart, Unsettled
    <3>2. sweep' \in SweepState
      BY <2>0, <3>1
    <3> QED BY <2>1, <3>2 DEF SweepStart
  <2>2. CASE SweepEnd
    BY <2>2 DEF SweepEnd, Refill, Waiting
  <2>3. CASE SweepDies
    BY <2>3 DEF SweepDies
  <2>4. ASSUME NEW f \in Findings, SweepRead(f) PROVE TypeOK'
    BY <2>0, <2>4 DEF SweepRead
  <2>5. ASSUME NEW f \in Findings, SweepSkip(f) PROVE TypeOK'
    BY <2>0, <2>5 DEF SweepSkip
  <2>6. ASSUME NEW f \in Findings, SweepMark(f) PROVE TypeOK'
    BY <2>0, <2>6 DEF SweepMark, Meta
  <2> QED
    BY <1>7, <2>1, <2>2, <2>3, <2>4, <2>5, <2>6 DEF SweepStep
<1>8. CASE UNCHANGED vars
  BY <1>8 DEF vars
<1> QED
  BY <1>1, <1>2, <1>3, <1>4, <1>5, <1>6, <1>7, <1>8 DEF Next

\* Every variable keeps its type.
THEOREM TypeCorrect == Spec => []TypeOK
BY TypeInit, TypeStep, PTL DEF Spec

-----------------------------------------------------------------------------
(* One pull request per finding.  The branch, created once per finding, is   *)
(* what stands between an open and its repetition: a finding with a pull     *)
(* request keeps its branch, and at most one worker holds a fresh one.       *)

BranchGuards ==
    /\ \A f \in Findings : opened[f] > 0 => f \in branch \cup deleted
    /\ \A w \in Workers : At(w, "branched") /\ Finding(w) \notin deleted =>
           Finding(w) \in branch /\ opened[Finding(w)] = 0
    /\ \A w, v \in Workers :
           At(w, "branched") /\ At(v, "branched") /\ Finding(w) = Finding(v) =>
               w = v \/ Finding(w) \in deleted
    /\ OnePrPerFinding

LEMMA BranchInit == Init => BranchGuards
BY DEF Init, BranchGuards, OnePrPerFinding, At, Idle

LEMMA BranchStep == TypeOK /\ BranchGuards /\ [Next]_vars => BranchGuards'
<1> SUFFICES ASSUME TypeOK, BranchGuards, [Next]_vars PROVE BranchGuards'
  OBVIOUS
<1> USE DEF BranchGuards, OnePrPerFinding, At, Finding
\* A step that opens, creates and deletes nothing takes no worker to "branched".
<1>0. ASSUME UNCHANGED <<branch, opened, deleted>>,
             \A w \in Workers : work'[w] = work[w] \/ work'[w].step # "branched"
      PROVE  BranchGuards'
  BY <1>0
<1>1. ASSUME NEW f \in Findings, DeleteBranch(f) PROVE BranchGuards'
  BY <1>1 DEF DeleteBranch
<1>2. ASSUME NEW w \in Workers, CreateBranch(w) PROVE BranchGuards'
  <2>1. work[w] \in Work /\ work[w].finding \in Findings
    BY DEF TypeOK, Work
  <2>2. CASE work[w].finding \in branch
    <3>1. \A v \in Workers : work'[v] = work[v] \/ work'[v].step # "branched"
      BY <1>2, <2>2 DEF CreateBranch, Step, TypeOK
    <3> QED BY <1>0, <1>2, <2>2, <3>1 DEF CreateBranch
  <2>3. CASE work[w].finding \notin branch
    <3>1. work'[w].finding = work[w].finding /\ \A v \in Workers \ {w} : work'[v] = work[v]
      BY <1>2, <2>3 DEF CreateBranch, Step, TypeOK
    <3>2. branch' = branch \cup {work[w].finding} /\ UNCHANGED <<opened, deleted>>
      BY <1>2, <2>3 DEF CreateBranch
    <3>3. opened[work[w].finding] \in Nat
      BY <2>1 DEF TypeOK, MaxOpened
    <3> QED BY <2>1, <2>3, <3>1, <3>2, <3>3
  <2> QED BY <2>2, <2>3
<1>3. ASSUME NEW w \in Workers, OpenPr(w) PROVE BranchGuards'
  <2>1. work[w] \in Work /\ work[w].finding \in Findings
    BY DEF TypeOK, Work
  <2>2. CASE ~HostAccepts(work[w].finding)
    <3>1. \A v \in Workers : work'[v] = work[v] \/ work'[v].step # "branched"
      BY <1>3, <2>2 DEF OpenPr, Step, TypeOK
    <3> QED BY <1>0, <1>3, <2>2, <3>1 DEF OpenPr
  <2>3. CASE HostAccepts(work[w].finding)
    <3>1. work'[w].step = "opened" /\ \A v \in Workers \ {w} : work'[v] = work[v]
      BY <1>3, <2>3 DEF OpenPr, Step, TypeOK
    <3>2. /\ \A f \in Findings \ {work[w].finding} : opened'[f] = opened[f]
          /\ opened[work[w].finding] = 0 => opened'[work[w].finding] = 1
          /\ UNCHANGED <<branch, deleted>>
      BY <1>3, <2>1, <2>3 DEF OpenPr, TypeOK, MaxOpened
    <3> DEFINE f == work[w].finding
    <3>3. At(w, "branched")
      BY <1>3 DEF OpenPr
    <3>4. \A g \in Findings : opened'[g] > 0 => g \in branch' \cup deleted'
      BY <2>3, <3>2 DEF HostAccepts
    <3>5. \A v \in Workers : work'[v].step = "branched" /\ work'[v].finding \notin deleted' =>
            work'[v].finding \in branch' /\ opened'[work'[v].finding] = 0
      <4> SUFFICES ASSUME NEW v \in Workers, work'[v].step = "branched",
                          work'[v].finding \notin deleted'
                   PROVE  work'[v].finding \in branch' /\ opened'[work'[v].finding] = 0
        OBVIOUS
      <4>1. v # w /\ work'[v] = work[v]
        BY <3>1
      <4>2. work[v].finding # f
        BY <3>2, <3>3, <4>1
      <4>3. work[v].finding \in Findings
        BY DEF TypeOK, Work
      <4> QED BY <3>2, <4>1, <4>2, <4>3
    <3>6. \A v, u \in Workers :
            work'[v].step = "branched" /\ work'[u].step = "branched"
              /\ work'[v].finding = work'[u].finding => v = u \/ work'[v].finding \in deleted'
      BY <3>1, <3>2
    <3>7. OnePrPerFinding'
      <4>1. f \in deleted \/ opened[f] = 0
        BY <3>3
      <4> QED BY <2>1, <3>2, <4>1
    <3> QED BY <3>4, <3>5, <3>6, <3>7
  <2> QED BY <2>2, <2>3
<1>4. ASSUME NEW w \in Workers, NEW f \in Findings, Gate(w, f) PROVE BranchGuards'
  <2>1. \A v \in Workers : work'[v] = work[v] \/ work'[v].step # "branched"
    BY <1>4 DEF Gate, Step, TypeOK
  <2> QED BY <1>0, <1>4, <2>1 DEF Gate, hostVars
<1>5. ASSUME NEW w \in Workers,
             Refuse(w) \/ RecordRead(w) \/ RecordWrite(w) \/ RecordBlocked(w) \/ Die(w)
      PROVE  BranchGuards'
  <2>1. \A v \in Workers : work'[v] = work[v] \/ work'[v].step # "branched"
    BY <1>5 DEF Refuse, RecordRead, RecordWrite, RecordBlocked, Die, Step, Idle, TypeOK
  <2>2. UNCHANGED hostVars
    BY <1>5 DEF Refuse, RecordRead, RecordWrite, RecordBlocked, Die
  <2> QED BY <1>0, <2>1, <2>2 DEF hostVars
<1>6. ASSUME NEW f \in Findings, Triaged(f) \/ Request(f) \/ Decide(f)
      PROVE  BranchGuards'
  BY <1>0, <1>6 DEF Triaged, Request, Decide, hostVars
<1>r. ASSUME NEW r \in Reconcilers, ReconStep(r) PROVE BranchGuards'
  <2>1. UNCHANGED <<work, branch, opened, deleted>>
    BY <1>r, ReconEffect
  <2> QED BY <1>0, <2>1
<1>7. CASE SweepStep
  BY <1>0, <1>7 DEF SweepStep, SweepStart, SweepEnd, SweepDies, SweepRead, SweepSkip,
                    SweepMark, hostVars
<1>8. CASE UNCHANGED vars
  BY <1>0, <1>8 DEF vars, hostVars
<1> QED
  BY <1>1, <1>2, <1>3, <1>4, <1>5, <1>6, <1>r, <1>7, <1>8 DEF Next, WorkerStep

\* Whatever dies, is redelivered or is asked for again, a finding gets a second
\* pull request only after somebody deleted its branch.
THEOREM OnePr == Spec => []OnePrPerFinding
<1>1. Spec => []BranchGuards
  BY TypeInit, TypeStep, BranchInit, BranchStep, PTL DEF Spec
<1>2. BranchGuards => OnePrPerFinding
  BY DEF BranchGuards
<1> QED BY <1>1, <1>2, PTL

-----------------------------------------------------------------------------
(* Records are kept.  A worker about to record over a card that carries a    *)
(* pull request already holds a second one.                                  *)

Holding(w) == work[w].step \in {"opened", "recording"}

RecordGuards ==
    /\ \A f \in Findings : /\ card[f].url => opened[f] > 0
                           /\ card[f].closed => card[f].url
                           /\ sweep.seen[f] # NewCard => card[f].url
    /\ \A w \in Workers : Holding(w) =>
           /\ opened[Finding(w)] > 0
           /\ card[Finding(w)].url => opened[Finding(w)] > 1
    /\ \A w, v \in Workers : Holding(w) /\ Holding(v) /\ Finding(w) = Finding(v) =>
           w = v \/ opened[Finding(w)] > 1

LEMMA RecordInit == Init => RecordGuards
BY DEF Init, RecordGuards, Holding, Idle, NewCard, NoSweep, NothingSeen

\* What a step does to the record on one card, the marking and recording aside.
SameRecord(f) == card'[f].url = card[f].url /\ card'[f].closed = card[f].closed

LEMMA RecordStep == TypeOK /\ RecordGuards /\ [Next]_vars => RecordGuards'
<1> SUFFICES ASSUME TypeOK, RecordGuards, [Next]_vars PROVE RecordGuards'
  OBVIOUS
<1> USE DEF RecordGuards, Holding, Finding
<1>t. /\ \A f \in Findings : card[f] \in Meta /\ opened[f] \in 0..2 /\ sweep.seen[f] \in Meta
      /\ \A w \in Workers : work[w] \in Work /\ work[w].finding \in Findings
  BY DEF TypeOK, MaxOpened, SweepState, Work
\* A worker that stays where it is, or leaves, disturbs nothing.
<1>0. ASSUME \A f \in Findings : SameRecord(f), UNCHANGED opened,
             \A f \in Findings : sweep'.seen[f] = sweep.seen[f] \/ sweep'.seen[f] = NewCard
                                 \/ card[f].url,
             \A w \in Workers : \/ work'[w].step \notin {"opened", "recording"}
                                \/ /\ Holding(w)
                                   /\ work'[w].finding = work[w].finding
      PROVE  RecordGuards'
  BY <1>0, <1>t DEF SameRecord
<1>1. ASSUME NEW w \in Workers, OpenPr(w) PROVE RecordGuards'
  <2> DEFINE f == work[w].finding
  <2>1. CASE ~HostAccepts(f)
    <3>1. \A v \in Workers : work'[v] = work[v] \/ work'[v].step = "refused"
      BY <1>1, <2>1 DEF OpenPr, Step, TypeOK
    <3>2. UNCHANGED <<card, sweep, opened>>
      BY <1>1, <2>1 DEF OpenPr
    <3> QED BY <1>0, <3>1, <3>2 DEF SameRecord
  <2>2. CASE HostAccepts(f)
    <3>1. /\ work'[w].finding = f
          /\ \A v \in Workers \ {w} : work'[v] = work[v]
      BY <1>1, <2>2 DEF OpenPr, Step, TypeOK
    <3>2. /\ \A g \in Findings \ {f} : opened'[g] = opened[g]
          /\ opened'[f] > 0
          /\ opened[f] > 0 => opened'[f] > 1
          /\ UNCHANGED <<card, sweep>>
      BY <1>1, <1>t, <2>2 DEF OpenPr, TypeOK, MaxOpened
    <3>3. ~Holding(w)
      BY <1>1 DEF OpenPr, At
    <3>4. \A g \in Findings : opened[g] > 0 => opened'[g] > 0
      BY <3>2
    <3>5. \A g \in Findings : opened[g] > 1 => opened'[g] > 1
      BY <1>t, <3>2
    <3>6. \A v \in Workers : work'[v].step \in {"opened", "recording"} =>
            /\ opened'[work'[v].finding] > 0
            /\ card[work'[v].finding].url => opened'[work'[v].finding] > 1
      BY <1>t, <3>1, <3>2, <3>4, <3>5
    <3>7. \A v, u \in Workers :
            work'[v].step \in {"opened", "recording"} /\ work'[u].step \in {"opened", "recording"}
              /\ work'[v].finding = work'[u].finding => v = u \/ opened'[work'[v].finding] > 1
      BY <1>t, <3>1, <3>2, <3>5
    <3> QED BY <3>2, <3>4, <3>6, <3>7
  <2> QED BY <2>1, <2>2
<1>2. ASSUME NEW w \in Workers, RecordWrite(w) PROVE RecordGuards'
  <2> DEFINE f == work[w].finding
  <2>1. /\ card'[f].url
        /\ \A g \in Findings \ {f} : card'[g] = card[g]
        /\ UNCHANGED <<sweep, opened>>
        /\ Holding(w)
    BY <1>2, <1>t DEF RecordWrite, TypeOK, hostVars, At
  <2>2. work'[w].step = "idle" /\ \A v \in Workers \ {w} : work'[v] = work[v]
    BY <1>2 DEF RecordWrite, Idle, TypeOK
  <2>3. \A v \in Workers \ {w} : Holding(v) /\ work[v].finding = f => opened[f] > 1
    BY <2>1
  <2> QED BY <1>t, <2>1, <2>2, <2>3
<1>3. ASSUME NEW w \in Workers, NEW f \in Findings, Gate(w, f) PROVE RecordGuards'
  <2>1. \A v \in Workers : work'[v] = work[v] \/ work'[v].step \in {"gated", "refused"}
    BY <1>3 DEF Gate, Step, TypeOK
  <2> QED BY <1>0, <1>3, <2>1 DEF Gate, hostVars, SameRecord
<1>4. ASSUME NEW w \in Workers, Refuse(w) \/ CreateBranch(w) \/ Die(w) PROVE RecordGuards'
  <2>1. \A v \in Workers :
          work'[v] = work[v] \/ work'[v].step \in {"refused", "branched", "idle"}
    BY <1>4 DEF Refuse, CreateBranch, Die, Step, Idle, TypeOK
  <2> QED BY <1>0, <1>4, <2>1 DEF Refuse, CreateBranch, Die, hostVars, SameRecord
<1>5. ASSUME NEW w \in Workers, RecordRead(w) PROVE RecordGuards'
  <2>1. \A v \in Workers : \/ work'[v] = work[v] \/ work'[v].step = "idle"
                           \/ v = w /\ work'[v].finding = work[v].finding
    BY <1>5 DEF RecordRead, Step, Idle, TypeOK, Finding
  <2> QED BY <1>0, <1>5, <2>1 DEF RecordRead, At, hostVars, SameRecord
<1>6. ASSUME NEW w \in Workers, RecordBlocked(w) PROVE RecordGuards'
  <2>1. \A v \in Workers : work'[v] = work[v] \/ work'[v].step = "idle"
    BY <1>6 DEF RecordBlocked, Idle, TypeOK
  <2>2. \A g \in Findings : SameRecord(g)
    BY <1>6, <1>t DEF RecordBlocked, SameRecord, TypeOK, Meta
  <2> QED BY <1>0, <1>6, <2>1, <2>2 DEF RecordBlocked, hostVars
<1>7. ASSUME NEW f \in Findings,
             Triaged(f) \/ Request(f) \/ Decide(f) \/ DeleteBranch(f)
      PROVE  RecordGuards'
  <2>1. \A g \in Findings : SameRecord(g)
    BY <1>7, <1>t DEF Triaged, Request, Decide, DeleteBranch, SameRecord, TypeOK, Meta
  <2> QED BY <1>0, <1>7, <2>1 DEF Triaged, Request, Decide, DeleteBranch, hostVars
<1>r. ASSUME NEW r \in Reconcilers, ReconStep(r) PROVE RecordGuards'
  <2>1. /\ UNCHANGED <<work, sweep, opened>>
        /\ \A g \in Findings : SameRecord(g)
    BY <1>r, ReconEffect DEF SameRecord
  <2> QED BY <1>0, <2>1
<1>8. CASE SweepStep
  <2> USE DEF Sweep
  <2>0. \A g \in Findings : NothingSeen[g] = NewCard
    BY DEF NothingSeen
  <2>1. CASE SweepStart
    <3>1. \A g \in Findings : sweep'.seen[g] = NewCard
      BY <2>0, <2>1 DEF SweepStart
    <3> QED BY <1>0, <2>1, <3>1 DEF SweepStart, hostVars, SameRecord
  <2>2. CASE SweepEnd \/ SweepDies
    <3>1. \A g \in Findings : sweep'.seen[g] = NewCard
      BY <2>0, <2>2 DEF SweepEnd, SweepDies, NoSweep
    <3> QED BY <1>0, <2>2, <3>1 DEF SweepEnd, SweepDies, hostVars, SameRecord
  <2>3. ASSUME NEW f \in Findings, SweepRead(f) PROVE RecordGuards'
    <3>1. \A g \in Findings : sweep'.seen[g] = NewCard \/ card[g].url
      BY <2>0, <2>3 DEF SweepRead, NothingSeen
    <3> QED BY <1>0, <2>3, <3>1 DEF SweepRead, hostVars, SameRecord
  <2>4. ASSUME NEW f \in Findings, SweepSkip(f) PROVE RecordGuards'
    BY <1>0, <2>4 DEF SweepSkip, hostVars, SameRecord
  <2>5. ASSUME NEW f \in Findings, SweepMark(f) PROVE RecordGuards'
    <3>1. /\ card[f].url /\ card'[f].url
          /\ \A g \in Findings \ {f} : card'[g] = card[g]
          /\ UNCHANGED <<work, opened>>
      BY <2>5 DEF SweepMark, hostVars, TypeOK
    <3>2. \A g \in Findings : sweep'.seen[g] = NewCard
      BY <2>0, <2>5 DEF SweepMark
    <3> QED BY <1>t, <3>1, <3>2
  <2> QED BY <1>8, <2>1, <2>2, <2>3, <2>4, <2>5 DEF SweepStep
<1>9. CASE UNCHANGED vars
  BY <1>0, <1>9 DEF vars, hostVars, SameRecord
<1> QED
  BY <1>1, <1>2, <1>3, <1>4, <1>5, <1>6, <1>7, <1>r, <1>8, <1>9 DEF Next, WorkerStep

Kept(f) == card[f].url =>
               card'[f].url /\ (card[f].closed => card'[f].closed \/ opened[f] > 1)

LEMMA KeptStep == TypeOK /\ RecordGuards /\ [Next]_vars => \A f \in Findings : Kept(f)
<1> SUFFICES ASSUME TypeOK, RecordGuards, [Next]_vars, NEW f \in Findings PROVE Kept(f)
  OBVIOUS
<1>t. card[f] \in Meta
  BY DEF TypeOK
<1>1. ASSUME SameRecord(f) PROVE Kept(f)
  BY <1>1 DEF SameRecord, Kept
<1>2. ASSUME NEW w \in Workers, RecordWrite(w) PROVE Kept(f)
  <2>1. card[f].closed /\ work[w].finding = f => opened[f] > 1
    BY <1>2 DEF RecordGuards, RecordWrite, Holding, At, Finding
  <2>2. IF work[w].finding = f THEN card'[f].url ELSE card'[f] = card[f]
    BY <1>2 DEF RecordWrite, TypeOK, Finding
  <2> QED BY <2>1, <2>2 DEF Kept
<1>3. ASSUME NEW g \in Findings, SweepMark(g) PROVE Kept(f)
  <2>1. IF f = g THEN card'[f].url /\ card'[f].closed ELSE card'[f] = card[f]
    BY <1>3 DEF SweepMark, TypeOK
  <2> QED BY <2>1 DEF Kept
<1>4. ASSUME NEW w \in Workers, RecordBlocked(w) PROVE SameRecord(f)
  BY <1>t, <1>4 DEF RecordBlocked, SameRecord, TypeOK, Meta
<1>5. ASSUME NEW g \in Findings, Triaged(g) PROVE SameRecord(f)
  BY <1>t, <1>5 DEF Triaged, SameRecord, TypeOK, Meta
<1>r. ASSUME NEW r \in Reconcilers, ReconStep(r) PROVE SameRecord(f)
  BY <1>r, ReconEffect DEF SameRecord
<1>6. ASSUME UNCHANGED card PROVE SameRecord(f)
  BY <1>6 DEF SameRecord
<1>7. \/ UNCHANGED card
      \/ \E w \in Workers : RecordWrite(w) \/ RecordBlocked(w)
      \/ \E g \in Findings : Triaged(g) \/ SweepMark(g)
      \/ \E r \in Reconcilers : ReconStep(r)
  BY DEF Next, vars, WorkerStep, SweepStep, Request, Decide, DeleteBranch, Gate, Refuse,
         CreateBranch, OpenPr, RecordRead, Die, SweepStart, SweepEnd, SweepDies, SweepRead,
         SweepSkip
<1> QED
  BY <1>1, <1>2, <1>3, <1>4, <1>5, <1>r, <1>6, <1>7

\* A recorded pull request is never lost, and a rejected one is un-rejected only by
\* the record of a second pull request of the same finding.
THEOREM RecordsStay == Spec => RecordsAreKept
<1>1. Spec => [](TypeOK /\ RecordGuards)
  BY TypeInit, TypeStep, RecordInit, RecordStep, PTL DEF Spec
<1>2. TypeOK /\ RecordGuards /\ [Next]_vars =>
        [\A f \in Findings : card[f].url =>
          card'[f].url /\ (card[f].closed => card'[f].closed \/ opened[f] > 1)]_vars
  BY KeptStep DEF Kept
<1> QED BY <1>1, <1>2, PTL DEF Spec, RecordsAreKept

-----------------------------------------------------------------------------
(* Blocked and opened at once.  A sweep that is to write a refusal back read *)
(* it from the card, where it still stands unless a second pull request's    *)
(* record cleared it meanwhile.                                              *)

RefusalGuard ==
    \A f \in Findings :
        sweep.seen[f] # NewCard /\ sweep.seen[f].blocked => card[f].blocked \/ opened[f] > 1

LEMMA RefusalInit == Init => RefusalGuard
BY DEF Init, RefusalGuard, NoSweep, NothingSeen

LEMMA RefusalStep == TypeOK /\ RecordGuards /\ RefusalGuard /\ [Next]_vars => RefusalGuard'
<1> SUFFICES ASSUME TypeOK, RecordGuards, RefusalGuard, [Next]_vars, NEW f \in Findings,
                    sweep'.seen[f] # NewCard, sweep'.seen[f].blocked
             PROVE  card'[f].blocked \/ opened'[f] > 1
  BY DEF RefusalGuard
<1> USE DEF RefusalGuard
<1>t. card[f] \in Meta /\ opened[f] \in 0..2 /\ NothingSeen[f] = NewCard
  BY DEF TypeOK, MaxOpened, NothingSeen
<1>0. ASSUME sweep'.seen[f] = sweep.seen[f], card[f].blocked => card'[f].blocked,
             opened[f] > 1 => opened'[f] > 1
      PROVE  card'[f].blocked \/ opened'[f] > 1
  BY <1>0
<1>1. ASSUME NEW w \in Workers, OpenPr(w) PROVE card'[f].blocked \/ opened'[f] > 1
  <2>1. UNCHANGED <<card, sweep>>
    BY <1>1 DEF OpenPr
  <2>2. opened[f] > 1 => opened'[f] > 1
    BY <1>1, <1>t DEF OpenPr, TypeOK, MaxOpened
  <2> QED BY <1>0, <2>1, <2>2
<1>2. ASSUME NEW w \in Workers, RecordWrite(w) PROVE card'[f].blocked \/ opened'[f] > 1
  <2>1. UNCHANGED <<sweep, opened>>
    BY <1>2 DEF RecordWrite, hostVars
  <2>2. CASE Finding(w) = f
    <3>1. card[f].url
      BY <2>1 DEF RecordGuards
    <3>2. opened[f] > 1
      BY <1>2, <2>2, <3>1 DEF RecordGuards, RecordWrite, Holding, At
    <3> QED BY <2>1, <3>2
  <2>3. CASE Finding(w) # f
    BY <1>0, <1>2, <2>1, <2>3 DEF RecordWrite, TypeOK
  <2> QED BY <2>2, <2>3
<1>3. ASSUME NEW w \in Workers, RecordBlocked(w) PROVE card'[f].blocked \/ opened'[f] > 1
  BY <1>0, <1>3, <1>t DEF RecordBlocked, hostVars, TypeOK, Meta
<1>4. ASSUME NEW w \in Workers, WorkerStep(w), UNCHANGED card, ~OpenPr(w)
      PROVE  card'[f].blocked \/ opened'[f] > 1
  BY <1>0, <1>4 DEF WorkerStep, Gate, Refuse, CreateBranch, RecordRead, RecordWrite,
                    RecordBlocked, Die, hostVars
<1>5. ASSUME NEW g \in Findings,
             Triaged(g) \/ Request(g) \/ Decide(g) \/ DeleteBranch(g)
      PROVE  card'[f].blocked \/ opened'[f] > 1
  <2>1. card[f].blocked => card'[f].blocked
    BY <1>5, <1>t DEF Triaged, Request, Decide, DeleteBranch, TypeOK, Meta
  <2> QED BY <1>0, <1>5, <2>1 DEF Triaged, Request, Decide, DeleteBranch, hostVars
<1>r. ASSUME NEW r \in Reconcilers, ReconStep(r) PROVE card'[f].blocked \/ opened'[f] > 1
  BY <1>0, <1>r, ReconEffect
<1>6. CASE SweepStep
  <2>1. CASE SweepStart \/ SweepEnd \/ SweepDies
    BY <1>t, <2>1 DEF SweepStart, SweepEnd, SweepDies, Sweep, NoSweep
  <2>2. ASSUME NEW g \in Findings, SweepRead(g) PROVE card'[f].blocked \/ opened'[f] > 1
    <3>1. UNCHANGED card /\ sweep'.seen = [NothingSeen EXCEPT ![g] = card[g]]
      BY <2>2 DEF SweepRead, Sweep
    <3>2. sweep'.seen[f] = card[f]
      BY <1>t, <3>1 DEF NothingSeen
    <3> QED BY <3>1, <3>2
  <2>3. ASSUME NEW g \in Findings, SweepSkip(g) PROVE card'[f].blocked \/ opened'[f] > 1
    BY <1>0, <2>3 DEF SweepSkip, Sweep, hostVars
  <2>4. ASSUME NEW g \in Findings, SweepMark(g) PROVE card'[f].blocked \/ opened'[f] > 1
    BY <1>t, <2>4 DEF SweepMark, Sweep
  <2> QED BY <1>6, <2>1, <2>2, <2>3, <2>4 DEF SweepStep
<1>7. CASE UNCHANGED vars
  BY <1>0, <1>7 DEF vars, hostVars
<1>8. \A w \in Workers : WorkerStep(w) =>
        OpenPr(w) \/ RecordWrite(w) \/ RecordBlocked(w) \/ UNCHANGED card
  BY DEF WorkerStep, Gate, Refuse, CreateBranch, RecordRead, Die
<1> QED
  BY <1>1, <1>2, <1>3, <1>4, <1>5, <1>r, <1>6, <1>7, <1>8 DEF Next

BlockedLate(f) ==
    card'[f].url /\ card'[f].blocked /\ ~(card[f].url /\ card[f].blocked) =>
        /\ card[f].url
        /\ \/ \E w \in Workers : At(w, "refused") /\ Finding(w) = f
           \/ opened[f] > 1

LEMMA BlockedStep ==
    TypeOK /\ RecordGuards /\ RefusalGuard /\ [Next]_vars => \A f \in Findings : BlockedLate(f)
<1> SUFFICES ASSUME TypeOK, RecordGuards, RefusalGuard, [Next]_vars, NEW f \in Findings
             PROVE  BlockedLate(f)
  OBVIOUS
<1> USE DEF BlockedLate
<1>t. card[f] \in Meta
  BY DEF TypeOK
<1>1. ASSUME NEW w \in Workers, RecordWrite(w) PROVE BlockedLate(f)
  BY <1>1 DEF RecordWrite, TypeOK
<1>2. ASSUME NEW w \in Workers, RecordBlocked(w) PROVE BlockedLate(f)
  BY <1>2, <1>t DEF RecordBlocked, TypeOK, Meta
<1>3. ASSUME NEW g \in Findings, SweepMark(g) PROVE BlockedLate(f)
  <2>1. CASE f = g
    BY <1>3, <2>1 DEF SweepMark, RecordGuards, RefusalGuard, TypeOK
  <2>2. CASE f # g
    BY <1>3, <2>2 DEF SweepMark, TypeOK
  <2> QED BY <2>1, <2>2
<1>4. ASSUME NEW g \in Findings, Triaged(g) PROVE BlockedLate(f)
  BY <1>4, <1>t DEF Triaged, TypeOK, Meta
<1>r. ASSUME NEW r \in Reconcilers, ReconStep(r) PROVE BlockedLate(f)
  BY <1>r, ReconEffect
<1>5. ASSUME UNCHANGED card PROVE BlockedLate(f)
  BY <1>5
<1>6. \/ UNCHANGED card
      \/ \E w \in Workers : RecordWrite(w) \/ RecordBlocked(w)
      \/ \E g \in Findings : Triaged(g) \/ SweepMark(g)
      \/ \E r \in Reconcilers : ReconStep(r)
  BY DEF Next, vars, WorkerStep, SweepStep, Request, Decide, DeleteBranch, Gate, Refuse,
         CreateBranch, OpenPr, RecordRead, Die, SweepStart, SweepEnd, SweepDies, SweepRead,
         SweepSkip
<1> QED
  BY <1>1, <1>2, <1>3, <1>4, <1>r, <1>5, <1>6

\* A card comes to read blocked and opened at once only by a refusal that lands on
\* the record of another attempt, or after a second pull request of the finding.
THEOREM BlockedOnlyLate == Spec => OnlyLateRefusalBlocks
<1>1. Spec => [](TypeOK /\ RecordGuards /\ RefusalGuard)
  BY TypeInit, TypeStep, RecordInit, RecordStep, RefusalInit, RefusalStep, PTL DEF Spec
<1>2. TypeOK /\ RecordGuards /\ RefusalGuard /\ [Next]_vars =>
        [\A f \in Findings :
          card'[f].url /\ card'[f].blocked /\ ~(card[f].url /\ card[f].blocked) =>
            /\ card[f].url
            /\ \/ \E w \in Workers : At(w, "refused") /\ Finding(w) = f
               \/ opened[f] > 1]_vars
  BY BlockedStep DEF BlockedLate
<1> QED BY <1>1, <1>2, PTL DEF Spec, OnlyLateRefusalBlocks

-----------------------------------------------------------------------------
(* One rescan for a resolution.  A finding somebody owes a rescan, or has    *)
(* requested one for, is resolved and stays so: what could put it back is a  *)
(* stale write by a worker or the sweep, and those need a second pull        *)
(* request, because a pull request that was closed does not merge.           *)

Settled(f) == card[f].triage = "resolved"
Asked(f) == f \in verified \cup missed

RescanGuards ==
    /\ \A f \in Findings :
          /\ Settled(f) => card[f].url
          /\ sweep.seen[f] # NewCard =>
                \/ opened[f] > 1
                \/ pr[f] = "closed" /\ (Settled(f) => sweep.seen[f].triage = "resolved")
          /\ Asked(f) => Settled(f) \/ opened[f] > 1
    /\ \A r \in Reconcilers :
          /\ \A f \in recon[r].todo : card[f].url
          /\ \A f \in recon[r].owed : Settled(f) \/ opened[f] > 1
    /\ OneRescanPerResolution

LEMMA RescanInit == Init => RescanGuards
BY DEF Init, RescanGuards, Settled, Asked, OneRescanPerResolution, NewCard, NoSweep,
       NothingSeen, NoRecon

LEMMA RescanStep == TypeOK /\ RecordGuards /\ RescanGuards /\ [Next]_vars => RescanGuards'
<1> SUFFICES ASSUME TypeOK, RecordGuards, RescanGuards, [Next]_vars PROVE RescanGuards'
  OBVIOUS
<1> USE DEF RescanGuards, Settled, Asked, OneRescanPerResolution
<1>t. /\ \A f \in Findings : /\ card[f] \in Meta /\ opened[f] \in 0..2
                              /\ NothingSeen[f] = NewCard
      /\ \A w \in Workers : work[w] \in Work /\ work[w].finding \in Findings
      /\ \A r \in Reconcilers : /\ recon[r].todo \subseteq Findings
                                 /\ recon[r].owed \subseteq Findings
  BY DEF TypeOK, MaxOpened, NothingSeen, Work, Recon
\* A step outside the reconciler that keeps the resolutions it does not outdate.
<1>0. ASSUME UNCHANGED <<recon, verified, missed>>,
             \A f \in Findings :
               /\ card[f].url => card'[f].url
               /\ Settled(f)' => Settled(f)
               /\ Settled(f) => Settled(f)' \/ opened'[f] > 1
               /\ opened[f] > 1 => opened'[f] > 1
               /\ sweep'.seen[f] # NewCard =>
                     \/ opened'[f] > 1
                     \/ pr'[f] = "closed" /\ (Settled(f)' => sweep'.seen[f].triage = "resolved")
      PROVE  RescanGuards'
  BY <1>0, <1>t
<1>1. ASSUME NEW w \in Workers, OpenPr(w) PROVE RescanGuards'
  <2> DEFINE f == work[w].finding
  <2>1. UNCHANGED <<card, sweep, recon, verified, missed>>
    BY <1>1 DEF OpenPr, reconVars
  <2>2. CASE ~HostAccepts(f)
    <3>1. UNCHANGED <<pr, opened>>
      BY <1>1, <2>2 DEF OpenPr, Finding
    <3> QED BY <1>0, <2>1, <3>1
  <2>3. CASE HostAccepts(f)
    <3>1. /\ \A g \in Findings \ {f} : opened'[g] = opened[g] /\ pr'[g] = pr[g]
          /\ opened[f] > 0 => opened'[f] > 1
      BY <1>1, <1>t, <2>3 DEF OpenPr, Finding, TypeOK, MaxOpened
    <3>2. sweep.seen[f] # NewCard => opened'[f] > 1
      BY <1>t, <3>1 DEF RecordGuards
    <3>3. opened[f] > 1 => opened'[f] > 1
      BY <1>t, <3>1
    <3> QED BY <1>0, <2>1, <3>1, <3>2, <3>3
  <2> QED BY <2>2, <2>3
<1>2. ASSUME NEW w \in Workers, RecordWrite(w) PROVE RescanGuards'
  <2> DEFINE f == work[w].finding
  <2>1. UNCHANGED <<sweep, recon, verified, missed, pr, opened>>
    BY <1>2 DEF RecordWrite, reconVars, hostVars
  <2>2. card'[f].url /\ \A g \in Findings \ {f} : card'[g] = card[g]
    BY <1>2, <1>t DEF RecordWrite, TypeOK, Finding
  <2>3. card[f].url => opened[f] > 1
    BY <1>2 DEF RecordGuards, RecordWrite, Holding, At, Finding
  <2>4. \A g \in Findings :
          /\ Settled(g)' => card'[g].url
          /\ Settled(g) => Settled(g)' \/ opened'[g] > 1
          /\ card[g].url => card'[g].url
    BY <1>t, <2>1, <2>2, <2>3
  <2>5. \A g \in Findings : sweep'.seen[g] # NewCard =>
          \/ opened'[g] > 1
          \/ pr'[g] = "closed" /\ (Settled(g)' => sweep'.seen[g].triage = "resolved")
    <3>1. sweep.seen[f] # NewCard => opened[f] > 1
      BY <1>t, <2>3 DEF RecordGuards
    <3> QED BY <1>t, <2>1, <2>2, <3>1
  <2> QED BY <1>t, <2>1, <2>4, <2>5
<1>3. ASSUME NEW w \in Workers, RecordBlocked(w) PROVE RescanGuards'
  <2>1. \A g \in Findings : card'[g].url = card[g].url /\ card'[g].triage = card[g].triage
    BY <1>3, <1>t DEF RecordBlocked, TypeOK, Meta
  <2> QED BY <1>0, <1>3, <2>1 DEF RecordBlocked, reconVars, hostVars
<1>4. ASSUME NEW w \in Workers, WorkerStep(w), UNCHANGED card, ~OpenPr(w) PROVE RescanGuards'
  <2>1. UNCHANGED <<sweep, recon, verified, missed, pr, opened>>
    BY <1>4 DEF WorkerStep, Gate, Refuse, CreateBranch, RecordRead, RecordWrite,
                RecordBlocked, Die, hostVars, reconVars
  <2> QED BY <1>0, <1>4, <2>1
<1>5. ASSUME NEW g \in Findings, Triaged(g) PROVE RescanGuards'
  <2>1. \A f \in Findings : /\ card'[f].url = card[f].url
                            /\ Settled(f)' <=> Settled(f)
    BY <1>5, <1>t DEF Triaged, TypeOK, Meta
  <2> QED BY <1>0, <1>5, <2>1 DEF Triaged, reconVars, hostVars
<1>6. ASSUME NEW g \in Findings, Request(g) \/ DeleteBranch(g) PROVE RescanGuards'
  BY <1>0, <1>6 DEF Request, DeleteBranch, reconVars, hostVars
<1>7. ASSUME NEW g \in Findings, Decide(g) PROVE RescanGuards'
  <2>1. pr[g] = "open" /\ \A f \in Findings \ {g} : pr'[f] = pr[f]
    BY <1>7 DEF Decide, Merge, Close, TypeOK
  <2>2. UNCHANGED <<card, sweep, recon, verified, missed, opened>>
    BY <1>7 DEF Decide, reconVars
  <2> QED BY <1>0, <2>1, <2>2
<1>8. CASE SweepStep
  <2>1. CASE SweepStart \/ SweepEnd \/ SweepDies
    BY <1>0, <1>t, <2>1 DEF SweepStart, SweepEnd, SweepDies, Sweep, NoSweep, reconVars, hostVars
  <2>2. ASSUME NEW g \in Findings, SweepRead(g) PROVE RescanGuards'
    <3>1. /\ UNCHANGED <<card, recon, verified, missed, pr, opened>> /\ pr[g] = "closed"
          /\ sweep'.seen = [NothingSeen EXCEPT ![g] = card[g]]
      BY <2>2 DEF SweepRead, Sweep, reconVars, hostVars
    <3>2. /\ sweep'.seen[g] = card[g]
          /\ \A f \in Findings \ {g} : sweep'.seen[f] = NewCard
      BY <1>t, <3>1 DEF NothingSeen
    <3> QED BY <1>0, <3>1, <3>2
  <2>3. ASSUME NEW g \in Findings, SweepSkip(g) PROVE RescanGuards'
    BY <1>0, <2>3 DEF SweepSkip, Sweep, reconVars, hostVars
  <2>4. ASSUME NEW g \in Findings, SweepMark(g) PROVE RescanGuards'
    <3>1. /\ UNCHANGED <<recon, verified, missed, opened>>
          /\ \A f \in Findings : sweep'.seen[f] = NewCard
      BY <1>t, <2>4 DEF SweepMark, Sweep, reconVars, hostVars
    <3>2. /\ card'[g].url /\ card'[g].triage = sweep.seen[g].triage
          /\ \A f \in Findings \ {g} : card'[f] = card[f]
      BY <2>4 DEF SweepMark, TypeOK
    <3>3. Settled(g) => Settled(g)' \/ opened'[g] > 1
      BY <2>4, <3>1, <3>2 DEF SweepMark
    <3> QED BY <1>t, <3>1, <3>2, <3>3
  <2> QED BY <1>8, <2>1, <2>2, <2>3, <2>4 DEF SweepStep
<1>r. ASSUME NEW r \in Reconcilers, ReconStep(r) PROVE RescanGuards'
  <2>1. /\ UNCHANGED <<sweep, pr, opened>>
        /\ \A g \in Findings :
              /\ card'[g].url = card[g].url
              /\ card'[g].triage = card[g].triage
                 \/ (Settled(g)' /\ pr[g] = "merged" /\ g \in recon[r].todo)
    BY <1>r, ReconEffect
  <2>2. \A g \in Findings :
          /\ Settled(g)' => card'[g].url
          /\ Settled(g) => Settled(g)'
          /\ sweep'.seen[g] # NewCard =>
                \/ opened'[g] > 1
                \/ pr'[g] = "closed" /\ (Settled(g)' => sweep'.seen[g].triage = "resolved")
    BY <2>1
  \* The reconciler's own loop: what it takes over and what it adds.
  <2>3. ASSUME NEW todo \in SUBSET Findings, NEW owed \in SUBSET Findings,
               recon' = [recon EXCEPT ![r] = [step |-> "looping", todo |-> todo, owed |-> owed]],
               UNCHANGED <<verified, missed>>,
               \A f \in todo : card'[f].url,
               \A f \in owed \ recon[r].owed : ~Settled(f) /\ Settled(f)'
        PROVE  RescanGuards'
    <3>1. /\ recon'[r].todo = todo /\ recon'[r].owed = owed
          /\ \A q \in Reconcilers \ {r} : recon'[q] = recon[q]
      BY <2>3 DEF TypeOK
    <3>2. \A q \in Reconcilers :
            /\ \A f \in recon'[q].todo : card'[f].url
            /\ \A f \in recon'[q].owed : Settled(f)' \/ opened'[f] > 1
      BY <1>t, <2>1, <2>2, <2>3, <3>1
    <3>3. OneRescanPerResolution'
      BY <1>t, <2>1, <2>3, <3>1
    <3> QED BY <2>1, <2>2, <2>3, <3>2, <3>3
  \* It stops, and what it owed is requested or lost.
  <2>4. ASSUME recon' = [recon EXCEPT ![r] = NoRecon], UNCHANGED card,
               verified' \cup missed' = verified \cup missed \cup recon[r].owed
        PROVE  RescanGuards'
    <3>1. /\ recon'[r].todo = {} /\ recon'[r].owed = {}
          /\ \A q \in Reconcilers \ {r} : recon'[q] = recon[q]
      BY <2>4 DEF TypeOK, NoRecon
    <3>2. \A f \in Findings : Asked(f)' => Settled(f)' \/ opened'[f] > 1
      BY <2>1, <2>4
    <3>3. OneRescanPerResolution'
      BY <1>t, <2>1, <2>4, <3>1
    <3>4. \A q \in Reconcilers :
            /\ \A f \in recon'[q].todo : card'[f].url
            /\ \A f \in recon'[q].owed : Settled(f)' \/ opened'[f] > 1
      BY <1>t, <2>1, <2>4, <3>1
    <3> QED BY <2>1, <2>2, <3>2, <3>3, <3>4
  <2>5. CASE ReconStart(r)
    <3>1. Candidates \in SUBSET Findings /\ \A g \in Candidates : card'[g].url
      BY <2>1 DEF Candidates
    <3>2. /\ recon' = [recon EXCEPT ![r] =
                         [step |-> "looping", todo |-> Candidates, owed |-> {}]]
          /\ UNCHANGED <<verified, missed>>
      BY <2>5 DEF ReconStart, Looping
    <3>3. {} \in SUBSET Findings /\ \A g \in {} \ recon[r].owed : ~Settled(g) /\ Settled(g)'
      OBVIOUS
    <3> QED BY <2>3, <3>1, <3>2, <3>3
  <2>6. CASE ReconEnd(r) \/ ReconDies(r)
    BY <2>4, <2>6 DEF ReconEnd, ReconDies
  <2>7. ASSUME NEW f \in Findings, ReconSkip(r, f) PROVE RescanGuards'
    <3>1. recon[r].todo \ {f} \in SUBSET Findings
          /\ \A g \in recon[r].todo \ {f} : card'[g].url
      BY <1>t, <2>1
    <3>2. /\ recon' = [recon EXCEPT ![r] = [step |-> "looping",
                         todo |-> recon[r].todo \ {f}, owed |-> recon[r].owed]]
          /\ UNCHANGED <<verified, missed>>
      BY <2>7 DEF ReconSkip, Looping
    <3>3. recon[r].owed \in SUBSET Findings
          /\ \A g \in recon[r].owed \ recon[r].owed : ~Settled(g) /\ Settled(g)'
      BY <1>t
    <3> QED BY <2>3, <3>1, <3>2, <3>3
  <2>8. ASSUME NEW f \in Findings, Reconcile(r, f) PROVE RescanGuards'
    <3> DEFINE owed == recon[r].owed \cup {g \in {f} : card[g].triage # "resolved"}
    <3>1. Settled(f)'
      BY <2>8 DEF Reconcile, TypeOK
    <3>2. owed \in SUBSET Findings /\ \A g \in owed \ recon[r].owed : ~Settled(g) /\ Settled(g)'
      BY <1>t, <3>1
    <3>3. /\ recon' = [recon EXCEPT ![r] =
                         [step |-> "looping", todo |-> recon[r].todo \ {f}, owed |-> owed]]
          /\ UNCHANGED <<verified, missed>>
      BY <2>8 DEF Reconcile, Looping
    <3>4. recon[r].todo \ {f} \in SUBSET Findings
          /\ \A g \in recon[r].todo \ {f} : card'[g].url
      BY <1>t, <2>1
    <3> HIDE DEF owed
    <3> QED BY <2>3, <3>2, <3>3, <3>4
  <2> QED BY <1>r, <2>5, <2>6, <2>7, <2>8 DEF ReconStep
<1>9. CASE UNCHANGED vars
  BY <1>0, <1>9 DEF vars, hostVars, reconVars
<1>10. \A w \in Workers : WorkerStep(w) =>
        OpenPr(w) \/ RecordWrite(w) \/ RecordBlocked(w) \/ UNCHANGED card
  BY DEF WorkerStep, Gate, Refuse, CreateBranch, RecordRead, Die
<1> QED
  BY <1>1, <1>2, <1>3, <1>4, <1>5, <1>6, <1>7, <1>8, <1>r, <1>9, <1>10 DEF Next

\* However many reconcilers overlap, die or run on stale lists, a resolution is owed
\* one rescan by one of them, and none once it was asked for.
THEOREM RescanOnce == Spec => []OneRescanPerResolution
<1>1. Spec => [](TypeOK /\ RecordGuards /\ RescanGuards)
  BY TypeInit, TypeStep, RecordInit, RecordStep, RescanInit, RescanStep, PTL DEF Spec
<1>2. RescanGuards => OneRescanPerResolution
  BY DEF RescanGuards
<1> QED BY <1>1, <1>2, PTL

-----------------------------------------------------------------------------
(* No resolution without its rescan.  A card comes to read resolved by the   *)
(* reconciler that owes the rescan, or by a stale write of a card that was   *)
(* resolved when it was read; and what is owed is never dropped in silence.  *)

Owed == {f \in Findings : Asked(f) \/ \E r \in Reconcilers : f \in recon[r].owed}

OwedGuards ==
    /\ \A f \in Findings : /\ Settled(f) => f \in Owed
                           /\ sweep.seen[f].triage = "resolved" => f \in Owed
    /\ \A w \in Workers : work[w].seen.triage = "resolved" => Finding(w) \in Owed

LEMMA OwedInit == Init => OwedGuards
BY DEF Init, OwedGuards, Settled, NewCard, NoSweep, NothingSeen, Idle

\* What is owed is asked for or lost, or stays owed.
LEMMA OwedStays ==
  ASSUME TypeOK, [Next]_vars, NEW f \in Findings, f \in Owed
  PROVE  f \in Owed'
<1>1. CASE UNCHANGED reconVars
  BY <1>1 DEF reconVars, Owed, Asked
<1>2. ASSUME NEW r \in Reconcilers, ReconStep(r) PROVE f \in Owed'
  <2>1. /\ \A q \in Reconcilers \ {r} : recon'[q] = recon[q]
        /\ verified \subseteq verified' /\ missed \subseteq missed'
    BY <1>2 DEF ReconStep, ReconStart, ReconEnd, ReconDies, ReconSkip, Reconcile, Looping, TypeOK
  <2>2. f \in recon[r].owed => f \in recon'[r].owed \/ f \in verified' \cup missed'
    <3>1. CASE ReconStart(r)
      BY <3>1 DEF ReconStart, NoRecon
    <3>2. CASE ReconEnd(r) \/ ReconDies(r)
      BY <3>2 DEF ReconEnd, ReconDies
    <3>3. ASSUME NEW g \in Findings, ReconSkip(r, g) \/ Reconcile(r, g)
          PROVE  recon[r].owed \subseteq recon'[r].owed
      BY <3>3 DEF ReconSkip, Reconcile, Looping, TypeOK
    <3> QED
      BY <1>2, <3>1, <3>2, <3>3 DEF ReconStep
  <2> QED
    BY <2>1, <2>2 DEF Owed, Asked
<1>3. UNCHANGED reconVars \/ \E r \in Reconcilers : ReconStep(r)
  BY DEF Next, vars, Triaged, Request, Decide, DeleteBranch, WorkerStep, Gate, Refuse, CreateBranch,
         OpenPr, RecordRead, RecordWrite, RecordBlocked, Die, SweepStep, SweepStart, SweepEnd,
         SweepDies, SweepRead, SweepSkip, SweepMark
<1> QED
  BY <1>1, <1>2, <1>3

LEMMA OwedStep == TypeOK /\ OwedGuards /\ [Next]_vars => OwedGuards'
<1> SUFFICES ASSUME TypeOK, OwedGuards, [Next]_vars PROVE OwedGuards'
  OBVIOUS
<1>t. /\ \A f \in Findings : /\ card[f] \in Meta /\ sweep.seen[f] \in Meta
                              /\ NothingSeen[f] = NewCard
      /\ card \in [Findings -> Meta] /\ sweep.seen \in [Findings -> Meta]
      /\ work \in [Workers -> Work]
      /\ \A w \in Workers : work[w].seen \in Meta /\ work[w].finding \in Findings
  BY DEF TypeOK, NothingSeen, Work, SweepState
<1>n. NewCard.triage # "resolved" /\ Idle.seen = NewCard
  BY DEF NewCard, Idle
<1> USE DEF Settled, Finding
\* What was owed stays so; only what comes to be resolved or read needs a reason.
<1>0. ASSUME \A f \in Findings : Settled(f)' => f \in Owed \/ f \in Owed',
             \A f \in Findings : sweep'.seen[f].triage = "resolved" => f \in Owed,
             \A w \in Workers : work'[w].seen.triage = "resolved" => work'[w].finding \in Owed,
             \A w \in Workers : work'[w].finding \in Findings
      PROVE  OwedGuards'
  BY <1>0, OwedStays DEF OwedGuards
<1>1. ASSUME NEW w \in Workers, RecordWrite(w) PROVE OwedGuards'
  <2>1. /\ sweep' = sweep /\ \A v \in Workers \ {w} : work'[v] = work[v]
        /\ work'[w] = Idle
    BY <1>1, <1>t DEF RecordWrite
  <2>2. /\ card'[work[w].finding].triage = work[w].seen.triage
        /\ \A f \in Findings \ {work[w].finding} : card'[f] = card[f]
    BY <1>1, <1>t DEF RecordWrite
  <2>3. Idle.finding \in Findings
    BY IdleType DEF Work
  <2> QED
    BY <1>0, <1>t, <1>n, <2>1, <2>2, <2>3 DEF OwedGuards
<1>2. ASSUME NEW w \in Workers, WorkerStep(w), ~RecordWrite(w) PROVE OwedGuards'
  <2>1. /\ sweep' = sweep /\ \A v \in Workers \ {w} : work'[v] = work[v]
        /\ \A f \in Findings : card'[f].triage = card[f].triage
    BY <1>2, <1>t DEF WorkerStep, Gate, Refuse, CreateBranch, OpenPr, RecordRead, RecordBlocked,
                      Die, Step, Meta
  <2>2. \/ work'[w] \in {work[w], Idle}
        \/ work'[w].seen = NewCard /\ work'[w].finding \in Findings
        \/ work'[w].seen = card[work[w].finding] /\ work'[w].finding = work[w].finding
    <3>1. CASE RecordRead(w)
      BY <1>t, <3>1 DEF RecordRead, Step
    <3>2. CASE RecordBlocked(w) \/ Die(w)
      BY <1>t, <3>2 DEF RecordBlocked, Die
    <3>3. CASE Refuse(w) \/ CreateBranch(w) \/ OpenPr(w)
      BY <1>t, <3>3 DEF Refuse, CreateBranch, OpenPr, Step
    <3>4. ASSUME NEW f \in Findings, Gate(w, f)
          PROVE  work'[w] = work[w] \/ (work'[w].seen = NewCard /\ work'[w].finding = f)
      BY <1>t, <3>4 DEF Gate, Step
    <3> QED
      BY <1>2, <3>1, <3>2, <3>3, <3>4 DEF WorkerStep
  <2>3. Idle.finding \in Findings
    BY IdleType DEF Work
  <2>4. /\ work'[w].finding \in Findings
        /\ work'[w].seen.triage = "resolved" => work'[w].finding \in Owed
    BY <1>t, <1>n, <2>2, <2>3 DEF OwedGuards
  <2> QED
    BY <1>0, <1>t, <2>1, <2>4 DEF OwedGuards
<1>3. ASSUME NEW g \in Findings, Triaged(g) \/ Request(g) \/ Decide(g) \/ DeleteBranch(g)
      PROVE  OwedGuards'
  <2>1. sweep' = sweep /\ work' = work /\ \A f \in Findings : Settled(f)' => Settled(f)
    BY <1>3, <1>t DEF Triaged, Request, Decide, DeleteBranch, Meta
  <2> QED
    BY <1>0, <1>t, <2>1 DEF OwedGuards
<1>4. ASSUME NEW r \in Reconcilers, ReconStep(r) PROVE OwedGuards'
  <2>1. sweep' = sweep /\ work' = work
    BY <1>4, ReconEffect
  <2>2. ASSUME NEW f \in Findings, Settled(f)' PROVE f \in Owed \/ f \in Owed'
    <3>1. CASE Settled(f)
      BY <3>1 DEF OwedGuards
    <3>2. CASE ~Settled(f)
      <4>1. Reconcile(r, f)
        BY <1>4, <1>t, <2>2, <3>2 DEF ReconStep, ReconStart, ReconEnd, ReconDies, ReconSkip, Reconcile
      <4>2. f \in recon'[r].owed
        BY <3>2, <4>1 DEF Reconcile, Looping, TypeOK
      <4> QED
        BY <4>2 DEF Owed
    <3> QED
      BY <3>1, <3>2
  <2> QED
    BY <1>0, <1>t, <2>1, <2>2 DEF OwedGuards
<1>5. ASSUME NEW g \in Findings, SweepMark(g) PROVE OwedGuards'
  <2>1. work' = work /\ sweep'.seen = NothingSeen
    BY <1>5 DEF SweepMark, Sweep
  <2>2. card'[g].triage = sweep.seen[g].triage /\ \A f \in Findings \ {g} : card'[f] = card[f]
    BY <1>5, <1>t DEF SweepMark
  <2> QED
    BY <1>0, <1>t, <1>n, <2>1, <2>2 DEF OwedGuards
<1>6. CASE SweepStep /\ UNCHANGED card
  <2>1. work' = work
    BY <1>6 DEF SweepStep, SweepStart, SweepEnd, SweepDies, SweepRead, SweepSkip, SweepMark
  <2>2. \/ sweep'.seen \in {sweep.seen, NothingSeen}
        \/ \E g \in Findings : sweep'.seen = [NothingSeen EXCEPT ![g] = card[g]]
    <3>1. CASE SweepStart
      BY <3>1 DEF SweepStart, Sweep
    <3>2. CASE ~SweepStart
      BY <1>6, <3>2 DEF SweepStep, SweepEnd, SweepDies, SweepRead, SweepSkip, SweepMark, Sweep,
                        NoSweep
    <3> QED BY <3>1, <3>2
  <2>3. \A f \in Findings : sweep'.seen[f] \in {sweep.seen[f], NewCard, card[f]}
    BY <1>t, <2>2 DEF NothingSeen
  <2>4. \A f \in Findings : sweep'.seen[f].triage = "resolved" => f \in Owed
    BY <1>n, <2>3 DEF OwedGuards
  <2> QED
    BY <1>0, <1>6, <1>t, <2>1, <2>4 DEF OwedGuards
<1>7. CASE UNCHANGED vars
  BY <1>0, <1>7, <1>t DEF OwedGuards, vars
<1>8. SweepStep => UNCHANGED card \/ \E g \in Findings : SweepMark(g)
  BY DEF SweepStep, SweepStart, SweepEnd, SweepDies, SweepRead, SweepSkip
<1> QED
  BY <1>1, <1>2, <1>3, <1>4, <1>5, <1>6, <1>7, <1>8 DEF Next

\* A resolved finding's rescan was asked for or lost, or a reconciler still at work owes
\* it, however reconcilers, workers and the sweep interleave and wherever they die.
THEOREM ResolutionsAreOwed == Spec => []ResolutionIsOwed
<1>1. Spec => [](TypeOK /\ OwedGuards)
  BY TypeInit, TypeStep, OwedInit, OwedStep, PTL DEF Spec
<1>2. OwedGuards => ResolutionIsOwed
  BY DEF OwedGuards, ResolutionIsOwed, Settled, Owed, Asked
<1> QED BY <1>1, <1>2, PTL

-----------------------------------------------------------------------------
(* The cap.  A worker that passed the gate counts against it before its pull *)
(* request does: counted together they overshoot by at most one per worker.  *)

Running == {w \in Workers : work[w].step \in {"gated", "branched", "opened", "recording"}}

CapGuard == Cardinality(Open) + Cardinality(Running) <= Limit + Cardinality(Workers) - 1

LEMMA Sizes == /\ IsFiniteSet(Open) /\ IsFiniteSet(Running)
               /\ Cardinality(Open) \in Nat /\ Cardinality(Running) \in Nat
               /\ Cardinality(Workers) \in Nat
               /\ Cardinality(Running) <= Cardinality(Workers)
<1>1. IsFiniteSet(Findings) /\ IsFiniteSet(Workers)
  BY ConstantsAssumption
<1>2. Open \subseteq Findings /\ Running \subseteq Workers
  BY DEF Open, Running
<1> QED BY <1>1, <1>2, FS_Subset, FS_CardinalityType

LEMMA CapInit == Init => CapGuard
<1> SUFFICES ASSUME Init PROVE CapGuard
  OBVIOUS
<1>1. Open = {} /\ Running = {}
  BY DEF Init, Open, Running, Counted, Idle, NewCard
<1>2. Cardinality({}) = 0
  BY FS_EmptySet
<1> QED BY <1>1, <1>2, Sizes, ConstantsAssumption DEF CapGuard

\* Recording adds at most its own finding, and takes its worker off the count.
LEMMA CapRecord ==
  ASSUME TypeOK, CapGuard, NEW w \in Workers, RecordWrite(w)
  PROVE  CapGuard'
<1> DEFINE f == Finding(w)
<1>1. Open' \subseteq Open \cup {f}
  BY DEF RecordWrite, Open, TypeOK
<1>2. w \in Running /\ Running' = Running \ {w}
  BY DEF RecordWrite, Running, At, Idle, TypeOK
<1>3. Cardinality(Running \ {w}) = Cardinality(Running) - 1
  BY <1>2, Sizes, FS_RemoveElement
<1>4. IsFiniteSet(Open \cup {f}) /\ Cardinality(Open \cup {f}) <= Cardinality(Open) + 1
  BY Sizes, FS_AddElement
<1>5. /\ Cardinality(Open') <= Cardinality(Open \cup {f})
      /\ Cardinality(Open') \in Nat /\ Cardinality(Open \cup {f}) \in Nat
  BY <1>1, <1>4, FS_Subset, FS_CardinalityType
<1>6. Cardinality(Open') + Cardinality(Running \ {w})
        <= Cardinality(Open) + Cardinality(Running)
  BY <1>3, <1>4, <1>5, Sizes
<1> HIDE DEF f
<1>7. CapGuard' <=> Cardinality(Open') + Cardinality(Running')
                      <= Limit + Cardinality(Workers) - 1
  BY DEF CapGuard
<1> QED BY <1>2, <1>3, <1>5, <1>6, <1>7, Sizes, ConstantsAssumption DEF CapGuard

\* Passing the gate needs room under the cap, whatever the other workers do.
LEMMA CapGate ==
  ASSUME TypeOK, CapGuard, NEW w \in Workers, NEW f \in Findings, Gate(w, f)
  PROVE  CapGuard'
<1>1. Open' = Open
  BY DEF Gate, Open
<1>2. CASE Running' \subseteq Running
  <2>1. Cardinality(Running') <= Cardinality(Running) /\ Cardinality(Running') \in Nat
    BY <1>2, Sizes, FS_Subset, FS_CardinalityType
  <2> QED BY <1>1, <2>1, Sizes, ConstantsAssumption DEF CapGuard
<1>3. CASE ~(Running' \subseteq Running)
  <2>1. Cardinality(Open) < Limit
    BY <1>3 DEF Gate, Running, Step, TypeOK
  <2>2. Cardinality(Running') <= Cardinality(Workers) /\ Cardinality(Running') \in Nat
    BY ConstantsAssumption, FS_Subset, FS_CardinalityType DEF Running
  <2> QED BY <1>1, <2>1, <2>2, Sizes, ConstantsAssumption DEF CapGuard
<1> QED BY <1>2, <1>3

\* Every other step adds neither a counted pull request nor a running worker.
LEMMA CapShrinks ==
  ASSUME TypeOK, CapGuard, Open' \subseteq Open, Running' \subseteq Running
  PROVE  CapGuard'
<1>1. /\ Cardinality(Open') <= Cardinality(Open) /\ Cardinality(Open') \in Nat
      /\ Cardinality(Running') <= Cardinality(Running) /\ Cardinality(Running') \in Nat
  BY Sizes, FS_Subset, FS_CardinalityType
<1> QED BY <1>1, Sizes, ConstantsAssumption DEF CapGuard

LEMMA CapStep == TypeOK /\ CapGuard /\ [Next]_vars => CapGuard'
<1> SUFFICES ASSUME TypeOK, CapGuard, [Next]_vars PROVE CapGuard'
  OBVIOUS
<1>t. \A f \in Findings : card[f] \in Meta
  BY DEF TypeOK
<1>1. ASSUME UNCHANGED <<card, work>> PROVE CapGuard'
  BY <1>1, CapShrinks DEF Open, Running
<1>2. ASSUME NEW w \in Workers, WorkerStep(w) PROVE CapGuard'
  <2>1. CASE RecordWrite(w)
    BY <2>1, CapRecord
  <2>2. ASSUME NEW f \in Findings, Gate(w, f) PROVE CapGuard'
    BY <2>2, CapGate
  <2>3. CASE RecordBlocked(w)
    <3>1. Open' \subseteq Open
      BY <1>t, <2>3 DEF RecordBlocked, Open, Counted, TypeOK, Meta
    <3>2. Running' \subseteq Running
      BY <2>3 DEF RecordBlocked, Running, Idle, TypeOK
    <3> QED BY <3>1, <3>2, CapShrinks
  <2>4. CASE Refuse(w) \/ CreateBranch(w) \/ OpenPr(w) \/ RecordRead(w) \/ Die(w)
    <3>1. Open' \subseteq Open
      BY <2>4 DEF Refuse, CreateBranch, OpenPr, RecordRead, Die, Open
    <3>2. Running' \subseteq Running
      BY <2>4 DEF Refuse, CreateBranch, OpenPr, RecordRead, Die, Running, Step, At, Idle, TypeOK
    <3> QED BY <3>1, <3>2, CapShrinks
  <2> QED BY <1>2, <2>1, <2>2, <2>3, <2>4 DEF WorkerStep
<1>3. ASSUME NEW f \in Findings, Triaged(f) \/ SweepMark(f) PROVE CapGuard'
  <2>1. Open' \subseteq Open
    <3>1. CASE Triaged(f)
      BY <1>t, <3>1 DEF Triaged, Open, Counted, TypeOK, Meta
    <3>2. CASE SweepMark(f)
      BY <3>2 DEF SweepMark, Open, Counted, TypeOK
    <3> QED BY <1>3, <3>1, <3>2
  <2>2. Running' \subseteq Running
    BY <1>3 DEF Triaged, SweepMark, Running
  <2> QED BY <2>1, <2>2, CapShrinks
<1>r. ASSUME NEW r \in Reconcilers, ReconStep(r) PROVE CapGuard'
  <2>1. Open' \subseteq Open
    BY <1>r, ReconEffect DEF Open, Counted
  <2>2. Running' = Running
    BY <1>r, ReconEffect DEF Running
  <2> QED BY <2>1, <2>2, CapShrinks
<1>4. \/ UNCHANGED <<card, work>>
      \/ \E w \in Workers : WorkerStep(w)
      \/ \E f \in Findings : Triaged(f) \/ SweepMark(f)
      \/ \E r \in Reconcilers : ReconStep(r)
  BY DEF Next, vars, SweepStep, Request, Decide, DeleteBranch, SweepStart, SweepEnd, SweepDies,
         SweepRead, SweepSkip
<1> QED BY <1>1, <1>2, <1>3, <1>r, <1>4

\* However many workers open pull requests at once, the recorded open ones exceed
\* the cap by at most one per further worker.
THEOREM OvershootIsBounded == Spec => []BoundedOvershoot
<1>1. Spec => []CapGuard
  BY TypeInit, TypeStep, CapInit, CapStep, PTL DEF Spec
<1>2. CapGuard => BoundedOvershoot
  BY Sizes, ConstantsAssumption DEF CapGuard, BoundedOvershoot
<1> QED BY <1>1, <1>2, PTL

=============================================================================
