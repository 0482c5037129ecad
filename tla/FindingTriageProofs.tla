------------------------- MODULE FindingTriageProofs -------------------------
(***************************************************************************)
(* For every set of cards and any number of overlapping runs: the row lock *)
(* keeps a card from a second commented fix unless the unlocked stamp had  *)
(* overwritten it or it had been resolved, and only that stamp can lose a  *)
(* resolution.                                                             *)
(***************************************************************************)
EXTENDS FindingTriage, TLAPS

LEMMA BlankTypes == NothingSeen \in [Cards -> Meta] /\ Idle \in Proc /\ Batch \in Message
  BY DEF NothingSeen, Idle, Batch, Absent, Meta, Proc, Message

LEMMA InitType == Init => TypeOK
<1> SUFFICES ASSUME Init PROVE TypeOK
  OBVIOUS
<1>1. card \in [Cards -> Meta] /\ proc \in [Procs -> Proc]
  BY BlankTypes DEF Init
<1>2. done \in [Cards -> 0..MaxDone]
  BY DEF Init, MaxDone
<1> QED BY <1>1, <1>2 DEF Init, TypeOK

\* Moving a process to another of its steps keeps the processes well formed.
LEMMA GoToType ==
  ASSUME TypeOK, NEW p \in Procs, NEW step \in {"stamped", "working"},
         NEW rows \in SUBSET Cards, GoTo(p, step, rows)
  PROVE  proc' \in [Procs -> Proc]
<1>1. proc[p] \in Proc
  BY DEF TypeOK
<1>2. [step |-> step, kind |-> proc[p].kind, scope |-> proc[p].scope,
       rows |-> rows, seen |-> NothingSeen] \in Proc
  BY <1>1, BlankTypes DEF Proc
<1> QED BY <1>2 DEF GoTo, TypeOK

LEMMA ReadRowsType ==
  ASSUME TypeOK, NEW p \in Procs, NEW kind \in {"batch", "fix", "request"},
         NEW scope \in SUBSET Cards, ReadRows(p, kind, scope)
  PROVE  proc' \in [Procs -> Proc]
<1> DEFINE rows == {c \in scope : Pending(card[c])}
           seen == [c \in Cards |-> IF c \in rows THEN card[c] ELSE Absent]
<1>1. rows \in SUBSET Cards
  OBVIOUS
<1>2. seen \in [Cards -> Meta]
  BY DEF TypeOK, Absent, Meta
<1>3. [step |-> "stamping", kind |-> kind, scope |-> scope, rows |-> rows,
       seen |-> seen] \in Proc
  BY <1>1, <1>2 DEF Proc
<1>4. proc' = [proc EXCEPT ![p] = [step |-> "stamping", kind |-> kind,
                                   scope |-> scope, rows |-> rows, seen |-> seen]]
  BY DEF ReadRows
<1> QED BY <1>3, <1>4 DEF TypeOK

\* Every step keeps the cards, messages, processes and history well formed.
THEOREM TypeCorrect == Spec => []TypeOK
<1>1. Init => TypeOK
  BY InitType
<1>2. ASSUME TypeOK, [Next]_vars
      PROVE  TypeOK'
  <2> USE <1>2 DEF TypeOK
  <2>1. ASSUME Dispatch PROVE lease' \in BOOLEAN /\ queue' \subseteq Message
    BY <2>1, BlankTypes DEF Dispatch
  <2>2. ASSUME NEW c \in Cards, File(c) PROVE TypeOK'
    BY <2>1, <2>2 DEF File, Meta
  <2>3. CASE Cadence
    BY <2>1, <2>3 DEF Cadence
  <2>4. CASE EnqueueLost
    BY <2>4 DEF EnqueueLost
  <2>5. CASE LeaseExpires
    BY <2>5 DEF LeaseExpires
  <2>6. ASSUME NEW c \in Cards, FixLeaseExpires(c) PROVE TypeOK'
    BY <2>6 DEF FixLeaseExpires
  <2>7. ASSUME NEW p \in Procs, NEW c \in Cards, Press(p, c) PROVE TypeOK'
    BY <2>7, ReadRowsType DEF Press
  <2>8. ASSUME NEW p \in Procs, NEW m \in queue, Take(p, m) PROVE TypeOK'
    <3>1. m \in Message /\ m.kind \in {"batch", "fix", "request"} /\ m.scope \in SUBSET Cards
      BY DEF Message
    <3> QED BY <2>8, <3>1, ReadRowsType DEF Take
  <2>9. ASSUME NEW p \in Procs, StampWrite(p) PROVE TypeOK'
    <3>1. proc[p] \in Proc
      OBVIOUS
    <3>2. card' \in [Cards -> Meta] /\ torn' \subseteq Cards
      BY <2>9, <3>1 DEF StampWrite, Proc
    <3>3. [kind |-> "fix", scope |-> proc[p].scope] \in Message
      BY <3>1 DEF Proc, Message
    <3>4. proc' \in [Procs -> Proc] /\ queue' \subseteq Message
      BY <2>9, <3>3, GoToType, BlankTypes DEF StampWrite
    <3> QED BY <2>9, <3>2, <3>4 DEF StampWrite
  <2>10. ASSUME NEW p \in Procs, List(p) PROVE TypeOK'
    <3>1. proc[p] \in Proc
      OBVIOUS
    <3>2. {c \in proc[p].scope : IF proc[p].kind = "batch" THEN Pending(card[c])
                                 ELSE ~Handled(card[c])} \in SUBSET Cards
      BY <3>1 DEF Proc
    <3> QED BY <2>10, <3>2, GoToType DEF List
  <2>11. ASSUME NEW p \in Procs, NEW c \in Cards, Begin(p, c) PROVE TypeOK'
    <3>1. proc[p] \in Proc
      OBVIOUS
    <3>2. [NothingSeen EXCEPT ![c] = card[c]] \in [Cards -> Meta]
      BY BlankTypes
    <3>3. [step |-> "advised", kind |-> proc[p].kind, scope |-> proc[p].scope,
           rows |-> proc[p].rows, seen |-> [NothingSeen EXCEPT ![c] = card[c]]] \in Proc
      BY <3>1, <3>2 DEF Proc
    <3> QED BY <2>11, <3>3 DEF Begin
  <2>12. ASSUME NEW p \in Procs, NEW c \in Cards, Commit(p, c) PROVE TypeOK'
    <3>1. proc[p] \in Proc /\ proc[p].rows \ {c} \in SUBSET Cards
      BY DEF Proc
    <3>2. ASSUME NEW complete \in BOOLEAN, Triage(c, complete)
          PROVE  card' \in [Cards -> Meta] /\ done' \in [Cards -> 0..MaxDone]
      BY <3>2 DEF Triage, Meta, MaxDone
    <3> QED BY <2>12, <3>1, <3>2, GoToType DEF Commit
  <2>13. ASSUME NEW p \in Procs, Finish(p) PROVE TypeOK'
    BY <2>13, BlankTypes DEF Finish
  <2>14. ASSUME NEW p \in Procs, Die(p) PROVE TypeOK'
    <3>1. proc[p] \in Proc
      OBVIOUS
    <3>2. proc[p].kind # "request" => [kind |-> proc[p].kind, scope |-> proc[p].scope] \in Message
      BY <3>1 DEF Proc, Message
    <3> QED BY <2>14, <3>2, BlankTypes DEF Die
  <2>15. ASSUME NEW c \in Cards, Resolve(c) PROVE TypeOK'
    BY <2>15 DEF Resolve, Meta
  <2>16. CASE UNCHANGED vars
    BY <2>16 DEF vars
  <2> QED BY <1>2, <2>2, <2>3, <2>4, <2>5, <2>6, <2>7, <2>8, <2>9, <2>10, <2>11,
             <2>12, <2>13, <2>14, <2>15, <2>16 DEF Next, ProcStep
<1> QED BY <1>1, <1>2, PTL DEF Spec

-----------------------------------------------------------------------------
\* A card no stamp has overwritten stays handled, or resolved, once a pass gave it
\* its fix; it gets a second fix only once resolved; and a resolution is recorded
\* in the payload as well as in the status, where a later pass cannot reach it.
Sound(c) ==
    /\ done[c] >= 1 => Handled(card[c]) \/ IsResolved(card[c])
    /\ done[c] > 1 => IsResolved(card[c])
    /\ card[c].status = "resolved" => card[c].resolved
    /\ card[c].status = "absent" => ~card[c].resolved

FixInv == TypeOK /\ \A c \in Cards : c \in torn \/ Sound(c)

\* What a step may do to one card: leave it alone, overwrite it with a torn stamp,
\* file it, triage it when it is not handled, or resolve it.
CardStep(c) ==
    \/ card'[c] = card[c] /\ done'[c] = done[c]
    \/ c \in torn' /\ done'[c] = done[c]
    \/ /\ card[c].status = "absent" /\ done'[c] = done[c]
       /\ card'[c] = [status |-> "new", complete |-> FALSE, resolved |-> FALSE]
    \/ /\ ~Handled(card[c])
       /\ \E complete \in BOOLEAN :
              /\ card'[c] = [status |-> "triaged", complete |-> complete,
                             resolved |-> card[c].resolved]
              /\ done'[c] = IF complete /\ done[c] < MaxDone THEN done[c] + 1 ELSE done[c]
    \/ /\ card'[c] = [status |-> "resolved", complete |-> card[c].complete,
                      resolved |-> TRUE]
       /\ done'[c] = done[c]

LEMMA NextIsCardStep ==
  ASSUME TypeOK, [Next]_vars, NEW c \in Cards
  PROVE  CardStep(c) /\ torn \subseteq torn'
<1> USE DEF TypeOK
<1>1. ASSUME NEW d \in Cards, File(d) PROVE CardStep(c) /\ torn \subseteq torn'
  BY <1>1 DEF File, CardStep
<1>2. ASSUME NEW p \in Procs, StampWrite(p) PROVE CardStep(c) /\ torn \subseteq torn'
  BY <1>2 DEF StampWrite, CardStep
<1>3. ASSUME NEW p \in Procs, NEW d \in Cards, Commit(p, d)
      PROVE  CardStep(c) /\ torn \subseteq torn'
  <2>1. CASE Handled(card[d])
    BY <1>3, <2>1 DEF Commit, CardStep
  <2>2. CASE ~Handled(card[d])
    <3>1. PICK complete \in BOOLEAN : Triage(d, complete)
      BY <1>3, <2>2 DEF Commit
    <3>2. CASE d = c
      BY <1>3, <2>2, <3>1, <3>2 DEF Commit, Triage, CardStep
    <3>3. CASE d # c
      BY <1>3, <3>1, <3>3 DEF Commit, Triage, CardStep
    <3> QED BY <3>2, <3>3
  <2> QED BY <2>1, <2>2
<1>4. ASSUME NEW d \in Cards, Resolve(d) PROVE CardStep(c) /\ torn \subseteq torn'
  BY <1>4 DEF Resolve, CardStep
<1>5. CASE UNCHANGED <<card, done, torn>>
  BY <1>5 DEF CardStep
<1> QED BY <1>1, <1>2, <1>3, <1>4, <1>5
        DEF Next, ProcStep, Cadence, EnqueueLost, LeaseExpires, FixLeaseExpires, Press,
            Take, List, Begin, Finish, Die, vars

\* The invariant holds in every reachable state.
LEMMA FixInvAlways == Spec => []FixInv
<1>1. Init => FixInv
  <2> SUFFICES ASSUME Init PROVE FixInv
    OBVIOUS
  <2>1. \A c \in Cards : card[c] = Absent /\ done[c] = 0
    BY DEF Init, NothingSeen
  <2> QED BY <2>1, InitType DEF FixInv, Sound, Absent
<1>2. ASSUME FixInv, TypeOK', [Next]_vars
      PROVE  FixInv'
  <2> SUFFICES ASSUME NEW c \in Cards, c \notin torn' PROVE Sound(c)'
    BY <1>2 DEF FixInv
  <2>1. CardStep(c) /\ torn \subseteq torn'
    BY <1>2, NextIsCardStep DEF FixInv
  <2>2. Sound(c) /\ done[c] \in 0..MaxDone /\ card[c] \in Meta
    BY <1>2, <2>1 DEF FixInv, TypeOK
  <2> USE DEF Sound, Handled, IsResolved, Meta, MaxDone
  <2>3. CASE card'[c] = card[c] /\ done'[c] = done[c]
    BY <2>2, <2>3
  <2>4. CASE /\ card[c].status = "absent" /\ done'[c] = done[c]
             /\ card'[c] = [status |-> "new", complete |-> FALSE, resolved |-> FALSE]
    BY <2>2, <2>4
  <2>5. ASSUME ~Handled(card[c]), NEW complete \in BOOLEAN,
               card'[c] = [status |-> "triaged", complete |-> complete,
                           resolved |-> card[c].resolved],
               done'[c] = IF complete /\ done[c] < MaxDone THEN done[c] + 1 ELSE done[c]
        PROVE  Sound(c)'
    BY <2>2, <2>5
  <2>6. CASE /\ card'[c] = [status |-> "resolved", complete |-> card[c].complete,
                            resolved |-> TRUE]
             /\ done'[c] = done[c]
    BY <2>2, <2>6
  <2> QED BY <2>1, <2>3, <2>4, <2>5, <2>6 DEF CardStep
<1> QED BY <1>1, <1>2, TypeCorrect, PTL DEF Spec

\* Under any number of overlapping and redelivered runs, a card gets a second
\* commented fix only if the unlocked stamp overwrote it or it had been resolved.
THEOREM OneFixPerCard == Spec => []SecondFixNeedsCause
<1>1. FixInv => SecondFixNeedsCause
  BY DEF FixInv, Sound, SecondFixNeedsCause
<1> QED BY <1>1, FixInvAlways, PTL

\* The first run through the lock wins: later ones neither comment again nor take
\* the fix away.
THEOREM FirstRunAlwaysWins == Spec => FirstRunWins
<1>1. ASSUME FixInv, [Next]_vars
      PROVE  [\A c \in Cards : Handled(card[c]) =>
                /\ done'[c] = done[c]
                /\ Handled(card'[c]) \/ card'[c].status = "resolved" \/ c \in torn']_vars
  <2> SUFFICES ASSUME NEW c \in Cards, Handled(card[c])
               PROVE  /\ done'[c] = done[c]
                      /\ Handled(card'[c]) \/ card'[c].status = "resolved" \/ c \in torn'
    OBVIOUS
  <2>1. CardStep(c)
    BY <1>1, NextIsCardStep DEF FixInv
  <2> QED BY <2>1 DEF CardStep, Handled
<1> QED BY <1>1, FixInvAlways, PTL DEF Spec, FirstRunWins

\* Only the unlocked stamp loses a resolution: no later pass can.
THEOREM ResolutionsStick == Spec => ResolutionSticks
<1>1. ASSUME FixInv, [Next]_vars
      PROVE  [\A c \in Cards : IsResolved(card[c]) =>
                IsResolved(card'[c]) \/ c \in torn']_vars
  <2> SUFFICES ASSUME NEW c \in Cards, IsResolved(card[c]), c \notin torn'
               PROVE  IsResolved(card'[c])
    OBVIOUS
  <2>1. CardStep(c) /\ torn \subseteq torn'
    BY <1>1, NextIsCardStep DEF FixInv
  <2>2. card[c] \in Meta /\ card[c].resolved /\ card[c].status # "absent"
    BY <1>1, <2>1 DEF FixInv, TypeOK, Sound, IsResolved
  <2>3. CASE card'[c] = card[c]
    BY <2>2, <2>3 DEF IsResolved
  <2>4. ASSUME NEW complete \in BOOLEAN,
               card'[c] = [status |-> "triaged", complete |-> complete,
                           resolved |-> card[c].resolved]
        PROVE  card'[c].resolved
    BY <2>2, <2>4
  <2>5. CASE card'[c] = [status |-> "resolved", complete |-> card[c].complete,
                         resolved |-> TRUE]
    BY <2>5 DEF IsResolved
  <2> QED BY <2>1, <2>2, <2>3, <2>4, <2>5 DEF CardStep, IsResolved
<1> QED BY <1>1, FixInvAlways, PTL DEF Spec, ResolutionSticks

=============================================================================
